---------------------------- MODULE AgentHostProofs ----------------------------
(***************************************************************************)
(* Proofs about AgentHost, for any messages and notices, any number of     *)
(* tool calls, any bounds and whatever the environment does.               *)
(*                                                                         *)
(* What makes the properties inductive is where the operation at the head  *)
(* of the chain stands while it awaits (Flow); that numbers are given to   *)
(* submissions once and a report is only made for the submission that has  *)
(* none yet (Numbers); that an event or an early completion speaks of a    *)
(* turn the program has left (Ended); that the host's record and the       *)
(* program's turn agree, or the host has given that turn up (Knows); that  *)
(* what was steered is in the journal and in the saved one, and in no      *)
(* batch (Named); that an item which left the queue is accounted for, the  *)
(* batch at the front of the queue while its turn is being sent (Whole),   *)
(* and a prompt that was written has a promise as long as its session      *)
(* lasts (Promised); that the batches handed over have no item in common   *)
(* with each other, with the queue (Single) or, but for the one under way, *)
(* with the saved queue (Saved); and that a turn that runs has its end,    *)
(* its name or its answer still to come (Awaited, Owned), one with a name  *)
(* runs (Busy), and one the host has given up was refused (Blamed).        *)
(***************************************************************************)
EXTENDS AgentHost, SubsequenceTheorems, FiniteSetTheorems, SequenceTheorems, TLAPS

NodeType == [state : {"starting", "running", "stopped", "failed"}, turn : {"none", "idle", "running"},
             waiting : BOOLEAN, thread : BOOLEAN, named : BOOLEAN]
LiveType == [session : BOOLEAN, gen : Nat, sub : 0 .. MaxTurn, active : 0 .. MaxTurn,
             early : BOOLEAN, tries : 0 .. Attempts - 1]
ChainType == [kind : Kinds, gen : Nat]
ProviderType == [alive : BOOLEAN, event : EventDrivers, gen : Nat, turn : 0 .. MaxTurn,
                 next : 1 .. MaxTurn + 1]
SentTurns == [gen : Nat, turn : Turns]
DiskType == [queue : Seq(Items), journal : SUBSET Journaled, hold : Nat, thread : BOOLEAN, named : BOOLEAN]

Types ==
  /\ node \in NodeType /\ live \in LiveType /\ provider \in ProviderType
  /\ queue \in Seq(Items) /\ Len(queue) <= MaxHeld
  /\ chain \in Seq(ChainType) /\ stage \in Stages
  /\ batch \in Seq(Items) /\ Len(batch) <= BatchSize
  /\ ops \in [Requests -> Boundary]
  /\ journal \in SUBSET Journaled /\ steering \in SUBSET journal /\ hold \in Nat
  /\ disk \in DiskType /\ Len(disk.queue) <= MaxHeld
  /\ taken \in SUBSET Turns /\ cargo \in [Turns -> SUBSET Items]
  /\ promises \in SUBSET SentTurns /\ events \in SUBSET SentTurns
  /\ reports \in [Turns -> Nat]
  /\ sent \in SUBSET Items /\ gone \in SUBSET Items /\ steered \in SUBSET Items
  /\ spent \in [Inputs -> Nat]

\* Only the first of the operations can be a launch.
Lined(q) == \A i \in DOMAIN q : q[i].kind = "launch" => i = 1

\* Where the operation at the head of the chain stands.
Submitting == stage \in {"first", "sending"}
Flow ==
  /\ stage # "free" => chain # << >>
  /\ live.session => node.state = "running"
  /\ stage \in {"launching", "stopping", "failing"} => ~live.session
  /\ stage = "launching" => live.sub = 0
  /\ stage = "opening" => live.session /\ node.turn = "idle" /\ live.sub = 0
  /\ Submitting => /\ live.session /\ node.turn = "running" /\ live.sub \in Turns /\ live.active = 0
                   /\ cargo[live.sub] = Elements(batch)
  /\ stage = "first" => batch = << >>
  /\ stage = "sending" => Head(chain).kind = "flush"
  /\ stage \in {"launching", "opening", "first"} => Head(chain).kind \in {"launch", "resume", "assign"}
  /\ ~live.session /\ stage \notin {"stopping", "failing"} => ~provider.alive
  /\ Lined(chain) /\ (chain # << >> /\ Head(chain).kind = "launch" /\ stage = "free" => ~live.session)

\* Every item anywhere was queued once.
Known ==
  /\ Elements(queue) \subseteq sent /\ Elements(disk.queue) \subseteq sent /\ Elements(batch) \subseteq sent
  /\ gone \subseteq sent /\ steered \subseteq sent
  /\ \A n \in Turns : cargo[n] \subseteq sent

\* Only an event driver's sendTurn outlives its operation.
Driven == ~provider.event => promises = {}

HostInv == Types /\ Flow /\ Known

-----------------------------------------------------------------------------
(* Queues *)

LEMMA WholeIs ==
  ASSUME NEW S, NEW q \in Seq(S)
  PROVE  Subsequence(q, DOMAIN q) = q
<1> DEFINE n == Len(q)
           s == [j \in 1 .. n |-> j]
<1>1. n \in Nat /\ DOMAIN q = 1 .. n /\ q = [j \in 1 .. n |-> q[j]]
  BY LenProperties
<1>2. s \in Seq(1 .. n) /\ Ascending(s) /\ Members(s) = 1 .. n
  BY <1>1 DEF Ascending, Members
<1>3. s = Sorted(1 .. n)
  BY <1>1, <1>2, AscendingIsSorted
<1>4. Cardinality(1 .. n) = n
  BY <1>1, FS_Interval
<1> HIDE DEF n
<1>5. \A j \in 1 .. n : Nth(1 .. n, j) = j
  BY <1>1, <1>3, <1>4 DEF Sorted
<1>6. Subsequence(q, 1 .. n) = [j \in 1 .. n |-> q[Nth(1 .. n, j)]]
  BY <1>4 DEF Subsequence
<1> QED
  BY <1>1, <1>5, <1>6

LEMMA WithoutIs ==
  ASSUME NEW S, NEW q \in Seq(S), NEW A
  PROVE  /\ Without(q, A) \in Seq(S) /\ Len(Without(q, A)) <= Len(q)
         /\ Elements(Without(q, A)) = Elements(q) \ A
         /\ (\A i, j \in DOMAIN q : q[i] = q[j] => i = j)
              => \A i, j \in DOMAIN Without(q, A) : Without(q, A)[i] = Without(q, A)[j] => i = j
         /\ Elements(q) \cap A = {} => Without(q, A) = q
<1>0. PICK P : P = {k \in DOMAIN q : q[k] \notin A}
  OBVIOUS
<1> DEFINE n == Cardinality(P)
           w == Subsequence(q, P)
<1>1. /\ w \in Seq(S) /\ Len(w) = n /\ n \in Nat /\ DOMAIN w = 1 .. n
      /\ \A j \in 1 .. n : Nth(P, j) \in P /\ w[j] = q[Nth(P, j)]
      /\ \A i \in P : \E j \in 1 .. n : Nth(P, j) = i
      /\ \A j, k \in 1 .. n : Nth(P, j) = Nth(P, k) => j = k
  <2>1. P \in SUBSET DOMAIN q
    BY <1>0
  <2> QED
    BY <2>1, SubsequenceElements
<1>2. n <= Len(q)
  <2>1. P \in SUBSET (1 .. Len(q)) /\ Len(q) \in Nat
    BY <1>0, LenProperties
  <2>2. IsFiniteSet(1 .. Len(q)) /\ Cardinality(1 .. Len(q)) = Len(q)
    <3>1. /\ IsFiniteSet(1 .. Len(q))
          /\ Cardinality(1 .. Len(q)) = IF 1 > Len(q) THEN 0 ELSE Len(q) - 1 + 1
      BY <2>1, FS_Interval
    <3> QED
      BY <2>1, <3>1
  <2> QED
    BY <2>1, <2>2, FS_Subset
<1> HIDE DEF n, w
<1>3. Elements(w) = Elements(q) \ A
  <2>1. ASSUME NEW j \in 1 .. n PROVE w[j] \in Elements(q) \ A
    <3>1. PICK i : i \in P /\ w[j] = q[i]
      BY <1>1
    <3>2. i \in DOMAIN q /\ q[i] \notin A
      BY <1>0, <3>1
    <3> QED
      BY <3>1, <3>2 DEF Elements
  <2>2. ASSUME NEW i \in DOMAIN q, q[i] \notin A PROVE q[i] \in Elements(w)
    <3>1. i \in P
      BY <1>0, <2>2
    <3>2. PICK j \in 1 .. n : Nth(P, j) = i
      BY <1>1, <3>1
    <3> QED
      BY <1>1, <3>2 DEF Elements
  <2> QED
    BY <1>1, <2>1, <2>2 DEF Elements
<1>4. ASSUME \A i, j \in DOMAIN q : q[i] = q[j] => i = j
      PROVE  \A i, j \in DOMAIN w : w[i] = w[j] => i = j
  <2> SUFFICES ASSUME NEW i \in 1 .. n, NEW j \in 1 .. n, w[i] = w[j] PROVE i = j
    BY <1>1
  <2>1. Nth(P, i) = Nth(P, j)
    BY <1>0, <1>1, <1>4
  <2> QED
    BY <1>1, <2>1
<1>5. ASSUME Elements(q) \cap A = {} PROVE w = q
  <2>1. P = DOMAIN q
    BY <1>0, <1>5 DEF Elements
  <2> QED
    BY <2>1, WholeIs DEF w
<1>6. Without(q, A) = w
  BY <1>0 DEF Without, w
<1> QED
  BY <1>1, <1>2, <1>3, <1>4, <1>5, <1>6

LEMMA AtMostIs ==
  ASSUME NEW S, NEW q \in Seq(S), NEW n \in Nat
  PROVE  /\ AtMost(n, q) \in Seq(S) /\ Len(AtMost(n, q)) <= n /\ Len(AtMost(n, q)) <= Len(q)
         /\ \A i \in DOMAIN AtMost(n, q) : i \in DOMAIN q /\ AtMost(n, q)[i] = q[i]
         /\ \A i \in DOMAIN q : i <= n => i \in DOMAIN AtMost(n, q)
         /\ Elements(AtMost(n, q)) \subseteq Elements(q)
<1> DEFINE m == IF Len(q) < n THEN Len(q) ELSE n
<1>1. Len(q) \in Nat /\ DOMAIN q = 1 .. Len(q) /\ m \in Nat /\ m <= n /\ m <= Len(q)
  BY LenProperties
<1>2. \A i \in 1 .. m : q[i] \in S
  BY <1>1
<1>3. /\ SubSeq(q, 1, m) \in Seq(S) /\ Len(SubSeq(q, 1, m)) = m
      /\ \A i \in 1 .. m : SubSeq(q, 1, m)[i] = q[i]
  <2> HIDE DEF m
  <2>1. /\ SubSeq(q, 1, m) \in Seq(S) /\ Len(SubSeq(q, 1, m)) = IF 1 <= m THEN m - 1 + 1 ELSE 0
        /\ \A i \in 1 .. m - 1 + 1 : SubSeq(q, 1, m)[i] = q[1 + i - 1]
    BY <1>1, <1>2, SubSeqProperties
  <2> QED
    BY <1>1, <2>1
<1>4. DOMAIN SubSeq(q, 1, m) = 1 .. m
  BY <1>3, LenProperties
<1>5. \A i \in 1 .. m : i \in 1 .. Len(q)
  BY <1>1
<1>6. Elements(SubSeq(q, 1, m)) \subseteq Elements(q)
  BY <1>1, <1>3, <1>4, <1>5 DEF Elements
<1>7. \A i \in 1 .. Len(q) : i <= n => i \in 1 .. m
  BY <1>1
<1> QED
  BY <1>1, <1>3, <1>4, <1>5, <1>6, <1>7 DEF AtMost

LEMMA DropIs ==
  ASSUME NEW S, NEW q \in Seq(S), NEW n \in Nat
  PROVE  /\ Drop(n, q) \in Seq(S) /\ Len(Drop(n, q)) <= Len(q)
         /\ \A i \in DOMAIN Drop(n, q) : n + i \in DOMAIN q /\ Drop(n, q)[i] = q[n + i]
         /\ \A i \in DOMAIN q : i > n => i - n \in DOMAIN Drop(n, q) /\ Drop(n, q)[i - n] = q[i]
         /\ Elements(Drop(n, q)) \subseteq Elements(q)
<1> DEFINE d == SubSeq(q, n + 1, Len(q))
           m == IF n <= Len(q) THEN Len(q) - n ELSE 0
<1>1. Len(q) \in Nat /\ DOMAIN q = 1 .. Len(q) /\ m \in Nat /\ m <= Len(q)
  BY LenProperties
<1>2. d \in Seq(S) /\ Len(d) = m /\ \A i \in 1 .. m : d[i] = q[n + i]
  <2>1. \A i \in (n + 1) .. Len(q) : q[i] \in S
    BY <1>1
  <2>2. /\ d \in Seq(S) /\ Len(d) = IF n + 1 <= Len(q) THEN Len(q) - (n + 1) + 1 ELSE 0
        /\ \A i \in 1 .. Len(q) - (n + 1) + 1 : d[i] = q[n + 1 + i - 1]
    BY <1>1, <2>1, SubSeqProperties
  <2>3. Len(d) = m
    BY <1>1, <2>2
  <2>4. ASSUME NEW i \in 1 .. m PROVE d[i] = q[n + i]
    <3>1. i \in 1 .. Len(q) - (n + 1) + 1 /\ n + 1 + i - 1 = n + i
      BY <1>1
    <3> QED
      BY <2>2, <3>1
  <2> QED
    BY <2>2, <2>3, <2>4
<1>3. DOMAIN d = 1 .. m
  BY <1>2, LenProperties
<1>4. \A i \in 1 .. m : n + i \in 1 .. Len(q)
  BY <1>1
<1>5. \A i \in 1 .. Len(q) : i > n => i - n \in 1 .. m /\ n + (i - n) = i
  BY <1>1
<1> HIDE DEF d, m
<1>6. Elements(d) \subseteq Elements(q)
  BY <1>1, <1>2, <1>3, <1>4 DEF Elements
<1>7. \A i \in 1 .. Len(q) : i > n => i - n \in DOMAIN d /\ d[i - n] = q[i]
  BY <1>2, <1>3, <1>5
<1>8. Len(d) <= Len(q)
  BY <1>1, <1>2
<1> QED
  BY <1>1, <1>2, <1>3, <1>4, <1>6, <1>7, <1>8 DEF Drop, d
LEMMA TailIs ==
  ASSUME NEW S, NEW q \in Seq(S), q # << >>
  PROVE  /\ Tail(q) \in Seq(S) /\ Len(Tail(q)) = Len(q) - 1 /\ Len(q) \in Nat \ {0}
         /\ Head(q) \in S /\ 1 \in DOMAIN q /\ Head(q) = q[1]
         /\ \A i \in DOMAIN Tail(q) : i + 1 \in DOMAIN q /\ Tail(q)[i] = q[i + 1]
         /\ Elements(q) = {Head(q)} \cup Elements(Tail(q))
<1>1. Len(q) \in Nat \ {0} /\ DOMAIN q = 1 .. Len(q) /\ Head(q) = q[1] /\ \A i \in 1 .. Len(q) : q[i] \in S
  BY LenProperties, EmptySeq
<1>2. /\ Tail(q) \in Seq(S) /\ Len(Tail(q)) = Len(q) - 1 /\ DOMAIN Tail(q) = 1 .. Len(q) - 1
      /\ \A i \in 1 .. Len(q) - 1 : Tail(q)[i] = q[i + 1]
  BY <1>1, HeadTailProperties, LenProperties
<1>3. \A i \in 1 .. Len(q) - 1 : i + 1 \in 1 .. Len(q)
  BY <1>1
<1>4. \A i \in 1 .. Len(q) : i = 1 \/ \E j \in 1 .. Len(q) - 1 : i = j + 1
  <2> SUFFICES ASSUME NEW i \in 1 .. Len(q), i # 1 PROVE i - 1 \in 1 .. Len(q) - 1 /\ i = (i - 1) + 1
    OBVIOUS
  <2> QED
    BY <1>1
<1>5. 1 \in 1 .. Len(q) /\ Head(q) \in S
  BY <1>1
<1>6. Elements(q) = {Head(q)} \cup Elements(Tail(q))
  <2> DEFINE n == Len(q)
  <2>1. Elements(q) = {q[i] : i \in 1 .. n} /\ Elements(Tail(q)) = {Tail(q)[i] : i \in 1 .. n - 1}
    BY <1>1, <1>2 DEF Elements
  <2> HIDE DEF n
  <2>2. ASSUME NEW x \in {q[i] : i \in 1 .. n} PROVE x = q[1] \/ x \in {Tail(q)[i] : i \in 1 .. n - 1}
    <3>1. PICK i \in 1 .. n : x = q[i]
      BY <2>2
    <3>2. CASE i = 1
      BY <3>1, <3>2
    <3>3. CASE i # 1
      <4>1. PICK j \in 1 .. n - 1 : i = j + 1
        BY <1>4, <3>3 DEF n
      <4>2. x = Tail(q)[j]
        BY <1>2, <3>1, <4>1 DEF n
      <4> QED
        BY <4>2
    <3> QED
      BY <3>2, <3>3
  <2>3. {Tail(q)[i] : i \in 1 .. n - 1} \subseteq {q[i] : i \in 1 .. n}
    BY <1>2, <1>3 DEF n
  <2> QED
    BY <1>1, <1>5, <2>1, <2>2, <2>3 DEF n
<1> QED
  BY <1>1, <1>2, <1>3, <1>5, <1>6

LEMMA AppendIs ==
  ASSUME NEW S, NEW q \in Seq(S), NEW e \in S
  PROVE  /\ Append(q, e) \in Seq(S) /\ Len(Append(q, e)) = Len(q) + 1 /\ Append(q, e) # << >>
         /\ Elements(Append(q, e)) = Elements(q) \cup {e}
         /\ Len(q) + 1 \in DOMAIN Append(q, e) /\ Append(q, e)[Len(q) + 1] = e
         /\ \A i \in DOMAIN Append(q, e) : \/ i \in DOMAIN q /\ Append(q, e)[i] = q[i]
                                           \/ i = Len(q) + 1 /\ Append(q, e)[i] = e
         /\ \A i \in DOMAIN q : i \in DOMAIN Append(q, e) /\ Append(q, e)[i] = q[i]
<1> DEFINE a == Append(q, e)
<1>1. Len(q) \in Nat /\ DOMAIN q = 1 .. Len(q)
  BY LenProperties
<1>2. /\ a \in Seq(S) /\ Len(a) = Len(q) + 1 /\ a[Len(q) + 1] = e /\ DOMAIN a = 1 .. Len(q) + 1
      /\ \A i \in 1 .. Len(q) : a[i] = q[i]
  BY <1>1, AppendProperties, LenProperties
<1>3. \A i \in 1 .. Len(q) + 1 : i \in 1 .. Len(q) \/ i = Len(q) + 1
  BY <1>1
<1>4. 1 .. Len(q) \subseteq 1 .. Len(q) + 1 /\ Len(q) + 1 \in 1 .. Len(q) + 1
  BY <1>1
<1>5. a # << >>
  BY <1>1, <1>2
<1> HIDE DEF a
<1>6. Elements(a) = Elements(q) \cup {e}
  BY <1>1, <1>2, <1>3, <1>4 DEF Elements
<1>7. \A i \in DOMAIN a : (i \in DOMAIN q /\ a[i] = q[i]) \/ (i = Len(q) + 1 /\ a[i] = e)
  <2> SUFFICES ASSUME NEW i \in 1 .. Len(q) + 1
               PROVE  (i \in DOMAIN q /\ a[i] = q[i]) \/ (i = Len(q) + 1 /\ a[i] = e)
    BY <1>2
  <2>1. CASE i \in 1 .. Len(q)
    BY <1>1, <1>2, <2>1
  <2>2. CASE i = Len(q) + 1
    BY <1>2, <2>2
  <2> QED
    BY <1>3, <2>1, <2>2
<1>8. \A i \in DOMAIN q : i \in DOMAIN a /\ a[i] = q[i]
  BY <1>1, <1>2, <1>4
<1>9. Len(q) + 1 \in DOMAIN a
  BY <1>2, <1>4
<1> QED
  BY <1>2, <1>5, <1>6, <1>7, <1>8, <1>9 DEF a

LEMMA PushIs ==
  ASSUME NEW S, NEW q \in Seq(S), NEW e \in S
  PROVE  /\ <<e>> \o q \in Seq(S) /\ <<e>> \o q # << >> /\ Head(<<e>> \o q) = e
         /\ Elements(<<e>> \o q) = Elements(q) \cup {e}
         /\ \A i \in DOMAIN (<<e>> \o q) : i # 1 => i - 1 \in DOMAIN q /\ (<<e>> \o q)[i] = q[i - 1]
<1> DEFINE p == <<e>> \o q
<1>1. Len(q) \in Nat /\ DOMAIN q = 1 .. Len(q)
  BY LenProperties
<1>2. <<e>> \in Seq(S) /\ Len(<<e>>) = 1 /\ <<e>>[1] = e
  OBVIOUS
<1>3. /\ p \in Seq(S) /\ Len(p) = Len(q) + 1 /\ DOMAIN p = 1 .. Len(q) + 1 /\ p[1] = e
      /\ \A i \in 1 .. Len(q) + 1 : i # 1 => p[i] = q[i - 1]
  <2>1. /\ p \in Seq(S) /\ Len(p) = 1 + Len(q)
        /\ \A i \in 1 .. 1 + Len(q) : p[i] = IF i <= 1 THEN <<e>>[i] ELSE q[i - 1]
    BY <1>1, <1>2, ConcatProperties
  <2> HIDE DEF p
  <2>2. DOMAIN p = 1 .. Len(q) + 1 /\ 1 \in 1 .. 1 + Len(q)
    BY <1>1, <2>1, LenProperties
  <2>3. p[1] = e
    BY <1>2, <2>1, <2>2
  <2>4. \A i \in 1 .. Len(q) + 1 : i # 1 => i \in 1 .. 1 + Len(q) /\ ~(i <= 1)
    BY <1>1
  <2> QED
    BY <1>1, <2>1, <2>2, <2>3, <2>4
<1> HIDE DEF p
<1>4. p # << >> /\ Head(p) = p[1]
  BY <1>1, <1>3
<1>5. \A i \in 1 .. Len(q) + 1 : i # 1 => i - 1 \in 1 .. Len(q)
  BY <1>1
<1>6. \A i \in 1 .. Len(q) : i + 1 \in 1 .. Len(q) + 1 /\ i + 1 # 1 /\ (i + 1) - 1 = i
  BY <1>1
<1>7. 1 \in 1 .. Len(q) + 1
  BY <1>1
<1>8. Elements(p) = Elements(q) \cup {e}
  <2>1. Elements(p) \subseteq Elements(q) \cup {e}
    BY <1>1, <1>3, <1>5, SMTT(30) DEF Elements
  <2>2. \A i \in 1 .. Len(q) : q[i] = p[i + 1] /\ i + 1 \in DOMAIN p
    BY <1>3, <1>6
  <2>3. Elements(q) \subseteq Elements(p)
    BY <1>1, <2>2 DEF Elements
  <2> QED
    BY <1>3, <1>7, <2>1, <2>3 DEF Elements
<1> QED
  BY <1>1, <1>3, <1>4, <1>5, <1>8 DEF p
LEMMA ConcatIs ==
  ASSUME NEW S, NEW q \in Seq(S), NEW e \in S
  PROVE  q \o <<e>> = Append(q, e) /\ q \o << >> = q
<1>1. Len(q) \in Nat /\ DOMAIN q = 1 .. Len(q) /\ q = [i \in 1 .. Len(q) |-> q[i]]
  BY LenProperties
<1>2. q \o << >> = q
  BY <1>1, ConcatEmptySeq
<1>3. q \o <<e>> = Append(q, e)
  BY <1>1, AppendIsConcat
<1> QED
  BY <1>2, <1>3

(* The chain *)

LEMMA ChainSteps ==
  ASSUME NEW q \in Seq(ChainType), Lined(q)
  PROVE  /\ q # << >> => /\ Tail(q) \in Seq(ChainType) /\ Lined(Tail(q))
                         /\ Tail(q) # << >> => Head(Tail(q)).kind # "launch"
                         /\ Head(q) \in ChainType
                         /\ Elements(q) = {Head(q)} \cup Elements(Tail(q))
         /\ \A e \in ChainType : e.kind # "launch" =>
              /\ Append(q, e) \in Seq(ChainType) /\ Lined(Append(q, e)) /\ Append(q, e) # << >>
              /\ Head(Append(q, e)) = IF q = << >> THEN e ELSE Head(q)
              /\ Elements(Append(q, e)) = Elements(q) \cup {e}
         /\ \A e \in ChainType : q # << >> =>
              /\ <<e>> \o Tail(q) \in Seq(ChainType) /\ Lined(<<e>> \o Tail(q))
              /\ <<e>> \o Tail(q) # << >> /\ Head(<<e>> \o Tail(q)) = e
              /\ Elements(<<e>> \o Tail(q)) = Elements(Tail(q)) \cup {e}
<1> DEFINE t == Tail(q)
<1>1. ASSUME q # << >>
      PROVE  /\ t \in Seq(ChainType) /\ Head(q) \in ChainType
             /\ \A i \in DOMAIN t : t[i].kind # "launch"
             /\ Elements(q) = {Head(q)} \cup Elements(t)
  <2>1. /\ t \in Seq(ChainType) /\ Len(q) \in Nat \ {0} /\ Head(q) \in ChainType
        /\ \A i \in DOMAIN t : i + 1 \in DOMAIN q /\ t[i] = q[i + 1]
        /\ Elements(q) = {Head(q)} \cup Elements(t)
    BY <1>1, TailIs
  <2>2. ASSUME NEW i \in DOMAIN t PROVE t[i].kind # "launch"
    <3>1. i \in Nat \ {0} /\ i + 1 # 1
      BY <2>1, LenProperties
    <3> QED
      BY <2>1, <3>1 DEF Lined
  <2> QED
    BY <2>1, <2>2
<1>2. ASSUME q # << >>, t # << >> PROVE Head(t).kind # "launch"
  BY <1>1, <1>2, TailIs
<1>3. ASSUME NEW e \in ChainType, e.kind # "launch"
      PROVE  /\ Append(q, e) \in Seq(ChainType) /\ Lined(Append(q, e)) /\ Append(q, e) # << >>
             /\ Head(Append(q, e)) = IF q = << >> THEN e ELSE Head(q)
             /\ Elements(Append(q, e)) = Elements(q) \cup {e}
  <2> DEFINE a == Append(q, e)
  <2>1. /\ a \in Seq(ChainType) /\ a # << >> /\ Elements(a) = Elements(q) \cup {e}
        /\ Len(q) + 1 \in DOMAIN a /\ a[Len(q) + 1] = e
        /\ \A i \in DOMAIN a : \/ i \in DOMAIN q /\ a[i] = q[i]
                               \/ i = Len(q) + 1 /\ a[i] = e
        /\ \A i \in DOMAIN q : i \in DOMAIN a /\ a[i] = q[i]
    BY AppendIs
  <2> HIDE DEF a
  <2>2. Lined(a)
    BY <1>3, <2>1 DEF Lined
  <2>3. Head(a) = a[1]
    BY <2>1, TailIs
  <2>4. CASE q = << >>
    <3>1. Len(q) = 0
      BY <2>4
    <3> QED
      BY <2>1, <2>2, <2>3, <2>4, <3>1 DEF a
  <2>5. CASE q # << >>
    <3>1. 1 \in DOMAIN q /\ Head(q) = q[1]
      BY <2>5, TailIs
    <3> QED
      BY <2>1, <2>2, <2>3, <2>5, <3>1 DEF a
  <2> QED
    BY <2>4, <2>5
<1>4. ASSUME NEW e \in ChainType, q # << >>
      PROVE  /\ <<e>> \o t \in Seq(ChainType) /\ Lined(<<e>> \o t)
             /\ <<e>> \o t # << >> /\ Head(<<e>> \o t) = e
             /\ Elements(<<e>> \o t) = Elements(t) \cup {e}
  <2> DEFINE p == <<e>> \o t
  <2>0. t \in Seq(ChainType)
    BY <1>1, <1>4
  <2> HIDE DEF t
  <2>1. /\ p \in Seq(ChainType) /\ p # << >> /\ Head(p) = e /\ Elements(p) = Elements(t) \cup {e}
        /\ \A i \in DOMAIN p : i # 1 => i - 1 \in DOMAIN t /\ p[i] = t[i - 1]
    BY <2>0, PushIs
  <2> HIDE DEF p
  <2>2. Lined(p)
    BY <1>1, <1>4, <2>1 DEF Lined
  <2> QED
    BY <2>1, <2>2 DEF p
<1>5. q # << >> => Lined(t)
  BY <1>1 DEF Lined
<1> QED
  BY <1>1, <1>2, <1>3, <1>4, <1>5
-----------------------------------------------------------------------------
(* What the actions do, field by field *)

\* submitTurn(): a turn with the next number begins.
Begun(items, next) ==
  /\ provider.next \in Turns
  /\ node' \in NodeType /\ node'.state = node.state /\ node'.turn = "running"
  /\ live' \in LiveType /\ live'.session = live.session /\ live'.gen = live.gen
  /\ live'.sub = provider.next /\ live'.active = 0 /\ live'.early = FALSE
  /\ provider' \in ProviderType /\ provider'.alive = provider.alive /\ provider'.event = provider.event
  /\ provider'.gen = provider.gen /\ provider'.turn = provider.turn /\ provider'.next = provider.next + 1
  /\ cargo' \in [Turns -> SUBSET Items] /\ cargo'[provider.next] = Elements(items)
  /\ \A n \in Turns \ {provider.next} : cargo'[n] = cargo[n]
  /\ batch' = items /\ stage' = next

\* completeTurn(): turn n is over and reported.
Finished(n) ==
  /\ node' \in NodeType /\ node'.state = node.state /\ node'.turn = "idle"
  /\ live' \in LiveType /\ live'.session = live.session /\ live'.gen = live.gen
  /\ live'.sub = 0 /\ live'.active = 0 /\ live'.early = FALSE
  /\ reports' \in [Turns -> Nat] /\ reports'[n] = reports[n] + 1
  /\ \A k \in Turns \ {n} : reports'[k] = reports[k]

\* endSession(): the generation moves on.
Leaving(sub, active, early, next) ==
  /\ live' \in LiveType /\ live'.session = FALSE /\ live'.gen = live.gen + 1
  /\ live'.sub = sub /\ live'.active = active /\ live'.early = early
  /\ ops' \in [Requests -> Boundary] /\ stage' = next /\ chain' = chain /\ batch' = batch

\* The operation at the head is done.
Dropped == chain' = Tail(chain) /\ stage' = "free" /\ batch' = batch

\* The turn that runs has a name from now on, unless it is 0.
Called(turn) ==
  /\ live' \in LiveType /\ live'.session = live.session /\ live'.gen = live.gen
  /\ live'.sub = live.sub /\ live'.active = turn /\ live'.early = live.early

Spent == spent' \in [Inputs -> Nat] /\ \A w \in Inputs : spent'[w] >= spent[w]

LEMMA SubmitIs ==
  ASSUME Types, NEW items \in Seq(Items), NEW next, Submit(items, next)
  PROVE  Begun(items, next)
<1>1. Elements(items) \in SUBSET Items
  <2>1. \A i \in DOMAIN items : items[i] \in Items
    BY LenProperties
  <2> QED
    BY <2>1 DEF Elements
<1>2. provider.next \in Turns /\ provider.next \in Nat /\ provider.next + 1 \in 1 .. MaxTurn + 1
  BY ConstantsAssumption, SMTT(30) DEF Submit, Types, ProviderType, Turns
<1>3. node' \in NodeType /\ node'.state = node.state /\ node'.turn = "running"
  BY DEF Submit, Types, NodeType
<1>4. /\ live' \in LiveType /\ live'.session = live.session /\ live'.gen = live.gen
      /\ live'.sub = provider.next /\ live'.active = 0 /\ live'.early = FALSE
  <2>1. /\ live' = [live EXCEPT !.sub = provider.next, !.active = 0, !.early = FALSE]
        /\ live \in LiveType
    BY DEF Submit, Types
  <2>2. provider.next \in 0 .. MaxTurn /\ 0 \in 0 .. MaxTurn
    BY <1>2, ConstantsAssumption DEF Turns
  <2> QED
    BY <2>1, <2>2 DEF LiveType
<1>5. /\ provider' \in ProviderType /\ provider'.alive = provider.alive
      /\ provider'.event = provider.event /\ provider'.gen = provider.gen
      /\ provider'.turn = provider.turn /\ provider'.next = provider.next + 1
  BY <1>2 DEF Submit, Types, ProviderType
<1>6. /\ cargo' \in [Turns -> SUBSET Items] /\ cargo'[provider.next] = Elements(items)
      /\ \A n \in Turns \ {provider.next} : cargo'[n] = cargo[n]
  BY <1>1, <1>2 DEF Submit, Types
<1>7. batch' = items /\ stage' = next
  BY DEF Submit
<1> QED
  BY <1>2, <1>3, <1>4, <1>5, <1>6, <1>7 DEF Begun

LEMMA CompleteTurnIs ==
  ASSUME Types, NEW n \in Turns, CompleteTurn(n)
  PROVE  Finished(n)
<1>1. node' \in NodeType /\ node'.state = node.state /\ node'.turn = "idle"
  BY DEF CompleteTurn, Types, NodeType
<1>2. /\ live' \in LiveType /\ live'.session = live.session /\ live'.gen = live.gen
      /\ live'.sub = 0 /\ live'.active = 0 /\ live'.early = FALSE
  <2>1. /\ live' = [live EXCEPT !.sub = 0, !.active = 0, !.early = FALSE]
        /\ live \in LiveType
    BY DEF CompleteTurn, Types
  <2>2. 0 \in 0 .. MaxTurn
    BY ConstantsAssumption
  <2> QED
    BY <2>1, <2>2 DEF LiveType
<1>3. /\ reports' \in [Turns -> Nat] /\ reports'[n] = reports[n] + 1
      /\ \A k \in Turns \ {n} : reports'[k] = reports[k]
  BY DEF CompleteTurn, Types
<1> QED
  BY <1>1, <1>2, <1>3 DEF Finished

LEMMA EndSessionIs ==
  ASSUME Types, NEW from \in LiveType, from.gen = live.gen, NEW next, EndSession(from, next)
  PROVE  Leaving(from.sub, from.active, from.early, next)
<1>1. /\ live' \in LiveType /\ live'.session = FALSE /\ live'.gen = live.gen + 1
      /\ live'.sub = from.sub /\ live'.active = from.active /\ live'.early = from.early
  <2>1. live' = [from EXCEPT !.gen = @ + 1, !.session = FALSE] /\ from.gen \in Nat
    BY DEF EndSession, LiveType
  <2>2. from.gen + 1 \in Nat
    BY <2>1
  <2> QED
    BY <2>1, <2>2 DEF LiveType
<1>2. ops' \in [Requests -> Boundary] /\ stage' = next /\ chain' = chain /\ batch' = batch
  BY ConstantsAssumption DEF EndSession, NoBoundary, Boundary
<1> QED
  BY <1>1, <1>2 DEF Leaving

LEMMA SpendIs ==
  ASSUME Types, NEW what \in Inputs, Spend(what)
  PROVE  Spent /\ spent'[what] = spent[what] + 1
<1>1. spent' = [spent EXCEPT ![what] = @ + 1] /\ spent \in [Inputs -> Nat]
  BY DEF Spend, Types
<1> HIDE DEF Inputs
<1> QED
  BY <1>1 DEF Spent

LEMMA SpentSame ==
  ASSUME Types, spent' = spent
  PROVE  Spent
<1> HIDE DEF Inputs
<1> QED
  BY DEF Spent, Types

LEMMA SavedIs ==
  ASSUME queue' \in Seq(Items), Len(queue') <= MaxHeld, journal' \in SUBSET Journaled, hold' \in Nat,
         node' \in NodeType, disk' = Document'
  PROVE  /\ disk' \in DiskType /\ Len(disk'.queue) <= MaxHeld
         /\ disk'.queue = queue' /\ disk'.journal = journal'
BY DEF Document, DiskType, NodeType
LEMMA OpIs ==
  ASSUME NEW kind \in Kinds, NEW gen \in Nat
  PROVE  Op(kind, gen) \in ChainType /\ Op(kind, gen).kind = kind /\ Op(kind, gen).gen = gen
BY DEF Op, ChainType

LEMMA FlushIs == Flush \in ChainType /\ Flush.kind = "flush"
BY OpIs DEF Flush, Kinds

LEMMA DeliverIs ==
  ASSUME Types, NEW m \in Items, Deliver(m)
  PROVE  /\ UNCHANGED <<node, live, stage, batch, ops, journal, hold, steering, steered, provider,
                        taken, cargo, promises, events, reports, spent>>
         /\ Settled /\ m \notin sent /\ sent' = sent \cup {m} /\ disk' = Document'
         /\ chain' \in {chain, Append(chain, Flush)}
         /\ queue' \in Seq(Items) /\ Len(queue') <= MaxHeld
         /\ \/ queue' = Append(queue, m) /\ gone' = gone
            \/ /\ m \notin Messages
               /\ queue' = Tail(Append(queue, m)) /\ gone' = gone \cup {Head(Append(queue, m))}
<1>1. /\ UNCHANGED <<node, live, stage, batch, ops, journal, hold, steering, steered, provider,
                     taken, cargo, promises, events, reports>>
      /\ Settled /\ m \notin sent /\ sent' = sent \cup {m} /\ disk' = Document' /\ spent' = spent
  BY DEF Deliver, control, outside, Save
<1>2. chain' \in {chain, Append(chain, Flush)}
  BY DEF Deliver
<1> DEFINE full == Append(queue, m)
<1>3. /\ full \in Seq(Items) /\ full # << >> /\ Len(full) = Len(queue) + 1
      /\ Len(queue) \in Nat /\ Len(queue) <= MaxHeld /\ MaxHeld \in Nat
  BY AppendIs, LenProperties, ConstantsAssumption DEF Types
<1>4. /\ m \in Messages => Len(queue) < MaxHeld
      /\ IF Len(full) > MaxHeld THEN queue' = Tail(full) /\ gone' = gone \cup {Head(full)}
                                ELSE queue' = full /\ gone' = gone
  BY DEF Deliver
<1> HIDE DEF full
<1>5. CASE Len(full) > MaxHeld
  <2>1. queue' = Tail(full) /\ gone' = gone \cup {Head(full)}
    BY <1>4, <1>5
  <2>2. Tail(full) \in Seq(Items) /\ Len(Tail(full)) = Len(full) - 1
    BY <1>3, TailIs
  <2>3. m \notin Messages /\ Len(queue') <= MaxHeld
    BY <1>3, <1>4, <1>5, <2>1, <2>2
  <2> QED
    BY <1>1, <1>2, <2>1, <2>2, <2>3 DEF full
<1>6. CASE ~(Len(full) > MaxHeld)
  <2>1. queue' = full /\ gone' = gone /\ Len(full) <= MaxHeld
    BY <1>3, <1>4, <1>6
  <2> QED
    BY <1>1, <1>2, <1>3, <2>1 DEF full
<1> QED
  BY <1>5, <1>6

LEMMA CommandIs ==
  ASSUME Types, NEW kind \in Commands, Command(kind)
  PROVE  /\ UNCHANGED <<node, queue, live, stage, batch, ops, journal, hold, steering, steered, disk, provider,
                        taken, cargo, promises, events, reports, sent, gone>>
         /\ Settled /\ chain' = Append(chain, Op(kind, 0)) /\ Spent
         /\ Op(kind, 0) \in ChainType /\ Op(kind, 0).kind = kind /\ kind \notin {"launch", "fail"}
<1>1. /\ UNCHANGED <<node, queue, live, stage, batch, ops, journal, hold, steering, steered, disk, provider,
                     taken, cargo, promises, events, reports, sent, gone>>
      /\ Settled /\ chain' = Append(chain, Op(kind, 0)) /\ Spend(kind)
  BY DEF Command, control, outside, history
<1>2. kind \in Inputs /\ kind \in Kinds /\ kind \notin {"launch", "fail"}
  BY DEF Commands, Inputs, Kinds
<1> QED
  BY <1>1, <1>2, SpendIs, OpIs

LEMMA FlushQueueIs ==
  ASSUME Types, FlushQueue
  PROVE  /\ UNCHANGED <<ops, journal, hold, steering, steered, disk, taken, promises, events, reports,
                        sent, gone, spent>>
         /\ stage = "free" /\ chain # << >> /\ Head(chain).kind = "flush"
         /\ queue' \in {queue, Retired(queue)}
         /\ \/ Dropped /\ UNCHANGED <<node, live, provider, cargo>>
            \/ /\ Begun(AtMost(BatchSize, queue'), "sending") /\ chain' = chain
               /\ live.session /\ node.turn = "idle" /\ queue' = Retired(queue) /\ ~Unresolved /\ hold = 0
               /\ batch' \in Seq(Items) /\ Len(batch') <= BatchSize
<1>1. /\ UNCHANGED <<ops, journal, hold, steering, steered, disk, taken, promises, events, reports,
                     sent, gone, spent>>
      /\ stage = "free" /\ chain # << >> /\ Head(chain).kind = "flush"
  BY DEF FlushQueue, control, history, AtHead
<1>2. \/ Dropped /\ UNCHANGED <<node, live, provider, cargo>> /\ queue' \in {queue, Retired(queue)}
      \/ /\ Submit(AtMost(BatchSize, queue'), "sending") /\ chain' = chain
         /\ live.session /\ node.turn = "idle" /\ queue' = Retired(queue) /\ ~Unresolved /\ hold = 0
  BY DEF FlushQueue, Done, Dropped, Available, Admitted, Running
<1>3. CASE /\ Submit(AtMost(BatchSize, queue'), "sending") /\ chain' = chain
           /\ live.session /\ node.turn = "idle" /\ queue' = Retired(queue) /\ ~Unresolved /\ hold = 0
  <2>1. queue' \in Seq(Items)
    BY <1>3, WithoutIs DEF Types, Retired
  <2> DEFINE items == AtMost(BatchSize, queue')
  <2>2. items \in Seq(Items) /\ Len(items) <= BatchSize
    BY <2>1, AtMostIs, ConstantsAssumption
  <2> HIDE DEF items
  <2>3. Begun(items, "sending")
    BY <1>3, <2>2, SubmitIs DEF items
  <2>4. batch' = items
    BY <2>3 DEF Begun
  <2> QED
    BY <1>1, <1>3, <2>2, <2>3, <2>4 DEF items
<1> QED
  BY <1>1, <1>2, <1>3

LEMMA TurnAcceptedIs ==
  ASSUME Types, live.sub \in Turns, TurnAccepted
  PROVE  /\ UNCHANGED <<ops, journal, hold, steering, steered, provider, taken, cargo, promises, events,
                        sent, gone, spent>>
         /\ Submitting /\ ~provider.event /\ live.sub \in taken /\ disk' = Document'
         /\ queue' = IF stage = "sending" THEN Drop(Len(batch), queue) ELSE queue
         /\ stage' = "free" /\ batch' = batch
         /\ \/ live.early /\ Finished(live.sub) /\ chain' = Append(Tail(chain), Flush)
            \/ Called(live.sub) /\ node' = node /\ reports' = reports /\ chain' = Tail(chain)
<1>1. /\ UNCHANGED <<ops, journal, hold, steering, steered, provider, taken, cargo, promises, events,
                     sent, gone, spent>>
      /\ Submitting /\ ~provider.event /\ live.sub \in taken /\ disk' = Document'
      /\ queue' = IF stage = "sending" THEN Drop(Len(batch), queue) ELSE queue
      /\ stage' = "free" /\ batch' = batch
  BY DEF TurnAccepted, control, outside, Save, HandedOver, Submitting
<1>2. CASE live.early
  BY <1>1, <1>2, CompleteTurnIs DEF TurnAccepted, ThenFlush
<1>3. CASE ~live.early
  <2>1. /\ live' = [live EXCEPT !.active = live.sub, !.tries = IF stage = "sending" THEN 0 ELSE @]
        /\ chain' = Tail(chain) /\ node' = node /\ reports' = reports /\ live \in LiveType
    BY <1>3 DEF TurnAccepted, Types
  <2>2. live.sub \in 0 .. MaxTurn /\ 0 \in 0 .. Attempts - 1 /\ live.tries \in 0 .. Attempts - 1
    BY <2>1, ConstantsAssumption DEF Turns, LiveType
  <2>3. Called(live.sub)
    BY <2>1, <2>2 DEF Called, LiveType
  <2> QED
    BY <1>1, <2>1, <2>3
<1> QED
  BY <1>2, <1>3

LEMMA TurnStartedIs ==
  ASSUME Types, live.sub \in Turns, NEW named \in BOOLEAN, TurnStarted(named)
  PROVE  /\ UNCHANGED <<node, ops, journal, hold, steering, steered, provider, taken, cargo, events, reports,
                        sent, gone, spent>>
         /\ Submitting /\ provider.event /\ disk' = Document' /\ Dropped
         /\ queue' = IF stage = "sending" THEN Drop(Len(batch), queue) ELSE queue
         /\ (Called(live.sub) \/ Called(0))
         /\ promises' = promises \cup {[gen |-> live.gen, turn |-> live.sub]}
         /\ [gen |-> live.gen, turn |-> live.sub] \in SentTurns
<1>1. /\ UNCHANGED <<node, ops, journal, hold, steering, steered, provider, taken, cargo, events, reports,
                     sent, gone, spent>>
      /\ Submitting /\ provider.event /\ disk' = Document' /\ Dropped
      /\ queue' = IF stage = "sending" THEN Drop(Len(batch), queue) ELSE queue
      /\ promises' = promises \cup {[gen |-> live.gen, turn |-> live.sub]}
  BY DEF TurnStarted, control, history, Save, HandedOver, Submitting, Done, Dropped
<1>2. /\ live' = [live EXCEPT !.active = IF named THEN live.sub ELSE 0,
                              !.tries = IF stage = "sending" THEN 0 ELSE @]
      /\ live \in LiveType
  BY DEF TurnStarted, Types
<1>3. /\ live.sub \in 0 .. MaxTurn /\ 0 \in 0 .. Attempts - 1 /\ live.tries \in 0 .. Attempts - 1
      /\ 0 \in 0 .. MaxTurn
  BY <1>2, ConstantsAssumption DEF Turns, LiveType
<1>4. Called(live.sub) \/ Called(0)
  <2>1. CASE named
    BY <1>2, <1>3, <2>1 DEF Called, LiveType
  <2>2. CASE ~named
    BY <1>2, <1>3, <2>2 DEF Called, LiveType
  <2> QED
    BY <2>1, <2>2
<1>5. [gen |-> live.gen, turn |-> live.sub] \in SentTurns
  BY <1>2 DEF SentTurns, LiveType
<1> QED
  BY <1>1, <1>4, <1>5
LEMMA TurnRefusedIs ==
  ASSUME Types, live.sub \in Turns, NEW ended \in BOOLEAN, TurnRefused(ended)
  PROVE  /\ UNCHANGED <<journal, hold, steering, steered, provider, taken, promises, events, sent, batch>>
         /\ cargo' \in [Turns -> SUBSET Items] /\ cargo'[live.sub] \subseteq cargo[live.sub]
         /\ \A n \in Turns \ {live.sub} : cargo'[n] = cargo[n]
         /\ live.sub \in taken => cargo' = cargo
         /\ Submitting /\ Spent /\ disowned' = disowned \cup ({live.sub} \cap taken)
         /\ node' \in NodeType /\ node'.state = node.state /\ node'.turn = "idle"
         /\ \/ queue' = queue /\ gone' = gone /\ disk' \in {disk, Document'}
            \/ /\ stage = "sending" /\ disk' = Document'
               /\ queue' = Drop(Len(batch), queue) /\ gone' = gone \cup Elements(batch)
         /\ \/ reports' = reports
            \/ /\ reports' \in [Turns -> Nat] /\ reports'[live.sub] = reports[live.sub] + 1
               /\ \A k \in Turns \ {live.sub} : reports'[k] = reports[k]
         /\ \/ Leaving(0, 0, FALSE, "failing")
            \/ /\ Dropped /\ ops' = ops
               /\ live' \in LiveType /\ live'.session = live.session /\ live'.gen = live.gen
               /\ live'.sub = 0 /\ live'.active = 0 /\ live'.early = FALSE
<1> DEFINE aside == stage = "sending" /\ SetAside
           idle == [live EXCEPT !.sub = 0, !.active = 0, !.early = FALSE,
                                !.tries = IF stage = "first" THEN @
                                          ELSE IF aside THEN 0 ELSE @ + 1]
<1>1. /\ UNCHANGED <<journal, hold, steering, steered, provider, taken, promises, events, sent>>
      /\ cargo' = IF live.sub \in taken THEN cargo ELSE [cargo EXCEPT ![live.sub] = {}]
      /\ Submitting /\ disowned' = disowned \cup ({live.sub} \cap taken)
      /\ node' = [node EXCEPT !.turn = "idle", !.waiting = FALSE]
      /\ queue' = IF aside THEN Drop(Len(batch), queue) ELSE queue
      /\ gone'  = IF aside THEN gone \cup Elements(batch) ELSE gone
      /\ reports' = IF stage = "first" THEN [reports EXCEPT ![live.sub] = @ + 1] ELSE reports
      /\ disk' = IF aside \/ stage = "first" THEN Document' ELSE disk
      /\ IF ended \/ stage = "first" THEN EndSession(idle, "failing")
                                     ELSE live' = idle /\ Done /\ ops' = ops
      /\ Spend("refuse") \/ Spend("unbound") \/ spent' = spent
  BY DEF TurnRefused, Disown, outside, Submitting
<1>2. Spent
  <2>1. "refuse" \in Inputs /\ "unbound" \in Inputs
    BY DEF Inputs
  <2> QED
    BY <1>1, <2>1, SpendIs, SpentSame
<1>3. node' \in NodeType /\ node'.state = node.state /\ node'.turn = "idle"
  BY <1>1 DEF Types, NodeType
<1>4. /\ idle \in LiveType /\ idle.gen = live.gen /\ idle.session = live.session
      /\ idle.sub = 0 /\ idle.active = 0 /\ idle.early = FALSE
  <2>1. live \in LiveType
    BY DEF Types
  <2>2. 0 \in 0 .. MaxTurn /\ 0 \in 0 .. Attempts - 1 /\ live.tries \in 0 .. Attempts - 1
    BY <2>1, ConstantsAssumption DEF LiveType
  <2>3. stage # "first" /\ ~aside => live.tries + 1 \in 0 .. Attempts - 1
    BY <1>1, <2>2, ConstantsAssumption DEF SetAside, Submitting
  <2> QED
    BY <2>1, <2>2, <2>3 DEF LiveType
<1>5. \/ reports' = reports
      \/ /\ reports' \in [Turns -> Nat] /\ reports'[live.sub] = reports[live.sub] + 1
         /\ \A k \in Turns \ {live.sub} : reports'[k] = reports[k]
  BY <1>1 DEF Types
<1>6. \/ queue' = queue /\ gone' = gone /\ disk' \in {disk, Document'}
      \/ /\ stage = "sending" /\ disk' = Document'
         /\ queue' = Drop(Len(batch), queue) /\ gone' = gone \cup Elements(batch)
  BY <1>1
<1> HIDE DEF aside, idle
<1>8. /\ cargo' \in [Turns -> SUBSET Items] /\ cargo'[live.sub] \subseteq cargo[live.sub]
      /\ \A n \in Turns \ {live.sub} : cargo'[n] = cargo[n]
  BY <1>1 DEF Types
<1>7. batch' = batch /\ (\/ Leaving(0, 0, FALSE, "failing")
                         \/ Dropped /\ ops' = ops /\ live' = idle)
  <2>1. CASE ended \/ stage = "first"
    <3>1. EndSession(idle, "failing")
      BY <1>1, <2>1
    <3>2. Leaving(idle.sub, idle.active, idle.early, "failing")
      BY <1>4, <3>1, EndSessionIs
    <3> QED
      BY <1>4, <3>2 DEF Leaving
  <2>2. CASE ~(ended \/ stage = "first")
    BY <1>1, <2>2 DEF Done, Dropped
  <2> QED
    BY <2>1, <2>2
<1> QED
  BY <1>1, <1>2, <1>3, <1>4, <1>5, <1>6, <1>7, <1>8

LEMMA TurnActiveIs ==
  ASSUME Types, live.sub \in Turns, TurnActive
  PROVE  /\ UNCHANGED <<queue, journal, hold, steering, steered, disk, provider, taken, promises, events,
                        reports, sent, gone, disowned, batch, ops, spent>>
         /\ cargo' \in [Turns -> SUBSET Items] /\ cargo'[live.sub] = {}
         /\ \A n \in Turns \ {live.sub} : cargo'[n] = cargo[n]
         /\ Submitting /\ ~provider.event /\ live.sub \notin taken
         /\ node' \in NodeType /\ node'.state = node.state /\ node'.turn = "idle"
         /\ Dropped /\ live' \in LiveType /\ live'.session = live.session /\ live'.gen = live.gen
         /\ live'.sub = 0 /\ live'.active = 0 /\ live'.early = FALSE
<1>1. /\ UNCHANGED <<queue, journal, hold, steering, steered, disk, provider, taken, promises, events,
                     reports, sent, gone, disowned, batch, ops, spent>>
      /\ cargo' = [cargo EXCEPT ![live.sub] = {}] /\ Dropped
      /\ Submitting /\ ~provider.event /\ live.sub \notin taken
      /\ node' = [node EXCEPT !.turn = "idle", !.waiting = FALSE]
      /\ live' = [live EXCEPT !.sub = 0, !.active = 0, !.early = FALSE]
  BY DEF TurnActive, Done, Dropped, control, history, Submitting
<1>2. node' \in NodeType /\ node'.state = node.state /\ node'.turn = "idle"
  BY <1>1 DEF Types, NodeType
<1>3. /\ live' \in LiveType /\ live'.session = live.session /\ live'.gen = live.gen
      /\ live'.sub = 0 /\ live'.active = 0 /\ live'.early = FALSE
  <2>1. live \in LiveType /\ 0 \in 0 .. MaxTurn
    BY ConstantsAssumption DEF Types
  <2> QED
    BY <1>1, <2>1 DEF LiveType
<1>4. /\ cargo' \in [Turns -> SUBSET Items] /\ cargo'[live.sub] = {}
      /\ \A n \in Turns \ {live.sub} : cargo'[n] = cargo[n]
  BY <1>1 DEF Types
<1> QED
  BY <1>1, <1>2, <1>3, <1>4

LEMMA StartSessionIs ==
  ASSUME Types, StartSession
  PROVE  /\ UNCHANGED <<queue, batch, journal, hold, steering, steered, provider, taken, cargo, promises, events,
                        reports, sent, gone, spent>>
         /\ stage = "free" /\ chain # << >> /\ disk' \in {disk, Document'}
         /\ Head(chain).kind \in {"launch", "resume", "assign"}
         /\ \/ Dropped /\ UNCHANGED <<node, live, ops>>
            \/ /\ hold = 0 /\ (Head(chain).kind = "launch" \/ ~live.session)
               /\ chain' = chain /\ stage' = "launching" /\ ops' \in [Requests -> Boundary]
               /\ node' \in NodeType /\ node'.state = "starting" /\ node'.turn = "none"
               /\ live' \in LiveType /\ live'.session = FALSE /\ live'.gen = live.gen + 1
               /\ live'.sub = 0 /\ live'.active = 0 /\ live'.early = FALSE
<1>1. /\ UNCHANGED <<queue, journal, hold, steering, steered, provider, taken, cargo, promises, events,
                     reports, sent, gone, spent>>
      /\ stage = "free" /\ chain # << >> /\ disk' \in {disk, Document'}
      /\ Head(chain).kind \in {"launch", "resume", "assign"}
      /\ \/ Done /\ UNCHANGED <<node, live, ops>>
         \/ /\ (Head(chain).kind = "launch" \/ ~live.session)
            /\ \E resume \in BOOLEAN : Launch(resume)
  BY DEF StartSession, AtHead, outside, history
<1>2. ASSUME NEW resume \in BOOLEAN, Launch(resume)
      PROVE  /\ batch' = batch
             /\ \/ Dropped /\ UNCHANGED <<node, live, ops>>
                \/ /\ hold = 0
                   /\ chain' = chain /\ stage' = "launching" /\ ops' \in [Requests -> Boundary]
                   /\ node' \in NodeType /\ node'.state = "starting" /\ node'.turn = "none"
                   /\ live' \in LiveType /\ live'.session = FALSE /\ live'.gen = live.gen + 1
                   /\ live'.sub = 0 /\ live'.active = 0 /\ live'.early = FALSE
  <2>1. CASE hold # 0
    BY <1>2, <2>1 DEF Launch, Admitted, Done, Dropped
  <2>2. CASE hold = 0
    <3>1. /\ node' = [state |-> "starting", turn |-> "none", waiting |-> FALSE,
                      thread |-> resume /\ node.thread, named |-> TRUE]
          /\ live' = [session |-> FALSE, gen |-> live.gen + 1, sub |-> 0, active |-> 0,
                      early |-> FALSE, tries |-> 0]
          /\ ops' = [r \in Requests |-> NoBoundary]
          /\ stage' = "launching" /\ chain' = chain /\ batch' = batch
      BY <1>2, <2>2 DEF Launch, Admitted
    <3>2. live.gen + 1 \in Nat /\ 0 \in 0 .. MaxTurn /\ 0 \in 0 .. Attempts - 1
      BY ConstantsAssumption DEF Types, LiveType
    <3>3. /\ live' \in LiveType /\ live'.session = FALSE /\ live'.gen = live.gen + 1
          /\ live'.sub = 0 /\ live'.active = 0 /\ live'.early = FALSE
      BY <3>1, <3>2 DEF LiveType
    <3>4. node' \in NodeType /\ node'.state = "starting" /\ node'.turn = "none"
      BY <3>1 DEF Types, NodeType
    <3>5. ops' \in [Requests -> Boundary]
      BY <3>1, ConstantsAssumption DEF NoBoundary, Boundary
    <3> QED
      BY <2>2, <3>1, <3>3, <3>4, <3>5
  <2> QED
    BY <2>1, <2>2
<1>3. CASE Done /\ UNCHANGED <<node, live, ops>>
  BY <1>1, <1>3 DEF Done, Dropped
<1> QED
  BY <1>1, <1>2, <1>3

LEMMA LaunchedIs ==
  ASSUME Types, NEW ok \in BOOLEAN, Launched(ok)
  PROVE  /\ UNCHANGED <<queue, batch, ops, journal, hold, steering, steered, taken, cargo, promises, events,
                        reports, sent, gone>>
         /\ stage = "launching" /\ disk' = Document' /\ Spent /\ node' \in NodeType
         /\ live' \in LiveType /\ live'.sub = live.sub /\ live'.active = live.active /\ live'.early = live.early
         /\ \/ /\ node'.state = "running" /\ node'.turn = "idle"
               /\ live'.session = TRUE /\ live'.gen = live.gen
               /\ provider' \in ProviderType /\ provider'.alive = TRUE /\ provider'.gen = live.gen
               /\ provider'.turn = 0 /\ provider'.event = provider.event /\ provider'.next = provider.next
               /\ \/ chain' = <<Flush>> \o Tail(chain) /\ stage' = "free"
                  \/ chain' = chain /\ stage' = "opening"
            \/ /\ node'.state = "failed" /\ node'.turn = "none"
               /\ live'.session = live.session /\ live'.gen = live.gen + 1
               /\ Dropped /\ provider' = provider
<1>1. /\ UNCHANGED <<queue, batch, ops, journal, hold, steering, steered, taken, cargo, promises, events,
                     reports, sent, gone>>
      /\ stage = "launching" /\ disk' = Document'
      /\ node \in NodeType /\ live \in LiveType /\ provider \in ProviderType
  BY DEF Launched, control, history, Types
<1>2. CASE ok
  <2>1. /\ node' = [node EXCEPT !.state = "running", !.turn = "idle", !.thread = TRUE]
        /\ live' = [live EXCEPT !.session = TRUE]
        /\ provider' = [provider EXCEPT !.alive = TRUE, !.gen = live.gen, !.turn = 0]
        /\ \/ chain' = <<Flush>> \o Tail(chain) /\ stage' = "free"
           \/ chain' = chain /\ stage' = "opening"
        /\ spent' = spent
    BY <1>2 DEF Launched
  <2>2. node' \in NodeType /\ node'.state = "running" /\ node'.turn = "idle"
    BY <1>1, <2>1 DEF NodeType
  <2>3. /\ live' \in LiveType /\ live'.sub = live.sub /\ live'.active = live.active
        /\ live'.early = live.early /\ live'.session = TRUE /\ live'.gen = live.gen
    BY <1>1, <2>1 DEF LiveType
  <2>4. live.gen \in Nat /\ 0 \in 0 .. MaxTurn
    BY <1>1, ConstantsAssumption DEF LiveType
  <2>5. /\ provider' \in ProviderType /\ provider'.alive = TRUE /\ provider'.gen = live.gen
        /\ provider'.turn = 0 /\ provider'.event = provider.event /\ provider'.next = provider.next
    BY <1>1, <2>1, <2>4 DEF ProviderType
  <2> QED
    BY <1>1, <2>1, <2>2, <2>3, <2>5, SpentSame
<1>3. CASE ~ok
  <2>1. /\ node' = [node EXCEPT !.state = "failed", !.turn = "none"]
        /\ live' = [live EXCEPT !.gen = @ + 1]
        /\ chain' = Tail(chain) /\ stage' = "free" /\ provider' = provider /\ Spend("refuse")
    BY <1>3 DEF Launched
  <2>2. node' \in NodeType /\ node'.state = "failed" /\ node'.turn = "none"
    BY <1>1, <2>1 DEF NodeType
  <2>3. live.gen \in Nat /\ live.gen + 1 \in Nat
    BY <1>1 DEF LiveType
  <2>4. /\ live' \in LiveType /\ live'.sub = live.sub /\ live'.active = live.active
        /\ live'.early = live.early /\ live'.session = live.session /\ live'.gen = live.gen + 1
    BY <1>1, <2>1, <2>3 DEF LiveType
  <2>5. "refuse" \in Inputs
    BY DEF Inputs
  <2> QED
    BY <1>1, <2>1, <2>2, <2>4, <2>5, SpendIs DEF Dropped
<1> QED
  BY <1>2, <1>3
LEMMA FirstTurnIs ==
  ASSUME Types, FirstTurn
  PROVE  /\ UNCHANGED <<queue, journal, hold, steering, steered, disk, taken, promises, events,
                        reports, sent, gone, spent>>
         /\ stage = "opening" /\ chain' = chain
         /\ \/ hold = 0 /\ Begun(<< >>, "first") /\ ops' = ops
            \/ /\ Leaving(live.sub, live.active, live.early, "failing")
               /\ UNCHANGED <<node, provider, cargo>>
<1>1. /\ UNCHANGED <<queue, journal, hold, steering, steered, disk, taken, promises, events,
                     reports, sent, gone, spent>>
      /\ stage = "opening"
      /\ \/ hold = 0 /\ Submit(<< >>, "first") /\ UNCHANGED <<chain, ops>>
         \/ EndSession(live, "failing") /\ UNCHANGED <<node, provider, cargo>>
  BY DEF FirstTurn, Admitted, history
<1>2. << >> \in Seq(Items) /\ live \in LiveType
  BY DEF Types
<1>3. CASE hold = 0 /\ Submit(<< >>, "first") /\ UNCHANGED <<chain, ops>>
  BY <1>1, <1>2, <1>3, SubmitIs
<1>4. CASE EndSession(live, "failing") /\ UNCHANGED <<node, provider, cargo>>
  <2>1. Leaving(live.sub, live.active, live.early, "failing")
    BY <1>2, <1>4, EndSessionIs
  <2> QED
    BY <1>1, <1>4, <2>1 DEF Leaving
<1> QED
  BY <1>1, <1>3, <1>4

LEMMA StopIs ==
  ASSUME Types, Stop
  PROVE  /\ UNCHANGED <<node, journal, hold, steering, steered, disk, provider, taken, cargo, promises,
                        events, reports, sent, spent, batch>>
         /\ stage = "free" /\ chain # << >> /\ Head(chain).kind = "stop"
         /\ \/ /\ live.session /\ queue' = << >> /\ gone' = gone \cup Elements(queue)
               /\ Leaving(live.sub, live.active, live.early, "stopping")
            \/ Dropped /\ UNCHANGED <<queue, gone, live, ops>>
<1>1. /\ UNCHANGED <<node, journal, hold, steering, steered, disk, provider, taken, cargo, promises,
                     events, reports, sent, spent>>
      /\ stage = "free" /\ chain # << >> /\ Head(chain).kind = "stop"
      /\ \/ /\ live.session /\ queue' = << >> /\ gone' = gone \cup Elements(queue)
            /\ EndSession(live, "stopping")
         \/ Dropped /\ UNCHANGED <<queue, gone, live, ops>>
  BY DEF Stop, AtHead, outside, Done, Dropped
<1>2. live \in LiveType
  BY DEF Types
<1>3. CASE Dropped /\ UNCHANGED <<queue, gone, live, ops>>
  BY <1>1, <1>3 DEF Dropped
<1>4. CASE /\ live.session /\ queue' = << >> /\ gone' = gone \cup Elements(queue)
           /\ EndSession(live, "stopping")
  <2>1. Leaving(live.sub, live.active, live.early, "stopping")
    BY <1>2, <1>4, EndSessionIs
  <2> QED
    BY <1>1, <1>4, <2>1 DEF Leaving
<1> QED
  BY <1>1, <1>3, <1>4

LEMMA RestartIs ==
  ASSUME Types, Restart
  PROVE  /\ UNCHANGED <<node, queue, journal, hold, steering, steered, disk, provider, taken, cargo, promises,
                        events, reports, sent, gone, spent, batch>>
         /\ stage = "free" /\ chain # << >> /\ Head(chain).kind = "restart"
         /\ \/ live.session /\ Leaving(live.sub, live.active, live.early, "stopping")
            \/ ~live.session /\ UNCHANGED <<live, ops, stage>> /\ chain' = <<Op("launch", 0)>> \o Tail(chain)
<1>1. /\ UNCHANGED <<node, queue, journal, hold, steering, steered, disk, provider, taken, cargo, promises,
                     events, reports, sent, gone, spent>>
      /\ stage = "free" /\ chain # << >> /\ Head(chain).kind = "restart"
      /\ \/ live.session /\ EndSession(live, "stopping")
         \/ /\ ~live.session /\ UNCHANGED <<live, ops, stage, batch>>
            /\ chain' = <<Op("launch", 0)>> \o Tail(chain)
  BY DEF Restart, AtHead, outside, history
<1>2. live \in LiveType
  BY DEF Types
<1>3. CASE live.session /\ EndSession(live, "stopping")
  <2>1. Leaving(live.sub, live.active, live.early, "stopping")
    BY <1>2, <1>3, EndSessionIs
  <2> QED
    BY <1>1, <1>3, <2>1 DEF Leaving
<1> QED
  BY <1>1, <1>3

LEMMA EndDeadSessionIs ==
  ASSUME Types, EndDeadSession
  PROVE  /\ UNCHANGED <<node, queue, journal, hold, steering, steered, disk, provider, taken, cargo, promises,
                        events, reports, sent, gone, spent, batch>>
         /\ stage = "free" /\ chain # << >> /\ Head(chain).kind \in {"exit", "fail"}
         /\ \/ Leaving(live.sub, live.active, live.early, "failing")
            \/ /\ Dropped /\ UNCHANGED <<live, ops>>
               /\ Head(chain).kind = "fail" => live.gen # Head(chain).gen
<1>1. /\ UNCHANGED <<node, queue, journal, hold, steering, steered, disk, provider, taken, cargo, promises,
                     events, reports, sent, gone, spent>>
      /\ stage = "free" /\ chain # << >> /\ Head(chain).kind \in {"exit", "fail"}
      /\ \/ EndSession(live, "failing")
         \/ /\ Dropped /\ UNCHANGED <<live, ops>>
            /\ Head(chain).kind = "fail" => live.gen # Head(chain).gen
  BY DEF EndDeadSession, AtHead, outside, history, Done, Dropped
<1>2. live \in LiveType
  BY DEF Types
<1>3. CASE EndSession(live, "failing")
  <2>1. Leaving(live.sub, live.active, live.early, "failing")
    BY <1>2, <1>3, EndSessionIs
  <2> QED
    BY <1>1, <2>1 DEF Leaving
<1>4. CASE /\ Dropped /\ UNCHANGED <<live, ops>>
           /\ Head(chain).kind = "fail" => live.gen # Head(chain).gen
  BY <1>1, <1>4 DEF Dropped
<1> QED
  BY <1>1, <1>3, <1>4

LEMMA SessionEndedIs ==
  ASSUME Types, SessionEnded
  PROVE  /\ UNCHANGED <<queue, batch, ops, journal, hold, steering, steered, taken, cargo, promises, events,
                        reports, sent, gone, spent>>
         /\ stage \in {"stopping", "failing"} /\ stage' = "free" /\ disk' = Document'
         /\ chain' \in {Tail(chain), <<Op("launch", 0)>> \o Tail(chain)}
         /\ node' \in NodeType /\ node'.turn = "none" /\ node'.state \in {"failed", "stopped"}
         /\ live' \in LiveType /\ live'.session = live.session /\ live'.gen = live.gen
         /\ live'.sub = 0 /\ live'.active = 0 /\ live'.early = FALSE
         /\ provider' \in ProviderType /\ provider'.alive = FALSE /\ provider'.turn = 0
         /\ provider'.gen = provider.gen /\ provider'.event = provider.event /\ provider'.next = provider.next
<1>1. /\ UNCHANGED <<queue, batch, ops, journal, hold, steering, steered, taken, cargo, promises, events,
                     reports, sent, gone, spent>>
      /\ stage \in {"stopping", "failing"} /\ stage' = "free" /\ disk' = Document'
      /\ chain' \in {Tail(chain), <<Op("launch", 0)>> \o Tail(chain)}
      /\ node' = [node EXCEPT !.turn = "none", !.waiting = FALSE,
                              !.state = IF stage = "failing" THEN "failed" ELSE "stopped"]
      /\ live' = [live EXCEPT !.sub = 0, !.active = 0, !.early = FALSE]
      /\ provider' = [provider EXCEPT !.alive = FALSE, !.turn = 0]
  BY DEF SessionEnded, SessionClosed, control, history, Save
<1>2. 0 \in 0 .. MaxTurn /\ live \in LiveType /\ provider \in ProviderType /\ node \in NodeType
  BY ConstantsAssumption DEF Types
<1>3. node' \in NodeType /\ node'.turn = "none" /\ node'.state \in {"failed", "stopped"}
  BY <1>1, <1>2 DEF NodeType
<1>4. /\ live' \in LiveType /\ live'.session = live.session /\ live'.gen = live.gen
      /\ live'.sub = 0 /\ live'.active = 0 /\ live'.early = FALSE
  BY <1>1, <1>2 DEF LiveType
<1>5. /\ provider' \in ProviderType /\ provider'.alive = FALSE /\ provider'.turn = 0
      /\ provider'.gen = provider.gen /\ provider'.event = provider.event /\ provider'.next = provider.next
  BY <1>1, <1>2 DEF ProviderType
<1> QED
  BY <1>1, <1>3, <1>4, <1>5

LEMMA ProviderIs ==
  ASSUME Types
  PROVE  /\ \A n \in Turns : ProviderTakes(n) =>
              /\ UNCHANGED <<node, queue, live, chain, stage, batch, ops, journal, hold, steering, steered, disk,
                             cargo, promises, events, reports, sent, gone, spent>>
              /\ Settled /\ provider.alive /\ provider.turn = 0 /\ n \in Submissions \ taken
              /\ provider' \in ProviderType /\ provider'.alive = provider.alive /\ provider'.turn = n
              /\ provider'.gen = provider.gen /\ provider'.event = provider.event
              /\ provider'.next = provider.next
              /\ taken' = taken \cup {n}
         /\ ProviderCompletes =>
              /\ UNCHANGED <<node, queue, live, chain, stage, batch, ops, journal, hold, steering, steered, disk,
                             taken, cargo, promises, reports, sent, gone, spent>>
              /\ provider.turn # 0
              /\ provider' \in ProviderType /\ provider'.alive = provider.alive /\ provider'.turn = 0
              /\ provider'.gen = provider.gen /\ provider'.event = provider.event
              /\ provider'.next = provider.next
              /\ events' = events \cup {[gen |-> provider.gen, turn |-> provider.turn]}
              /\ [gen |-> provider.gen, turn |-> provider.turn] \in SentTurns
         /\ ProviderExits =>
              /\ UNCHANGED <<node, queue, live, chain, stage, batch, ops, journal, hold, steering, steered, disk,
                             taken, cargo, promises, events, reports, sent, gone>>
              /\ provider' \in ProviderType /\ provider'.alive = FALSE /\ provider'.turn = 0
              /\ provider'.gen = provider.gen /\ provider'.event = provider.event
              /\ provider'.next = provider.next
              /\ Spent /\ spent'["exit"] = spent["exit"] + 1
<1>1. provider \in ProviderType /\ Turns \subseteq 0 .. MaxTurn /\ 0 \in 0 .. MaxTurn
  BY ConstantsAssumption DEF Types, Turns
<1>2. ASSUME NEW n \in Turns, ProviderTakes(n)
      PROVE  /\ UNCHANGED <<node, queue, live, chain, stage, batch, ops, journal, hold, steering, steered, disk,
                            cargo, promises, events, reports, sent, gone, spent>>
             /\ Settled /\ provider.alive /\ provider.turn = 0 /\ n \in Submissions \ taken
             /\ provider' = [provider EXCEPT !.turn = n] /\ taken' = taken \cup {n}
  BY <1>2 DEF ProviderTakes, work, control, history
<1>3. ASSUME ProviderCompletes
      PROVE  /\ UNCHANGED <<node, queue, live, chain, stage, batch, ops, journal, hold, steering, steered, disk,
                            taken, cargo, promises, reports, sent, gone, spent>>
             /\ provider.turn # 0 /\ provider' = [provider EXCEPT !.turn = 0]
             /\ events' = events \cup {[gen |-> provider.gen, turn |-> provider.turn]}
  BY <1>3 DEF ProviderCompletes, work, control, history
<1>4. ASSUME ProviderExits
      PROVE  /\ UNCHANGED <<node, queue, live, chain, stage, batch, ops, journal, hold, steering, steered, disk,
                            taken, cargo, promises, events, reports, sent, gone>>
             /\ provider' = [provider EXCEPT !.alive = FALSE, !.turn = 0] /\ Spend("exit")
  BY <1>4 DEF ProviderExits, work, control, history
<1>5. provider.turn # 0 => [gen |-> provider.gen, turn |-> provider.turn] \in SentTurns
  BY <1>1, ConstantsAssumption DEF ProviderType, SentTurns, Turns
<1>6. "exit" \in Inputs
  BY DEF Inputs
<1>7. ASSUME NEW n \in Turns, ProviderTakes(n)
      PROVE  /\ provider' \in ProviderType /\ provider'.alive = provider.alive /\ provider'.turn = n
             /\ provider'.gen = provider.gen /\ provider'.event = provider.event
             /\ provider'.next = provider.next
  BY <1>1, <1>2, <1>7 DEF ProviderType
<1>8. ASSUME ProviderCompletes
      PROVE  /\ provider' \in ProviderType /\ provider'.alive = provider.alive /\ provider'.turn = 0
             /\ provider'.gen = provider.gen /\ provider'.event = provider.event
             /\ provider'.next = provider.next
  BY <1>1, <1>3, <1>8 DEF ProviderType
<1>9. ASSUME ProviderExits
      PROVE  /\ provider' \in ProviderType /\ provider'.alive = FALSE /\ provider'.turn = 0
             /\ provider'.gen = provider.gen /\ provider'.event = provider.event
             /\ provider'.next = provider.next
  BY <1>1, <1>4, <1>9 DEF ProviderType
<1>10. ASSUME ProviderExits PROVE Spent /\ spent'["exit"] = spent["exit"] + 1
  BY <1>4, <1>6, <1>10, SpendIs
<1> QED
  BY <1>2, <1>3, <1>4, <1>5, <1>7, <1>8, <1>9, <1>10
LEMMA OnCompletionIs ==
  ASSUME Types, NEW e \in events, OnCompletion(e)
  PROVE  /\ UNCHANGED <<queue, stage, batch, ops, journal, hold, steering, steered, provider, taken, cargo,
                        promises, sent, gone, spent>>
         /\ events' = events \ {e} /\ e.turn \in Turns
         /\ \/ UNCHANGED <<node, live, chain, reports, disk>>
            \/ /\ live.session /\ live.active = 0 /\ UNCHANGED <<node, chain, reports, disk>>
               /\ live' \in LiveType /\ live'.session = live.session /\ live'.gen = live.gen
               /\ live'.sub = live.sub /\ live'.active = live.active
               /\ live'.early => live.early \/ e.turn = live.sub
            \/ /\ live.session /\ node.turn = "running" /\ live.active # 0 /\ e.turn = live.active
               /\ Finished(e.turn) /\ chain' = Append(chain, Flush) /\ disk' = Document'
<1>1. /\ UNCHANGED <<queue, stage, batch, ops, journal, hold, steering, steered, provider, taken, cargo,
                     promises, sent, gone, spent>>
      /\ events' = events \ {e}
      /\ \/ UNCHANGED <<node, live, chain, reports, disk>>
         \/ /\ live.session /\ live.active = 0 /\ UNCHANGED <<node, chain, reports, disk>>
            /\ live' = [live EXCEPT !.early = @ \/ KeptEarly(e)]
         \/ /\ live.session /\ node.turn = "running" /\ live.active # 0 /\ e.turn = live.active
            /\ CompleteTurn(e.turn) /\ chain' = Append(chain, Flush) /\ disk' = Document'
  BY DEF OnCompletion, control, Save, NamesTurn, ThenFlush
<1>2. e.turn \in Turns /\ live \in LiveType
  BY DEF Types, SentTurns
<1>3. CASE UNCHANGED <<node, live, chain, reports, disk>>
  BY <1>1, <1>2, <1>3
<1>4. CASE /\ live.session /\ live.active = 0 /\ UNCHANGED <<node, chain, reports, disk>>
           /\ live' = [live EXCEPT !.early = @ \/ KeptEarly(e)]
  <2>1. live.early \/ KeptEarly(e) \in BOOLEAN
    BY <1>2 DEF LiveType, KeptEarly
  <2>2. /\ live' \in LiveType /\ live'.session = live.session /\ live'.gen = live.gen
        /\ live'.sub = live.sub /\ live'.active = live.active
    BY <1>2, <1>4, <2>1 DEF LiveType, KeptEarly
  <2>3. live'.early => live.early \/ e.turn = live.sub
    BY <1>2, <1>4 DEF LiveType, KeptEarly
  <2> QED
    BY <1>1, <1>2, <1>4, <2>2, <2>3
<1>5. CASE /\ live.session /\ node.turn = "running" /\ live.active # 0 /\ e.turn = live.active
           /\ CompleteTurn(e.turn) /\ chain' = Append(chain, Flush) /\ disk' = Document'
  <2>1. Finished(e.turn)
    BY <1>2, <1>5, CompleteTurnIs
  <2> QED
    BY <1>1, <1>2, <1>5, <2>1
<1> QED
  BY <1>1, <1>3, <1>4, <1>5

LEMMA OnInteractionIs ==
  ASSUME Types, OnInteraction
  PROVE  /\ UNCHANGED <<queue, live, chain, stage, batch, ops, journal, hold, steering, steered, provider, taken,
                        cargo, promises, events, reports, sent, gone>>
         /\ disk' = Document' /\ Spent
         /\ node' \in NodeType /\ node'.state = node.state /\ node'.turn = node.turn
<1>1. /\ UNCHANGED <<queue, live, chain, stage, batch, ops, journal, hold, steering, steered, provider, taken,
                     cargo, promises, events, reports, sent, gone>>
      /\ disk' = Document' /\ node' = [node EXCEPT !.waiting = ~ @]
      /\ (IF node.waiting THEN spent' = spent ELSE Spend("ask"))
  BY DEF OnInteraction, work, control, outside, history
<1>2. Spent
  <2>1. "ask" \in Inputs
    BY DEF Inputs
  <2> QED
    BY <1>1, <2>1, SpendIs, SpentSame
<1>3. node' \in NodeType /\ node'.state = node.state /\ node'.turn = node.turn
  BY <1>1 DEF Types, NodeType
<1> QED
  BY <1>1, <1>2, <1>3

LEMMA PromiseKeptIs ==
  ASSUME Types, NEW p \in promises, PromiseKept(p)
  PROVE  /\ UNCHANGED <<queue, stage, batch, ops, journal, hold, steering, steered, provider, taken, cargo,
                        events, sent, gone, spent>>
         /\ Settled /\ p.turn \in taken /\ p.turn \in Turns /\ promises' = promises \ {p}
         /\ disk' \in {disk, Document'}
         /\ \/ UNCHANGED <<node, live, chain, reports>>
            \/ /\ LatestSubmission(p) /\ live.early /\ Finished(p.turn) /\ chain' = Append(chain, Flush)
            \/ /\ LatestSubmission(p) /\ live.active = 0 /\ Called(p.turn)
               /\ UNCHANGED <<node, chain, reports>>
<1>1. /\ UNCHANGED <<queue, stage, batch, ops, journal, hold, steering, steered, provider, taken, cargo,
                     events, sent, gone, spent>>
      /\ Settled /\ p.turn \in taken /\ promises' = promises \ {p}
      /\ disk' \in {disk, Document'}
      /\ \/ UNCHANGED <<node, live, chain, reports>>
         \/ LatestSubmission(p) /\ live.early /\ CompleteTurn(p.turn) /\ chain' = Append(chain, Flush)
         \/ /\ LatestSubmission(p) /\ live.active = 0 /\ live' = [live EXCEPT !.active = p.turn]
            /\ UNCHANGED <<node, chain, reports>>
  BY DEF PromiseKept, control, ThenFlush
<1>2. p.turn \in Turns /\ live \in LiveType /\ Turns \subseteq 0 .. MaxTurn
  BY ConstantsAssumption DEF Types, SentTurns, Turns
<1>3. CASE LatestSubmission(p) /\ live.early /\ CompleteTurn(p.turn) /\ chain' = Append(chain, Flush)
  <2>1. Finished(p.turn)
    BY <1>2, <1>3, CompleteTurnIs
  <2> QED
    BY <1>1, <1>2, <1>3, <2>1
<1>4. CASE /\ LatestSubmission(p) /\ live.active = 0 /\ live' = [live EXCEPT !.active = p.turn]
           /\ UNCHANGED <<node, chain, reports>>
  <2>1. Called(p.turn)
    BY <1>2, <1>4 DEF Called, LiveType
  <2> QED
    BY <1>1, <1>2, <1>4, <2>1
<1> QED
  BY <1>1, <1>2, <1>3, <1>4

LEMMA TurnFailedIs ==
  ASSUME Types, NEW p \in promises, NEW uncertain \in BOOLEAN, NEW ended \in BOOLEAN,
         TurnFailed(p, uncertain, ended)
  PROVE  /\ UNCHANGED <<queue, stage, batch, ops, journal, hold, steering, steered, taken, cargo, events, sent>>
         /\ Settled /\ p.turn \in Turns /\ p.gen \in Nat /\ promises' = promises \ {p}
         /\ disk' \in {disk, Document'} /\ Spent
         /\ provider' \in ProviderType /\ provider'.alive = provider.alive /\ provider'.gen = provider.gen
         /\ provider'.event = provider.event /\ provider'.next = provider.next
         /\ provider'.turn = IF provider.turn = p.turn /\ ~uncertain THEN 0 ELSE provider.turn
         /\ \E q \in {chain, Append(chain, Flush)} :
              \/ chain' = q /\ ~(LatestSubmission(p) /\ uncertain)
              \/ chain' = Append(q, Op("fail", p.gen))
         /\ \/ ~LatestSubmission(p) /\ UNCHANGED <<node, live, reports, gone>>
            \/ /\ LatestSubmission(p) /\ Finished(p.turn) /\ gone' \in {gone, gone \cup cargo[p.turn]}
               /\ p.turn \in taken \/ gone' = gone \cup cargo[p.turn]
<1> DEFINE latest == LatestSubmission(p)
           flush  == IF latest /\ live.active = p.turn THEN <<Flush>> ELSE << >>
           fail   == IF live.gen = p.gen /\ (ended \/ (latest /\ uncertain))
                     THEN <<Op("fail", p.gen)>> ELSE << >>
<1>1. /\ UNCHANGED <<queue, stage, batch, ops, journal, hold, steering, steered, taken, cargo, events, sent>>
      /\ Settled /\ promises' = promises \ {p} /\ disk' \in {disk, Document'}
      /\ (IF latest THEN CompleteTurn(p.turn) ELSE UNCHANGED <<node, live, reports>>)
      /\ chain' = chain \o flush \o fail
      /\ gone' = IF latest /\ p.turn \notin taken THEN gone \cup cargo[p.turn] ELSE gone
      /\ provider' = IF provider.turn = p.turn /\ ~uncertain
                     THEN [provider EXCEPT !.turn = 0] ELSE provider
      /\ (IF ~provider.alive THEN spent' = spent
          ELSE Spend(IF uncertain THEN "uncertain" ELSE "refuse"))
  BY DEF TurnFailed, control
<1>2. p.turn \in Turns /\ p.gen \in Nat /\ provider \in ProviderType /\ 0 \in 0 .. MaxTurn
  BY ConstantsAssumption DEF Types, SentTurns
<1>3. Spent
  <2>1. "uncertain" \in Inputs /\ "refuse" \in Inputs
    BY DEF Inputs
  <2> QED
    BY <1>1, <2>1, SpendIs, SpentSame
<1>4. /\ provider' \in ProviderType /\ provider'.alive = provider.alive /\ provider'.gen = provider.gen
      /\ provider'.event = provider.event /\ provider'.next = provider.next
      /\ provider'.turn = IF provider.turn = p.turn /\ ~uncertain THEN 0 ELSE provider.turn
  BY <1>1, <1>2 DEF ProviderType
<1>5. \E q \in {chain, Append(chain, Flush)} :
        \/ chain' = q /\ ~(latest /\ uncertain)
        \/ chain' = Append(q, Op("fail", p.gen))
  <2>1. chain \in Seq(ChainType) /\ Flush \in ChainType /\ Op("fail", p.gen) \in ChainType
    BY <1>2, FlushIs, OpIs DEF Types, Kinds
  <2>2. chain \o flush \in {chain, Append(chain, Flush)} /\ chain \o flush \in Seq(ChainType)
    BY <2>1, ConcatIs, AppendIs
  <2>3. (chain \o flush) \o fail = Append(chain \o flush, Op("fail", p.gen)) \/ fail = << >>
    BY <2>1, <2>2, ConcatIs
  <2>4. (chain \o flush) \o << >> = chain \o flush
    BY <2>1, <2>2, ConcatIs
  <2>5. fail = << >> => ~(latest /\ uncertain)
    <3>1. latest => live.gen = p.gen
      BY DEF LatestSubmission
    <3> QED
      BY <3>1
  <2> HIDE DEF flush, fail, latest
  <2> QED
    BY <1>1, <2>2, <2>3, <2>4, <2>5
<1>6. \/ ~latest /\ UNCHANGED <<node, live, reports, gone>>
      \/ /\ latest /\ Finished(p.turn) /\ gone' \in {gone, gone \cup cargo[p.turn]}
         /\ p.turn \in taken \/ gone' = gone \cup cargo[p.turn]
  <2>1. CASE latest
    BY <1>1, <1>2, <2>1, CompleteTurnIs
  <2>2. CASE ~latest
    BY <1>1, <2>2
  <2> QED
    BY <2>1, <2>2
<1> QED
  BY <1>1, <1>2, <1>3, <1>4, <1>5, <1>6

LEMMA CheckWorkersIs ==
  ASSUME CheckWorkers
  PROVE  /\ UNCHANGED <<node, queue, live, stage, batch, ops, journal, hold, steering, steered, disk, provider,
                        taken, cargo, promises, events, reports, sent, gone, spent>>
         /\ chain' = Append(chain, Op("exit", 0))
         /\ Op("exit", 0) \in ChainType /\ Op("exit", 0).kind = "exit"
<1>1. /\ UNCHANGED <<node, queue, live, stage, batch, ops, journal, hold, steering, steered, disk, provider,
                     taken, cargo, promises, events, reports, sent, gone, spent>>
      /\ chain' = Append(chain, Op("exit", 0))
  BY DEF CheckWorkers, control, outside, history
<1> QED
  BY <1>1, OpIs DEF Kinds
\* The document is saved with this journal.
Written(q, saved) ==
  disk' \in DiskType /\ Len(disk'.queue) <= MaxHeld /\ disk'.queue = q /\ disk'.journal = saved

\* What a step of the boundaries does: nothing is handed over; a delivery is
\* steered; one is acknowledged; one remains without a usable answer.
Nothing ==
  /\ UNCHANGED <<journal, steering, steered>> /\ queue' \in {queue, Retired(queue)}
  /\ \/ disk' = disk
     \/ Written(queue', journal)
     \/ \E a \in Journaled : a.status = "submitting" /\ Written(queue', journal \cup {a})

Steers(a) ==
  /\ a.status = "submitting" /\ queue' = Retired(queue)
  /\ a.ids = Elements(AtMost(BatchSize, queue')) /\ a.ids \subseteq Elements(queue')
  /\ journal' = journal \cup {a} /\ steering' = steering \cup {a}
  /\ steered' \in {steered, steered \cup a.ids}
  /\ ~Unresolved /\ ~provider.event /\ live.session /\ live.active # 0
  /\ Written(queue', journal')

Accepts(a) ==
  /\ a \in steering /\ steering' = steering \ {a} /\ steered' = steered /\ queue' = Without(queue, a.ids)
  /\ live.session /\ live.active = a.turn /\ a.ids \subseteq steered
  /\ \/ journal' = With(a, "accepted") /\ Written(queue', journal')
     \/ journal' = With(a, "unknown") /\ Written(queue, With(a, "accepted"))

Doubts(a) ==
  /\ a \in steering /\ steering' = steering \ {a} /\ steered' = steered /\ queue' = queue
  /\ journal' = With(a, "unknown") /\ (disk' = disk \/ Written(queue', journal'))

LEMMA WithIs ==
  ASSUME Types, NEW a \in steering, NEW status \in {"unknown", "accepted"}
  PROVE  With(a, status) \in SUBSET Journaled /\ a \in Journaled
<1>1. a \in Journaled /\ journal \in SUBSET Journaled
  BY DEF Types
<1>2. [a EXCEPT !.status = status] \in Journaled
  BY <1>1 DEF Journaled
<1> QED
  BY <1>1, <1>2 DEF With

LEMMA WrittenIs ==
  ASSUME queue' \in Seq(Items), Len(queue') <= MaxHeld, hold' \in Nat, node' \in NodeType,
         NEW saved \in SUBSET Journaled,
         \/ disk' = Document' /\ saved = journal'
         \/ disk' = [Document' EXCEPT !.journal = saved]
  PROVE  Written(queue', saved)
BY DEF Document, DiskType, NodeType, Written

LEMMA RetiredIs ==
  ASSUME Types
  PROVE  /\ Retired(queue) \in Seq(Items) /\ Len(Retired(queue)) <= MaxHeld
         /\ Elements(Retired(queue)) = Elements(queue) \ AcceptedIds
<1>1. queue \in Seq(Items) /\ Len(queue) <= MaxHeld /\ Len(queue) \in Nat /\ MaxHeld \in Nat
  BY LenProperties, ConstantsAssumption DEF Types
<1>2. Retired(queue) \in Seq(Items) /\ Len(Retired(queue)) <= Len(queue)
      /\ Elements(Retired(queue)) = Elements(queue) \ AcceptedIds
  BY <1>1, WithoutIs DEF Retired
<1>3. Len(Retired(queue)) \in Nat
  BY <1>2, LenProperties
<1> QED
  BY <1>1, <1>2, <1>3

LEMMA BoundarySets ==
  ASSUME Types, NEW r \in Requests
  PROVE  /\ [ops EXCEPT ![r] = NoBoundary] \in [Requests -> Boundary]
         /\ \A protected \in BOOLEAN :
              [ops EXCEPT ![r] = [gen |-> live.gen, turn |-> IF node.turn = "running" THEN live.active ELSE 0,
                                  protected |-> protected]] \in [Requests -> Boundary]
<1>1. live.gen \in Nat /\ live.active \in 0 .. MaxTurn /\ 0 \in 0 .. MaxTurn /\ ops \in [Requests -> Boundary]
  BY ConstantsAssumption DEF Types, LiveType
<1>2. NoBoundary \in Boundary
  BY <1>1 DEF NoBoundary, Boundary
<1>3. \A protected \in BOOLEAN :
        [gen |-> live.gen, turn |-> IF node.turn = "running" THEN live.active ELSE 0,
         protected |-> protected] \in Boundary
  BY <1>1 DEF Boundary
<1> QED
  BY <1>1, <1>2, <1>3

LEMMA SteerIs ==
  ASSUME Types, NEW r \in Requests, Steer(r)
  PROVE  /\ UNCHANGED <<node, live, chain, stage, batch, provider, taken, cargo, promises, events, reports,
                        sent, gone, hold>>
         /\ Spent /\ ops' \in [Requests -> Boundary]
         /\ (Nothing \/ \E a \in Journaled : Steers(a))
<1> DEFINE a == Attempt(AtMost(BatchSize, queue'), ops[r])
<1>1. /\ UNCHANGED <<node, live, chain, stage, batch, provider, taken, cargo, promises, events, reports,
                     sent, gone, hold>>
      /\ ops' = [ops EXCEPT ![r] = NoBoundary] /\ queue' = Retired(queue) /\ Receiving(r)
  BY DEF Steer, work, outside, history
<1>2. \/ UNCHANGED <<journal, steering, steered>> /\ disk' = disk /\ Spend("save")
      \/ UNCHANGED <<journal, steering, steered>> /\ disk' = Document' /\ spent' = spent
      \/ /\ UNCHANGED <<journal, steering, steered>> /\ Spend("save")
         /\ disk' = [Document' EXCEPT !.journal = @ \cup {a}]
      \/ /\ journal' = journal \cup {a} /\ steering' = steering \cup {a}
         /\ steered' \in {steered, steered \cup a.ids}
         /\ disk' = Document' /\ spent' = spent
  BY DEF Steer, Save, SaveLost
<1>3. Spent
  <2>1. "save" \in Inputs
    BY DEF Inputs
  <2> QED
    BY <1>2, <2>1, SpendIs, SpentSame
<1>4. ops' \in [Requests -> Boundary]
  BY <1>1, BoundarySets
<1>5. queue' \in Seq(Items) /\ Len(queue') <= MaxHeld /\ hold' \in Nat /\ node' \in NodeType
  BY <1>1, RetiredIs DEF Types
<1>6. /\ ~Unresolved /\ ~provider.event /\ live.session /\ live.active # 0
      /\ ops[r].turn = live.active
  BY <1>1 DEF Receiving, SameTurn, Available
<1>7. /\ a.ids = Elements(AtMost(BatchSize, queue')) /\ a.status = "submitting"
      /\ a.turn = ops[r].turn /\ a.gen = ops[r].gen
  BY DEF Attempt
<1>8. a.ids \subseteq Elements(queue') /\ a \in Journaled
  <2>1. a.ids \subseteq Elements(queue')
    BY <1>5, <1>7, AtMostIs, ConstantsAssumption
  <2>2. a.ids \in SUBSET Items
    <3>1. \A i \in DOMAIN queue' : queue'[i] \in Items
      BY <1>5, LenProperties
    <3> QED
      BY <2>1, <3>1 DEF Elements
  <2>3. ops[r].gen \in Nat /\ ops[r].turn \in Turns
    BY <1>6, ConstantsAssumption DEF Types, Boundary, Turns
  <2>4. a = [ids |-> a.ids, gen |-> ops[r].gen, turn |-> ops[r].turn, status |-> "submitting"]
    BY DEF Attempt
  <2> HIDE DEF a
  <2>5. a \in Journaled
    BY <2>2, <2>3, <2>4 DEF Journaled
  <2> QED
    BY <2>1, <2>5
<1> HIDE DEF a
<1>9. journal \in SUBSET Journaled /\ journal \cup {a} \in SUBSET Journaled
  BY <1>8 DEF Types
<1>10. CASE UNCHANGED <<journal, steering, steered>> /\ disk' = disk
  BY <1>1, <1>3, <1>4, <1>10 DEF Nothing
<1>11. CASE UNCHANGED <<journal, steering, steered>> /\ disk' = Document'
  <2>1. Written(queue', journal)
    BY <1>5, <1>9, <1>11, WrittenIs
  <2> QED
    BY <1>1, <1>3, <1>4, <1>11, <2>1 DEF Nothing
<1>12. CASE UNCHANGED <<journal, steering, steered>> /\ disk' = [Document' EXCEPT !.journal = @ \cup {a}]
  <2>1. disk' = [Document' EXCEPT !.journal = journal \cup {a}]
    BY <1>12 DEF Document
  <2>2. Written(queue', journal \cup {a})
    BY <1>5, <1>9, <2>1, WrittenIs
  <2> QED
    BY <1>1, <1>3, <1>4, <1>7, <1>8, <1>12, <2>2 DEF Nothing
<1>13. CASE /\ journal' = journal \cup {a} /\ steering' = steering \cup {a}
            /\ steered' \in {steered, steered \cup a.ids} /\ disk' = Document'
  <2>1. Written(queue', journal')
    BY <1>5, <1>9, <1>13, WrittenIs
  <2>2. Steers(a)
    BY <1>1, <1>6, <1>7, <1>8, <1>13, <2>1 DEF Steers
  <2> QED
    BY <1>1, <1>3, <1>4, <1>8, <2>2
<1> QED
  BY <1>2, <1>10, <1>11, <1>12, <1>13
LEMMA SteerAcceptedIs ==
  ASSUME Types, NEW a \in steering, SteerAccepted(a)
  PROVE  /\ UNCHANGED <<node, live, chain, stage, batch, ops, provider, taken, cargo, promises, events, reports,
                        sent, gone, hold>>
         /\ Spent /\ Accepts(a)
<1>1. /\ UNCHANGED <<node, live, chain, stage, batch, ops, provider, taken, cargo, promises, events, reports,
                     sent, gone, hold, steered>>
      /\ live.session /\ live.active = a.turn /\ a.ids \subseteq steered
      /\ steering' = steering \ {a} /\ queue' = Without(queue, a.ids)
      /\ \/ journal' = With(a, "accepted") /\ disk' = Document' /\ spent' = spent
         \/ /\ journal' = With(a, "unknown") /\ disk' = [Document EXCEPT !.journal = With(a, "accepted")]
            /\ Spend("save")
  BY DEF SteerAccepted, SameTurn, work, outside, history, Save
<1>2. queue' \in Seq(Items) /\ Len(queue') <= MaxHeld /\ hold' \in Nat /\ node' \in NodeType
  <2>1. queue \in Seq(Items) /\ Len(queue) <= MaxHeld /\ Len(queue) \in Nat /\ MaxHeld \in Nat
    BY LenProperties, ConstantsAssumption DEF Types
  <2>2. queue' \in Seq(Items) /\ Len(queue') <= Len(queue)
    BY <1>1, <2>1, WithoutIs
  <2>3. Len(queue') \in Nat
    BY <2>2, LenProperties
  <2> QED
    BY <1>1, <2>1, <2>2, <2>3 DEF Types
<1>3. With(a, "accepted") \in SUBSET Journaled /\ With(a, "unknown") \in SUBSET Journaled
  BY WithIs
<1>4. Spent
  <2>1. "save" \in Inputs
    BY DEF Inputs
  <2> QED
    BY <1>1, <2>1, SpendIs, SpentSame
<1>5. \/ journal' = With(a, "accepted") /\ Written(queue', journal')
      \/ journal' = With(a, "unknown") /\ Written(queue, With(a, "accepted"))
  <2>1. CASE journal' = With(a, "accepted") /\ disk' = Document'
    BY <1>2, <1>3, <2>1, WrittenIs
  <2>2. CASE journal' = With(a, "unknown") /\ disk' = [Document EXCEPT !.journal = With(a, "accepted")]
    BY <1>3, <2>2 DEF Types, Document, DiskType, NodeType, Written
  <2> QED
    BY <1>1, <2>1, <2>2
<1> QED
  BY <1>1, <1>4, <1>5 DEF Accepts

LEMMA SteerUnknownIs ==
  ASSUME Types, NEW a \in steering, SteerUnknown(a)
  PROVE  /\ UNCHANGED <<node, live, chain, stage, batch, ops, provider, taken, cargo, promises, events, reports,
                        sent, gone, hold>>
         /\ Spent /\ Doubts(a)
<1>1. /\ UNCHANGED <<node, live, chain, stage, batch, ops, provider, taken, cargo, promises, events, reports,
                     sent, gone, hold, steered, queue>>
      /\ steering' = steering \ {a} /\ journal' = With(a, "unknown")
      /\ \/ disk' = Document' /\ spent' = spent
         \/ disk' = disk /\ Spend("save")
  BY DEF SteerUnknown, work, outside, history, Save, SaveLost
<1>2. queue' \in Seq(Items) /\ Len(queue') <= MaxHeld /\ hold' \in Nat /\ node' \in NodeType
  BY <1>1 DEF Types
<1>3. With(a, "unknown") \in SUBSET Journaled
  BY WithIs
<1>4. Spent
  <2>1. "save" \in Inputs
    BY DEF Inputs
  <2> QED
    BY <1>1, <2>1, SpendIs, SpentSame
<1>5. disk' = disk \/ Written(queue', journal')
  BY <1>1, <1>2, <1>3, WrittenIs
<1> QED
  BY <1>1, <1>4, <1>5 DEF Doubts

LEMMA BoundariesIs ==
  ASSUME Types, Boundaries
  PROVE  /\ UNCHANGED <<node, live, chain, stage, batch, provider, taken, cargo, promises, events, reports,
                        sent, gone>>
         /\ Spent /\ ops' \in [Requests -> Boundary] /\ hold' \in Nat
         /\ \/ Nothing
            \/ \E a \in Journaled : Steers(a)
            \/ \E a \in steering : Accepts(a) \/ Doubts(a)
<1> USE DEF Types
<1>1. CASE \E r \in Requests : EndBoundary(r)
  <2>1. PICK r \in Requests : EndBoundary(r)
    BY <1>1
  <2>2. /\ UNCHANGED <<node, live, chain, stage, batch, provider, taken, cargo, promises, events, reports,
                       sent, gone, hold, journal, steering, steered, disk, spent>>
        /\ ops' = [ops EXCEPT ![r] = NoBoundary] /\ queue' \in {queue, Retired(queue)}
    BY <2>1 DEF EndBoundary, work, outside, history
  <2> QED
    BY <2>2, BoundarySets, SpentSame DEF Nothing
<1>2. CASE \E r \in Requests : Steer(r)
  BY <1>2, SteerIs
<1>3. CASE \E r \in Requests, protected \in BOOLEAN : BeginBoundary(r, protected)
  <2>1. PICK r \in Requests, protected \in BOOLEAN : BeginBoundary(r, protected)
    BY <1>3
  <2>2. /\ UNCHANGED <<node, live, chain, stage, batch, provider, taken, cargo, promises, events, reports,
                       sent, gone, hold, journal, steering, steered, disk, spent, queue>>
        /\ ops' = [ops EXCEPT ![r] =
                     [gen |-> live.gen, turn |-> IF node.turn = "running" THEN live.active ELSE 0,
                      protected |-> protected]]
    BY <2>1 DEF BeginBoundary, work, outside, history
  <2> QED
    BY <2>2, BoundarySets, SpentSame DEF Nothing
<1>4. CASE \E a \in steering : SteerAccepted(a) \/ SteerUnknown(a)
  <2>1. PICK a \in steering : SteerAccepted(a) \/ SteerUnknown(a)
    BY <1>4
  <2>2. CASE SteerAccepted(a)
    BY <2>2, SteerAcceptedIs
  <2>3. CASE SteerUnknown(a)
    BY <2>3, SteerUnknownIs
  <2> QED
    BY <2>1, <2>2, <2>3
<1>5. CASE Checkpoint \/ Release
  <2>1. /\ UNCHANGED <<node, live, chain, stage, batch, provider, taken, cargo, promises, events, reports,
                       sent, gone, journal, steering, steered, queue, ops>>
        /\ hold' \in {hold, live.gen, 0} /\ disk' = Document'
        /\ (spent' = spent \/ Spend("hold"))
    BY <1>5 DEF Checkpoint, Release, work, outside, history, Save
  <2>2. hold' \in Nat
    BY <2>1 DEF LiveType
  <2>3. Spent
    <3>1. "hold" \in Inputs
      BY DEF Inputs
    <3> QED
      BY <2>1, <3>1, SpendIs, SpentSame
  <2>4. Written(queue', journal)
    BY <2>1, <2>2, WrittenIs
  <2> QED
    BY <2>1, <2>2, <2>3, <2>4 DEF Nothing
<1> QED
  BY <1>1, <1>2, <1>3, <1>4, <1>5 DEF Boundaries

LEMMA CrashIs ==
  ASSUME Types, Crash
  PROVE  /\ UNCHANGED <<disk, taken, cargo, reports, sent, gone, steered>>
         /\ Spent /\ spent'["crash"] = spent["crash"] + 1
         /\ queue' = disk.queue /\ hold' = disk.hold
         /\ journal' \in SUBSET Journaled
         /\ \A a \in disk.journal : \E b \in journal' : b.ids = a.ids
         /\ \A b \in journal' : \E a \in disk.journal : b.ids = a.ids /\ (b.status = "accepted" => a.status = "accepted")
         /\ node' \in NodeType /\ node'.turn = "none" /\ node'.state \in {"failed", "stopped"}
         /\ live' \in LiveType /\ live'.session = FALSE /\ live'.gen = live.gen + 1
         /\ live'.sub = 0 /\ live'.active = 0 /\ live'.early = FALSE
         /\ chain' = << >> /\ stage' = "free" /\ batch' = << >>
         /\ ops' \in [Requests -> Boundary] /\ steering' = {} /\ promises' = {} /\ events' = {}
         /\ provider' \in ProviderType /\ provider'.alive = FALSE /\ provider'.turn = 0
         /\ provider'.gen = provider.gen /\ provider'.event = provider.event /\ provider'.next = provider.next
<1> DEFINE After(a) == [a EXCEPT !.status = IF @ = "submitting" THEN "unknown" ELSE @]
<1>1. /\ UNCHANGED <<disk, taken, cargo, reports, sent, gone, steered>> /\ Spend("crash")
      /\ queue' = disk.queue /\ hold' = disk.hold
      /\ journal' = {After(a) : a \in disk.journal}
      /\ node' = [state |-> IF node.state = "failed" THEN "failed" ELSE "stopped",
                  turn |-> "none", waiting |-> FALSE, thread |-> disk.thread,
                  named |-> disk.named /\ node.state \notin {"running", "starting"}]
      /\ live' = [session |-> FALSE, gen |-> live.gen + 1, sub |-> 0, active |-> 0,
                  early |-> FALSE, tries |-> 0]
      /\ chain' = << >> /\ stage' = "free" /\ batch' = << >>
      /\ ops' = [r \in Requests |-> NoBoundary] /\ steering' = {} /\ promises' = {} /\ events' = {}
      /\ provider' = [provider EXCEPT !.alive = FALSE, !.turn = 0]
  BY DEF Crash, history
<1>2. live.gen + 1 \in Nat /\ 0 \in 0 .. MaxTurn /\ 0 \in 0 .. Attempts - 1
  BY ConstantsAssumption DEF Types, LiveType
<1>3. /\ live' \in LiveType /\ live'.session = FALSE /\ live'.gen = live.gen + 1
      /\ live'.sub = 0 /\ live'.active = 0 /\ live'.early = FALSE
  BY <1>1, <1>2 DEF LiveType
<1>4. node' \in NodeType /\ node'.turn = "none" /\ node'.state \in {"failed", "stopped"}
  BY <1>1 DEF Types, NodeType, DiskType
<1>5. ops' \in [Requests -> Boundary]
  BY <1>1, <1>2 DEF NoBoundary, Boundary
<1>6. /\ provider' \in ProviderType /\ provider'.alive = FALSE /\ provider'.turn = 0
      /\ provider'.gen = provider.gen /\ provider'.event = provider.event /\ provider'.next = provider.next
  BY <1>1, <1>2 DEF ProviderType, Types
<1>7. ASSUME NEW a \in disk.journal
      PROVE  /\ After(a) \in Journaled /\ After(a).ids = a.ids
             /\ After(a).status = "accepted" => a.status = "accepted"
  <2>1. a \in Journaled
    BY DEF Types, DiskType
  <2> QED
    BY <2>1 DEF Journaled
<1>8. Spent /\ spent'["crash"] = spent["crash"] + 1
  <2>1. "crash" \in Inputs
    BY DEF Inputs
  <2> QED
    BY <1>1, <2>1, SpendIs
<1> HIDE DEF After
<1>9. /\ journal' \in SUBSET Journaled
      /\ \A a \in disk.journal : \E b \in journal' : b.ids = a.ids
      /\ \A b \in journal' : \E a \in disk.journal : b.ids = a.ids /\ (b.status = "accepted" => a.status = "accepted")
  BY <1>1, <1>7
<1> QED
  BY <1>1, <1>3, <1>4, <1>5, <1>6, <1>8, <1>9
-----------------------------------------------------------------------------
(* Types, the flow of the operations, and where items come from *)

\* A chain of operations as it must be.
Orderly(q) == q \in Seq(ChainType) /\ Lined(q)

LEMMA OrderlySteps ==
  ASSUME NEW q, Orderly(q)
  PROVE  /\ q # << >> => /\ Orderly(Tail(q)) /\ Head(q) \in ChainType
                         /\ Tail(q) # << >> => Head(Tail(q)).kind # "launch"
                         /\ Elements(q) = {Head(q)} \cup Elements(Tail(q))
         /\ \A e \in ChainType : e.kind # "launch" =>
              /\ Orderly(Append(q, e)) /\ Append(q, e) # << >>
              /\ Head(Append(q, e)) = IF q = << >> THEN e ELSE Head(q)
              /\ Elements(Append(q, e)) = Elements(q) \cup {e}
         /\ \A e \in ChainType : q # << >> =>
              /\ Orderly(<<e>> \o Tail(q)) /\ <<e>> \o Tail(q) # << >> /\ Head(<<e>> \o Tail(q)) = e
              /\ Elements(<<e>> \o Tail(q)) = Elements(Tail(q)) \cup {e}
BY ChainSteps DEF Orderly

LEMMA FlushFollows ==
  ASSUME NEW q, Orderly(q)
  PROVE  /\ Orderly(Append(q, Flush)) /\ Append(q, Flush) # << >>
         /\ q # << >> => Head(Append(q, Flush)) = Head(q)
         /\ q = << >> => Head(Append(q, Flush)).kind = "flush"
<1>1. Flush \in ChainType /\ Flush.kind # "launch" /\ Flush.kind = "flush"
  BY FlushIs
<1> QED
  BY <1>1, OrderlySteps

\* What a step does to the queue, as far as every queue must be.
Typed(q) == q \in Seq(Items) /\ Len(q) <= MaxHeld

LEMMA QueuesAre ==
  ASSUME Types
  PROVE  /\ Typed(queue) /\ Typed(Retired(queue)) /\ Typed(<< >>) /\ Typed(disk.queue)
         /\ Typed(Drop(Len(batch), queue)) /\ Elements(Drop(Len(batch), queue)) \subseteq Elements(queue)
         /\ Elements(Retired(queue)) \subseteq Elements(queue)
         /\ \A A : Typed(Without(queue, A)) /\ Elements(Without(queue, A)) \subseteq Elements(queue)
         /\ Elements(<< >>) = {}
<1>1. queue \in Seq(Items) /\ Len(queue) <= MaxHeld /\ Len(queue) \in Nat /\ MaxHeld \in Nat
      /\ batch \in Seq(Items) /\ Len(batch) \in Nat
  BY LenProperties, ConstantsAssumption DEF Types
<1>2. \A q \in Seq(Items) : Len(q) <= Len(queue) => Typed(q)
  <2> SUFFICES ASSUME NEW q \in Seq(Items), Len(q) <= Len(queue) PROVE Typed(q)
    OBVIOUS
  <2>1. Len(q) \in Nat
    BY LenProperties
  <2> QED
    BY <1>1, <2>1 DEF Typed
<1>3. Typed(Drop(Len(batch), queue)) /\ Elements(Drop(Len(batch), queue)) \subseteq Elements(queue)
  BY <1>1, <1>2, DropIs
<1>4. \A A : Typed(Without(queue, A)) /\ Elements(Without(queue, A)) \subseteq Elements(queue)
  <2> SUFFICES ASSUME NEW A
               PROVE  Typed(Without(queue, A)) /\ Elements(Without(queue, A)) \subseteq Elements(queue)
    OBVIOUS
  <2>1. Without(queue, A) \in Seq(Items) /\ Len(Without(queue, A)) <= Len(queue)
        /\ Elements(Without(queue, A)) = Elements(queue) \ A
    BY <1>1, WithoutIs
  <2> QED
    BY <1>2, <2>1
<1>5. Typed(<< >>) /\ Elements(<< >>) = {}
  BY <1>1 DEF Typed, Elements
<1>6. Typed(queue) /\ Typed(disk.queue)
  BY DEF Types, Typed, DiskType
<1> QED
  BY <1>3, <1>4, <1>5, <1>6 DEF Retired

LEMMA SavedTypes ==
  ASSUME Types, Typed(queue'), journal' \in SUBSET Journaled, hold' \in Nat,
         node' \in NodeType, disk' \in {disk, Document'}
  PROVE  /\ disk' \in DiskType /\ Typed(disk'.queue)
         /\ disk' = disk \/ disk'.queue = queue'
BY SavedIs DEF Types, Typed, DiskType

LEMMA DeliverHost ==
  ASSUME HostInv, NEW m \in Items, Deliver(m)
  PROVE  HostInv'
<1>0. Types /\ Flow /\ Known
  BY DEF HostInv
<1>1. Orderly(chain)
  BY <1>0 DEF Types, Flow, Orderly
<1>2. /\ UNCHANGED <<node, live, stage, batch, ops, journal, hold, steering, steered, provider,
                     taken, cargo, promises, events, reports, spent>>
      /\ m \notin sent /\ sent' = sent \cup {m} /\ disk' = Document'
      /\ chain' \in {chain, Append(chain, Flush)} /\ Typed(queue')
      /\ \/ queue' = Append(queue, m) /\ gone' = gone
         \/ queue' = Tail(Append(queue, m)) /\ gone' = gone \cup {Head(Append(queue, m))}
  BY <1>0, DeliverIs DEF Typed
<1>3. /\ Orderly(chain') /\ (chain # << >> => chain' # << >> /\ Head(chain') = Head(chain))
      /\ (chain = << >> => chain' = << >> \/ Head(chain').kind = "flush")
  BY <1>1, <1>2, OrderlySteps, FlushIs, ZenonT(60)
<1>4. Elements(queue') \subseteq Elements(queue) \cup {m} /\ gone' \subseteq gone \cup Elements(queue) \cup {m}
  <2>1. queue \in Seq(Items)
    BY <1>0 DEF Types
  <2>2. /\ Append(queue, m) \in Seq(Items) /\ Append(queue, m) # << >>
        /\ Elements(Append(queue, m)) = Elements(queue) \cup {m}
    BY <2>1, AppendIs
  <2>3. Elements(Append(queue, m)) = {Head(Append(queue, m))} \cup Elements(Tail(Append(queue, m)))
    BY <2>2, TailIs
  <2> QED
    BY <1>2, <2>2, <2>3
<1>5. disk' \in DiskType /\ Typed(disk'.queue) /\ (disk' = disk \/ disk'.queue = queue')
  BY <1>0, <1>2, SavedTypes DEF Types
<1>6. Known'
  BY <1>0, <1>2, <1>4, <1>5 DEF Known
<1>7. sent' \in SUBSET Items /\ gone' \in SUBSET Items
  BY <1>0, <1>2, <1>6 DEF Types, Known
<1>8. Types'
  BY <1>0, <1>2, <1>3, <1>5, <1>7 DEF Types, Orderly, Typed
<1>9. Flow'
  BY <1>0, <1>2, <1>3 DEF Flow, Orderly, Submitting
<1> QED
  BY <1>6, <1>8, <1>9 DEF HostInv

LEMMA CommandHost ==
  ASSUME HostInv, (\E kind \in Commands : Command(kind)) \/ CheckWorkers
  PROVE  HostInv'
<1>0. Types /\ Flow /\ Known
  BY DEF HostInv
<1>1. Orderly(chain)
  BY <1>0 DEF Types, Flow, Orderly
<1>2. PICK op \in ChainType :
        /\ UNCHANGED <<node, queue, live, stage, batch, ops, journal, hold, steering, steered, disk, provider,
                       taken, cargo, promises, events, reports, sent, gone>>
        /\ Spent /\ chain' = Append(chain, op) /\ op.kind # "launch"
  BY <1>0, CommandIs, CheckWorkersIs, SpentSame
<1>3. /\ Orderly(chain') /\ chain' # << >> /\ (chain # << >> => Head(chain') = Head(chain))
      /\ (chain = << >> => Head(chain').kind # "launch")
  BY <1>1, <1>2, OrderlySteps
<1>4. Known'
  BY <1>0, <1>2 DEF Known
<1>5. Types'
  BY <1>0, <1>2, <1>3 DEF Types, Orderly, Spent
<1>6. Flow'
  BY <1>0, <1>2, <1>3 DEF Flow, Orderly, Submitting
<1> QED
  BY <1>4, <1>5, <1>6 DEF HostInv
LEMMA FlushQueueHost ==
  ASSUME HostInv, FlushQueue
  PROVE  HostInv'
<1>0. Types /\ Flow /\ Known
  BY DEF HostInv
<1>1. Orderly(chain)
  BY <1>0 DEF Types, Flow, Orderly
<1>2. /\ UNCHANGED <<ops, journal, hold, steering, steered, disk, taken, promises, events, reports,
                     sent, gone, spent>>
      /\ stage = "free" /\ chain # << >> /\ Head(chain).kind = "flush"
      /\ Typed(queue') /\ Elements(queue') \subseteq Elements(queue)
  BY <1>0, FlushQueueIs, QueuesAre
<1>3. CASE Dropped /\ UNCHANGED <<node, live, provider, cargo>>
  <2>1. /\ Orderly(chain') /\ (chain' # << >> => Head(chain').kind # "launch")
        /\ stage' = "free" /\ batch' = batch
    BY <1>1, <1>2, <1>3, OrderlySteps DEF Dropped
  <2>2. Known'
    BY <1>0, <1>2, <1>3, <2>1 DEF Known
  <2>3. Types'
    BY <1>0, <1>2, <1>3, <2>1 DEF Types, Orderly, Typed, Stages
  <2>4. Flow'
    BY <1>0, <1>2, <1>3, <2>1 DEF Flow, Orderly, Submitting
  <2> QED
    BY <2>2, <2>3, <2>4 DEF HostInv
<1>4. CASE /\ Begun(AtMost(BatchSize, queue'), "sending") /\ chain' = chain
           /\ live.session /\ node.turn = "idle" /\ batch' \in Seq(Items) /\ Len(batch') <= BatchSize
  <2>1. Elements(batch') \subseteq Elements(queue')
    BY <1>2, <1>4, AtMostIs, ConstantsAssumption DEF Begun, Typed
  <2>2. Known'
    BY <1>0, <1>2, <1>4, <2>1 DEF Known, Begun
  <2>3. Types'
    BY <1>0, <1>2, <1>4 DEF Types, Typed, Stages, Begun
  <2>4. live'.sub \in Turns /\ cargo'[live'.sub] = Elements(batch')
    BY <1>4 DEF Begun
  <2>5. Flow'
    BY <1>0, <1>2, <1>4, <2>4 DEF Flow, Orderly, Submitting, Begun
  <2> QED
    BY <2>2, <2>3, <2>5 DEF HostInv
<1> QED
  BY <1>0, <1>3, <1>4, FlushQueueIs

LEMMA FirstTurnHost ==
  ASSUME HostInv, FirstTurn
  PROVE  HostInv'
<1>0. Types /\ Flow /\ Known
  BY DEF HostInv
<1>2. /\ UNCHANGED <<queue, journal, hold, steering, steered, disk, taken, promises, events,
                     reports, sent, gone, spent>>
      /\ stage = "opening" /\ chain' = chain
  BY <1>0, FirstTurnIs
<1>3. CASE Leaving(live.sub, live.active, live.early, "failing") /\ UNCHANGED <<node, provider, cargo>>
  <2>2. Known'
    BY <1>0, <1>2, <1>3 DEF Known, Leaving
  <2>3. Types'
    BY <1>0, <1>2, <1>3 DEF Types, Stages, Leaving
  <2>4. Flow'
    BY <1>0, <1>2, <1>3 DEF Flow, Submitting, Leaving
  <2> QED
    BY <2>2, <2>3, <2>4 DEF HostInv
<1>4. CASE Begun(<< >>, "first") /\ ops' = ops
  <2>1. Elements(batch') = {} /\ batch' = << >> /\ batch' \in Seq(Items) /\ Len(batch') <= BatchSize
    BY <1>0, <1>4, QueuesAre, ConstantsAssumption DEF Begun
  <2>2. Known'
    BY <1>0, <1>2, <1>4, <2>1 DEF Known, Begun
  <2>3. Types'
    BY <1>0, <1>2, <1>4, <2>1 DEF Types, Stages, Begun
  <2>4. live'.sub \in Turns /\ cargo'[live'.sub] = Elements(batch')
    BY <1>4 DEF Begun
  <2>5. Flow'
    BY <1>0, <1>2, <1>4, <2>1, <2>4 DEF Flow, Submitting, Begun
  <2> QED
    BY <2>2, <2>3, <2>5 DEF HostInv
<1> QED
  BY <1>0, <1>3, <1>4, FirstTurnIs

LEMMA TurnAcceptedHost ==
  ASSUME HostInv, TurnAccepted
  PROVE  HostInv'
<1>0. Types /\ Flow /\ Known
  BY DEF HostInv
<1>1. Orderly(chain)
  BY <1>0 DEF Types, Flow, Orderly
<1>a. live.sub \in Turns /\ chain # << >> /\ live.session
  BY <1>0 DEF TurnAccepted, Flow, Submitting
<1>2. /\ UNCHANGED <<ops, journal, hold, steering, steered, provider, taken, cargo, promises, events,
                     sent, gone, spent>>
      /\ Submitting /\ disk' = Document' /\ stage' = "free" /\ batch' = batch
      /\ Typed(queue') /\ Elements(queue') \subseteq Elements(queue)
  BY <1>0, <1>a, TurnAcceptedIs, QueuesAre
<1>3. /\ node' \in NodeType /\ node'.state = node.state
      /\ live' \in LiveType /\ live'.session = live.session
      /\ reports' \in [Turns -> Nat]
      /\ chain' \in {Tail(chain), Append(Tail(chain), Flush)}
  BY <1>0, <1>a, TurnAcceptedIs DEF Finished, Called, Types
<1>4. Orderly(chain') /\ (chain' # << >> => Head(chain').kind # "launch")
  <2>1. Orderly(Tail(chain)) /\ (Tail(chain) # << >> => Head(Tail(chain)).kind # "launch")
    BY <1>1, <1>a, OrderlySteps
  <2>2. /\ Orderly(Append(Tail(chain), Flush))
        /\ Head(Append(Tail(chain), Flush)) = IF Tail(chain) = << >> THEN Flush ELSE Head(Tail(chain))
    BY <2>1, OrderlySteps, FlushIs
  <2> QED
    BY <1>3, <2>1, <2>2, FlushIs
<1>5. disk' \in DiskType /\ Typed(disk'.queue) /\ (disk' = disk \/ disk'.queue = queue')
  BY <1>0, <1>2, <1>3, SavedTypes DEF Types
<1>6. Known'
  BY <1>0, <1>2, <1>5 DEF Known
<1>7. Types'
  BY <1>0, <1>2, <1>3, <1>4, <1>5 DEF Types, Orderly, Typed, Stages
<1>8. Flow'
  BY <1>0, <1>2, <1>3, <1>4, <1>a DEF Flow, Orderly, Submitting
<1> QED
  BY <1>6, <1>7, <1>8 DEF HostInv

LEMMA TurnStartedHost ==
  ASSUME HostInv, NEW named \in BOOLEAN, TurnStarted(named)
  PROVE  HostInv'
<1>0. Types /\ Flow /\ Known
  BY DEF HostInv
<1>1. Orderly(chain)
  BY <1>0 DEF Types, Flow, Orderly
<1>a. live.sub \in Turns /\ chain # << >> /\ live.session
  BY <1>0 DEF TurnStarted, Flow, Submitting
<1>2. /\ UNCHANGED <<node, ops, journal, hold, steering, steered, provider, taken, cargo, events, reports,
                     sent, gone, spent>>
      /\ disk' = Document' /\ chain' = Tail(chain) /\ stage' = "free" /\ batch' = batch
      /\ Typed(queue') /\ Elements(queue') \subseteq Elements(queue)
      /\ promises' = promises \cup {[gen |-> live.gen, turn |-> live.sub]}
      /\ [gen |-> live.gen, turn |-> live.sub] \in SentTurns
  BY <1>0, <1>a, TurnStartedIs, QueuesAre DEF Dropped
<1>3. live' \in LiveType /\ live'.session = live.session
  BY <1>0, <1>a, TurnStartedIs DEF Called
<1>4. Orderly(chain') /\ (chain' # << >> => Head(chain').kind # "launch")
  BY <1>1, <1>a, <1>2, OrderlySteps
<1>5. disk' \in DiskType /\ Typed(disk'.queue) /\ (disk' = disk \/ disk'.queue = queue')
  BY <1>0, <1>2, SavedTypes DEF Types
<1>6. Known'
  BY <1>0, <1>2, <1>5 DEF Known
<1>7. Types'
  BY <1>0, <1>2, <1>3, <1>4, <1>5 DEF Types, Orderly, Typed, Stages
<1>8. Flow'
  BY <1>0, <1>2, <1>3, <1>4, <1>a DEF Flow, Orderly, Submitting
<1> QED
  BY <1>6, <1>7, <1>8 DEF HostInv

LEMMA TurnRefusedHost ==
  ASSUME HostInv, NEW ended \in BOOLEAN, TurnRefused(ended) \/ TurnActive
  PROVE  HostInv'
<1>0. Types /\ Flow /\ Known
  BY DEF HostInv
<1>1. Orderly(chain)
  BY <1>0 DEF Types, Flow, Orderly
<1>a. live.sub \in Turns /\ chain # << >> /\ live.session
  BY <1>0 DEF TurnRefused, TurnActive, Flow, Submitting
<1>2. /\ UNCHANGED <<journal, hold, steering, steered, provider, taken, promises, events, sent, batch>>
      /\ cargo' \in [Turns -> SUBSET Items] /\ \A n \in Turns : cargo'[n] \subseteq cargo[n]
      /\ Spent /\ node' \in NodeType /\ node'.state = node.state /\ disk' \in {disk, Document'}
      /\ Typed(queue') /\ Elements(queue') \subseteq Elements(queue)
      /\ gone' \in {gone, gone \cup Elements(batch)}
  <2>1. Typed(queue)
    BY <1>0 DEF Types, Typed
  <2>2. CASE TurnActive
    <3>1. /\ UNCHANGED <<queue, journal, hold, steering, steered, disk, provider, taken, promises, events,
                         sent, gone, batch, spent>>
          /\ cargo' \in [Turns -> SUBSET Items] /\ cargo'[live.sub] = {}
          /\ \A n \in Turns \ {live.sub} : cargo'[n] = cargo[n]
          /\ node' \in NodeType /\ node'.state = node.state
      BY <1>0, <1>a, <2>2, TurnActiveIs
    <3> QED
      BY <1>0, <1>a, <2>1, <3>1, SpentSame
  <2>3. CASE TurnRefused(ended)
    BY <1>0, <1>a, <2>3, TurnRefusedIs, QueuesAre
  <2> QED
    BY <2>2, <2>3
<1>3. reports' \in [Turns -> Nat]
  BY <1>0, <1>a, TurnRefusedIs, TurnActiveIs DEF Types
<1>4. /\ live' \in LiveType /\ ops' \in [Requests -> Boundary]
      /\ \/ live'.session = FALSE /\ stage' = "failing" /\ chain' = chain
         \/ live'.session = live.session /\ stage' = "free" /\ chain' = Tail(chain)
  BY <1>0, <1>a, TurnRefusedIs, TurnActiveIs DEF Leaving, Dropped, Types
<1>5. Orderly(chain') /\ (stage' = "free" /\ chain' # << >> => Head(chain').kind # "launch")
      /\ (stage' = "failing" => chain' # << >>)
  BY <1>1, <1>a, <1>4, OrderlySteps
<1>6. disk' \in DiskType /\ Typed(disk'.queue) /\ (disk' = disk \/ disk'.queue = queue')
  BY <1>0, <1>2, SavedTypes DEF Types
<1>7. Known'
  BY <1>0, <1>2, <1>6 DEF Known
<1>8. gone' \in SUBSET Items
  BY <1>0, <1>2, <1>7 DEF Types, Known
<1>9. Types'
  BY <1>0, <1>2, <1>3, <1>4, <1>5, <1>6, <1>8 DEF Types, Orderly, Typed, Stages, Spent
<1>10. Flow'
  BY <1>0, <1>2, <1>4, <1>5, <1>a DEF Flow, Orderly, Submitting
<1> QED
  BY <1>7, <1>9, <1>10 DEF HostInv
LEMMA StartSessionHost ==
  ASSUME HostInv, StartSession
  PROVE  HostInv'
<1>0. Types /\ Flow /\ Known
  BY DEF HostInv
<1>1. Orderly(chain)
  BY <1>0 DEF Types, Flow, Orderly
<1>2. /\ UNCHANGED <<queue, batch, journal, hold, steering, steered, provider, taken, cargo, promises, events,
                     reports, sent, gone, spent>>
      /\ stage = "free" /\ chain # << >> /\ disk' \in {disk, Document'}
      /\ Head(chain).kind \in {"launch", "resume", "assign"}
  BY <1>0, StartSessionIs
<1>3. /\ node' \in NodeType /\ live' \in LiveType /\ ops' \in [Requests -> Boundary]
      /\ \/ /\ node' = node /\ live' = live /\ chain' = Tail(chain) /\ stage' = "free"
         \/ /\ chain' = chain /\ stage' = "launching" /\ live'.session = FALSE /\ live'.sub = 0
            /\ (Head(chain).kind = "launch" \/ ~live.session)
  BY <1>0, StartSessionIs DEF Types, Dropped
<1>4. Orderly(chain') /\ (stage' = "free" /\ chain' # << >> => Head(chain').kind # "launch")
      /\ (stage' = "launching" => chain' # << >> /\ Head(chain') = Head(chain))
  BY <1>1, <1>2, <1>3, OrderlySteps
<1>5. disk' \in DiskType /\ Typed(disk'.queue) /\ (disk' = disk \/ disk'.queue = queue')
  BY <1>0, <1>2, <1>3, SavedTypes DEF Types, Typed
<1>6. Known'
  BY <1>0, <1>2, <1>5 DEF Known
<1>7. Types'
  BY <1>0, <1>2, <1>3, <1>4, <1>5 DEF Types, Orderly, Typed, Stages
<1>8. ~live.session => ~provider.alive
  BY <1>0, <1>2 DEF Flow
<1>9. stage' = "launching" => ~provider.alive
  BY <1>0, <1>2, <1>3, <1>8 DEF Flow
<1>10. Flow'
  BY <1>0, <1>2, <1>3, <1>4, <1>8, <1>9 DEF Flow, Orderly, Submitting
<1> QED
  BY <1>6, <1>7, <1>10 DEF HostInv

LEMMA LaunchedHost ==
  ASSUME HostInv, NEW ok \in BOOLEAN, Launched(ok)
  PROVE  HostInv'
<1>0. Types /\ Flow /\ Known
  BY DEF HostInv
<1>1. Orderly(chain)
  BY <1>0 DEF Types, Flow, Orderly
<1>2. /\ UNCHANGED <<queue, batch, ops, journal, hold, steering, steered, taken, cargo, promises, events,
                     reports, sent, gone>>
      /\ stage = "launching" /\ disk' = Document' /\ Spent /\ node' \in NodeType /\ live' \in LiveType
  BY <1>0, LaunchedIs
<1>a. chain # << >> /\ ~live.session /\ ~provider.alive /\ Head(chain).kind \in {"launch", "resume", "assign"}
  BY <1>0, <1>2 DEF Flow
<1>3. /\ provider' \in ProviderType
      /\ \/ /\ node'.state = "running" /\ node'.turn = "idle" /\ live'.session = TRUE /\ provider'.alive = TRUE
            /\ \/ chain' = <<Flush>> \o Tail(chain) /\ stage' = "free"
               \/ chain' = chain /\ stage' = "opening" /\ live'.sub = live.sub
         \/ live'.session = FALSE /\ provider'.alive = FALSE /\ chain' = Tail(chain) /\ stage' = "free"
  BY <1>0, <1>a, LaunchedIs DEF Types, Dropped, LiveType, ProviderType
<1>4. Orderly(chain') /\ (stage' = "free" /\ chain' # << >> => Head(chain').kind # "launch")
      /\ (stage' = "opening" => chain' # << >> /\ Head(chain') = Head(chain))
  <2>1. Orderly(Tail(chain)) /\ (Tail(chain) # << >> => Head(Tail(chain)).kind # "launch")
    BY <1>1, <1>a, OrderlySteps
  <2>2. Orderly(<<Flush>> \o Tail(chain)) /\ Head(<<Flush>> \o Tail(chain)) = Flush
    BY <1>1, <1>a, OrderlySteps, FlushIs
  <2> QED
    BY <1>1, <1>3, <1>a, <2>1, <2>2, FlushIs
<1>5. disk' \in DiskType /\ Typed(disk'.queue) /\ (disk' = disk \/ disk'.queue = queue')
  BY <1>0, <1>2, <1>3, SavedTypes DEF Types, Typed
<1>6. Known'
  BY <1>0, <1>2, <1>5 DEF Known
<1>7. Types'
  BY <1>0, <1>2, <1>3, <1>4, <1>5 DEF Types, Orderly, Typed, Stages, Spent
<1>8. live.sub = 0
  BY <1>0, <1>2 DEF Flow
<1>9. Flow'
  BY <1>0, <1>2, <1>3, <1>4, <1>8, <1>a DEF Flow, Orderly, Submitting
<1> QED
  BY <1>6, <1>7, <1>9 DEF HostInv

LEMMA StopHost ==
  ASSUME HostInv, Stop \/ Restart \/ EndDeadSession
  PROVE  HostInv'
<1>0. Types /\ Flow /\ Known
  BY DEF HostInv
<1>1. Orderly(chain)
  BY <1>0 DEF Types, Flow, Orderly
<1>2. /\ UNCHANGED <<node, journal, hold, steering, steered, disk, provider, taken, cargo, promises,
                     events, reports, sent, spent, batch>>
      /\ stage = "free" /\ chain # << >> /\ Head(chain).kind # "launch"
      /\ queue' \in {queue, << >>} /\ gone' \in {gone, gone \cup Elements(queue)}
      /\ \/ Leaving(live.sub, live.active, live.early, "stopping")
         \/ Leaving(live.sub, live.active, live.early, "failing")
         \/ /\ UNCHANGED <<live, ops>> /\ stage' = "free"
            /\ \/ chain' = Tail(chain)
               \/ ~live.session /\ chain' = <<Op("launch", 0)>> \o Tail(chain)
  BY <1>0, StopIs, RestartIs, EndDeadSessionIs DEF Dropped
<1>3. Typed(queue') /\ Elements(queue') \subseteq Elements(queue)
  BY <1>0, <1>2, QueuesAre
<1>4. /\ live' \in LiveType /\ ops' \in [Requests -> Boundary]
      /\ \/ live'.session = FALSE /\ stage' \in {"stopping", "failing"} /\ chain' = chain
         \/ live' = live /\ stage' = "free" /\ chain' = Tail(chain)
         \/ live' = live /\ stage' = "free" /\ ~live.session /\ chain' = <<Op("launch", 0)>> \o Tail(chain)
  BY <1>0, <1>2 DEF Leaving, Types
<1>5. Orderly(chain') /\ (stage' = "free" /\ chain' # << >> /\ Head(chain').kind = "launch" => ~live'.session)
  <2>1. Orderly(Tail(chain)) /\ (Tail(chain) # << >> => Head(Tail(chain)).kind # "launch")
    BY <1>1, <1>2, OrderlySteps
  <2>2. Orderly(<<Op("launch", 0)>> \o Tail(chain))
    BY <1>1, <1>2, OrderlySteps, OpIs DEF Kinds
  <2> QED
    BY <1>1, <1>4, <2>1, <2>2
<1>6. Known'
  BY <1>0, <1>2, <1>3 DEF Known
<1>7. gone' \in SUBSET Items
  BY <1>0, <1>2, <1>6 DEF Types, Known
<1>8. Types'
  BY <1>0, <1>2, <1>3, <1>4, <1>5, <1>7 DEF Types, Orderly, Typed, Stages
<1>9. Flow'
  BY <1>0, <1>2, <1>4, <1>5 DEF Flow, Orderly, Submitting
<1> QED
  BY <1>6, <1>8, <1>9 DEF HostInv

LEMMA SessionEndedHost ==
  ASSUME HostInv, SessionEnded
  PROVE  HostInv'
<1>0. Types /\ Flow /\ Known
  BY DEF HostInv
<1>1. Orderly(chain)
  BY <1>0 DEF Types, Flow, Orderly
<1>2. /\ UNCHANGED <<queue, batch, ops, journal, hold, steering, steered, taken, cargo, promises, events,
                     reports, sent, gone, spent>>
      /\ stage \in {"stopping", "failing"} /\ stage' = "free" /\ disk' = Document'
      /\ chain' \in {Tail(chain), <<Op("launch", 0)>> \o Tail(chain)}
      /\ node' \in NodeType /\ live' \in LiveType /\ live'.session = live.session
      /\ provider' \in ProviderType /\ provider'.alive = FALSE
  BY <1>0, SessionEndedIs
<1>3. chain # << >> /\ ~live.session
  BY <1>0, <1>2 DEF Flow
<1>4. Orderly(chain')
  <2>1. Orderly(Tail(chain)) /\ Orderly(<<Op("launch", 0)>> \o Tail(chain))
    BY <1>1, <1>3, OrderlySteps, OpIs DEF Kinds
  <2> QED
    BY <1>2, <2>1
<1>5. disk' \in DiskType /\ Typed(disk'.queue) /\ (disk' = disk \/ disk'.queue = queue')
  BY <1>0, <1>2, SavedTypes DEF Types, Typed
<1>6. Known'
  BY <1>0, <1>2, <1>5 DEF Known
<1>7. Types'
  BY <1>0, <1>2, <1>4, <1>5 DEF Types, Orderly, Typed, Stages
<1>8. Flow'
  BY <1>0, <1>2, <1>3, <1>4 DEF Flow, Orderly, Submitting
<1> QED
  BY <1>6, <1>7, <1>8 DEF HostInv

LEMMA ProviderHost ==
  ASSUME HostInv, (\E n \in Turns : ProviderTakes(n)) \/ ProviderCompletes \/ ProviderExits
  PROVE  HostInv'
<1>0. Types /\ Flow /\ Known
  BY DEF HostInv
<1>1. /\ UNCHANGED <<node, queue, live, chain, stage, batch, ops, journal, hold, steering, steered, disk,
                     cargo, promises, reports, sent, gone>>
      /\ provider' \in ProviderType /\ (provider'.alive => provider.alive)
      /\ taken' \in SUBSET Turns /\ events' \in SUBSET SentTurns /\ spent' \in [Inputs -> Nat]
  <2>1. CASE \E n \in Turns : ProviderTakes(n)
    BY <1>0, <2>1, ProviderIs DEF Types
  <2>2. CASE ProviderCompletes
    BY <1>0, <2>2, ProviderIs DEF Types
  <2>3. CASE ProviderExits
    BY <1>0, <2>3, ProviderIs DEF Types, Spent
  <2> QED
    BY <2>1, <2>2, <2>3
<1>2. Known'
  BY <1>0, <1>1 DEF Known
<1>3. Types'
  BY <1>0, <1>1 DEF Types
<1>4. Flow'
  BY <1>0, <1>1 DEF Flow, Submitting
<1> QED
  BY <1>2, <1>3, <1>4 DEF HostInv
LEMMA OnCompletionHost ==
  ASSUME HostInv, NEW e \in events, OnCompletion(e)
  PROVE  HostInv'
<1>0. Types /\ Flow /\ Known
  BY DEF HostInv
<1>1. Orderly(chain)
  BY <1>0 DEF Types, Flow, Orderly
<1>2. /\ UNCHANGED <<queue, stage, batch, ops, journal, hold, steering, steered, provider, taken, cargo,
                     promises, sent, gone, spent>>
      /\ events' = events \ {e}
  BY <1>0, OnCompletionIs
<1>3. /\ node' \in NodeType /\ node'.state = node.state /\ live' \in LiveType /\ live'.session = live.session
      /\ reports' \in [Turns -> Nat] /\ disk' \in {disk, Document'}
      /\ \/ node' = node /\ live'.sub = live.sub /\ live'.active = live.active /\ chain' = chain
         \/ /\ node.turn = "running" /\ live.active # 0 /\ live'.sub = 0
            /\ chain' = Append(chain, Flush)
  BY <1>0, OnCompletionIs DEF Types, Finished
<1>4. /\ Orderly(chain') /\ (chain # << >> => chain' # << >> /\ Head(chain') = Head(chain))
      /\ (chain = << >> => chain' = << >> \/ Head(chain').kind = "flush")
  <2>1. CASE chain' = chain
    BY <1>1, <2>1
  <2>2. CASE chain' = Append(chain, Flush)
    BY <1>1, <2>2, FlushFollows
  <2> QED
    BY <1>3, <2>1, <2>2
<1>5. disk' \in DiskType /\ Typed(disk'.queue) /\ (disk' = disk \/ disk'.queue = queue')
  BY <1>0, <1>2, <1>3, SavedTypes DEF Types, Typed
<1>6. Known'
  BY <1>0, <1>2, <1>5 DEF Known
<1>7. Types'
  BY <1>0, <1>2, <1>3, <1>4, <1>5 DEF Types, Orderly, Typed
<1>8. Flow'
  BY <1>0, <1>2, <1>3, <1>4 DEF Flow, Orderly, Submitting
<1> QED
  BY <1>6, <1>7, <1>8 DEF HostInv

LEMMA OnInteractionHost ==
  ASSUME HostInv, OnInteraction
  PROVE  HostInv'
<1>0. Types /\ Flow /\ Known
  BY DEF HostInv
<1>1. /\ UNCHANGED <<queue, live, chain, stage, batch, ops, journal, hold, steering, steered, provider, taken,
                     cargo, promises, events, reports, sent, gone>>
      /\ disk' = Document' /\ Spent
      /\ node' \in NodeType /\ node'.state = node.state /\ node'.turn = node.turn
  BY <1>0, OnInteractionIs
<1>2. disk' \in DiskType /\ Typed(disk'.queue) /\ (disk' = disk \/ disk'.queue = queue')
  BY <1>0, <1>1, SavedTypes DEF Types, Typed
<1>3. Known'
  BY <1>0, <1>1, <1>2 DEF Known
<1>4. Types'
  BY <1>0, <1>1, <1>2 DEF Types, Typed, Spent
<1>5. Flow'
  BY <1>0, <1>1 DEF Flow, Submitting
<1> QED
  BY <1>3, <1>4, <1>5 DEF HostInv

LEMMA FlushedChain ==
  ASSUME Orderly(chain), NEW q \in {chain, Append(chain, Flush)}
  PROVE  /\ Orderly(q) /\ (chain # << >> => q # << >> /\ Head(q) = Head(chain))
         /\ (chain = << >> => q = << >> \/ Head(q).kind = "flush")
         /\ Elements(chain) \subseteq Elements(q)
<1>1. CASE q = chain
  BY <1>1
<1>2. CASE q = Append(chain, Flush)
  BY <1>2, OrderlySteps, FlushIs
<1> QED
  BY <1>1, <1>2

LEMMA PromiseKeptHost ==
  ASSUME HostInv, NEW p \in promises, PromiseKept(p), provider.event
  PROVE  HostInv'
<1>0. Types /\ Flow /\ Known
  BY DEF HostInv
<1>1. Orderly(chain)
  BY <1>0 DEF Types, Flow, Orderly
<1>2. /\ UNCHANGED <<queue, stage, batch, ops, journal, hold, steering, steered, provider, taken, cargo,
                     events, sent, gone, spent>>
      /\ ~Submitting /\ promises' = promises \ {p} /\ disk' \in {disk, Document'}
  BY <1>0, PromiseKeptIs DEF Settled, Submitting
<1>3. /\ node' \in NodeType /\ node'.state = node.state /\ live' \in LiveType /\ live'.session = live.session
      /\ reports' \in [Turns -> Nat] /\ live'.sub \in {live.sub, 0}
      /\ (node' = node \/ node'.turn = "idle")
      /\ chain' \in {chain, Append(chain, Flush)}
  BY <1>0, PromiseKeptIs DEF Types, Finished, Called
<1>4. /\ Orderly(chain') /\ (chain # << >> => chain' # << >> /\ Head(chain') = Head(chain))
      /\ (chain = << >> => chain' = << >> \/ Head(chain').kind = "flush")
  BY <1>1, <1>3, FlushedChain
<1>5. disk' \in DiskType /\ Typed(disk'.queue) /\ (disk' = disk \/ disk'.queue = queue')
  BY <1>0, <1>2, <1>3, SavedTypes DEF Types, Typed
<1>6. Known'
  BY <1>0, <1>2, <1>5 DEF Known
<1>7. Types'
  BY <1>0, <1>2, <1>3, <1>4, <1>5 DEF Types, Orderly, Typed
<1>8. Flow'
  BY <1>0, <1>2, <1>3, <1>4 DEF Flow, Orderly, Submitting
<1> QED
  BY <1>6, <1>7, <1>8 DEF HostInv

LEMMA FailedChain ==
  ASSUME Orderly(chain), NEW gen \in Nat, NEW q \in {chain, Append(chain, Flush)},
         chain' \in {q, Append(q, Op("fail", gen))}
  PROVE  /\ Orderly(chain') /\ (chain # << >> => chain' # << >> /\ Head(chain') = Head(chain))
         /\ (chain = << >> => chain' = << >> \/ Head(chain').kind # "launch")
         /\ Elements(chain) \subseteq Elements(chain')
         /\ chain' = Append(q, Op("fail", gen)) => Op("fail", gen) \in Elements(chain')
<1>1. /\ Orderly(q) /\ (chain # << >> => q # << >> /\ Head(q) = Head(chain))
      /\ (chain = << >> => q = << >> \/ Head(q).kind = "flush")
      /\ Elements(chain) \subseteq Elements(q)
  BY FlushedChain
<1>2. Op("fail", gen) \in ChainType /\ Op("fail", gen).kind = "fail"
  BY OpIs DEF Kinds
<1>3. CASE chain' = Append(q, Op("fail", gen))
  <2>1. /\ Orderly(chain') /\ chain' # << >>
        /\ Head(chain') = (IF q = << >> THEN Op("fail", gen) ELSE Head(q))
        /\ Elements(chain') = Elements(q) \cup {Op("fail", gen)}
    BY <1>1, <1>2, <1>3, OrderlySteps
  <2> QED
    BY <1>1, <1>2, <1>3, <2>1
<1>4. CASE chain' = q /\ chain' # Append(q, Op("fail", gen))
  BY <1>1, <1>4
<1> QED
  BY <1>3, <1>4

LEMMA TurnFailedHost ==
  ASSUME HostInv, NEW p \in promises, NEW uncertain \in BOOLEAN, NEW ended \in BOOLEAN,
         TurnFailed(p, uncertain, ended), provider.event
  PROVE  HostInv'
<1>0. Types /\ Flow /\ Known
  BY DEF HostInv
<1>1. Orderly(chain)
  BY <1>0 DEF Types, Flow, Orderly
<1>2. /\ UNCHANGED <<queue, stage, batch, ops, journal, hold, steering, steered, taken, cargo, events, sent>>
      /\ ~Submitting /\ promises' = promises \ {p} /\ disk' \in {disk, Document'} /\ Spent
      /\ provider' \in ProviderType /\ provider'.alive = provider.alive
      /\ p.turn \in Turns /\ p.gen \in Nat
  BY <1>0, TurnFailedIs DEF Settled, Submitting
<1>3. /\ node' \in NodeType /\ node'.state = node.state /\ live' \in LiveType /\ live'.session = live.session
      /\ reports' \in [Turns -> Nat] /\ live'.sub \in {live.sub, 0}
      /\ (node' = node \/ node'.turn = "idle")
      /\ gone' \in {gone, gone \cup cargo[p.turn]}
  BY <1>0, TurnFailedIs DEF Types, Finished
<1>4. /\ Orderly(chain') /\ (chain # << >> => chain' # << >> /\ Head(chain') = Head(chain))
      /\ (chain = << >> => chain' = << >> \/ Head(chain').kind # "launch")
  <2>1. PICK q \in {chain, Append(chain, Flush)} : chain' \in {q, Append(q, Op("fail", p.gen))}
    BY <1>0, TurnFailedIs
  <2> QED
    BY <1>1, <1>2, <2>1, FailedChain
<1>5. disk' \in DiskType /\ Typed(disk'.queue) /\ (disk' = disk \/ disk'.queue = queue')
  BY <1>0, <1>2, <1>3, SavedTypes DEF Types, Typed
<1>6. Known'
  BY <1>0, <1>2, <1>3, <1>5 DEF Known
<1>7. gone' \in SUBSET Items
  BY <1>0, <1>2, <1>6 DEF Types, Known
<1>8. Types'
  BY <1>0, <1>2, <1>3, <1>4, <1>5, <1>7 DEF Types, Orderly, Typed, Spent
<1>9. Flow'
  BY <1>0, <1>2, <1>3, <1>4 DEF Flow, Orderly, Submitting
<1> QED
  BY <1>6, <1>8, <1>9 DEF HostInv
LEMMA BoundariesHost ==
  ASSUME HostInv, Boundaries
  PROVE  HostInv'
<1>0. Types /\ Flow /\ Known
  BY DEF HostInv
<1>1. /\ UNCHANGED <<node, live, chain, stage, batch, provider, taken, cargo, promises, events, reports,
                     sent, gone>>
      /\ Spent /\ ops' \in [Requests -> Boundary] /\ hold' \in Nat
  BY <1>0, BoundariesIs
<1>2. /\ Typed(queue') /\ Elements(queue') \subseteq Elements(queue)
      /\ disk' \in DiskType /\ Typed(disk'.queue)
      /\ Elements(disk'.queue) \subseteq Elements(queue) \cup Elements(disk.queue)
      /\ journal' \in SUBSET Journaled /\ steering' \in SUBSET journal'
      /\ steered' \subseteq steered \cup Elements(queue)
  <2>1. /\ journal \in SUBSET Journaled /\ steering \in SUBSET journal
        /\ disk \in DiskType /\ Typed(disk.queue)
    BY <1>0 DEF Types, Typed, DiskType
  <2>2. \A q, saved : Written(q, saved) =>
                        disk' \in DiskType /\ Typed(disk'.queue) /\ disk'.queue = q
    BY DEF Written, Typed, DiskType
  <2>3. CASE Nothing
    BY <1>0, <2>1, <2>2, <2>3, QueuesAre DEF Nothing
  <2>4. CASE \E a \in Journaled : Steers(a)
    BY <1>0, <2>1, <2>2, <2>4, QueuesAre DEF Steers
  <2>5. CASE \E a \in steering : Accepts(a) \/ Doubts(a)
    <3>1. PICK a \in steering : Accepts(a) \/ Doubts(a)
      BY <2>5
    <3>2. With(a, "accepted") \in SUBSET Journaled /\ With(a, "unknown") \in SUBSET Journaled
      BY <1>0, WithIs
    <3>3. steering \ {a} \subseteq With(a, "accepted") /\ steering \ {a} \subseteq With(a, "unknown")
      BY <2>1 DEF With
    <3>4. CASE Accepts(a)
      BY <1>0, <2>1, <2>2, <3>2, <3>3, <3>4, QueuesAre DEF Accepts
    <3>5. CASE Doubts(a)
      BY <1>0, <2>1, <2>2, <3>2, <3>3, <3>5, QueuesAre DEF Doubts
    <3> QED
      BY <3>1, <3>4, <3>5
  <2> QED
    BY <1>0, <2>3, <2>4, <2>5, BoundariesIs
<1>3. Known'
  BY <1>0, <1>1, <1>2 DEF Known
<1>4. steered' \in SUBSET Items
  BY <1>0, <1>1, <1>3 DEF Types, Known
<1>5. Types'
  BY <1>0, <1>1, <1>2, <1>4 DEF Types, Typed, Spent
<1>6. Flow'
  BY <1>0, <1>1 DEF Flow, Submitting
<1> QED
  BY <1>3, <1>5, <1>6 DEF HostInv

LEMMA CrashHost ==
  ASSUME HostInv, Crash
  PROVE  HostInv'
<1>0. Types /\ Flow /\ Known
  BY DEF HostInv
<1>1. /\ UNCHANGED <<disk, taken, cargo, reports, sent, gone, steered>>
      /\ Spent /\ queue' = disk.queue /\ hold' = disk.hold /\ journal' \in SUBSET Journaled
      /\ node' \in NodeType /\ live' \in LiveType /\ live'.session = FALSE
      /\ chain' = << >> /\ stage' = "free" /\ batch' = << >>
      /\ ops' \in [Requests -> Boundary] /\ steering' = {} /\ promises' = {} /\ events' = {}
      /\ provider' \in ProviderType /\ provider'.alive = FALSE
  BY <1>0, CrashIs
<1>2. /\ Typed(disk.queue) /\ disk.hold \in Nat /\ Elements(<< >>) = {} /\ << >> \in Seq(ChainType)
      /\ << >> \in Seq(Items) /\ Len(<< >>) = 0 /\ 0 <= BatchSize /\ Lined(<< >>)
  BY <1>0, QueuesAre, ConstantsAssumption DEF Types, DiskType, Lined
<1>3. Known'
  BY <1>0, <1>1, <1>2 DEF Known
<1>4. Types'
  BY <1>0, <1>1, <1>2 DEF Types, Typed, Stages, Spent
<1>5. Flow'
  BY <1>1, <1>2 DEF Flow, Submitting
<1> QED
  BY <1>3, <1>4, <1>5 DEF HostInv

LEMMA Drives ==
  ASSUME HostInv, Driven, Next
  PROVE  provider'.event = provider.event /\ Driven'
<1>0. Types /\ Flow /\ (Submitting => live.sub \in Turns)
  BY DEF HostInv, Flow
<1>1. provider'.event = provider.event /\ (promises' \subseteq promises \/ provider.event)
  <2>1. CASE FlushQueue
    BY <1>0, <2>1, FlushQueueIs DEF Begun
  <2>2. CASE StartSession \/ Stop \/ Restart \/ EndDeadSession
    BY <1>0, <2>2, StartSessionIs, StopIs, RestartIs, EndDeadSessionIs
  <2>3. CASE FirstTurn
    BY <1>0, <2>3, FirstTurnIs DEF Begun
  <2>4. CASE SessionEnded
    BY <1>0, <2>4, SessionEndedIs
  <2>5. CASE TurnAccepted \/ TurnActive
    <3>1. Submitting
      BY <2>5 DEF TurnAccepted, TurnActive, Submitting
    <3> QED
      BY <1>0, <2>5, <3>1, TurnAcceptedIs, TurnActiveIs
  <2>6. CASE \E b \in BOOLEAN : TurnStarted(b) \/ TurnRefused(b)
    <3>1. PICK b \in BOOLEAN : TurnStarted(b) \/ TurnRefused(b)
      BY <2>6
    <3>2. Submitting
      BY <3>1 DEF TurnStarted, TurnRefused, Submitting
    <3> QED
      BY <1>0, <3>1, <3>2, TurnStartedIs, TurnRefusedIs, TurnActiveIs
  <2>7. CASE \E b \in BOOLEAN : Launched(b)
    BY <1>0, <2>7, LaunchedIs
  <2>8. CASE (\E n \in Turns : ProviderTakes(n)) \/ ProviderCompletes \/ ProviderExits
    BY <1>0, <2>8, ProviderIs
  <2>9. CASE OnInteraction \/ CheckWorkers
    BY <1>0, <2>9, OnInteractionIs, CheckWorkersIs
  <2>10. CASE \E e \in events : OnCompletion(e)
    BY <1>0, <2>10, OnCompletionIs
  <2>11. CASE \E p \in promises : PromiseKept(p)
    BY <1>0, <2>11, PromiseKeptIs
  <2>12. CASE \E p \in promises, u, e \in BOOLEAN : TurnFailed(p, u, e)
    BY <1>0, <2>12, TurnFailedIs
  <2>13. CASE Boundaries
    BY <1>0, <2>13, BoundariesIs
  <2>14. CASE \E m \in Items : Deliver(m)
    BY <1>0, <2>14, DeliverIs
  <2>15. CASE \E kind \in Commands : Command(kind)
    BY <1>0, <2>15, CommandIs
  <2>16. CASE Crash
    BY <1>0, <2>16, CrashIs
  <2> QED
    BY <2>1, <2>2, <2>3, <2>4, <2>5, <2>6, <2>7, <2>8, <2>9, <2>10, <2>11, <2>12, <2>13, <2>14, <2>15,
       <2>16 DEF Next, Operate, Worker, Outside
<1> QED
  BY <1>1 DEF Driven

LEMMA HostInit ==
  ASSUME Init
  PROVE  HostInv /\ Driven
<1>1. /\ node = [state |-> "starting", turn |-> "none", waiting |-> FALSE,
                 thread |-> FALSE, named |-> FALSE]
      /\ queue = << >>
      /\ live = [session |-> FALSE, gen |-> 0, sub |-> 0, active |-> 0,
                 early |-> FALSE, tries |-> 0]
      /\ chain = <<Op("launch", 0)>> /\ stage = "free" /\ batch = << >>
      /\ ops = [r \in Requests |-> NoBoundary]
      /\ journal = {} /\ hold = 0 /\ steering = {} /\ steered = {}
      /\ disk = [queue |-> << >>, journal |-> {}, hold |-> 0, thread |-> FALSE, named |-> FALSE]
      /\ \E e \in EventDrivers :
           provider = [alive |-> FALSE, event |-> e, gen |-> 0, turn |-> 0, next |-> 1]
      /\ taken = {} /\ cargo = [n \in Turns |-> {}] /\ promises = {} /\ events = {}
      /\ reports = [n \in Turns |-> 0] /\ sent = {} /\ gone = {}
      /\ spent = [w \in Inputs |-> 0]
  BY DEF Init
<1>2. 0 \in 0 .. MaxTurn /\ 0 \in 0 .. Attempts - 1 /\ 1 \in 1 .. MaxTurn + 1 /\ 0 <= MaxHeld /\ 0 <= BatchSize
  BY ConstantsAssumption
<1>3. Op("launch", 0) \in ChainType
  BY OpIs DEF Kinds
<1>4. /\ << >> \in Seq(Items) /\ Len(<< >>) = 0 /\ Elements(<< >>) = {}
      /\ chain \in Seq(ChainType) /\ chain # << >> /\ Lined(chain)
  <2>1. << >> \in Seq(Items) /\ Len(<< >>) = 0 /\ Elements(<< >>) = {}
    BY DEF Elements
  <2>2. chain \in Seq(ChainType) /\ chain # << >> /\ DOMAIN chain = {1}
    BY <1>1, <1>3
  <2> QED
    BY <2>1, <2>2 DEF Lined
<1>5. live \in LiveType /\ live.session = FALSE /\ node \in NodeType
  BY <1>1, <1>2 DEF LiveType, NodeType
<1>6. provider \in ProviderType /\ provider.alive = FALSE
  BY <1>1, <1>2 DEF ProviderType
<1>7. disk \in DiskType /\ Len(disk.queue) <= MaxHeld /\ disk.queue = << >>
  BY <1>1, <1>2, <1>4 DEF DiskType
<1>8. ops \in [Requests -> Boundary]
  BY <1>1, <1>2 DEF NoBoundary, Boundary
<1>9. Types
  BY <1>1, <1>2, <1>4, <1>5, <1>6, <1>7, <1>8 DEF Types, Stages
<1>10. Flow
  BY <1>1, <1>4, <1>5, <1>6 DEF Flow, Submitting
<1>11. Known
  BY <1>1, <1>4, <1>7 DEF Known
<1> QED
  BY <1>1, <1>9, <1>10, <1>11 DEF HostInv, Driven

LEMMA HostNext ==
  ASSUME HostInv, Driven, [Next]_vars
  PROVE  HostInv' /\ Driven'
<1>1. CASE UNCHANGED vars
  BY <1>1 DEF HostInv, Types, Flow, Known, Driven, Submitting, vars
<1>2. CASE Next
  <2>1. promises # {} => provider.event
    BY DEF Driven
  <2>2. HostInv'
    <3>1. CASE FlushQueue \/ StartSession \/ FirstTurn \/ SessionEnded \/ TurnAccepted
      BY <3>1, FlushQueueHost, StartSessionHost, FirstTurnHost, SessionEndedHost, TurnAcceptedHost
    <3>2. CASE Stop \/ Restart \/ EndDeadSession
      BY <3>2, StopHost
    <3>3. CASE TurnActive \/ \E b \in BOOLEAN : TurnStarted(b) \/ TurnRefused(b)
      BY <3>3, TurnStartedHost, TurnRefusedHost
    <3>4. CASE \E b \in BOOLEAN : Launched(b)
      BY <3>4, LaunchedHost
    <3>5. CASE (\E n \in Turns : ProviderTakes(n)) \/ ProviderCompletes \/ ProviderExits
      BY <3>5, ProviderHost
    <3>6. CASE OnInteraction \/ CheckWorkers
      BY <3>6, OnInteractionHost, CommandHost
    <3>7. CASE \E e \in events : OnCompletion(e)
      BY <3>7, OnCompletionHost
    <3>8. CASE \E p \in promises : PromiseKept(p)
      BY <2>1, <3>8, PromiseKeptHost
    <3>9. CASE \E p \in promises, u, e \in BOOLEAN : TurnFailed(p, u, e)
      BY <2>1, <3>9, TurnFailedHost
    <3>10. CASE Boundaries
      BY <3>10, BoundariesHost
    <3>11. CASE \E m \in Items : Deliver(m)
      BY <3>11, DeliverHost
    <3>12. CASE \E kind \in Commands : Command(kind)
      BY <3>12, CommandHost
    <3>13. CASE Crash
      BY <3>13, CrashHost
    <3> QED
      BY <1>2, <3>1, <3>2, <3>3, <3>4, <3>5, <3>6, <3>7, <3>8, <3>9, <3>10, <3>11, <3>12, <3>13
         DEF Next, Operate, Worker, Outside
  <2> QED
    BY <1>2, <2>2, Drives
<1> QED
  BY <1>1, <1>2

LEMMA HostAlways == Spec => [](HostInv /\ Driven)
BY HostInit, HostNext, PTL DEF Spec

\* What a program has taken it has taken for good, and the host gives up no more.
LEMMA Disowns ==
  ASSUME [Next]_vars
  PROVE  taken \subseteq taken' /\ disowned \subseteq disowned' /\ disowned' \subseteq disowned \cup taken
<1>1. CASE UNCHANGED vars
  BY <1>1 DEF vars
<1>2. CASE \/ FlushQueue \/ StartSession \/ FirstTurn \/ Stop \/ Restart \/ EndDeadSession
           \/ SessionEnded \/ TurnAccepted \/ TurnActive \/ \E b \in BOOLEAN : TurnStarted(b) \/ Launched(b)
  BY <1>2 DEF FlushQueue, StartSession, FirstTurn, Stop, Restart, EndDeadSession, SessionEnded, TurnAccepted,
              TurnActive, TurnStarted, Launched, outside, history
<1>3. CASE Crash \/ \E b \in BOOLEAN : TurnRefused(b)
  BY <1>3 DEF Crash, TurnRefused, Disown, outside
<1>4. CASE Worker
  BY <1>4 DEF Worker, ProviderTakes, ProviderCompletes, ProviderExits, OnInteraction, CheckWorkers, OnCompletion,
              PromiseKept, TurnFailed, outside, history
<1>5. CASE Boundaries
  BY <1>5 DEF Boundaries, EndBoundary, Steer, BeginBoundary, SteerAccepted, SteerUnknown, Checkpoint, Release,
              outside, history
<1>6. CASE Outside
  BY <1>6 DEF Outside, Deliver, Command, outside, history
<1> QED
  BY <1>1, <1>2, <1>3, <1>4, <1>5, <1>6 DEF Next, Operate

\* The state is always of its type, and nothing is queued, removed or given to
\* the worker that was not delivered to it (deliver(), MAX_HELD).
THEOREM Typing == Spec => []TypeOK
<1>1. HostInv /\ disowned \subseteq taken => TypeOK
  BY DEF HostInv, Types, Flow, Known, TypeOK, NodeType, LiveType, ChainType, ProviderType, SentTurns
<1>2. Init => disowned \subseteq taken
  BY DEF Init
<1>3. disowned \subseteq taken /\ [Next]_vars => (disowned \subseteq taken)'
  BY Disowns
<1> QED
  BY <1>1, <1>2, <1>3, HostAlways, PTL DEF Spec
-----------------------------------------------------------------------------
(* The turn that runs *)

\* A session turnFailed() has given up is still to be ended.
Failing == Op("fail", live.gen) \in Elements(chain)

\* Every submission has a number of its own, and only the one that has not been
\* reported can be the one the host knows of.
Numbers ==
  /\ live.sub < provider.next /\ live.active \in {0, live.sub}
  /\ \A n \in taken : n < provider.next
  /\ \A p \in promises : /\ p.turn < provider.next /\ p.gen <= live.gen
                         /\ stage = "launching" => p.gen < live.gen
                         /\ Submitting => p.turn # live.sub
  /\ \A n \in Turns : /\ reports[n] <= 1
                      /\ n >= provider.next \/ n = live.sub => reports[n] = 0
  /\ provider.gen <= live.gen /\ (live.session => provider.gen = live.gen)

\* What an event or a buffered completion says of a turn: it is over.
Ended ==
  /\ provider.turn # 0 => provider.turn \in taken /\ provider.alive
  /\ \A e \in events : e.turn \in taken /\ e.turn # provider.turn
  /\ live.early => live.sub \in taken /\ live.sub # provider.turn

\* The host's record and the program's turn.
Knows ==
  /\ provider.turn # 0 /\ (~provider.event \/ (live.session /\ ~Failing)) =>
       (node.turn = "running" /\ live.sub = provider.turn) \/ provider.turn \in disowned
  /\ \A p \in promises : live.session /\ p.gen = live.gen /\ p.turn \notin taken =>
       node.turn = "running" /\ live.sub = p.turn

TurnInv == Numbers /\ Ended /\ Knows

LEMMA TurnTypes ==
  ASSUME Types
  PROVE  /\ live.sub \in Nat /\ live.active \in Nat /\ live.gen \in Nat /\ live.early \in BOOLEAN
         /\ live.sub = 0 \/ live.sub \in Turns
         /\ provider.next \in Nat \ {0} /\ provider.gen \in Nat /\ provider.turn \in Nat
         /\ provider.turn = 0 \/ provider.turn \in Turns
         /\ \A p \in promises : p.turn \in Turns /\ p.gen \in Nat
         /\ \A e \in events : e.turn \in Turns /\ e.gen \in Nat
         /\ taken \subseteq Turns /\ reports \in [Turns -> Nat]
         /\ \A n \in Turns : n \in Nat \ {0} /\ reports[n] \in Nat
         /\ \A p, q \in promises : p.gen = q.gen /\ p.turn = q.turn => p = q
<1>1. live \in LiveType /\ provider \in ProviderType /\ MaxTurn \in Nat
  BY ConstantsAssumption DEF Types
<1>2. /\ live.sub \in Nat /\ live.active \in Nat /\ live.gen \in Nat /\ live.early \in BOOLEAN
      /\ live.sub = 0 \/ live.sub \in Turns
  BY <1>1 DEF LiveType, Turns
<1>3. /\ provider.next \in Nat \ {0} /\ provider.gen \in Nat /\ provider.turn \in Nat
      /\ provider.turn = 0 \/ provider.turn \in Turns
  BY <1>1 DEF ProviderType, Turns
<1>4. promises \in SUBSET SentTurns /\ events \in SUBSET SentTurns /\ taken \subseteq Turns
      /\ reports \in [Turns -> Nat]
  BY DEF Types
<1>5. \A p, q \in promises : p.gen = q.gen /\ p.turn = q.turn => p = q
  BY <1>4 DEF SentTurns
<1>6. \A n \in Turns : n \in Nat \ {0} /\ reports[n] \in Nat
  BY <1>1, <1>4 DEF Turns
<1>7. /\ \A p \in promises : p.turn \in Turns /\ p.gen \in Nat
      /\ \A e \in events : e.turn \in Turns /\ e.gen \in Nat
  BY <1>4 DEF SentTurns
<1> QED
  BY <1>2, <1>3, <1>4, <1>5, <1>6, <1>7

LEMMA TurnInit ==
  ASSUME Init
  PROVE  TurnInv
<1>1. /\ live.sub = 0 /\ live.active = 0 /\ live.gen = 0 /\ live.session = FALSE /\ live.early = FALSE
      /\ provider.next = 1 /\ provider.gen = 0 /\ provider.turn = 0 /\ stage = "free"
      /\ taken = {} /\ promises = {} /\ events = {} /\ reports = [n \in Turns |-> 0]
  BY DEF Init
<1>2. Numbers
  BY <1>1 DEF Numbers, Submitting
<1> QED
  BY <1>1, <1>2 DEF TurnInv, Ended, Knows

\* Steps that neither begin nor end a turn or a session.
LEMMA Quiet ==
  ASSUME Types, TurnInv, disowned \subseteq disowned',
         UNCHANGED <<live, provider, taken, promises, reports>>, events' \subseteq events,
         node'.turn = node.turn, stage' \in {stage, "free"}, Failing => Failing'
  PROVE  TurnInv'
<1>1. Numbers'
  BY DEF TurnInv, Numbers, Submitting
<1>2. Ended'
  BY DEF TurnInv, Ended
<1>3. Knows'
  BY DEF TurnInv, Knows
<1> QED
  BY <1>1, <1>2, <1>3 DEF TurnInv

\* endSession(): the turn is left to the program until its end.
LEMMA LeavingTurn ==
  ASSUME Types, TurnInv, disowned \subseteq disowned', NEW next \in {"stopping", "failing"},
         Leaving(live.sub, live.active, live.early, next),
         UNCHANGED <<provider, taken, promises, reports, events>>, node'.turn = node.turn
  PROVE  TurnInv'
<1>1. /\ live'.session = FALSE /\ live'.gen = live.gen + 1 /\ live'.sub = live.sub
      /\ live'.active = live.active /\ live'.early = live.early
      /\ stage' \notin {"launching", "first", "sending"}
  BY DEF Leaving
<1>2. Numbers'
  BY <1>1, TurnTypes DEF TurnInv, Numbers, Submitting
<1>3. Ended'
  BY <1>1 DEF TurnInv, Ended
<1>4. Knows'
  BY <1>1 DEF TurnInv, Knows
<1> QED
  BY <1>2, <1>3, <1>4 DEF TurnInv

\* submitTurn(): an idle worker's program works on no turn the host can end.
LEMMA BegunTurn ==
  ASSUME Types, TurnInv, disowned \subseteq disowned', NEW items, NEW next \in {"first", "sending"}, Begun(items, next),
         live.session, node.turn = "idle",
         UNCHANGED <<chain, taken, promises, reports, events>>
  PROVE  TurnInv'
<1>1. /\ live'.session = live.session /\ live'.gen = live.gen /\ live'.sub = provider.next
      /\ live'.active = 0 /\ live'.early = FALSE /\ node'.turn = "running"
      /\ provider'.next = provider.next + 1 /\ provider'.turn = provider.turn
      /\ provider'.alive = provider.alive /\ provider'.event = provider.event
      /\ provider'.gen = provider.gen /\ stage' # "launching" /\ provider.next \in Turns
  BY DEF Begun
<1>2. Numbers'
  <2>1. \A p \in promises : p.turn < provider.next + 1 /\ p.gen <= live.gen /\ p.turn # provider.next
    BY TurnTypes DEF TurnInv, Numbers
  <2>2. \A n \in taken : n < provider.next + 1
    BY TurnTypes DEF TurnInv, Numbers
  <2>3. \A n \in Turns : /\ reports[n] <= 1
                         /\ n >= provider.next + 1 \/ n = provider.next => reports[n] = 0
    BY TurnTypes DEF TurnInv, Numbers
  <2>4. provider.next < provider.next + 1
    BY TurnTypes
  <2>5. provider.gen <= live.gen /\ (live.session => provider.gen = live.gen)
    BY DEF TurnInv, Numbers
  <2> QED
    BY <1>1, <2>1, <2>2, <2>3, <2>4, <2>5 DEF Numbers, Submitting
<1>3. Ended'
  BY <1>1 DEF TurnInv, Ended
<1>4. Knows'
  <2>1. Failing' <=> Failing
    BY <1>1 DEF Failing
  <2> QED
    BY <1>1, <2>1 DEF TurnInv, Knows
<1> QED
  BY <1>2, <1>3, <1>4 DEF TurnInv

\* completeTurn(): the turn of the host's record is over, in the program too.
LEMMA FinishedTurn ==
  ASSUME Types, TurnInv, disowned \subseteq disowned', live.sub \in Turns, Finished(live.sub), node.turn = "running",
         UNCHANGED <<taken>>, events' \subseteq events, promises' \subseteq promises,
         stage' \in {stage, "free"},
         provider'.next = provider.next, provider'.gen = provider.gen, provider'.event = provider.event,
         provider'.alive = provider.alive, provider'.turn \in {provider.turn, 0},
         provider'.turn # live.sub \/ (provider.event /\ Failing'),
         \A p \in promises' : p.gen = live.gen /\ p.turn = live.sub => p.turn \in taken,
         Failing => Failing'
  PROVE  TurnInv'
<1>1. /\ live'.session = live.session /\ live'.gen = live.gen /\ live'.sub = 0
      /\ live'.active = 0 /\ live'.early = FALSE /\ node'.turn = "idle"
      /\ reports' \in [Turns -> Nat] /\ reports'[live.sub] = reports[live.sub] + 1
      /\ \A k \in Turns \ {live.sub} : reports'[k] = reports[k]
  BY DEF Finished
<1>2. Numbers'
  <2>1. live.sub < provider.next /\ reports[live.sub] = 0
    BY DEF TurnInv, Numbers
  <2>2. \A n \in Turns : /\ reports'[n] <= 1
                         /\ n >= provider.next \/ n = 0 => reports'[n] = 0
    <3> SUFFICES ASSUME NEW n \in Turns
                 PROVE  reports'[n] <= 1 /\ (n >= provider.next \/ n = 0 => reports'[n] = 0)
      OBVIOUS
    <3>1. CASE n = live.sub
      BY <1>1, <2>1, <3>1, TurnTypes
    <3>2. CASE n # live.sub
      BY <1>1, <3>2, TurnTypes DEF TurnInv, Numbers
    <3> QED
      BY <3>1, <3>2
  <2>3. 0 < provider.next
    BY TurnTypes
  <2>4. \A p \in promises' : p.turn # 0
    BY TurnTypes
  <2>5. \A p \in promises' : p.turn < provider.next /\ p.gen <= live.gen /\ (stage = "launching" => p.gen < live.gen)
    BY DEF TurnInv, Numbers
  <2>6. /\ \A n \in taken : n < provider.next
        /\ provider.gen <= live.gen /\ (live.session => provider.gen = live.gen)
    BY DEF TurnInv, Numbers
  <2>7. stage' = "launching" => stage = "launching"
    OBVIOUS
  <2> QED
    BY <1>1, <2>2, <2>3, <2>4, <2>5, <2>6, <2>7 DEF Numbers
<1>3. Ended'
  <2>1. \A e \in events' : e.turn \in taken /\ e.turn # provider.turn /\ e.turn # 0
    BY TurnTypes DEF TurnInv, Ended
  <2> QED
    BY <1>1, <2>1 DEF TurnInv, Ended
<1>4. Knows'
  <2>1. \/ provider'.turn = 0 \/ (provider.event /\ (~live.session \/ Failing'))
        \/ provider'.turn \in disowned'
    BY DEF TurnInv, Knows
  <2>2. \A p \in promises' : ~(live.session /\ p.gen = live.gen /\ p.turn \notin taken)
    BY DEF TurnInv, Knows
  <2> QED
    BY <1>1, <2>1, <2>2 DEF Knows
<1> QED
  BY <1>2, <1>3, <1>4 DEF TurnInv
\* The turn gets its name, or the operation ends without it.
LEMMA CalledTurn ==
  ASSUME Types, TurnInv, disowned \subseteq disowned', NEW turn \in {0, live.sub}, Called(turn), node'.turn = node.turn,
         UNCHANGED <<provider, taken, reports, events>>, promises' \subseteq promises,
         stage' \in {stage, "free"}, (Failing => Failing') \/ ~provider.event
  PROVE  TurnInv'
<1>1. /\ live'.session = live.session /\ live'.gen = live.gen /\ live'.sub = live.sub
      /\ live'.active = turn /\ live'.early = live.early
  BY DEF Called
<1>2. Numbers'
  BY <1>1 DEF TurnInv, Numbers, Submitting
<1>3. Ended'
  BY <1>1 DEF TurnInv, Ended
<1>4. Knows'
  BY <1>1 DEF TurnInv, Knows
<1> QED
  BY <1>2, <1>3, <1>4 DEF TurnInv

LEMMA FailingStays ==
  ASSUME HostInv, chain # << >>, Head(chain).kind # "fail" \/ Head(chain).gen # live.gen,
         NEW q, \/ q = Tail(chain)
                \/ q = <<Flush>> \o Tail(chain)
                \/ q = <<Op("launch", 0)>> \o Tail(chain)
                \/ q = Append(Tail(chain), Flush)
  PROVE  Failing => Op("fail", live.gen) \in Elements(q)
<1>1. Orderly(chain)
  BY DEF HostInv, Types, Flow, Orderly
<1>2. Head(chain) # Op("fail", live.gen)
  BY DEF Op
<1>3. Orderly(Tail(chain)) /\ Elements(chain) = {Head(chain)} \cup Elements(Tail(chain))
  BY <1>1, OrderlySteps
<1>4. Failing => Op("fail", live.gen) \in Elements(Tail(chain))
  BY <1>2, <1>3 DEF Failing
<1>5. /\ Elements(<<Flush>> \o Tail(chain)) = Elements(Tail(chain)) \cup {Flush}
      /\ Elements(<<Op("launch", 0)>> \o Tail(chain)) = Elements(Tail(chain)) \cup {Op("launch", 0)}
  BY <1>1, OrderlySteps, FlushIs, OpIs DEF Kinds
<1>6. Elements(Append(Tail(chain), Flush)) = Elements(Tail(chain)) \cup {Flush}
  <2>1. Flush \in ChainType /\ Flush.kind # "launch"
    BY FlushIs
  <2>2. \A e \in ChainType : e.kind # "launch" =>
            Elements(Append(Tail(chain), e)) = Elements(Tail(chain)) \cup {e}
    BY <1>3, OrderlySteps, ZenonT(60)
  <2> QED
    BY <2>1, <2>2
<1> QED
  BY <1>4, <1>5, <1>6

LEMMA FailingQueued ==
  ASSUME HostInv, NEW op \in ChainType, op.kind # "launch"
  PROVE  Failing => Op("fail", live.gen) \in Elements(Append(chain, op))
<1>1. Orderly(chain)
  BY DEF HostInv, Types, Flow, Orderly
<1>2. Elements(Append(chain, op)) = Elements(chain) \cup {op}
  BY <1>1, OrderlySteps
<1> QED
  BY <1>2 DEF Failing

LEMMA OutsideTurn ==
  ASSUME HostInv, TurnInv, disowned \subseteq disowned', Outside \/ CheckWorkers \/ OnInteraction \/ Boundaries
  PROVE  TurnInv'
<1>0. Types
  BY DEF HostInv
<1>1. CASE \E m \in Items : Deliver(m)
  <2>1. /\ UNCHANGED <<live, provider, taken, promises, reports, events, node, stage>>
        /\ chain' \in {chain, Append(chain, Flush)}
    BY <1>0, <1>1, DeliverIs
  <2>2. Failing => Failing'
    BY <2>1, FailingQueued, FlushIs DEF Failing
  <2> QED
    BY <1>0, <2>1, <2>2, Quiet
<1>2. CASE (\E kind \in Commands : Command(kind)) \/ CheckWorkers
  <2>1. PICK op \in ChainType :
          /\ UNCHANGED <<live, provider, taken, promises, reports, events, node, stage>>
          /\ chain' = Append(chain, op) /\ op.kind # "launch"
    BY <1>0, <1>2, CommandIs, CheckWorkersIs
  <2>2. Failing => Failing'
    BY <2>1, FailingQueued DEF Failing
  <2> QED
    BY <1>0, <2>1, <2>2, Quiet
<1>3. CASE OnInteraction
  <2>1. /\ UNCHANGED <<live, provider, taken, promises, reports, events, chain, stage>>
        /\ node'.turn = node.turn
    BY <1>0, <1>3, OnInteractionIs
  <2> QED
    BY <1>0, <2>1, Quiet DEF Failing
<1>4. CASE Boundaries
  <2>1. UNCHANGED <<live, provider, taken, promises, reports, events, chain, stage, node>>
    BY <1>0, <1>4, BoundariesIs
  <2> QED
    BY <1>0, <2>1, Quiet DEF Failing
<1> QED
  BY <1>1, <1>2, <1>3, <1>4 DEF Outside

LEMMA FlushQueueTurn ==
  ASSUME HostInv, TurnInv, disowned \subseteq disowned', FlushQueue \/ FirstTurn
  PROVE  TurnInv'
<1>0. Types /\ Flow
  BY DEF HostInv
<1>1. CASE FlushQueue
  <2>1. /\ UNCHANGED <<taken, promises, events, reports>>
        /\ stage = "free" /\ chain # << >> /\ Head(chain).kind = "flush"
    BY <1>0, <1>1, FlushQueueIs
  <2>2. CASE Dropped /\ UNCHANGED <<node, live, provider, cargo>>
    <3>1. Failing => Failing'
      BY <2>1, <2>2, FailingStays DEF Failing, Dropped
    <3> QED
      BY <1>0, <2>1, <2>2, <3>1, Quiet DEF Dropped
  <2>3. CASE /\ Begun(AtMost(BatchSize, queue'), "sending") /\ chain' = chain
             /\ live.session /\ node.turn = "idle"
    BY <1>0, <2>1, <2>3, BegunTurn
  <2> QED
    BY <1>0, <1>1, <2>2, <2>3, FlushQueueIs
<1>2. CASE FirstTurn
  <2>1. UNCHANGED <<taken, promises, events, reports>> /\ stage = "opening" /\ chain' = chain
    BY <1>0, <1>2, FirstTurnIs
  <2>2. live.session /\ node.turn = "idle"
    BY <1>0, <2>1 DEF Flow
  <2>3. CASE Begun(<< >>, "first")
    BY <1>0, <2>1, <2>2, <2>3, BegunTurn
  <2>4. CASE Leaving(live.sub, live.active, live.early, "failing") /\ UNCHANGED <<node, provider, cargo>>
    BY <1>0, <2>1, <2>4, LeavingTurn
  <2> QED
    BY <1>0, <1>2, <2>3, <2>4, FirstTurnIs
<1> QED
  BY <1>1, <1>2

LEMMA StopTurn ==
  ASSUME HostInv, TurnInv, disowned \subseteq disowned', Stop \/ Restart \/ EndDeadSession
  PROVE  TurnInv'
<1>0. Types /\ Flow
  BY DEF HostInv
<1>1. /\ UNCHANGED <<node, provider, taken, promises, events, reports>> /\ stage = "free" /\ chain # << >>
      /\ \/ Leaving(live.sub, live.active, live.early, "stopping")
         \/ Leaving(live.sub, live.active, live.early, "failing")
         \/ /\ live' = live /\ stage' = "free" /\ (Head(chain).kind # "fail" \/ Head(chain).gen # live.gen)
            /\ chain' = Tail(chain) \/ chain' = <<Op("launch", 0)>> \o Tail(chain)
  BY <1>0, StopIs, RestartIs, EndDeadSessionIs DEF Dropped
<1>2. CASE /\ live' = live /\ stage' = "free" /\ (Head(chain).kind # "fail" \/ Head(chain).gen # live.gen)
           /\ chain' = Tail(chain) \/ chain' = <<Op("launch", 0)>> \o Tail(chain)
  <2>1. Failing => Failing'
    BY <1>1, <1>2, FailingStays DEF Failing
  <2> QED
    BY <1>0, <1>1, <1>2, <2>1, Quiet
<1>3. CASE Leaving(live.sub, live.active, live.early, "stopping")
           \/ Leaving(live.sub, live.active, live.early, "failing")
  BY <1>0, <1>1, <1>3, LeavingTurn
<1> QED
  BY <1>1, <1>2, <1>3

LEMMA TurnAcceptedTurn ==
  ASSUME HostInv, Driven, TurnInv, disowned \subseteq disowned', TurnAccepted
  PROVE  TurnInv'
<1>0. Types /\ Flow
  BY DEF HostInv
<1>1. live.sub \in Turns /\ chain # << >> /\ live.session /\ node.turn = "running"
  BY <1>0 DEF TurnAccepted, Flow, Submitting
<1>2. /\ UNCHANGED <<provider, taken, promises, events>>
      /\ ~provider.event /\ stage' = "free"
      /\ \/ live.early /\ Finished(live.sub) /\ chain' = Append(Tail(chain), Flush)
         \/ Called(live.sub) /\ node' = node /\ reports' = reports /\ chain' = Tail(chain)
  BY <1>0, <1>1, TurnAcceptedIs
<1>3. Head(chain).kind # "fail"
  BY <1>0 DEF TurnAccepted, Flow
<1>4. Failing => Failing'
  <2>1. live'.gen = live.gen
    BY <1>2 DEF Finished, Called
  <2> QED
    BY <1>1, <1>2, <1>3, <2>1, FailingStays DEF Failing
<1>5. CASE live.early /\ Finished(live.sub)
  <2>1. promises = {} /\ provider.turn # live.sub
    BY <1>2, <1>5 DEF Driven, TurnInv, Ended
  <2> QED
    BY <1>0, <1>1, <1>2, <1>4, <1>5, <2>1, FinishedTurn
<1>6. CASE Called(live.sub) /\ node' = node /\ reports' = reports
  BY <1>0, <1>2, <1>6, CalledTurn
<1> QED
  BY <1>2, <1>5, <1>6

LEMMA TurnStartedTurn ==
  ASSUME HostInv, TurnInv, disowned \subseteq disowned', NEW named \in BOOLEAN, TurnStarted(named)
  PROVE  TurnInv'
<1>0. Types /\ Flow
  BY DEF HostInv
<1>1. live.sub \in Turns /\ chain # << >> /\ live.session /\ node.turn = "running" /\ Head(chain).kind # "fail"
  BY <1>0 DEF TurnStarted, Flow, Submitting
<1>2. /\ UNCHANGED <<node, provider, taken, events, reports>>
      /\ chain' = Tail(chain) /\ stage' = "free" /\ (Called(live.sub) \/ Called(0))
      /\ promises' = promises \cup {[gen |-> live.gen, turn |-> live.sub]}
  BY <1>0, <1>1, TurnStartedIs DEF Dropped
<1>3. PICK turn \in {0, live.sub} :
        /\ live'.session = live.session /\ live'.gen = live.gen /\ live'.sub = live.sub
        /\ live'.active = turn /\ live'.early = live.early
  BY <1>2 DEF Called
<1>4. Failing => Failing'
  BY <1>1, <1>2, <1>3, FailingStays DEF Failing
<1>5. \A p \in promises' : p \in promises \/ (p.gen = live.gen /\ p.turn = live.sub)
  BY <1>2
<1>6. Numbers'
  BY <1>2, <1>3, <1>5, TurnTypes, <1>0 DEF TurnInv, Numbers, Submitting
<1>7. Ended'
  BY <1>2, <1>3 DEF TurnInv, Ended
<1>8. Knows'
  BY <1>1, <1>2, <1>3, <1>4, <1>5 DEF TurnInv, Knows
<1> QED
  BY <1>6, <1>7, <1>8 DEF TurnInv

LEMMA TurnRefusedTurn ==
  ASSUME HostInv, TurnInv, disowned \subseteq disowned', NEW ended \in BOOLEAN,
         TurnRefused(ended) \/ TurnActive
  PROVE  TurnInv'
<1>0. Types /\ Flow
  BY DEF HostInv
<1>1. /\ live.sub \in Turns /\ chain # << >> /\ live.session /\ node.turn = "running"
      /\ Head(chain).kind # "fail" /\ Submitting
  BY <1>0 DEF TurnRefused, TurnActive, Flow, Submitting
<1>2. /\ UNCHANGED <<provider, taken, promises, events>>
      /\ node'.turn = "idle" /\ {live.sub} \cap taken \subseteq disowned'
      /\ \/ reports' = reports
         \/ /\ reports' \in [Turns -> Nat] /\ reports'[live.sub] = reports[live.sub] + 1
            /\ \A k \in Turns \ {live.sub} : reports'[k] = reports[k]
      /\ live'.sub = 0 /\ live'.active = 0 /\ live'.early = FALSE
      /\ \/ live'.session = FALSE /\ live'.gen = live.gen + 1 /\ stage' = "failing"
         \/ live'.session = live.session /\ live'.gen = live.gen /\ stage' = "free"
  BY <1>0, <1>1, TurnRefusedIs, TurnActiveIs DEF Leaving, Dropped
<1>3. provider.turn = 0 \/ (provider.event /\ Failing /\ live.session) \/ provider.turn \in disowned'
  <2>1. provider.turn # 0 => provider.turn \in taken
    BY DEF TurnInv, Ended
  <2> QED
    BY <1>1, <1>2, <2>1 DEF TurnInv, Knows
<1>4. live'.session => (Failing => Failing')
  <2>1. live'.session => chain' = Tail(chain) /\ live'.gen = live.gen
    BY <1>0, <1>1, TurnRefusedIs, TurnActiveIs DEF Leaving, Dropped
  <2> QED
    BY <1>1, <2>1, FailingStays DEF Failing
<1>5. Numbers'
  <2>1. live.sub < provider.next /\ reports[live.sub] = 0
    BY <1>1 DEF TurnInv, Numbers
  <2>2. \A n \in Turns : /\ reports'[n] <= 1
                         /\ n >= provider.next \/ n = 0 => reports'[n] = 0
    <3> SUFFICES ASSUME NEW n \in Turns
                 PROVE  reports'[n] <= 1 /\ (n >= provider.next \/ n = 0 => reports'[n] = 0)
      OBVIOUS
    <3>1. CASE n = live.sub
      BY <1>0, <1>2, <2>1, <3>1, TurnTypes
    <3>2. CASE n # live.sub
      BY <1>0, <1>2, <3>2, TurnTypes DEF TurnInv, Numbers
    <3> QED
      BY <3>1, <3>2
  <2>3. 0 < provider.next
    BY <1>0, TurnTypes
  <2>4. \A p \in promises : p.turn < provider.next /\ p.gen <= live'.gen
    BY <1>0, <1>2, TurnTypes DEF TurnInv, Numbers
  <2>5. /\ \A n \in taken : n < provider.next
        /\ provider.gen <= live'.gen /\ (live'.session => provider.gen = live'.gen)
    <3>1. /\ \A n \in taken : n < provider.next
          /\ provider.gen <= live.gen /\ (live.session => provider.gen = live.gen)
      BY DEF TurnInv, Numbers
    <3>2. provider.gen \in Nat /\ live.gen \in Nat
      BY <1>0, TurnTypes
    <3> QED
      BY <1>2, <3>1, <3>2
  <2> QED
    BY <1>2, <2>2, <2>3, <2>4, <2>5 DEF Numbers, Submitting
<1>6. Ended'
  BY <1>2 DEF TurnInv, Ended
<1>7. Knows'
  <2>1. \A p \in promises : ~(live.session /\ p.gen = live.gen /\ p.turn \notin taken)
    BY <1>1 DEF TurnInv, Knows, Numbers
  <2>2. \A p \in promises : ~(live'.session /\ p.gen = live'.gen /\ p.turn \notin taken)
    BY <1>2, <2>1
  <2> QED
    BY <1>2, <1>3, <1>4, <2>2 DEF Knows
<1> QED
  BY <1>5, <1>6, <1>7 DEF TurnInv
LEMMA StartSessionTurn ==
  ASSUME HostInv, TurnInv, disowned \subseteq disowned', StartSession
  PROVE  TurnInv'
<1>0. Types /\ Flow
  BY DEF HostInv
<1>1. /\ UNCHANGED <<provider, taken, promises, events, reports>>
      /\ stage = "free" /\ chain # << >> /\ Head(chain).kind \in {"launch", "resume", "assign"}
      /\ \/ Dropped /\ UNCHANGED <<node, live>>
         \/ /\ Head(chain).kind = "launch" \/ ~live.session
            /\ stage' = "launching" /\ live'.session = FALSE /\ live'.gen = live.gen + 1
            /\ live'.sub = 0 /\ live'.active = 0 /\ live'.early = FALSE
  BY <1>0, StartSessionIs
<1>2. CASE Dropped /\ UNCHANGED <<node, live>>
  <2>1. Failing => Failing'
    BY <1>1, <1>2, FailingStays DEF Failing, Dropped
  <2> QED
    BY <1>0, <1>1, <1>2, <2>1, Quiet DEF Dropped
<1>3. CASE /\ Head(chain).kind = "launch" \/ ~live.session
           /\ stage' = "launching" /\ live'.session = FALSE /\ live'.gen = live.gen + 1
           /\ live'.sub = 0 /\ live'.active = 0 /\ live'.early = FALSE
  <2>1. ~provider.alive
    BY <1>0, <1>1, <1>3 DEF Flow
  <2>2. provider.turn = 0
    BY <2>1 DEF TurnInv, Ended
  <2>3. Numbers'
    <3>1. \A p \in promises : p.turn < provider.next /\ p.gen <= live.gen + 1 /\ p.gen < live.gen + 1
      BY <1>0, TurnTypes DEF TurnInv, Numbers
    <3>2. \A n \in Turns : reports[n] <= 1 /\ (n >= provider.next \/ n = 0 => reports[n] = 0)
      BY <1>0, TurnTypes DEF TurnInv, Numbers
    <3>3. 0 < provider.next /\ provider.gen <= live.gen + 1 /\ \A n \in taken : n < provider.next
      BY <1>0, TurnTypes DEF TurnInv, Numbers
    <3> QED
      BY <1>1, <1>3, <3>1, <3>2, <3>3 DEF Numbers, Submitting
  <2>4. Ended'
    BY <1>1, <1>3, <2>2 DEF TurnInv, Ended
  <2>5. Knows'
    BY <1>1, <1>3, <2>2 DEF Knows
  <2> QED
    BY <2>3, <2>4, <2>5 DEF TurnInv
<1> QED
  BY <1>1, <1>2, <1>3

LEMMA LaunchedTurn ==
  ASSUME HostInv, TurnInv, disowned \subseteq disowned', NEW ok \in BOOLEAN, Launched(ok)
  PROVE  TurnInv'
<1>0. Types /\ Flow
  BY DEF HostInv
<1>1. /\ UNCHANGED <<taken, promises, events, reports>> /\ stage = "launching"
      /\ live'.sub = live.sub /\ live'.active = live.active /\ live'.early = live.early
      /\ provider'.next = provider.next /\ provider'.event = provider.event /\ stage' \in {"free", "opening"}
      /\ \/ /\ live'.session = TRUE /\ live'.gen = live.gen /\ provider'.gen = live.gen
            /\ provider'.turn = 0
         \/ /\ live'.session = live.session /\ live'.gen = live.gen + 1 /\ provider' = provider
  BY <1>0, LaunchedIs DEF Dropped
<1>2. ~live.session /\ ~provider.alive
  BY <1>0, <1>1 DEF Flow
<1>3. provider.turn = 0 /\ provider'.turn = 0
  BY <1>1, <1>2 DEF TurnInv, Ended
<1>4. \A p \in promises : p.turn < provider.next /\ p.gen < live.gen
  BY <1>1 DEF TurnInv, Numbers
<1>5. Numbers'
  <2>1. \A p \in promises : p.gen <= live.gen /\ p.gen <= live.gen + 1
    BY <1>0, <1>4, TurnTypes
  <2>2. provider'.gen <= live'.gen /\ (live'.session => provider'.gen = live'.gen)
    BY <1>0, <1>1, <1>2, TurnTypes DEF TurnInv, Numbers
  <2>3. \A p \in promises : p.gen <= live'.gen
    BY <1>1, <2>1
  <2> QED
    BY <1>1, <1>4, <2>2, <2>3 DEF TurnInv, Numbers, Submitting
<1>6. Ended'
  <2>1. \A e \in events : e.turn # 0
    BY <1>0, TurnTypes
  <2>2. live.early => live.sub # 0
    BY <1>0, TurnTypes DEF TurnInv, Ended
  <2> QED
    BY <1>1, <1>3, <2>1, <2>2 DEF TurnInv, Ended
<1>7. Knows'
  <2>1. \A p \in promises : ~(live'.session /\ p.gen = live'.gen)
    BY <1>0, <1>1, <1>2, <1>4, TurnTypes
  <2> QED
    BY <1>1, <1>3, <2>1 DEF Knows
<1> QED
  BY <1>5, <1>6, <1>7 DEF TurnInv

LEMMA SessionEndedTurn ==
  ASSUME HostInv, TurnInv, disowned \subseteq disowned', SessionEnded
  PROVE  TurnInv'
<1>0. Types /\ Flow
  BY DEF HostInv
<1>1. /\ UNCHANGED <<taken, promises, events, reports>>
      /\ stage \in {"stopping", "failing"} /\ stage' = "free"
      /\ live'.session = live.session /\ live'.gen = live.gen
      /\ live'.sub = 0 /\ live'.active = 0 /\ live'.early = FALSE
      /\ provider'.turn = 0 /\ provider'.gen = provider.gen /\ provider'.event = provider.event
      /\ provider'.next = provider.next
  BY <1>0, SessionEndedIs
<1>2. ~live.session
  BY <1>0, <1>1 DEF Flow
<1>3. Numbers'
  <2>1. \A n \in Turns : reports[n] <= 1 /\ (n >= provider.next \/ n = 0 => reports[n] = 0)
    BY <1>0, TurnTypes DEF TurnInv, Numbers
  <2>2. 0 < provider.next
    BY <1>0, TurnTypes
  <2> QED
    BY <1>1, <2>1, <2>2 DEF TurnInv, Numbers, Submitting
<1>4. Ended'
  <2>1. \A e \in events : e.turn # 0
    BY <1>0, TurnTypes
  <2> QED
    BY <1>1, <2>1 DEF TurnInv, Ended
<1>5. Knows'
  BY <1>1, <1>2 DEF Knows
<1> QED
  BY <1>3, <1>4, <1>5 DEF TurnInv

LEMMA SubmissionIs ==
  ASSUME HostInv, Driven, TurnInv, NEW n \in Submissions \ taken, provider.alive
  PROVE  /\ (Submitting /\ n = live.sub) \/ provider.event
         /\ n < provider.next
         /\ ~provider.event \/ live.session => node.turn = "running" /\ live.sub = n
<1>0. Types /\ Flow
  BY DEF HostInv
<1>1. CASE Submitting /\ n = live.sub
  <2>1. n < provider.next
    BY <1>1 DEF TurnInv, Numbers
  <2>2. node.turn = "running"
    BY <1>0, <1>1 DEF Flow
  <2> QED
    BY <1>1, <2>1, <2>2
<1>2. CASE \E p \in promises : p.gen = provider.gen /\ n = p.turn
  <2>1. PICK p \in promises : p.gen = provider.gen /\ n = p.turn
    BY <1>2
  <2>2. provider.event
    BY <2>1 DEF Driven
  <2>3. n < provider.next
    BY <2>1 DEF TurnInv, Numbers
  <2>4. live.session => p.gen = live.gen
    BY <2>1 DEF TurnInv, Numbers
  <2>5. live.session => node.turn = "running" /\ live.sub = n
    BY <2>1, <2>4 DEF TurnInv, Knows
  <2> QED
    BY <2>2, <2>3, <2>5
<1>3. (Submitting /\ n = live.sub) \/ \E p \in promises : p.gen = provider.gen /\ n = p.turn
  BY DEF Submissions, Submitting
<1> QED
  BY <1>1, <1>2, <1>3

LEMMA ProviderTurn ==
  ASSUME HostInv, Driven, TurnInv, disowned \subseteq disowned', (\E n \in Turns : ProviderTakes(n)) \/ ProviderCompletes \/ ProviderExits
  PROVE  TurnInv'
<1>0. Types /\ Flow
  BY DEF HostInv
<1>1. CASE \E n \in Turns : ProviderTakes(n)
  <2>1. PICK n \in Turns : ProviderTakes(n)
    BY <1>1
  <2>2. /\ UNCHANGED <<node, live, chain, stage, promises, events, reports>>
        /\ provider.alive /\ provider.turn = 0 /\ n \in Submissions \ taken
        /\ provider'.alive = provider.alive /\ provider'.turn = n
        /\ provider'.gen = provider.gen /\ provider'.event = provider.event
        /\ provider'.next = provider.next /\ taken' = taken \cup {n}
    BY <1>0, <2>1, ProviderIs
  <2>3. /\ n < provider.next
        /\ ~provider.event \/ live.session => node.turn = "running" /\ live.sub = n
    BY <2>2, SubmissionIs
  <2>4. Numbers'
    BY <2>2, <2>3 DEF TurnInv, Numbers, Submitting
  <2>5. Ended'
    BY <2>2 DEF TurnInv, Ended
  <2>6. Knows'
    BY <2>2, <2>3 DEF TurnInv, Knows, Failing
  <2> QED
    BY <2>4, <2>5, <2>6 DEF TurnInv
<1>2. CASE ProviderCompletes
  <2>1. /\ UNCHANGED <<node, live, chain, stage, taken, promises, reports>>
        /\ provider.turn # 0
        /\ provider'.alive = provider.alive /\ provider'.turn = 0
        /\ provider'.gen = provider.gen /\ provider'.event = provider.event
        /\ provider'.next = provider.next
        /\ events' = events \cup {[gen |-> provider.gen, turn |-> provider.turn]}
    BY <1>0, <1>2, ProviderIs
  <2>2. Numbers'
    BY <2>1 DEF TurnInv, Numbers, Submitting
  <2>3. Ended'
    <3>1. \A e \in events' : e.turn \in taken /\ e.turn # 0
      BY <1>0, <2>1, TurnTypes DEF TurnInv, Ended
    <3>2. live.early => live.sub # 0
      BY <1>0, TurnTypes DEF TurnInv, Ended
    <3> QED
      BY <2>1, <3>1, <3>2 DEF TurnInv, Ended
  <2>4. Knows'
    BY <2>1 DEF TurnInv, Knows
  <2> QED
    BY <2>2, <2>3, <2>4 DEF TurnInv
<1>3. CASE ProviderExits
  <2>1. /\ UNCHANGED <<node, live, chain, stage, taken, promises, reports, events>>
        /\ provider'.alive = FALSE /\ provider'.turn = 0
        /\ provider'.gen = provider.gen /\ provider'.event = provider.event
        /\ provider'.next = provider.next
    BY <1>0, <1>3, ProviderIs
  <2>2. Numbers'
    BY <2>1 DEF TurnInv, Numbers, Submitting
  <2>3. Ended'
    <3>1. \A e \in events : e.turn \in taken /\ e.turn # 0
      BY <1>0, TurnTypes DEF TurnInv, Ended
    <3>2. live.early => live.sub # 0
      BY <1>0, TurnTypes DEF TurnInv, Ended
    <3> QED
      BY <2>1, <3>1, <3>2 DEF TurnInv, Ended
  <2>4. Knows'
    BY <2>1 DEF TurnInv, Knows
  <2> QED
    BY <2>2, <2>3, <2>4 DEF TurnInv
<1> QED
  BY <1>1, <1>2, <1>3
LEMMA OnCompletionTurn ==
  ASSUME HostInv, Driven, TurnInv, disowned \subseteq disowned', NEW e \in events, OnCompletion(e)
  PROVE  TurnInv'
<1>0. Types /\ Flow
  BY DEF HostInv
<1>1. /\ UNCHANGED <<stage, provider, taken, promises>>
      /\ events' = events \ {e} /\ e.turn \in Turns
  BY <1>0, OnCompletionIs
<1>2. CASE UNCHANGED <<node, live, chain, reports>>
  BY <1>0, <1>1, <1>2, Quiet DEF Failing
<1>3. CASE /\ live.session /\ live.active = 0 /\ UNCHANGED <<node, chain, reports>>
           /\ live'.session = live.session /\ live'.gen = live.gen
           /\ live'.sub = live.sub /\ live'.active = live.active
           /\ live'.early => live.early \/ e.turn = live.sub
  <2>1. Numbers'
    BY <1>1, <1>3 DEF TurnInv, Numbers, Submitting
  <2>2. Ended'
    BY <1>1, <1>3 DEF TurnInv, Ended
  <2>3. Knows'
    BY <1>1, <1>3 DEF TurnInv, Knows, Failing
  <2> QED
    BY <2>1, <2>2, <2>3 DEF TurnInv
<1>4. CASE /\ live.session /\ node.turn = "running" /\ live.active # 0 /\ e.turn = live.active
           /\ Finished(e.turn) /\ chain' = Append(chain, Flush)
  <2>1. e.turn = live.sub /\ e.turn \in taken /\ e.turn # provider.turn
    BY <1>4 DEF TurnInv, Numbers, Ended
  <2>2. Failing => Failing'
    <3>1. live'.gen = live.gen
      BY <1>4 DEF Finished
    <3> QED
      BY <1>4, <3>1, FailingQueued, FlushIs DEF Failing
  <2>3. /\ Finished(live.sub) /\ live.sub \in Turns /\ live.sub \in taken /\ provider.turn # live.sub
        /\ events' \subseteq events
    BY <1>1, <1>4, <2>1
  <2>4. \A p \in promises' : p.gen = live.gen /\ p.turn = live.sub => p.turn \in taken
    BY <2>3
  <2> QED
    BY <1>0, <1>1, <1>4, <2>2, <2>3, <2>4, FinishedTurn
<1> QED
  BY <1>0, <1>2, <1>3, <1>4, OnCompletionIs

LEMMA PromiseKeptTurn ==
  ASSUME HostInv, TurnInv, disowned \subseteq disowned', NEW p \in promises, PromiseKept(p)
  PROVE  TurnInv'
<1>0. Types /\ Flow
  BY DEF HostInv
<1>1. /\ UNCHANGED <<stage, provider, taken, events>> /\ promises' \subseteq promises
      /\ p.turn \in taken /\ p.turn \in Turns
  BY <1>0, PromiseKeptIs
<1>2. CASE UNCHANGED <<node, live, chain, reports>>
  <2>1. Numbers'
    BY <1>1, <1>2 DEF TurnInv, Numbers, Submitting
  <2>2. Ended'
    BY <1>1, <1>2 DEF TurnInv, Ended
  <2>3. Knows'
    BY <1>1, <1>2 DEF TurnInv, Knows, Failing
  <2> QED
    BY <2>1, <2>2, <2>3 DEF TurnInv
<1>3. CASE LatestSubmission(p) /\ live.early /\ Finished(p.turn) /\ chain' = Append(chain, Flush)
  <2>1. live.sub = p.turn /\ node.turn = "running"
    BY <1>3 DEF LatestSubmission
  <2>2. Failing => Failing'
    <3>1. live'.gen = live.gen
      BY <1>3 DEF Finished
    <3> QED
      BY <1>3, <3>1, FailingQueued, FlushIs DEF Failing
  <2>3. provider.turn # live.sub
    BY <1>3 DEF TurnInv, Ended
  <2>4. Finished(live.sub) /\ live.sub \in Turns /\ live.sub \in taken
    BY <1>1, <1>3, <2>1
  <2>5. \A r \in promises' : r.gen = live.gen /\ r.turn = live.sub => r.turn \in taken
    BY <2>4
  <2> QED
    BY <1>0, <1>1, <2>1, <2>2, <2>3, <2>4, <2>5, FinishedTurn
<1>4. CASE LatestSubmission(p) /\ Called(p.turn) /\ UNCHANGED <<node, chain, reports>>
  <2>1. live.sub = p.turn
    BY <1>4 DEF LatestSubmission
  <2>2. Failing => Failing'
    BY <1>4 DEF Failing, Called
  <2> QED
    BY <1>0, <1>1, <1>4, <2>1, <2>2, CalledTurn
<1> QED
  BY <1>0, <1>2, <1>3, <1>4, PromiseKeptIs

LEMMA TurnFailedTurn ==
  ASSUME HostInv, Driven, TurnInv, disowned \subseteq disowned', NEW p \in promises, NEW uncertain \in BOOLEAN, NEW ended \in BOOLEAN,
         TurnFailed(p, uncertain, ended)
  PROVE  TurnInv'
<1>0. Types /\ Flow /\ Orderly(chain)
  BY DEF HostInv, Types, Flow, Orderly
<1>1. /\ UNCHANGED <<stage, taken, events>>
      /\ p.turn \in Turns /\ p.gen \in Nat /\ promises' = promises \ {p}
      /\ provider'.alive = provider.alive /\ provider'.gen = provider.gen
      /\ provider'.event = provider.event /\ provider'.next = provider.next
      /\ provider'.turn = IF provider.turn = p.turn /\ ~uncertain THEN 0 ELSE provider.turn
  BY <1>0, TurnFailedIs
<1>2. PICK q \in {chain, Append(chain, Flush)} :
        \/ chain' = q /\ ~(LatestSubmission(p) /\ uncertain)
        \/ chain' = Append(q, Op("fail", p.gen))
  BY <1>0, TurnFailedIs
<1>3. /\ Elements(chain) \subseteq Elements(chain')
      /\ LatestSubmission(p) /\ uncertain => Op("fail", p.gen) \in Elements(chain')
  BY <1>0, <1>1, <1>2, FailedChain
<1>4. provider.event
  BY DEF Driven
<1>5. CASE ~LatestSubmission(p) /\ UNCHANGED <<node, live, reports>>
  <2>1. Failing => Failing'
    BY <1>3, <1>5 DEF Failing
  <2>2. Numbers'
    BY <1>1, <1>5 DEF TurnInv, Numbers, Submitting
  <2>3. Ended'
    <3>1. \A e \in events : e.turn # 0
      BY <1>0, TurnTypes
    <3>2. live.early => live.sub # 0
      BY <1>0, TurnTypes DEF TurnInv, Ended
    <3> QED
      BY <1>1, <1>5, <3>1, <3>2 DEF TurnInv, Ended
  <2>4. Knows'
    BY <1>1, <1>5, <2>1 DEF TurnInv, Knows
  <2> QED
    BY <2>2, <2>3, <2>4 DEF TurnInv
<1>6. CASE LatestSubmission(p) /\ Finished(p.turn)
  <2>1. live.sub = p.turn /\ node.turn = "running" /\ p.gen = live.gen
    BY <1>6 DEF LatestSubmission
  <2>2. live'.gen = live.gen
    BY <1>6 DEF Finished
  <2>3. Failing => Failing'
    BY <1>3, <2>2 DEF Failing
  <2>4. provider'.turn # live.sub \/ (provider.event /\ Failing')
    <3>1. uncertain => Failing'
      BY <1>3, <1>6, <2>1, <2>2 DEF Failing
    <3>2. ~uncertain => provider'.turn # p.turn
      BY <1>0, <1>1, TurnTypes
    <3> QED
      BY <1>4, <2>1, <3>1, <3>2
  <2>5. \A r \in promises' : r.gen = live.gen /\ r.turn = live.sub => r.turn \in taken
    <3>1. \A r \in promises : r.gen = p.gen /\ r.turn = p.turn => r = p
      BY <1>0, TurnTypes
    <3> QED
      BY <1>1, <2>1, <3>1
  <2>6. /\ Finished(live.sub) /\ live.sub \in Turns /\ promises' \subseteq promises
        /\ provider'.turn \in {provider.turn, 0}
    BY <1>1, <1>6, <2>1
  <2> QED
    BY <1>0, <1>1, <2>1, <2>3, <2>4, <2>5, <2>6, FinishedTurn
<1> QED
  BY <1>0, <1>5, <1>6, TurnFailedIs

LEMMA CrashTurn ==
  ASSUME HostInv, TurnInv, disowned \subseteq disowned', Crash
  PROVE  TurnInv'
<1>0. Types
  BY DEF HostInv
<1>1. /\ UNCHANGED <<taken, reports>>
      /\ live'.session = FALSE /\ live'.gen = live.gen + 1
      /\ live'.sub = 0 /\ live'.active = 0 /\ live'.early = FALSE
      /\ promises' = {} /\ events' = {}
      /\ provider'.turn = 0 /\ provider'.gen = provider.gen /\ provider'.event = provider.event
      /\ provider'.next = provider.next
  BY <1>0, CrashIs
<1>2. Numbers'
  <2>1. \A n \in Turns : reports[n] <= 1 /\ (n >= provider.next \/ n = 0 => reports[n] = 0)
    BY <1>0, TurnTypes DEF TurnInv, Numbers
  <2>2. 0 < provider.next /\ provider.gen <= live.gen + 1 /\ \A n \in taken : n < provider.next
    BY <1>0, TurnTypes DEF TurnInv, Numbers
  <2> QED
    BY <1>1, <2>1, <2>2 DEF Numbers
<1>3. Ended'
  BY <1>1 DEF Ended
<1>4. Knows'
  BY <1>1 DEF Knows
<1> QED
  BY <1>2, <1>3, <1>4 DEF TurnInv

LEMMA TurnNext ==
  ASSUME HostInv, Driven, TurnInv, [Next]_vars
  PROVE  TurnInv'
<1>0. disowned \subseteq disowned'
  BY Disowns
<1>1. CASE UNCHANGED vars
  <2>1. /\ UNCHANGED <<live, provider, taken, promises, reports, events, node, stage, chain>>
    BY <1>1 DEF vars
  <2> QED
    BY <1>0, <2>1, Quiet DEF Failing, HostInv
<1>2. CASE Next
  <2>1. CASE FlushQueue \/ StartSession \/ FirstTurn \/ SessionEnded \/ TurnAccepted
    BY <1>0, <2>1, FlushQueueTurn, StartSessionTurn, SessionEndedTurn, TurnAcceptedTurn
  <2>2. CASE Stop \/ Restart \/ EndDeadSession
    BY <1>0, <2>2, StopTurn
  <2>3. CASE TurnActive \/ \E b \in BOOLEAN : TurnStarted(b) \/ TurnRefused(b)
    BY <1>0, <2>3, TurnStartedTurn, TurnRefusedTurn
  <2>4. CASE \E b \in BOOLEAN : Launched(b)
    BY <1>0, <2>4, LaunchedTurn
  <2>5. CASE (\E n \in Turns : ProviderTakes(n)) \/ ProviderCompletes \/ ProviderExits
    BY <1>0, <2>5, ProviderTurn
  <2>6. CASE \E e \in events : OnCompletion(e)
    BY <1>0, <2>6, OnCompletionTurn
  <2>7. CASE \E p \in promises : PromiseKept(p)
    BY <1>0, <2>7, PromiseKeptTurn
  <2>8. CASE \E p \in promises, u, e \in BOOLEAN : TurnFailed(p, u, e)
    BY <1>0, <2>8, TurnFailedTurn
  <2>9. CASE Outside \/ CheckWorkers \/ OnInteraction \/ Boundaries
    BY <1>0, <2>9, OutsideTurn
  <2>10. CASE Crash
    BY <1>0, <2>10, CrashTurn
  <2> QED
    BY <1>2, <2>1, <2>2, <2>3, <2>4, <2>5, <2>6, <2>7, <2>8, <2>9, <2>10 DEF Next, Operate, Worker
<1> QED
  BY <1>1, <1>2

LEMMA TurnAlways == Spec => [](HostInv /\ Driven /\ TurnInv)
BY HostInit, HostNext, TurnInit, TurnNext, PTL DEF Spec

\* Whichever way turns end, and however late completions, answers and failures
\* come (onEvent(), bindSubmittedTurn(), turnFailed(), generations): no turn is
\* reported twice, and the host's record names the turn the program works on,
\* unless the host was told that the program had refused that turn or could not
\* use its answer.
THEOREM KnowsTurns == Spec => []TurnsKnown
<1>1. HostInv /\ TurnInv => TurnsKnown
  BY DEF HostInv, TurnInv, Numbers, Knows, Failing, TurnsKnown, ReportedOnce, HostKnowsTheTurn, Running
<1> QED
  BY <1>1, TurnAlways, PTL
-----------------------------------------------------------------------------
(* Steering *)

\* Every steered item is named by an attempt of a journal.
Recorded(saved) == \A m \in steered : \E a \in saved : m \in a.ids

\* What was steered is in the journal and in the saved one, a request without an
\* answer is an attempt without one, and no accepted item waits in a queue that
\* is being handed over or is part of the batch.
Named ==
  /\ Recorded(journal) /\ Recorded(disk.journal)
  /\ \A a \in steering : a.status = "submitting"
  /\ \A a \in journal \cup disk.journal : a.status = "accepted" => a.ids \subseteq steered
  /\ provider.event => steered = {}
  /\ Submitting => Elements(batch) \cap steered = {}
  /\ stage = "sending" => Elements(queue) \cap AcceptedIds = {}

LEMMA NamedInit ==
  ASSUME Init
  PROVE  Named
<1>1. /\ steered = {} /\ steering = {} /\ journal = {} /\ disk.journal = {} /\ stage = "free"
  BY DEF Init
<1> QED
  BY <1>1 DEF Named, Recorded, Submitting

\* A journal knows an item as long as the item was accepted or is in doubt.
LEMMA AcceptedSteered ==
  ASSUME Named
  PROVE  /\ AcceptedIds \subseteq steered
         /\ ~Unresolved => (Types => steered \subseteq AcceptedIds)
<1>1. AcceptedIds \subseteq steered
  BY DEF Named, AcceptedIds
<1>2. ASSUME ~Unresolved, Types, NEW m \in steered PROVE m \in AcceptedIds
  <2>1. PICK a \in journal : m \in a.ids
    BY DEF Named, Recorded
  <2>2. a \in Journaled /\ a.status \notin {"submitting", "unknown"}
    BY <1>2 DEF Types, Unresolved
  <2>3. a.status = "accepted"
    BY <2>2 DEF Journaled
  <2> QED
    BY <2>1, <2>3 DEF AcceptedIds
<1> QED
  BY <1>1, <1>2

\* deliver(): a new item, and perhaps one fewer.
LEMMA DeliveredIs ==
  ASSUME Types, NEW m \in Items, Deliver(m)
  PROVE  m \notin sent /\ Elements(queue') \subseteq Elements(queue) \cup {m}
<1>1. m \notin sent /\ (queue' = Append(queue, m) \/ queue' = Tail(Append(queue, m)))
  BY DeliverIs
<1>2. queue \in Seq(Items)
  BY DEF Types
<1>3. /\ Append(queue, m) \in Seq(Items) /\ Append(queue, m) # << >>
      /\ Elements(Append(queue, m)) = Elements(queue) \cup {m}
  BY <1>2, AppendIs
<1>4. Elements(Append(queue, m)) = {Head(Append(queue, m))} \cup Elements(Tail(Append(queue, m)))
  BY <1>3, TailIs
<1> QED
  BY <1>1, <1>3, <1>4

\* The steps outside the boundaries: what they do to the journal and to the batch.
LEMMA Unsteered ==
  ASSUME HostInv, Driven, Operate \/ Worker \/ Outside
  PROVE  /\ UNCHANGED <<journal, steering, steered>> /\ disk' \in {disk, Document'}
         /\ \/ ~Submitting'
            \/ stage' = stage /\ batch' = batch /\ queue' = queue
            \/ stage' = stage /\ batch' = batch /\ \E m \in Items : Deliver(m)
            \/ stage = "opening" /\ stage' = "first" /\ batch' = << >> /\ hold = 0
            \/ /\ stage = "free" /\ stage' = "sending" /\ ~Unresolved /\ hold = 0
               /\ queue' = Retired(queue) /\ batch' = AtMost(BatchSize, queue')
<1>0. Types /\ Flow
  BY DEF HostInv
<1>1. CASE FlushQueue
  BY <1>0, <1>1, FlushQueueIs DEF Submitting, Dropped, Begun
<1>2. CASE FirstTurn
  BY <1>0, <1>2, FirstTurnIs DEF Submitting, Leaving, Begun
<1>3. CASE StartSession \/ SessionEnded
  BY <1>0, <1>3, StartSessionIs, SessionEndedIs DEF Submitting, Dropped
<1>4. CASE Stop \/ Restart \/ EndDeadSession
  BY <1>0, <1>4, StopIs, RestartIs, EndDeadSessionIs DEF Submitting, Dropped, Leaving
<1>5. CASE TurnAccepted \/ TurnActive \/ \E b \in BOOLEAN : TurnStarted(b) \/ TurnRefused(b)
  <2>1. live.sub \in Turns
    BY <1>0, <1>5 DEF TurnAccepted, TurnActive, TurnStarted, TurnRefused, Flow, Submitting
  <2> QED
    BY <1>0, <1>5, <2>1, TurnAcceptedIs, TurnStartedIs, TurnRefusedIs, TurnActiveIs DEF Submitting, Dropped, Leaving
<1>6. CASE \E b \in BOOLEAN : Launched(b)
  BY <1>0, <1>6, LaunchedIs DEF Submitting, Dropped
<1>7. CASE (\E n \in Turns : ProviderTakes(n)) \/ ProviderCompletes \/ ProviderExits
  BY <1>0, <1>7, ProviderIs
<1>8. CASE \E e \in events : OnCompletion(e)
  BY <1>0, <1>8, OnCompletionIs
<1>9. CASE \E p \in promises : PromiseKept(p)
  BY <1>0, <1>9, PromiseKeptIs
<1>10. CASE \E p \in promises, u, e \in BOOLEAN : TurnFailed(p, u, e)
  BY <1>0, <1>10, TurnFailedIs
<1>11. CASE OnInteraction \/ CheckWorkers \/ \E kind \in Commands : Command(kind)
  BY <1>0, <1>11, OnInteractionIs, CheckWorkersIs, CommandIs
<1>12. CASE \E m \in Items : Deliver(m)
  BY <1>0, <1>12, DeliverIs
<1>13. CASE Operate
  BY <1>1, <1>2, <1>3, <1>4, <1>5, <1>6, <1>13 DEF Operate
<1>14. CASE Worker
  BY <1>7, <1>8, <1>9, <1>10, <1>11, <1>14 DEF Worker
<1>15. CASE Outside
  BY <1>11, <1>12, <1>15 DEF Outside
<1> QED
  BY <1>13, <1>14, <1>15
LEMMA StillNamed ==
  ASSUME HostInv, Driven, Named, Operate \/ Worker \/ Outside
  PROVE  Named'
<1>0. Types /\ Known
  BY DEF HostInv
<1>1. /\ UNCHANGED <<journal, steering, steered>> /\ disk' \in {disk, Document'}
      /\ AcceptedIds' = AcceptedIds
  BY Unsteered DEF AcceptedIds
<1>2. disk'.journal \in {disk.journal, journal}
  BY <1>1 DEF Document
<1>3. provider'.event = provider.event
  BY Drives DEF Next
<1>4. AcceptedIds \subseteq steered /\ steered \subseteq sent
  BY <1>0, AcceptedSteered DEF Known
<1>5. /\ Submitting' => Elements(batch') \cap steered = {}
      /\ stage' = "sending" => Elements(queue') \cap AcceptedIds = {}
  <2>1. CASE ~Submitting'
    BY <2>1 DEF Submitting
  <2>2. CASE stage' = stage /\ batch' = batch /\ queue' = queue
    BY <2>2 DEF Named, Submitting
  <2>3. CASE stage' = stage /\ batch' = batch /\ \E m \in Items : Deliver(m)
    BY <1>0, <1>4, <2>3, DeliveredIs DEF Named, Submitting
  <2>4. CASE stage = "opening" /\ stage' = "first" /\ batch' = << >>
    BY <2>4 DEF Elements
  <2>5. CASE /\ stage = "free" /\ stage' = "sending" /\ ~Unresolved
             /\ queue' = Retired(queue) /\ batch' = AtMost(BatchSize, queue')
    <3>1. Retired(queue) \in Seq(Items) /\ Elements(Retired(queue)) = Elements(queue) \ AcceptedIds
      BY <1>0, RetiredIs
    <3>2. Elements(AtMost(BatchSize, Retired(queue))) \subseteq Elements(Retired(queue))
      BY <3>1, AtMostIs, ConstantsAssumption
    <3>3. steered \subseteq AcceptedIds
      BY <1>0, <2>5, AcceptedSteered
    <3> QED
      BY <2>5, <3>1, <3>2, <3>3
  <2> QED
    BY <2>1, <2>2, <2>3, <2>4, <2>5, Unsteered
<1>6. /\ \A a \in steering : a.status = "submitting"
      /\ \A a \in journal \cup disk'.journal : a.status = "accepted" => a.ids \subseteq steered
      /\ provider.event => steered = {}
  BY <1>2 DEF Named
<1>7. Recorded(journal)' /\ Recorded(disk.journal)'
  BY <1>1, <1>2 DEF Named, Recorded
<1> QED
  BY <1>1, <1>3, <1>5, <1>6, <1>7 DEF Named
\* What becomes of an attempt of the journal.
LEMMA WithKeeps ==
  ASSUME Types, NEW a \in steering, NEW status \in {"unknown", "accepted"}
  PROVE  /\ a \in journal
         /\ \E b \in Journaled : /\ b.ids = a.ids /\ b.status = status
                                 /\ With(a, status) = (journal \ {a}) \cup {b}
<1>1. a \in journal /\ a \in Journaled
  BY DEF Types
<1>2. PICK b : b = [a EXCEPT !.status = status]
  OBVIOUS
<1>3. b \in Journaled /\ b.ids = a.ids /\ b.status = status
  BY <1>1, <1>2 DEF Journaled
<1>4. With(a, status) = (journal \ {a}) \cup {b}
  BY <1>2 DEF With
<1> QED
  BY <1>1, <1>3, <1>4

LEMMA BoundariesNamed ==
  ASSUME HostInv, Driven, Named, Boundaries
  PROVE  Named'
<1>0. Types /\ Flow /\ (Submitting => live.active = 0)
  BY DEF HostInv, Flow
<1>1. UNCHANGED <<stage, batch, provider>> /\ (Submitting' <=> Submitting)
  BY <1>0, BoundariesIs DEF Submitting
<1>2. AcceptedIds \subseteq steered /\ (~Unresolved => steered \subseteq AcceptedIds)
  BY <1>0, AcceptedSteered
<1>3. \A q, saved : Written(q, saved) => disk'.journal = saved
  BY DEF Written
<1>4. CASE Nothing
  <2>1. /\ UNCHANGED <<journal, steering, steered>> /\ Elements(queue') \subseteq Elements(queue)
        /\ AcceptedIds' = AcceptedIds
    BY <1>0, <1>4, QueuesAre DEF Nothing, AcceptedIds
  <2>2. \/ disk'.journal \in {disk.journal, journal}
        \/ \E a : a.status = "submitting" /\ disk'.journal = journal \cup {a}
    BY <1>3, <1>4 DEF Nothing
  <2>3. Recorded(journal)' /\ Recorded(disk.journal)'
    BY <2>1, <2>2 DEF Named, Recorded
  <2>4. \A a \in journal \cup disk'.journal : a.status = "accepted" => a.ids \subseteq steered
    BY <2>2 DEF Named
  <2> QED
    BY <1>1, <2>1, <2>3, <2>4 DEF Named
<1>5. CASE \E a \in Journaled : Steers(a)
  <2>1. PICK a \in Journaled : Steers(a)
    BY <1>5
  <2>2. /\ a.status = "submitting" /\ journal' = journal \cup {a} /\ disk'.journal = journal'
        /\ steering' = steering \cup {a} /\ steered' \in {steered, steered \cup a.ids}
        /\ ~provider.event /\ live.active # 0 /\ ~Submitting
    BY <1>0, <1>3, <2>1 DEF Steers
  <2>3. Recorded(journal)' /\ Recorded(disk.journal)'
    BY <2>2 DEF Named, Recorded
  <2>4. \A x \in journal' \cup disk'.journal : x.status = "accepted" => x.ids \subseteq steered'
    BY <2>2 DEF Named
  <2>5. \A x \in steering' : x.status = "submitting"
    BY <2>2 DEF Named
  <2> QED
    BY <1>1, <2>2, <2>3, <2>4, <2>5 DEF Named, Submitting
<1>6. CASE \E a \in steering : Accepts(a) \/ Doubts(a)
  <2>1. PICK a \in steering : Accepts(a) \/ Doubts(a)
    BY <1>6
  <2>2. PICK d : /\ d.ids = a.ids /\ d.status = "unknown"
                 /\ With(a, "unknown") = (journal \ {a}) \cup {d}
    BY <1>0, WithKeeps
  <2>3. PICK s : /\ s.ids = a.ids /\ s.status = "accepted"
                 /\ With(a, "accepted") = (journal \ {a}) \cup {s}
    BY <1>0, WithKeeps
  <2>4. /\ steering' = steering \ {a} /\ steered' = steered /\ a \in journal
        /\ journal' \in {(journal \ {a}) \cup {d}, (journal \ {a}) \cup {s}}
        /\ disk'.journal \in {disk.journal, (journal \ {a}) \cup {d}, (journal \ {a}) \cup {s}}
    <3>1. a \in journal
      BY <1>0, WithKeeps
    <3> QED
      BY <1>3, <2>1, <2>2, <2>3, <3>1 DEF Accepts, Doubts
  <2>5. Recorded(journal)' /\ Recorded(disk.journal)'
    <3>1. \A q \in {(journal \ {a}) \cup {d}, (journal \ {a}) \cup {s}} :
            \A m \in steered : \E x \in q : m \in x.ids
      BY <2>2, <2>3 DEF Named, Recorded
    <3> QED
      BY <2>4, <3>1 DEF Named, Recorded
  <2>6. \A x \in journal' \cup disk'.journal : x.status = "accepted" => x.ids \subseteq steered
    <3>1. CASE Accepts(a)
      <4>1. a.ids \subseteq steered
        BY <3>1 DEF Accepts
      <4> QED
        BY <2>2, <2>3, <2>4, <4>1 DEF Named
    <3>2. CASE Doubts(a)
      <4>1. journal' = (journal \ {a}) \cup {d} /\ disk'.journal \in {disk.journal, (journal \ {a}) \cup {d}}
        BY <1>3, <2>2, <3>2 DEF Doubts
      <4> QED
        BY <2>2, <4>1 DEF Named
    <3> QED
      BY <2>1, <3>1, <3>2
  <2>7. stage = "sending" => Elements(queue') \cap AcceptedIds' = {}
    <3>1. CASE Accepts(a)
      <4>1. a.turn # 0
        BY <1>0 DEF Types, Journaled, Turns
      <4> QED
        BY <1>0, <3>1, <4>1 DEF Accepts, Submitting
    <3>2. CASE Doubts(a)
      <4>1. queue' = queue /\ journal' = (journal \ {a}) \cup {d}
        BY <2>2, <3>2 DEF Doubts
      <4>2. AcceptedIds' \subseteq AcceptedIds
        BY <2>2, <4>1 DEF AcceptedIds
      <4> QED
        BY <4>1, <4>2 DEF Named
    <3> QED
      BY <2>1, <3>1, <3>2
  <2> QED
    BY <1>1, <2>4, <2>5, <2>6, <2>7 DEF Named
<1> QED
  BY <1>0, <1>4, <1>5, <1>6, BoundariesIs

LEMMA NamedNext ==
  ASSUME HostInv, Driven, Named, [Next]_vars
  PROVE  Named'
<1>1. CASE UNCHANGED vars
  BY <1>1 DEF vars, Named, Recorded, Submitting, AcceptedIds
<1>2. CASE Crash
  <2>1. /\ UNCHANGED <<disk, steered>> /\ stage' = "free" /\ steering' = {}
        /\ provider'.event = provider.event
        /\ \A a \in disk.journal : \E b \in journal' : b.ids = a.ids
        /\ \A b \in journal' : \E a \in disk.journal :
             b.ids = a.ids /\ (b.status = "accepted" => a.status = "accepted")
    BY <1>2, CrashIs DEF HostInv
  <2>2. Recorded(journal)' /\ Recorded(disk.journal)'
    BY <2>1 DEF Named, Recorded
  <2>3. \A a \in journal' \cup disk'.journal : a.status = "accepted" => a.ids \subseteq steered
    BY <2>1 DEF Named
  <2> QED
    BY <2>1, <2>2, <2>3 DEF Named, Submitting
<1> QED
  BY <1>1, <1>2, StillNamed, BoundariesNamed DEF Next

LEMMA NamedAlways == Spec => [](HostInv /\ Driven /\ TurnInv /\ Named)
BY TurnAlways, HostInit, TurnInit, NamedInit, HostNext, TurnNext, NamedNext, PTL DEF Spec
\* How a step can change what the program has taken.
LEMMA TakenChanges ==
  ASSUME HostInv, TurnInv, Next
  PROVE  \/ taken' = taken /\ \A n \in taken : cargo'[n] = cargo[n]
         \/ /\ cargo' = cargo /\ provider.alive
            /\ \E n \in Submissions \ taken : taken' = taken \cup {n}
<1>0. Types /\ Flow
  BY DEF HostInv
<1>1. CASE FlushQueue \/ FirstTurn
  <2>1. taken \subseteq Turns /\ provider.next \notin taken
    BY <1>0, TurnTypes DEF TurnInv, Numbers
  <2> QED
    BY <1>0, <1>1, <2>1, FlushQueueIs, FirstTurnIs DEF Begun
<1>2. CASE StartSession \/ SessionEnded \/ Stop \/ Restart \/ EndDeadSession
  BY <1>0, <1>2, StartSessionIs, SessionEndedIs, StopIs, RestartIs, EndDeadSessionIs
<1>3. CASE TurnAccepted \/ TurnActive \/ \E b \in BOOLEAN : TurnStarted(b) \/ TurnRefused(b)
  <2>1. live.sub \in Turns /\ taken \subseteq Turns
    BY <1>0, <1>3, TurnTypes DEF TurnAccepted, TurnActive, TurnStarted, TurnRefused, Flow, Submitting
  <2> QED
    BY <1>0, <1>3, <2>1, TurnAcceptedIs, TurnStartedIs, TurnRefusedIs, TurnActiveIs
<1>4. CASE \E b \in BOOLEAN : Launched(b)
  BY <1>0, <1>4, LaunchedIs
<1>5. CASE (\E n \in Turns : ProviderTakes(n)) \/ ProviderCompletes \/ ProviderExits
  BY <1>0, <1>5, ProviderIs
<1>6. CASE (\E e \in events : OnCompletion(e)) \/ \E p \in promises : PromiseKept(p)
  BY <1>0, <1>6, OnCompletionIs, PromiseKeptIs
<1>7. CASE \E p \in promises, u, e \in BOOLEAN : TurnFailed(p, u, e)
  BY <1>0, <1>7, TurnFailedIs
<1>8. CASE OnInteraction \/ CheckWorkers \/ Outside
  BY <1>0, <1>8, OnInteractionIs, CheckWorkersIs, CommandIs, DeliverIs DEF Outside
<1>9. CASE Boundaries \/ Crash
  BY <1>0, <1>9, BoundariesIs, CrashIs
<1> QED
  BY <1>1, <1>2, <1>3, <1>4, <1>5, <1>6, <1>7, <1>8, <1>9 DEF Next, Operate, Worker

\* No submission takes along what was steered.
LEMMA SteeredStays ==
  ASSUME HostInv, Driven, TurnInv, Named, Next
  PROVE  /\ steered \subseteq steered'
         /\ \A m \in steered : {n \in taken : m \in cargo[n]}' = {n \in taken : m \in cargo[n]}
         /\ \A m \in steered : \A a \in steering' \ steering : m \notin a.ids
<1>0. Types /\ Flow
  BY DEF HostInv
<1>1. \/ UNCHANGED steered /\ steering' \subseteq steering
      \/ \E a \in Journaled : Steers(a)
  <2>1. CASE Operate \/ Worker \/ Outside
    BY <2>1, Unsteered
  <2>2. CASE Boundaries
    BY <1>0, <2>2, BoundariesIs DEF Nothing, Accepts, Doubts
  <2>3. CASE Crash
    BY <1>0, <2>3, CrashIs
  <2> QED
    BY <2>1, <2>2, <2>3 DEF Next
<1>2. \A m \in steered : \A a \in steering' \ steering : m \notin a.ids
  <2>1. CASE UNCHANGED steered /\ steering' \subseteq steering
    BY <2>1
  <2>2. CASE \E a \in Journaled : Steers(a)
    <3>1. PICK a : /\ steering' = steering \cup {a} /\ ~Unresolved /\ queue' = Retired(queue)
                   /\ a.ids \subseteq Elements(queue')
      BY <2>2 DEF Steers
    <3>2. Elements(queue') \cap AcceptedIds = {}
      BY <1>0, <3>1, RetiredIs
    <3>3. steered \subseteq AcceptedIds
      BY <1>0, <3>1, AcceptedSteered
    <3> QED
      BY <3>1, <3>2, <3>3
  <2> QED
    BY <1>1, <2>1, <2>2
<1>3. ASSUME NEW m \in steered
      PROVE  {n \in taken : m \in cargo[n]}' = {n \in taken : m \in cargo[n]}
  <2>1. CASE taken' = taken /\ \A n \in taken : cargo'[n] = cargo[n]
    BY <2>1
  <2>2. CASE /\ cargo' = cargo /\ provider.alive
             /\ \E n \in Submissions \ taken : taken' = taken \cup {n}
    <3>1. PICK n \in Submissions \ taken : taken' = taken \cup {n}
      BY <2>2
    <3>2. (Submitting /\ n = live.sub) \/ provider.event
      BY <2>2, <3>1, SubmissionIs
    <3>3. m \notin cargo[n]
      BY <1>0, <3>2 DEF Named, Flow
    <3> QED
      BY <2>2, <3>1, <3>3
  <2> QED
    BY <2>1, <2>2, TakenChanges
<1>4. steered \subseteq steered'
  BY <1>1 DEF Steers
<1> QED
  BY <1>2, <1>3, <1>4

\* What was given to the worker is named by the saved journal whatever save
\* fails and whenever the host is lost, and neither the courier nor another tool
\* call hands it over again (endBoundary(), retireAccepted(), settleLoadedTree()).
THEOREM SteeringIsFinal == Spec => SteeringKept
<1>1. Named => \A m \in steered : \E a \in disk.journal : m \in a.ids
  BY DEF Named, Recorded
<1>2. ASSUME HostInv, Driven, TurnInv, Named, [Next]_vars
      PROVE  [\A m \in steered : Copies(m)' = Copies(m) /\ \A a \in steering' \ steering : m \notin a.ids]_vars
  <2>1. CASE UNCHANGED vars
    BY <2>1
  <2>2. CASE Next
    <3>1. /\ steered \subseteq steered'
          /\ \A m \in steered : {n \in taken : m \in cargo[n]}' = {n \in taken : m \in cargo[n]}
          /\ \A m \in steered : \A a \in steering' \ steering : m \notin a.ids
      BY <1>2, <2>2, SteeredStays
    <3>2. \A m \in steered : Copies(m)' = Copies(m)
      BY <3>1 DEF Copies, CopiesIn
    <3> QED
      BY <3>1, <3>2
  <2> QED
    BY <1>2, <2>1, <2>2
<1> QED
  BY <1>1, <1>2, NamedAlways, PTL DEF Spec, SteeringKept
\* What a step does to the calls that are open.
LEMMA CallsAre ==
  ASSUME Next
  PROVE  \/ ops' = ops
         \/ ops' = [r \in Requests |-> NoBoundary]
         \/ \E r \in Requests : ops' = [ops EXCEPT ![r] = NoBoundary]
         \/ \E r \in Requests, protected \in BOOLEAN : BeginBoundary(r, protected)
<1>1. CASE FlushQueue \/ SessionEnded \/ TurnAccepted \/ TurnActive \/ \E b \in BOOLEAN : TurnStarted(b) \/ Launched(b)
  BY <1>1 DEF FlushQueue, SessionEnded, TurnAccepted, TurnActive, TurnStarted, Launched, control
<1>2. CASE StartSession \/ FirstTurn \/ Stop \/ Restart \/ EndDeadSession
  BY <1>2 DEF StartSession, Launch, FirstTurn, Stop, Restart, EndDeadSession, EndSession
<1>3. CASE \E b \in BOOLEAN : TurnRefused(b)
  BY <1>3 DEF TurnRefused, EndSession
<1>4. CASE Worker
  BY <1>4 DEF Worker, ProviderTakes, ProviderCompletes, ProviderExits, OnInteraction, CheckWorkers, OnCompletion,
              PromiseKept, TurnFailed, control
<1>5. CASE Boundaries
  BY <1>5 DEF Boundaries, EndBoundary, Steer, SteerAccepted, SteerUnknown, Checkpoint, Release
<1>6. CASE Outside \/ Crash
  BY <1>6 DEF Outside, Deliver, Command, Crash, control
<1> QED
  BY <1>1, <1>2, <1>3, <1>4, <1>5, <1>6 DEF Next, Operate

\* No step begins a turn or a session while a hold is on.
LEMMA NothingStarts ==
  ASSUME HostInv, hold # 0, Next
  PROVE  /\ node'.turn = "running" => node.turn = "running"
         /\ node'.state = "starting" => node.state = "starting"
<1>0. Types /\ Flow
  BY DEF HostInv
<1>1. CASE FlushQueue \/ FirstTurn
  BY <1>0, <1>1, FlushQueueIs, FirstTurnIs
<1>2. CASE StartSession \/ SessionEnded \/ Stop \/ Restart \/ EndDeadSession
  BY <1>0, <1>2, StartSessionIs, SessionEndedIs, StopIs, RestartIs, EndDeadSessionIs
<1>3. CASE TurnAccepted \/ TurnActive \/ \E b \in BOOLEAN : TurnStarted(b) \/ TurnRefused(b)
  <2>1. live.sub \in Turns
    BY <1>0, <1>3 DEF TurnAccepted, TurnActive, TurnStarted, TurnRefused, Flow, Submitting
  <2> QED
    BY <1>0, <1>3, <2>1, TurnAcceptedIs, TurnStartedIs, TurnRefusedIs, TurnActiveIs DEF Finished
<1>4. CASE \E b \in BOOLEAN : Launched(b)
  BY <1>0, <1>4, LaunchedIs
<1>5. CASE (\E n \in Turns : ProviderTakes(n)) \/ ProviderCompletes \/ ProviderExits
  BY <1>0, <1>5, ProviderIs
<1>6. CASE (\E e \in events : OnCompletion(e)) \/ \E p \in promises : PromiseKept(p)
  BY <1>0, <1>6, OnCompletionIs, PromiseKeptIs DEF Finished
<1>7. CASE \E p \in promises, u, e \in BOOLEAN : TurnFailed(p, u, e)
  BY <1>0, <1>7, TurnFailedIs DEF Finished
<1>8. CASE OnInteraction \/ CheckWorkers \/ Outside
  BY <1>0, <1>8, OnInteractionIs, CheckWorkersIs, CommandIs, DeliverIs DEF Outside
<1>9. CASE Boundaries \/ Crash
  BY <1>0, <1>9, BoundariesIs, CrashIs
<1> QED
  BY <1>1, <1>2, <1>3, <1>4, <1>5, <1>6, <1>7, <1>8, <1>9 DEF Next, Operate, Worker

\* Neither does protected work.
LEMMA HeldBack ==
  ASSUME HostInv, hold # 0, Next
  PROVE  NothingBegins
<1>1. \A r \in Requests : ops'[r].protected => ops'[r] = ops[r]
  <2>1. ops \in [Requests -> Boundary] /\ NoBoundary.protected = FALSE
    BY DEF HostInv, Types, NoBoundary
  <2>2. ASSUME NEW r \in Requests, NEW protected \in BOOLEAN, BeginBoundary(r, protected)
        PROVE  \A other \in Requests : ops'[other].protected => ops'[other] = ops[other]
    BY <2>1, <2>2 DEF BeginBoundary, Admitted
  <2>3. CASE ops' = ops \/ ops' = [r \in Requests |-> NoBoundary] \/ \E r \in Requests : ops' = [ops EXCEPT ![r] = NoBoundary]
    BY <2>1, <2>3
  <2> QED
    BY <2>2, <2>3, CallsAre
<1> QED
  BY <1>1, NothingStarts DEF NothingBegins

\* A step leaves an idle worker that is held idle, unless it stops it.
LEMMA StaysIdle ==
  ASSUME HostInv, hold # 0, node.turn = "idle", ~node.waiting, Next, node'.state = "running"
  PROVE  node'.turn = "idle" /\ ~node'.waiting
<1>0. node \in NodeType
  BY DEF HostInv, Types
<1>1. CASE UNCHANGED node
  BY <1>1
<1>2. CASE FlushQueue \/ FirstTurn
  BY <1>2, <1>1 DEF FlushQueue, FirstTurn, Admitted
<1>3. CASE StartSession
  BY <1>3, <1>1 DEF StartSession, Launch, Admitted
<1>4. CASE SessionEnded \/ \E b \in BOOLEAN : Launched(b)
  BY <1>0, <1>4 DEF SessionEnded, Launched, NodeType
<1>5. CASE TurnAccepted \/ TurnActive \/ \E b \in BOOLEAN : TurnRefused(b)
  BY <1>0, <1>5 DEF TurnAccepted, TurnActive, TurnRefused, CompleteTurn, NodeType
<1>6. CASE (\E e \in events : OnCompletion(e)) \/ (\E p \in promises : PromiseKept(p)) \/ OnInteraction
  BY <1>0, <1>6 DEF OnCompletion, PromiseKept, OnInteraction, CompleteTurn, NodeType
<1>7. CASE \E p \in promises, u, e \in BOOLEAN : TurnFailed(p, u, e)
  BY <1>0, <1>7 DEF TurnFailed, CompleteTurn, NodeType
<1>8. CASE Crash
  BY <1>0, <1>8 DEF Crash, NodeType
<1>9. CASE Stop \/ Restart \/ EndDeadSession \/ \E b \in BOOLEAN : TurnStarted(b)
  BY <1>9, <1>1 DEF Stop, Restart, EndDeadSession, TurnStarted
<1>10. CASE (\E n \in Turns : ProviderTakes(n)) \/ ProviderCompletes \/ ProviderExits \/ CheckWorkers \/ Outside
  BY <1>10, <1>1 DEF ProviderTakes, ProviderCompletes, ProviderExits, CheckWorkers, Outside, Deliver, Command
<1>11. CASE Boundaries
  BY <1>11, <1>1 DEF Boundaries, EndBoundary, Steer, BeginBoundary, SteerAccepted, SteerUnknown, Checkpoint, Release
<1> QED
  BY <1>2, <1>3, <1>4, <1>5, <1>6, <1>7, <1>8, <1>9, <1>10, <1>11 DEF Next, Operate, Worker

\* A drained worker has nothing to resolve: no step makes it something again.
LEMMA StaysResolved ==
  ASSUME HostInv, Driven, Named, Drained, Next, live'.gen = live.gen
  PROVE  ~Unresolved'
<1>0. Types
  BY DEF HostInv
<1>1. steering = {}
  BY <1>0 DEF Types, Drained, Unresolved, Named
<1>2. CASE Operate \/ Worker \/ Outside
  BY <1>2, Unsteered DEF Drained, Unresolved
<1>3. CASE Boundaries
  BY <1>1, <1>3 DEF Boundaries, EndBoundary, Steer, BeginBoundary, Checkpoint, Release, Drained, Unresolved
<1>4. CASE Crash
  <2>1. live'.gen = live.gen + 1 /\ live.gen \in Nat
    BY <1>0, <1>4, CrashIs, TurnTypes
  <2> QED
    BY <2>1
<1> QED
  BY <1>2, <1>3, <1>4 DEF Next

\* While checkpoint() holds the worker no turn, no session and no protected tool
\* call of it begins (admitWork(), submissionSafe()), and what drain() has seen
\* drained does nothing and goes on doing nothing: no delivery is without its
\* answer, the program works on no turn unless its session is given up or the
\* host was told that it had refused the turn, and until the release only a call
\* that is not protected, or the end of the session, moves the worker again.
THEOREM HoldsHold == Spec => HoldsKept
<1>1. HostInv /\ TurnInv /\ Named =>
        (Drained => steering = {} /\ (provider.turn \in {0} \cup disowned \/ GivenUp))
  <2> SUFFICES ASSUME HostInv, TurnInv, Named, Drained
               PROVE  steering = {} /\ (provider.turn \in {0} \cup disowned \/ GivenUp)
    OBVIOUS
  <2>1. steering \subseteq journal
    BY DEF HostInv, Types
  <2>2. steering = {}
    BY <2>1 DEF Drained, Unresolved, Named
  <2>3. node.turn # "running"
    BY DEF Drained
  <2> QED
    BY <2>2, <2>3 DEF TurnInv, Knows, GivenUp, Failing
<1>2. ASSUME HostInv, Driven, Named, Next
      PROVE  (hold # 0 => NothingBegins) /\ StaysDrained
  <2>1. ASSUME Drained, hold' = hold, live'.gen = live.gen, node'.state = "running",
               \A r \in Requests : ops'[r] # NoBoundary => ops'[r].protected
        PROVE  Drained'
    <3>1. hold # 0 /\ hold = live.gen /\ node.turn = "idle" /\ ~node.waiting /\ \A r \in Requests : ops[r] = NoBoundary
      BY <2>1 DEF Drained
    <3>2. node'.turn = "idle" /\ ~node'.waiting
      BY <1>2, <2>1, <3>1, StaysIdle
    <3>3. \A r \in Requests : ops'[r] = NoBoundary
      <4>1. NothingBegins /\ NoBoundary.protected = FALSE
        BY <1>2, <3>1, HeldBack DEF NoBoundary
      <4> QED
        BY <2>1, <3>1, <4>1 DEF NothingBegins
    <3>4. ~Unresolved'
      BY <1>2, <2>1, StaysResolved
    <3> QED
      BY <2>1, <3>1, <3>2, <3>3, <3>4 DEF Drained
  <2>2. StaysDrained
    <3>1. HostInv'
      BY <1>2, HostNext
    <3>2. ops' \in [Requests -> Boundary]
      BY <3>1 DEF HostInv, Types
    <3>3. \A r \in Requests : ops'[r].protected \in BOOLEAN
      BY <3>2 DEF Boundary
    <3> QED
      BY <2>1, <3>3 DEF StaysDrained
  <2> QED
    BY <1>2, <2>2, HeldBack
<1>3. HostInv /\ Driven /\ Named /\ [Next]_vars => [(hold # 0 => NothingBegins) /\ StaysDrained]_vars
  BY <1>2
<1> QED
  BY <1>1, <1>3, NamedAlways, PTL DEF Spec, HoldsKept
-----------------------------------------------------------------------------
(* Nothing is lost *)

\* Submission n was written to its program and its turn was not reported.
Unreported(n) == provider.event /\ n < provider.next /\ reports[n] = 0 /\ ~(Submitting /\ live.sub = n)

\* Somebody knows what became of the item, or the program may still read it.
Safe(m) ==
  \/ m \in gone \/ m \in steered \/ \E n \in taken : m \in cargo[n]
  \/ \E n \in Turns : m \in cargo[n] /\ Unreported(n)
Accounted(items) == \A m \in sent : m \in items \/ Safe(m)

\* The batch stands at the front of the queue until its turn is taken.
AtFront == stage = "sending" => /\ Len(batch) <= Len(queue)
                                /\ \A i \in DOMAIN batch : queue[i] = batch[i]

\* Without an item that may push another out of a full queue.
Whole == Accounted(Elements(queue)) /\ Accounted(Elements(disk.queue)) /\ AtFront

\* What is handed over is what the submission carries.
LEMMA HandedOverIs ==
  ASSUME Types, Flow, AtFront, stage = "sending"
  PROVE  /\ Elements(queue) \subseteq Elements(Drop(Len(batch), queue)) \cup Elements(batch)
         /\ cargo[live.sub] = Elements(batch)
<1>1. queue \in Seq(Items) /\ batch \in Seq(Items) /\ Len(batch) \in Nat
  BY LenProperties DEF Types
<1>2. \A i \in DOMAIN queue : i > Len(batch) => /\ i - Len(batch) \in DOMAIN Drop(Len(batch), queue)
                                                /\ Drop(Len(batch), queue)[i - Len(batch)] = queue[i]
  BY <1>1, DropIs
<1>3. \A i \in DOMAIN queue : i <= Len(batch) => i \in DOMAIN batch /\ queue[i] = batch[i]
  <2>1. DOMAIN queue = 1 .. Len(queue) /\ DOMAIN batch = 1 .. Len(batch) /\ Len(queue) \in Nat
    BY <1>1, LenProperties
  <2> QED
    BY <1>1, <2>1 DEF AtFront
<1>4. DOMAIN queue \subseteq Nat
  BY <1>1, LenProperties
<1>5. ASSUME NEW i \in DOMAIN queue
      PROVE  queue[i] \in Elements(Drop(Len(batch), queue)) \cup Elements(batch)
  <2>1. CASE i > Len(batch)
    BY <1>2, <2>1 DEF Elements
  <2>2. CASE i <= Len(batch)
    BY <1>3, <2>2 DEF Elements
  <2> QED
    BY <1>1, <1>4, <2>1, <2>2
<1>6. cargo[live.sub] = Elements(batch)
  BY DEF Flow, Submitting
<1> QED
  BY <1>5, <1>6 DEF Elements

\* A turn that is reported was taken, or its items were announced.
LEMMA UnreportedStays ==
  ASSUME HostInv, Driven, TurnInv, Next, NEW n \in Turns, Unreported(n)
  PROVE  /\ n < provider'.next /\ cargo'[n] = cargo[n]
         /\ Unreported(n)' \/ n \in taken' \/ cargo[n] \subseteq gone'
<1>0. Types /\ Flow /\ provider.event /\ n < provider.next /\ reports[n] = 0 /\ (Submitting => n # live.sub)
  BY DEF HostInv, Unreported
<1>1. provider.next \in Nat /\ n \in Nat
  BY <1>0, TurnTypes
<1> DEFINE Quiets == /\ UNCHANGED <<reports, cargo>> /\ provider'.next = provider.next
                     /\ provider'.event = provider.event
                     /\ Submitting' => Submitting /\ live'.sub = live.sub
<1>2. CASE Quiets
  BY <1>0, <1>2 DEF Unreported
<1>3. CASE \E items, next : Begun(items, next) /\ reports' = reports
  <2>1. /\ live'.sub = provider.next /\ provider'.next = provider.next + 1 /\ provider'.event = provider.event
        /\ reports' = reports /\ \A k \in Turns \ {provider.next} : cargo'[k] = cargo[k]
    BY <1>3 DEF Begun
  <2>2. n # provider.next /\ n < provider.next + 1
    BY <1>0, <1>1
  <2> QED
    BY <1>0, <2>1, <2>2 DEF Unreported
<1>4. CASE /\ UNCHANGED cargo /\ provider'.next = provider.next /\ provider'.event = provider.event
           /\ ~Submitting'
           /\ \E k \in Turns : /\ \A i \in Turns \ {k} : reports'[i] = reports[i]
                               /\ k # n \/ k \in taken' \/ cargo[k] \subseteq gone'
  <2>1. PICK k \in Turns : /\ \A i \in Turns \ {k} : reports'[i] = reports[i]
                           /\ k # n \/ k \in taken' \/ cargo[k] \subseteq gone'
    BY <1>4
  <2>2. CASE k = n
    BY <1>0, <1>4, <2>1, <2>2
  <2>3. CASE k # n
    BY <1>0, <1>4, <2>1, <2>3 DEF Unreported
  <2> QED
    BY <2>2, <2>3
<1>5. CASE FlushQueue \/ FirstTurn
  <2>1. (\E items, next : Begun(items, next) /\ reports' = reports) \/ Quiets
    BY <1>0, <1>5, FlushQueueIs, FirstTurnIs DEF Dropped, Leaving, Submitting
  <2> QED
    BY <1>2, <1>3, <2>1
<1>6. CASE StartSession \/ SessionEnded \/ Stop \/ Restart \/ EndDeadSession
  <2>1. Quiets
    BY <1>0, <1>6, StartSessionIs, SessionEndedIs, StopIs, RestartIs, EndDeadSessionIs DEF Dropped, Leaving, Submitting
  <2> QED
    BY <1>2, <2>1
<1>7. CASE TurnAccepted \/ TurnActive \/ \E b \in BOOLEAN : TurnStarted(b) \/ TurnRefused(b)
  <2>1. live.sub \in Turns /\ Submitting
    BY <1>0, <1>7 DEF TurnAccepted, TurnActive, TurnStarted, TurnRefused, Flow, Submitting
  <2>2. /\ provider' = provider /\ reports'[n] = reports[n] /\ cargo'[n] = cargo[n]
        /\ stage' \in {"free", "failing"}
    BY <1>0, <1>7, <2>1, TurnAcceptedIs, TurnStartedIs, TurnRefusedIs, TurnActiveIs DEF Dropped, Leaving
  <2> QED
    BY <1>0, <2>2 DEF Unreported, Submitting
<1>8. CASE \E b \in BOOLEAN : Launched(b)
  <2>1. Quiets
    BY <1>0, <1>8, LaunchedIs DEF Dropped, Submitting
  <2> QED
    BY <1>2, <2>1
<1>9. CASE (\E k \in Turns : ProviderTakes(k)) \/ ProviderCompletes \/ ProviderExits
  <2>1. Quiets
    BY <1>0, <1>9, ProviderIs DEF Submitting
  <2> QED
    BY <1>2, <2>1
<1>10. CASE \E e \in events : OnCompletion(e)
  <2>1. PICK e \in events : OnCompletion(e)
    BY <1>10
  <2>2. e.turn \in taken /\ (Submitting => live.active = 0)
    BY <1>0 DEF TurnInv, Ended, Flow
  <2>3. \/ Quiets
        \/ /\ UNCHANGED <<cargo, provider, stage, taken>> /\ ~Submitting /\ e.turn \in Turns
           /\ \A i \in Turns \ {e.turn} : reports'[i] = reports[i]
    BY <1>0, <2>1, <2>2, OnCompletionIs DEF Finished, Submitting
  <2> QED
    BY <1>2, <1>4, <2>2, <2>3 DEF Submitting
<1>11. CASE (\E p \in promises : PromiseKept(p)) \/ \E p \in promises, u, e \in BOOLEAN : TurnFailed(p, u, e)
  <2>1. /\ UNCHANGED <<cargo, stage, taken>> /\ Settled
        /\ provider'.next = provider.next /\ provider'.event = provider.event
        /\ \/ reports' = reports
           \/ \E k \in Turns : Finished(k) /\ (k \in taken \/ cargo[k] \subseteq gone')
    BY <1>0, <1>11, PromiseKeptIs, TurnFailedIs
  <2>2. ~Submitting'
    BY <1>0, <2>1 DEF Settled, Submitting
  <2>3. CASE reports' = reports
    BY <1>2, <2>1, <2>2, <2>3
  <2>4. CASE \E k \in Turns : Finished(k) /\ (k \in taken \/ cargo[k] \subseteq gone')
    BY <1>4, <2>1, <2>2, <2>4 DEF Finished
  <2> QED
    BY <2>1, <2>3, <2>4
<1>12. CASE OnInteraction \/ CheckWorkers \/ Outside
  <2>1. Quiets
    BY <1>0, <1>12, OnInteractionIs, CheckWorkersIs, CommandIs, DeliverIs DEF Outside, Submitting
  <2> QED
    BY <1>2, <2>1
<1>13. CASE Boundaries \/ Crash
  <2>1. Quiets
    BY <1>0, <1>13, BoundariesIs, CrashIs DEF Submitting
  <2> QED
    BY <1>2, <2>1
<1> QED
  BY <1>5, <1>6, <1>7, <1>8, <1>9, <1>10, <1>11, <1>12, <1>13 DEF Next, Operate, Worker

\* What was safe stays safe.
LEMMA SafeStays ==
  ASSUME HostInv, Driven, TurnInv, Named, Next, gone \subseteq gone', NEW m, Safe(m)
  PROVE  Safe(m)'
<1>1. steered \subseteq steered'
  BY SteeredStays
<1>2. \A n \in taken : n \in taken' /\ cargo'[n] = cargo[n]
  BY TakenChanges
<1>3. \A n \in Turns : Unreported(n) =>
        cargo'[n] = cargo[n] /\ (Unreported(n)' \/ n \in taken' \/ cargo[n] \subseteq gone')
  BY UnreportedStays
<1> QED
  BY <1>1, <1>2, <1>3 DEF Safe

LEMMA NoticesNever ==
  ASSUME HostInv, Notices = {}, NEW m \in Items, Deliver(m)
  PROVE  queue' = Append(queue, m) /\ gone' = gone
BY DeliverIs DEF HostInv, Items

\* A queue that loses only what is safe, and a document that is one of the queues.
LEMMA AccountedStays ==
  ASSUME HostInv, Driven, TurnInv, Named, Next, Whole, gone \subseteq gone', sent' = sent,
         \A m \in Elements(queue) \ Elements(queue') : Safe(m)',
         disk' = disk \/ disk'.queue \in {queue, queue'}
  PROVE  Accounted(Elements(queue))' /\ Accounted(Elements(disk.queue))'
<1>1. \A m : Safe(m) => Safe(m)'
  BY SafeStays
<1>2. \A m \in sent : m \in Elements(queue') \/ Safe(m)'
  BY <1>1 DEF Whole, Accounted
<1>3. \A m \in sent : m \in Elements(queue) \/ Safe(m)'
  BY <1>1 DEF Whole, Accounted
<1>4. \A m \in sent : m \in Elements(disk.queue) \/ Safe(m)'
  BY <1>1 DEF Whole, Accounted
<1>5. \A m \in sent : m \in Elements(disk'.queue) \/ Safe(m)'
  BY <1>2, <1>3, <1>4
<1> QED
  BY <1>2, <1>5 DEF Accounted
LEMMA FrontStays ==
  ASSUME HostInv, Driven, Named, AtFront, Notices = {}, Next
  PROVE  AtFront'
<1>0. Types /\ Flow /\ queue \in Seq(Items)
  BY DEF HostInv, Types
<1>1. CASE Operate \/ Worker \/ Outside
  <2>1. CASE stage' # "sending"
    BY <2>1 DEF AtFront
  <2>2. CASE stage' = stage /\ batch' = batch /\ queue' = queue
    BY <2>2 DEF AtFront
  <2>3. CASE /\ stage = "free" /\ queue' = Retired(queue) /\ batch' = AtMost(BatchSize, queue')
    <3>1. queue' \in Seq(Items)
      BY <1>0, <2>3, RetiredIs
    <3>2. /\ Len(batch') <= Len(queue')
          /\ \A i \in DOMAIN batch' : queue'[i] = batch'[i]
      BY <2>3, <3>1, AtMostIs, ConstantsAssumption
    <3> QED
      BY <3>2 DEF AtFront
  <2>4. CASE stage' = stage /\ batch' = batch /\ \E m \in Items : Deliver(m)
    <3>1. PICK m \in Items : queue' = Append(queue, m)
      BY <2>4, NoticesNever
    <3>2. /\ Len(queue') = Len(queue) + 1 /\ Len(queue) \in Nat /\ Len(batch) \in Nat
          /\ \A i \in DOMAIN queue : queue'[i] = queue[i]
      BY <1>0, <3>1, AppendIs, LenProperties DEF Types
    <3>3. Len(batch) <= Len(queue) => \A i \in DOMAIN batch : i \in DOMAIN queue
      BY <1>0, LenProperties DEF Types
    <3>4. stage = "sending" => Len(batch) <= Len(queue) + 1
      BY <3>2 DEF AtFront
    <3> QED
      BY <2>4, <3>2, <3>3, <3>4 DEF AtFront
  <2> QED
    BY <1>1, <2>1, <2>2, <2>3, <2>4, Unsteered DEF Submitting
<1>2. CASE Boundaries
  <2>1. UNCHANGED <<stage, batch>>
    BY <1>0, <1>2, BoundariesIs
  <2>2. ASSUME stage = "sending" PROVE queue' = queue
    <3>1. live.active = 0
      BY <1>0, <2>2 DEF Flow, Submitting
    <3>2. Retired(queue) = queue
      BY <1>0, <2>2, WithoutIs DEF Named, Retired
    <3>3. \A a \in steering : ~Accepts(a)
      BY <1>0, <3>1 DEF Accepts, Types, Journaled, Turns
    <3>4. \A a \in Journaled : ~Steers(a)
      BY <3>1 DEF Steers
    <3> QED
      BY <1>0, <1>2, <3>2, <3>3, <3>4, BoundariesIs DEF Nothing, Doubts
  <2> QED
    BY <2>1, <2>2 DEF AtFront
<1>3. CASE Crash
  BY <1>0, <1>3, CrashIs DEF AtFront
<1> QED
  BY <1>1, <1>2, <1>3 DEF Next

LEMMA WholeNext ==
  ASSUME HostInv, Driven, TurnInv, Named, Whole, Notices = {}, Next
  PROVE  Whole'
<1>0. Types /\ Flow /\ Known /\ AtFront
  BY DEF HostInv, Whole
<1>1. AtFront'
  BY <1>0, FrontStays
<1>2. /\ disk' \in {disk, Document'} => disk' = disk \/ disk'.queue \in {queue, queue'}
      /\ \A q, saved : Written(q, saved) => disk'.queue = q
  BY DEF Document, Written
<1>3. CASE TurnAccepted \/ TurnActive \/ \E b \in BOOLEAN : TurnStarted(b) \/ TurnRefused(b)
  <2>1. live.sub \in Turns /\ Submitting
    BY <1>0, <1>3 DEF TurnAccepted, TurnActive, TurnStarted, TurnRefused, Flow, Submitting
  <2>2. /\ gone \subseteq gone' /\ sent' = sent /\ taken' = taken /\ disk' \in {disk, Document'}
        /\ \/ queue' = queue
           \/ /\ stage = "sending" /\ queue' = Drop(Len(batch), queue)
              /\ \/ cargo' = cargo /\ live.sub \in taken
                 \/ Elements(batch) \subseteq gone'
                 \/ /\ UNCHANGED <<cargo, reports, provider>> /\ provider.event /\ stage' = "free"
    BY <1>0, <1>3, <2>1, TurnAcceptedIs, TurnStartedIs, TurnRefusedIs, TurnActiveIs DEF Dropped
  <2>4. ASSUME UNCHANGED <<reports, provider>>, provider.event, stage' = "free", NEW n \in Turns, n = live.sub
        PROVE  Unreported(n)'
    <3>1. n < provider.next /\ reports[n] = 0
      BY <2>1, <2>4 DEF TurnInv, Numbers
    <3> QED
      BY <2>4, <3>1 DEF Unreported, Submitting
  <2>3. \A m \in Elements(queue) \ Elements(queue') : Safe(m)'
    BY <1>0, <2>1, <2>2, <2>4, HandedOverIs DEF Safe
  <2> QED
    BY <1>1, <1>2, <2>2, <2>3, AccountedStays DEF Whole
<1>4. CASE Stop
  <2>1. /\ gone \subseteq gone' /\ sent' = sent /\ disk' = disk
        /\ Elements(queue) \subseteq Elements(queue') \cup gone'
    BY <1>0, <1>4, StopIs
  <2>2. \A m \in Elements(queue) \ Elements(queue') : Safe(m)'
    BY <2>1 DEF Safe
  <2> QED
    BY <1>1, <2>1, <2>2, AccountedStays DEF Whole
<1>5. CASE FlushQueue \/ Boundaries
  <2>1. /\ gone \subseteq gone' /\ sent' = sent /\ (disk' = disk \/ disk'.queue \in {queue, queue'})
        /\ \/ queue' \in {queue, Retired(queue)}
           \/ \E a \in steering : queue' = Without(queue, a.ids) /\ a.ids \subseteq steered
    BY <1>0, <1>2, <1>5, FlushQueueIs, BoundariesIs DEF Nothing, Steers, Accepts, Doubts
  <2>2. steered \subseteq steered' /\ AcceptedIds \subseteq steered
    BY SteeredStays, AcceptedSteered
  <2>3. /\ Elements(Retired(queue)) = Elements(queue) \ AcceptedIds
        /\ \A A : Elements(Without(queue, A)) = Elements(queue) \ A
    BY <1>0, RetiredIs, WithoutIs DEF Types
  <2>4. Elements(queue) \ Elements(queue') \subseteq steered'
    <3>1. CASE queue' \in {queue, Retired(queue)}
      BY <2>2, <2>3, <3>1
    <3>2. CASE \E a \in steering : queue' = Without(queue, a.ids) /\ a.ids \subseteq steered
      BY <2>2, <2>3, <3>2
    <3> QED
      BY <2>1, <3>1, <3>2
  <2>5. \A m \in Elements(queue) \ Elements(queue') : Safe(m)'
    BY <2>4 DEF Safe
  <2> QED
    BY <1>1, <2>1, <2>5, AccountedStays DEF Whole
<1>6. CASE \E m \in Items : Deliver(m)
  <2>1. PICK m \in Items : Deliver(m)
    BY <1>6
  <2>2. /\ sent' = sent \cup {m} /\ disk'.queue = queue' /\ queue' = Append(queue, m) /\ gone' = gone
    BY <1>0, <2>1, DeliverIs, NoticesNever DEF Document
  <2>3. Elements(queue') = Elements(queue) \cup {m}
    BY <1>0, <2>2, AppendIs DEF Types
  <2>4. \A x : Safe(x) => Safe(x)'
    BY <2>2, SafeStays
  <2>5. \A x \in sent' : x \in Elements(queue') \/ Safe(x)'
    BY <2>2, <2>3, <2>4 DEF Whole, Accounted
  <2> QED
    BY <1>1, <2>2, <2>5 DEF Whole, Accounted
<1>7. CASE Crash
  <2>1. /\ gone' = gone /\ sent' = sent /\ queue' = disk.queue /\ disk' = disk
    BY <1>0, <1>7, CrashIs
  <2>2. \A x : Safe(x) => Safe(x)'
    BY <2>1, SafeStays
  <2>3. \A x \in sent : x \in Elements(queue') \/ Safe(x)'
    BY <2>1, <2>2 DEF Whole, Accounted
  <2> QED
    BY <1>1, <2>1, <2>3 DEF Whole, Accounted
<1>8. CASE /\ queue' = queue /\ gone \subseteq gone' /\ sent' = sent
           /\ disk' = disk \/ disk'.queue \in {queue, queue'}
  BY <1>1, <1>8, AccountedStays DEF Whole
<1>9. CASE FirstTurn \/ StartSession \/ SessionEnded \/ Restart \/ EndDeadSession \/ \E b \in BOOLEAN : Launched(b)
  BY <1>0, <1>2, <1>8, <1>9, FirstTurnIs, StartSessionIs, SessionEndedIs, RestartIs, EndDeadSessionIs, LaunchedIs
<1>10. CASE (\E n \in Turns : ProviderTakes(n)) \/ ProviderCompletes \/ ProviderExits
            \/ \E e \in events : OnCompletion(e)
  BY <1>0, <1>2, <1>8, <1>10, ProviderIs, OnCompletionIs
<1>11. CASE OnInteraction \/ CheckWorkers \/ \E kind \in Commands : Command(kind)
  BY <1>0, <1>2, <1>8, <1>11, OnInteractionIs, CheckWorkersIs, CommandIs
<1>12. CASE (\E p \in promises : PromiseKept(p)) \/ \E p \in promises, u, e \in BOOLEAN : TurnFailed(p, u, e)
  BY <1>0, <1>2, <1>8, <1>12, PromiseKeptIs, TurnFailedIs
<1> QED
  BY <1>3, <1>4, <1>5, <1>6, <1>7, <1>9, <1>10, <1>11, <1>12 DEF Next, Operate, Worker, Outside
LEMMA WholeInit ==
  ASSUME Init
  PROVE  Whole
<1>1. sent = {} /\ stage = "free"
  BY DEF Init
<1> QED
  BY <1>1 DEF Whole, Accounted, AtFront

LEMMA CopiesAre ==
  ASSUME Types, NEW m
  PROVE  /\ IsFiniteSet({n \in taken : m \in cargo[n]})
         /\ Cardinality({n \in taken : m \in cargo[n]}) \in Nat
         /\ (\E n \in taken : m \in cargo[n]) => Cardinality({n \in taken : m \in cargo[n]}) # 0
<1> DEFINE N == {n \in taken : m \in cargo[n]}
<1>1. taken \subseteq 1 .. MaxTurn /\ 1 \in Int /\ MaxTurn \in Int
  BY ConstantsAssumption DEF Types, Turns
<1>2. IsFiniteSet(1 .. MaxTurn)
  BY <1>1, FS_Interval
<1>3. N \subseteq 1 .. MaxTurn
  BY <1>1
<1>4. IsFiniteSet(N)
  BY <1>2, <1>3, FS_Subset
<1>5. Cardinality(N) \in Nat /\ (N # {} => Cardinality(N) # 0)
  BY <1>4, FS_CardinalityType, FS_EmptySet
<1> QED
  BY <1>4, <1>5

\* The promise of the turn that runs, while its program has not read it.
Promised ==
  provider.event /\ live.session /\ live.sub # 0 /\ ~Submitting /\ live.sub \notin taken =>
    [gen |-> live.gen, turn |-> live.sub] \in promises

LEMMA PromisedNext ==
  ASSUME HostInv, Driven, TurnInv, Promised, Next
  PROVE  Promised'
<1>0. Types /\ Flow
  BY DEF HostInv
<1>1. provider'.event = provider.event
  BY Drives
<1>2. CASE /\ live'.session /\ live'.sub # 0 => live'.session = live.session /\ live'.sub = live.sub
                                               /\ live'.gen = live.gen
           /\ promises \subseteq promises' /\ taken \subseteq taken'
           /\ Submitting => Submitting'
  BY <1>1, <1>2 DEF Promised
<1>3. CASE FlushQueue \/ FirstTurn
  <2>1. Submitting' \/ live'.session = FALSE \/ (UNCHANGED <<live, promises, taken, stage>> /\ ~Submitting)
    BY <1>0, <1>3, FlushQueueIs, FirstTurnIs DEF Dropped, Begun, Leaving, Submitting
  <2> QED
    BY <1>1, <2>1 DEF Promised
<1>4. CASE StartSession \/ SessionEnded \/ Stop \/ Restart \/ EndDeadSession
  BY <1>0, <1>2, <1>4, StartSessionIs, SessionEndedIs, StopIs, RestartIs, EndDeadSessionIs
     DEF Dropped, Leaving, Submitting
<1>5. CASE TurnAccepted \/ TurnActive \/ \E b \in BOOLEAN : TurnStarted(b) \/ TurnRefused(b)
  <2>1. live.sub \in Turns /\ Submitting
    BY <1>0, <1>5 DEF TurnAccepted, TurnActive, TurnStarted, TurnRefused, Flow, Submitting
  <2>2. \/ ~provider.event
        \/ live'.sub = 0
        \/ /\ live'.sub = live.sub /\ live'.gen = live.gen
           /\ [gen |-> live.gen, turn |-> live.sub] \in promises'
    BY <1>0, <1>5, <2>1, TurnAcceptedIs, TurnStartedIs, TurnRefusedIs, TurnActiveIs DEF Called, Leaving
  <2> QED
    BY <1>1, <2>2 DEF Promised
<1>6. CASE \E b \in BOOLEAN : Launched(b)
  <2>1. live'.sub = 0
    BY <1>0, <1>6, LaunchedIs DEF Flow
  <2> QED
    BY <2>1 DEF Promised
<1>7. CASE (\E n \in Turns : ProviderTakes(n)) \/ ProviderCompletes \/ ProviderExits
  BY <1>0, <1>2, <1>7, ProviderIs DEF Submitting
<1>8. CASE \E e \in events : OnCompletion(e)
  BY <1>0, <1>2, <1>8, OnCompletionIs DEF Finished, Submitting
<1>9. CASE \E p \in promises : PromiseKept(p)
  <2>1. PICK p \in promises : PromiseKept(p)
    BY <1>9
  <2>2. /\ UNCHANGED <<stage, taken>> /\ p.turn \in taken /\ promises' = promises \ {p}
        /\ live'.sub = 0 \/ (live'.session = live.session /\ live'.gen = live.gen /\ live'.sub = live.sub)
    BY <1>0, <2>1, PromiseKeptIs DEF Finished, Called
  <2>3. live.sub \notin taken => [gen |-> live.gen, turn |-> live.sub] # p
    BY <2>2
  <2> QED
    BY <1>1, <2>2, <2>3 DEF Promised, Submitting
<1>10. CASE \E p \in promises, u, e \in BOOLEAN : TurnFailed(p, u, e)
  <2>1. PICK p \in promises, u \in BOOLEAN, e \in BOOLEAN : TurnFailed(p, u, e)
    BY <1>10
  <2>2. /\ UNCHANGED <<stage, taken>> /\ promises' = promises \ {p}
        /\ live'.sub = 0 \/ (~LatestSubmission(p) /\ live' = live)
    BY <1>0, <2>1, TurnFailedIs DEF Finished
  <2>3. ASSUME live.session, live.sub \notin taken, [gen |-> live.gen, turn |-> live.sub] = p
        PROVE  LatestSubmission(p)
    <3>1. p.gen = live.gen /\ p.turn = live.sub
      BY <2>3
    <3> QED
      BY <2>3, <3>1 DEF TurnInv, Knows, LatestSubmission
  <2> QED
    BY <1>1, <2>2, <2>3 DEF Promised, Submitting
<1>11. CASE OnInteraction \/ CheckWorkers \/ Outside
  BY <1>0, <1>2, <1>11, OnInteractionIs, CheckWorkersIs, CommandIs, DeliverIs DEF Outside, Submitting
<1>12. CASE Boundaries
  BY <1>0, <1>2, <1>12, BoundariesIs DEF Submitting
<1>13. CASE Crash
  <2>1. live'.session = FALSE
    BY <1>0, <1>13, CrashIs
  <2> QED
    BY <2>1 DEF Promised
<1> QED
  BY <1>3, <1>4, <1>5, <1>6, <1>7, <1>8, <1>9, <1>10, <1>11, <1>12, <1>13 DEF Next, Operate, Worker

\* Nothing disappears between deliver() and the model, with messages only, which
\* a full queue refuses: every item is queued, taken, steered, still with its
\* program, or was announced as dropped, whatever is refused, stopped, lost or
\* restarted.  The one exception is the prompt an agent whose answer is the whole
\* turn was given and had not read when its session ended (turnFailed() returns at
\* the stale generation).
THEOREM NothingIsLost ==
  ASSUME Notices = {}
  PROVE  Spec => []NothingLostSilently
<1>1. HostInv /\ TurnInv /\ Whole /\ Promised => NothingLostSilently
  <2> SUFFICES ASSUME HostInv, TurnInv, Whole, Promised, NEW m \in sent,
                      ~(m \in Elements(queue) \/ m \in gone)
               PROVE  \/ Copies(m) > 0
                      \/ \E n \in Turns : m \in cargo[n] /\ (n \in Submissions \/ LostWithItsSession(n))
    BY DEF NothingLostSilently
  <2>1. m \in steered \/ (\E n \in taken : m \in cargo[n]) \/ \E n \in Turns : m \in cargo[n] /\ Unreported(n)
    BY DEF Whole, Accounted, Safe
  <2>2. m \in steered \/ (\E n \in taken : m \in cargo[n]) => Copies(m) > 0
    <3>1. /\ Cardinality({n \in taken : m \in cargo[n]}) \in Nat
          /\ (\E n \in taken : m \in cargo[n]) => Cardinality({n \in taken : m \in cargo[n]}) # 0
      BY CopiesAre DEF HostInv
    <3> QED
      BY <3>1 DEF Copies, CopiesIn
  <2>3. ASSUME NEW n \in Turns, Unreported(n), n \notin taken
        PROVE  n \in Submissions \/ LostWithItsSession(n)
    <3>1. CASE ~(live.session /\ live.sub = n)
      BY <2>3, <3>1 DEF Unreported, LostWithItsSession
    <3>2. CASE live.session /\ live.sub = n
      <4>1. live.sub # 0 /\ provider.gen = live.gen
        BY <2>3, <3>2, TurnTypes DEF HostInv, TurnInv, Numbers
      <4>2. [gen |-> live.gen, turn |-> n] \in promises
        BY <2>3, <3>2, <4>1 DEF Unreported, Promised
      <4> QED
        BY <4>1, <4>2 DEF Submissions
    <3> QED
      BY <3>1, <3>2
  <2> QED
    BY <2>1, <2>2, <2>3
<1>2. HostInv /\ Driven /\ TurnInv /\ Named /\ Whole /\ Promised /\ [Next]_vars => Whole' /\ Promised'
  <2>1. UNCHANGED vars /\ Whole /\ Promised => Whole' /\ Promised'
    BY DEF vars, Whole, Accounted, Safe, AtFront, Unreported, Submitting, Promised
  <2>2. HostInv /\ Driven /\ TurnInv /\ Named /\ Whole /\ Promised /\ Next => Whole' /\ Promised'
    BY WholeNext, PromisedNext
  <2> QED
    BY <2>1, <2>2
<1>3. Init => Promised
  BY DEF Init, Promised
<1> QED
  BY <1>1, <1>2, <1>3, WholeInit, NamedAlways, PTL DEF Spec
-----------------------------------------------------------------------------
(* Nothing is handed over twice *)

\* The submissions whose batch the program has, or still may take, as far as the
\* host was not told otherwise.
Handed == (taken \ disowned) \cup {p.turn : p \in promises} \cup (IF Submitting THEN {live.sub} ELSE {})

Once(q) == \A i, j \in DOMAIN q : q[i] = q[j] => i = j

\* No item is in two batches that were handed over, or in one and steered, and
\* what is in one is no longer queued, except while it is being handed over: then
\* the batch is what the queue loses when its first places are removed.
Single ==
  /\ Once(queue)
  /\ \A n, k \in Handed : n # k => cargo[n] \cap cargo[k] = {}
  /\ \A n \in Handed : cargo[n] \cap steered = {}
  /\ \A n \in Handed : cargo[n] \cap Elements(queue) # {} => stage = "sending" /\ n = live.sub
  /\ stage = "sending" => \A i \in DOMAIN queue : queue[i] \in Elements(batch) => i <= Len(batch)

\* The saved queue names nothing twice either, and nothing that was handed over
\* but what is being handed over: a new host hands that over again.
Saved ==
  /\ Once(disk.queue)
  /\ \A n \in Handed : cargo[n] \cap Elements(disk.queue) # {} => stage = "sending" /\ n = live.sub

LEMMA SingleInit ==
  ASSUME Init
  PROVE  Single /\ Saved
<1>1. /\ taken = {} /\ promises = {} /\ stage = "free" /\ queue = << >> /\ disk.queue = << >>
  BY DEF Init
<1>2. Handed = {}
  BY <1>1 DEF Handed, Submitting
<1>3. Once(queue) /\ Once(disk.queue)
  BY <1>1 DEF Once
<1> QED
  BY <1>1, <1>2, <1>3 DEF Single, Saved

\* Steps that hand nothing over and leave the queue alone, or empty it.
LEMMA RestSingle ==
  ASSUME Types, Single, UNCHANGED <<cargo, steered>>,
         queue' \in {queue, << >>}, Handed' \subseteq Handed,
         stage = "sending" => stage' = stage /\ batch' = batch /\ live'.sub = live.sub,
         stage' = "sending" => stage = "sending"
  PROVE  Single'
<1>1. Once(queue') /\ Elements(queue') \subseteq Elements(queue)
      /\ \A i \in DOMAIN queue' : i \in DOMAIN queue /\ queue'[i] = queue[i]
  BY DEF Single, Once, Elements
<1>2. \A n, k \in Handed' : n # k => cargo[n] \cap cargo[k] = {}
  BY DEF Single
<1>3. \A n \in Handed' : cargo[n] \cap steered = {}
  BY DEF Single
<1>4. \A n \in Handed' : cargo[n] \cap Elements(queue') # {} => stage' = "sending" /\ n = live'.sub
  BY <1>1 DEF Single
<1>5. stage' = "sending" => \A i \in DOMAIN queue' : queue'[i] \in Elements(batch') => i <= Len(batch')
  BY <1>1 DEF Single
<1> QED
  BY <1>1, <1>2, <1>3, <1>4, <1>5 DEF Single
\* Handed grows with no more than what is submitted.
LEMMA HandedFewer ==
  ASSUME taken' \ disowned' \subseteq Handed, promises' \subseteq promises,
         Submitting' => Submitting /\ live'.sub = live.sub
  PROVE  Handed' \subseteq Handed
BY DEF Handed

\* The steps that are not of the hand-over.
Others ==
  \/ StartSession \/ SessionEnded \/ Stop \/ Restart \/ EndDeadSession
  \/ \E b \in BOOLEAN : Launched(b)
  \/ \E n \in Turns : ProviderTakes(n)
  \/ ProviderCompletes \/ ProviderExits
  \/ \E e \in events : OnCompletion(e)
  \/ \E p \in promises : PromiseKept(p)
  \/ \E p \in promises, u, e \in BOOLEAN : TurnFailed(p, u, e)
  \/ OnInteraction \/ CheckWorkers
  \/ \E kind \in Commands : Command(kind)

LEMMA OthersAre ==
  ASSUME HostInv, Driven, TurnInv, Others, disowned \subseteq disowned'
  PROVE  /\ UNCHANGED <<cargo, steered>> /\ queue' \in {queue, << >>} /\ Handed' \subseteq Handed
         /\ stage = "sending" => stage' = stage /\ batch' = batch /\ live'.sub = live.sub
         /\ stage' = "sending" => stage = "sending"
<1>0. Types /\ Flow
  BY DEF HostInv
<1>1. taken \ disowned' \subseteq Handed
  BY DEF Handed
<1>2. /\ UNCHANGED <<cargo, steered>> /\ queue' \in {queue, << >>} /\ taken' \ disowned' \subseteq Handed
      /\ promises' \subseteq promises
      /\ Submitting' => Submitting /\ live'.sub = live.sub
      /\ stage = "sending" => stage' = stage /\ batch' = batch /\ live'.sub = live.sub
      /\ stage' = "sending" => stage = "sending"
  <2>1. CASE StartSession \/ SessionEnded
    BY <1>0, <1>1, <2>1, StartSessionIs, SessionEndedIs DEF Dropped, Submitting
  <2>2. CASE Stop \/ Restart \/ EndDeadSession
    BY <1>0, <1>1, <2>2, StopIs, RestartIs, EndDeadSessionIs DEF Dropped, Leaving, Submitting
  <2>3. CASE \E b \in BOOLEAN : Launched(b)
    BY <1>0, <1>1, <2>3, LaunchedIs DEF Dropped, Submitting
  <2>4. CASE \E n \in Turns : ProviderTakes(n)
    <3>1. PICK n \in Turns : ProviderTakes(n)
      BY <2>4
    <3>2. /\ UNCHANGED <<cargo, steered, queue, promises, live, stage, batch>>
          /\ n \in Submissions /\ taken' = taken \cup {n}
      BY <1>0, <3>1, ProviderIs
    <3>3. n \in Handed
      BY <3>2 DEF Handed, Submissions, Submitting
    <3> QED
      BY <1>1, <3>2, <3>3 DEF Submitting
  <2>5. CASE ProviderCompletes \/ ProviderExits
    BY <1>0, <1>1, <2>5, ProviderIs DEF Submitting
  <2>6. CASE \E e \in events : OnCompletion(e)
    <3>1. PICK e \in events : OnCompletion(e)
      BY <2>6
    <3>2. /\ UNCHANGED <<queue, stage, batch, steered, taken, cargo, promises>>
          /\ live' = live \/ live'.sub = live.sub \/ live.active # 0
      BY <1>0, <3>1, OnCompletionIs
    <3>3. Submitting => live'.sub = live.sub
      BY <1>0, <3>2 DEF Flow
    <3> QED
      BY <1>1, <3>2, <3>3 DEF Submitting
  <2>7. CASE (\E p \in promises : PromiseKept(p)) \/ \E p \in promises, u, e \in BOOLEAN : TurnFailed(p, u, e)
    <3>1. provider.event /\ Settled
      BY <1>0, <2>7, PromiseKeptIs, TurnFailedIs DEF Driven
    <3>2. ~Submitting
      BY <3>1 DEF Settled, Submitting
    <3> QED
      BY <1>0, <1>1, <2>7, <3>2, PromiseKeptIs, TurnFailedIs DEF Submitting
  <2>8. CASE OnInteraction \/ CheckWorkers \/ \E kind \in Commands : Command(kind)
    BY <1>0, <1>1, <2>8, OnInteractionIs, CheckWorkersIs, CommandIs DEF Submitting
  <2> QED
    BY <2>1, <2>2, <2>3, <2>4, <2>5, <2>6, <2>7, <2>8 DEF Others
<1>3. Handed' \subseteq Handed
  BY <1>2, HandedFewer
<1> QED
  BY <1>2, <1>3

LEMMA OthersSingle ==
  ASSUME HostInv, Driven, TurnInv, Single, Others, disowned \subseteq disowned'
  PROVE  Single'
BY OthersAre, RestSingle DEF HostInv

\* submitTurn(): the batch is at the front of a queue none of which was handed over.
LEMMA BegunSingle ==
  ASSUME Types, TurnInv, Named', Single, ~Submitting, disowned \subseteq disowned',
         NEW next \in {"first", "sending"}, Begun(batch', next), UNCHANGED <<taken, promises, steered>>,
         queue' \in Seq(Items), Once(queue'), Elements(queue') \subseteq Elements(queue),
         batch' = << >> \/ (next = "sending" /\ batch' = AtMost(BatchSize, queue'))
  PROVE  Single'
<1>1. /\ provider.next \in Turns /\ live'.sub = provider.next /\ stage' = next
      /\ cargo'[provider.next] = Elements(batch')
      /\ \A n \in Turns \ {provider.next} : cargo'[n] = cargo[n]
  BY DEF Begun
<1>2. \A n \in Handed : n < provider.next
  BY DEF TurnInv, Numbers, Handed
<1>3. provider.next \in Nat /\ Handed \subseteq Turns
  BY TurnTypes DEF Handed, Submitting
<1>4. provider.next \notin Handed
  BY <1>2, <1>3
<1>5. Handed' \subseteq Handed \cup {provider.next}
  BY <1>1 DEF Handed, Submitting
<1>6. \A n \in Handed : cargo'[n] = cargo[n]
  BY <1>1, <1>3, <1>4
<1>7. Elements(batch') \subseteq Elements(queue')
  <2>1. CASE batch' = << >>
    BY <2>1 DEF Elements
  <2>2. CASE batch' = AtMost(BatchSize, queue')
    BY <2>2, AtMostIs, ConstantsAssumption
  <2> QED
    BY <2>1, <2>2
<1>8. \A n \in Handed : cargo[n] \cap Elements(queue) = {}
  BY DEF Single, Submitting
<1>9. \A n \in Handed : cargo'[n] \cap Elements(queue') = {} /\ cargo'[n] \cap cargo'[provider.next] = {}
  BY <1>1, <1>6, <1>7, <1>8
<1>10. \A n, k \in Handed' : n # k => cargo'[n] \cap cargo'[k] = {}
  <2>1. \A n, k \in Handed : n # k => cargo'[n] \cap cargo'[k] = {}
    BY <1>6 DEF Single
  <2> QED
    BY <1>5, <1>9, <2>1
<1>11. \A n \in Handed' : cargo'[n] \cap steered' = {}
  <2>1. Elements(batch') \cap steered' = {}
    BY <1>1 DEF Named, Submitting
  <2>2. \A n \in Handed : cargo'[n] \cap steered' = {}
    BY <1>6 DEF Single
  <2> QED
    BY <1>1, <1>5, <2>1, <2>2
<1>12. \A n \in Handed' : cargo'[n] \cap Elements(queue') # {} => stage' = "sending" /\ n = live'.sub
  <2>1. next # "sending" => Elements(batch') = {}
    BY DEF Elements
  <2> QED
    BY <1>1, <1>5, <1>9, <2>1
<1>13. stage' = "sending" => \A i \in DOMAIN queue' : queue'[i] \in Elements(batch') => i <= Len(batch')
  <2> SUFFICES ASSUME NEW i \in DOMAIN queue', queue'[i] \in Elements(batch')
               PROVE  i <= Len(batch')
    OBVIOUS
  <2>1. batch' = AtMost(BatchSize, queue')
    BY DEF Elements
  <2>2. /\ batch' \in Seq(Items)
        /\ \A j \in DOMAIN batch' : j \in DOMAIN queue' /\ batch'[j] = queue'[j]
    BY <2>1, AtMostIs, ConstantsAssumption
  <2>3. PICK j \in DOMAIN batch' : queue'[i] = batch'[j]
    BY DEF Elements
  <2>4. i = j
    BY <2>2, <2>3 DEF Once
  <2> QED
    BY <2>2, <2>3, <2>4, LenProperties
<1> QED
  BY <1>10, <1>11, <1>12, <1>13 DEF Single
\* Removing the first places of the queue removes the batch, all of it.
LEMMA DropSingle ==
  ASSUME Types, Flow, Single, Submitting,
         queue' = IF stage = "sending" THEN Drop(Len(batch), queue) ELSE queue
  PROVE  /\ Once(queue') /\ Elements(queue') \subseteq Elements(queue)
         /\ \A n \in Handed : cargo[n] \cap Elements(queue') = {}
<1>1. CASE stage # "sending"
  BY <1>1 DEF Single
<1>2. CASE stage = "sending"
  <2>1. queue \in Seq(Items) /\ batch \in Seq(Items) /\ Len(batch) \in Nat
    BY LenProperties DEF Types
  <2>2. /\ queue' \in Seq(Items) /\ Elements(queue') \subseteq Elements(queue)
        /\ \A i \in DOMAIN queue' : Len(batch) + i \in DOMAIN queue /\ queue'[i] = queue[Len(batch) + i]
    BY <1>2, <2>1, DropIs
  <2>3. DOMAIN queue' \subseteq Nat \ {0}
    BY <2>2, LenProperties
  <2>4. Once(queue')
    <3> SUFFICES ASSUME NEW i \in DOMAIN queue', NEW j \in DOMAIN queue', queue'[i] = queue'[j]
                 PROVE  i = j
      BY DEF Once
    <3>1. Len(batch) + i = Len(batch) + j
      BY <2>2 DEF Single, Once
    <3> QED
      BY <2>1, <2>3, <3>1
  <2>5. ASSUME NEW i \in DOMAIN queue', queue'[i] \in Elements(batch) PROVE FALSE
    <3>1. Len(batch) + i <= Len(batch)
      BY <1>2, <2>2, <2>5 DEF Single
    <3> QED
      BY <2>1, <2>3, <3>1
  <2>6. Elements(queue') \cap Elements(batch) = {}
    BY <2>5 DEF Elements
  <2>7. cargo[live.sub] = Elements(batch)
    BY DEF Flow
  <2>8. \A n \in Handed : n # live.sub => cargo[n] \cap Elements(queue) = {}
    BY DEF Single
  <2> QED
    BY <2>2, <2>4, <2>6, <2>7, <2>8
<1> QED
  BY <1>1, <1>2

\* Nothing that was handed over is queued.
LEMMA ApartSingle ==
  ASSUME Single, steered' = steered, Once(queue'),
         Handed' \subseteq Handed, \A n \in Handed' : cargo'[n] = cargo[n], stage' # "sending",
         \A n \in Handed' : cargo[n] \cap Elements(queue') = {}
  PROVE  Single'
<1>1. /\ \A n, k \in Handed' : n # k => cargo'[n] \cap cargo'[k] = {}
      /\ \A n \in Handed' : cargo'[n] \cap steered = {} /\ cargo'[n] \cap Elements(queue') = {}
  BY DEF Single
<1> QED
  BY <1>1 DEF Single

\* The end of a hand-over: what was refused is handed over no more.
LEMMA RefusedHanded ==
  ASSUME HostInv, TurnInv, disowned \subseteq disowned', TurnActive \/ \E b \in BOOLEAN : TurnRefused(b)
  PROVE  /\ Handed' \subseteq Handed /\ live.sub \notin Handed' /\ steered' = steered
         /\ \A n \in Handed' : cargo'[n] = cargo[n]
         /\ stage' \in {"free", "failing"} /\ disk' \in {disk, Document'}
         /\ queue' = queue \/ (stage = "sending" /\ queue' = Drop(Len(batch), queue))
<1>0. Types /\ Flow
  BY DEF HostInv
<1>1. live.sub \in Turns /\ Submitting
  BY <1>0 DEF TurnActive, TurnRefused, Flow, Submitting
<1>2. /\ UNCHANGED <<taken, steered, promises>> /\ stage' \in {"free", "failing"}
      /\ \A n \in Turns \ {live.sub} : cargo'[n] = cargo[n]
      /\ queue' = queue \/ (stage = "sending" /\ queue' = Drop(Len(batch), queue))
      /\ disk' \in {disk, Document'} /\ {live.sub} \cap taken \subseteq disowned'
  BY <1>0, <1>1, TurnRefusedIs, TurnActiveIs DEF Dropped, Leaving
<1>3. Handed' \subseteq Handed /\ live.sub \notin Handed'
  BY <1>1, <1>2 DEF Handed, Submitting, TurnInv, Numbers
<1>4. Handed \subseteq Turns
  BY <1>0, <1>1, TurnTypes DEF Handed
<1> QED
  BY <1>2, <1>3, <1>4

LEMMA SubmittedSingle ==
  ASSUME HostInv, TurnInv, Single, disowned \subseteq disowned',
         TurnAccepted \/ TurnActive \/ \E b \in BOOLEAN : TurnStarted(b) \/ TurnRefused(b)
  PROVE  Single'
<1>0. Types /\ Flow
  BY DEF HostInv
<1>1. live.sub \in Turns /\ Submitting /\ live.session
  BY <1>0 DEF TurnAccepted, TurnActive, TurnStarted, TurnRefused, Flow, Submitting
<1>2. CASE TurnAccepted \/ \E b \in BOOLEAN : TurnStarted(b)
  <2>1. /\ UNCHANGED <<taken, cargo, steered>> /\ stage' = "free"
        /\ queue' = IF stage = "sending" THEN Drop(Len(batch), queue) ELSE queue
        /\ promises' = promises \/ promises' = promises \cup {[gen |-> live.gen, turn |-> live.sub]}
    BY <1>0, <1>1, <1>2, TurnAcceptedIs, TurnStartedIs DEF Dropped
  <2>2. Handed' \subseteq Handed
    BY <1>1, <2>1 DEF Handed, Submitting
  <2>3. Once(queue') /\ \A n \in Handed : cargo[n] \cap Elements(queue') = {}
    BY <1>0, <1>1, <2>1, DropSingle
  <2> QED
    BY <2>1, <2>2, <2>3, ApartSingle
<1>3. CASE TurnActive \/ \E b \in BOOLEAN : TurnRefused(b)
  <2>1. CASE queue' = queue
    <3>1. Once(queue') /\ \A n \in Handed' : cargo[n] \cap Elements(queue') = {}
      BY <1>3, <2>1, RefusedHanded DEF Single
    <3> QED
      BY <1>3, <3>1, RefusedHanded, ApartSingle
  <2>2. CASE stage = "sending" /\ queue' = Drop(Len(batch), queue)
    <3>1. Once(queue') /\ \A n \in Handed : cargo[n] \cap Elements(queue') = {}
      BY <1>0, <1>1, <2>2, DropSingle
    <3> QED
      BY <1>3, <3>1, RefusedHanded, ApartSingle
  <2> QED
    BY <1>3, <2>1, <2>2, RefusedHanded
<1> QED
  BY <1>2, <1>3

LEMMA DeliverSingle ==
  ASSUME HostInv, Single, disowned \subseteq disowned', NEW m \in Items, Deliver(m)
  PROVE  Single'
<1>0. Types /\ Known /\ queue \in Seq(Items)
  BY DEF HostInv, Types
<1>1. /\ UNCHANGED <<live, stage, batch, steered, provider, taken, cargo, promises>>
      /\ m \notin sent
      /\ queue' = Append(queue, m) \/ queue' = Tail(Append(queue, m))
  BY <1>0, DeliverIs
<1>2. Handed' \subseteq Handed
  BY <1>1 DEF Handed, Submitting
<1>3. /\ Elements(queue') \subseteq Elements(queue) \cup {m} /\ m \notin Elements(queue)
      /\ m \notin Elements(batch)
  BY <1>0, <1>1, DeliveredIs DEF Known
<1>5. PICK full \in Seq(Items) : full = Append(queue, m)
  BY <1>0, AppendIs
<1>6. /\ Len(queue) \in Nat /\ DOMAIN queue = 1 .. Len(queue) /\ full # << >>
      /\ \A i \in DOMAIN full : \/ i \in DOMAIN queue /\ full[i] = queue[i]
                                \/ i = Len(queue) + 1 /\ full[i] = m
  BY <1>0, <1>5, AppendIs, LenProperties
<1>7. \A i \in DOMAIN queue : queue[i] # m
  BY <1>3 DEF Elements
<1>8. Once(full)
  BY <1>6, <1>7 DEF Single, Once
<1>9. stage = "sending" => \A i \in DOMAIN full : full[i] \in Elements(batch) => i <= Len(batch)
  BY <1>3, <1>6 DEF Single
<1>10. \A i \in DOMAIN Tail(full) : i + 1 \in DOMAIN full /\ Tail(full)[i] = full[i + 1]
  BY <1>6, TailIs
<1>11. DOMAIN Tail(full) \subseteq Nat /\ Len(batch) \in Nat
  BY <1>0, <1>5, <1>6, TailIs, LenProperties DEF Types
<1>12. Once(Tail(full))
  <2> SUFFICES ASSUME NEW i \in DOMAIN Tail(full), NEW j \in DOMAIN Tail(full),
                      Tail(full)[i] = Tail(full)[j]
               PROVE  i = j
    BY DEF Once
  <2>1. i + 1 = j + 1
    BY <1>8, <1>10 DEF Once
  <2> QED
    BY <1>11, <2>1
<1>13. stage = "sending" => \A i \in DOMAIN Tail(full) : Tail(full)[i] \in Elements(batch) => i <= Len(batch)
  <2> SUFFICES ASSUME stage = "sending", NEW i \in DOMAIN Tail(full), Tail(full)[i] \in Elements(batch)
               PROVE  i <= Len(batch)
    OBVIOUS
  <2>1. i + 1 <= Len(batch)
    BY <1>9, <1>10
  <2> QED
    BY <1>11, <2>1
<1>14. /\ Once(queue')
       /\ stage = "sending" => \A i \in DOMAIN queue' : queue'[i] \in Elements(batch) => i <= Len(batch)
  BY <1>1, <1>5, <1>8, <1>9, <1>12, <1>13
<1>15. \A n \in Handed : cargo[n] \cap Elements(queue') # {} => stage = "sending" /\ n = live.sub
  <2> SUFFICES ASSUME NEW n \in Handed, cargo[n] \cap Elements(queue') # {}
               PROVE  cargo[n] \cap Elements(queue) # {}
    BY DEF Single
  <2>1. n \in Turns
    BY <1>0, TurnTypes DEF Handed, HostInv, Flow
  <2>2. m \notin cargo[n]
    BY <1>0, <1>1, <2>1 DEF Known
  <2> QED
    BY <1>3, <2>2
<1> QED
  BY <1>1, <1>2, <1>14, <1>15 DEF Single
LEMMA BoundariesSingle ==
  ASSUME HostInv, Named, Single, Boundaries, disowned \subseteq disowned'
  PROVE  Single'
<1>0. Types /\ Flow /\ queue \in Seq(Items)
  BY DEF HostInv, Types
<1>1. UNCHANGED <<live, stage, batch, provider, taken, cargo, promises>>
  BY <1>0, BoundariesIs
<1>2. Handed' \subseteq Handed
  BY <1>1 DEF Handed, Submitting
<1>3. /\ queue' = queue \/ \E A : queue' = Without(queue, A)
      /\ \/ steered' = steered
         \/ live.active # 0 /\ steered' \subseteq steered \cup Elements(queue)
      /\ stage = "sending" => queue' = queue
  <2>1. CASE Nothing
    <3>1. stage = "sending" => Retired(queue) = queue
      BY <1>0, WithoutIs DEF Named, Retired
    <3> QED
      BY <2>1, <3>1 DEF Nothing, Retired
  <2>2. CASE \E a \in Journaled : Steers(a)
    <3>1. PICK a \in Journaled : Steers(a)
      BY <2>2
    <3>2. Elements(Retired(queue)) \subseteq Elements(queue)
      BY <1>0, QueuesAre
    <3>3. stage # "sending"
      BY <1>0, <3>1 DEF Steers, Flow, Submitting
    <3> QED
      BY <3>1, <3>2, <3>3 DEF Steers, Retired
  <2>3. CASE \E a \in steering : Accepts(a) \/ Doubts(a)
    <3>1. PICK a \in steering : Accepts(a) \/ Doubts(a)
      BY <2>3
    <3>2. a.turn # 0
      BY <1>0 DEF Types, Journaled, Turns
    <3>3. Accepts(a) => stage # "sending"
      BY <1>0, <3>2 DEF Accepts, Flow, Submitting
    <3> QED
      BY <3>1, <3>3 DEF Accepts, Doubts
  <2> QED
    BY <1>0, <2>1, <2>2, <2>3, BoundariesIs
<1>4. Once(queue') /\ Elements(queue') \subseteq Elements(queue)
  <2>1. Once(queue)
    BY DEF Single
  <2>2. \A A : Once(Without(queue, A)) /\ Elements(Without(queue, A)) \subseteq Elements(queue)
    BY <1>0, <2>1, WithoutIs DEF Once
  <2> QED
    BY <1>3, <2>1, <2>2
<1>5. \A n \in Handed : cargo[n] \cap steered' = {}
  <2>1. CASE steered' = steered
    BY <2>1 DEF Single
  <2>2. CASE live.active # 0 /\ steered' \subseteq steered \cup Elements(queue)
    <3>1. stage # "sending"
      BY <1>0, <2>2 DEF Flow, Submitting
    <3> QED
      BY <2>2, <3>1 DEF Single
  <2> QED
    BY <1>3, <2>1, <2>2
<1>6. \A n \in Handed : cargo[n] \cap Elements(queue') # {} => stage = "sending" /\ n = live.sub
  BY <1>4 DEF Single
<1>7. stage = "sending" => \A i \in DOMAIN queue' : queue'[i] \in Elements(batch) => i <= Len(batch)
  BY <1>3 DEF Single
<1> QED
  BY <1>1, <1>2, <1>4, <1>5, <1>6, <1>7 DEF Single

LEMMA FlushQueueSingle ==
  ASSUME HostInv, TurnInv, Named', Single, disowned \subseteq disowned', FlushQueue \/ FirstTurn
  PROVE  Single'
<1>0. Types /\ queue \in Seq(Items)
  BY DEF HostInv, Types
<1>1. UNCHANGED <<taken, promises, steered>> /\ ~Submitting
  BY <1>0, FlushQueueIs, FirstTurnIs DEF Submitting
<1>2. queue' \in Seq(Items) /\ Once(queue') /\ Elements(queue') \subseteq Elements(queue)
  <2>1. queue' \in {queue, Retired(queue)}
    BY <1>0, FlushQueueIs, FirstTurnIs
  <2>2. Once(queue)
    BY DEF Single
  <2>3. Retired(queue) \in Seq(Items) /\ Once(Retired(queue)) /\ Elements(Retired(queue)) \subseteq Elements(queue)
    BY <1>0, <2>2, WithoutIs DEF Once, Retired
  <2> QED
    BY <1>0, <2>1, <2>2, <2>3
<1>3. CASE \/ Begun(AtMost(BatchSize, queue'), "sending")
           \/ Begun(<< >>, "first")
  <2>1. \E next \in {"first", "sending"} :
          /\ Begun(batch', next)
          /\ batch' = << >> \/ (next = "sending" /\ batch' = AtMost(BatchSize, queue'))
    BY <1>3 DEF Begun
  <2> QED
    BY <1>0, <1>1, <1>2, <2>1, BegunSingle
<1>4. CASE cargo' = cargo /\ ~Submitting'
  <2>1. Handed' \subseteq Handed
    BY <1>1, <1>4 DEF Handed
  <2>2. \A n \in Handed' : cargo[n] \cap Elements(queue') = {}
    BY <1>1, <1>2, <2>1 DEF Single, Submitting
  <2> QED
    BY <1>1, <1>2, <1>4, <2>1, <2>2, ApartSingle DEF Submitting
<1>5. \/ Begun(AtMost(BatchSize, queue'), "sending")
      \/ Begun(<< >>, "first")
      \/ cargo' = cargo /\ ~Submitting'
  BY <1>0, FlushQueueIs, FirstTurnIs DEF Dropped, Leaving, Submitting
<1> QED
  BY <1>3, <1>4, <1>5

\* The host is lost: what it was handing over is in the queue of the next one.
LEMMA CrashSingle ==
  ASSUME HostInv, Single, Saved, Crash
  PROVE  Single'
<1>1. /\ UNCHANGED <<steered, cargo, taken>> /\ queue' = disk.queue /\ stage' = "free"
      /\ promises' = {} /\ disowned' = disowned \cup (IF Submitting THEN {live.sub} \cap taken ELSE {})
  BY DEF Crash, Disown, Submitting
<1>2. Handed' \subseteq Handed /\ (Submitting => live.sub \notin Handed')
  BY <1>1 DEF Handed, Submitting
<1>3. Once(queue') /\ \A n \in Handed' : cargo[n] \cap Elements(queue') = {}
  BY <1>1, <1>2 DEF Saved, Submitting
<1> QED
  BY <1>1, <1>2, <1>3, ApartSingle

\* How a step can change what is handed over, for a queue that is saved.
LEMMA HandedIs ==
  ASSUME HostInv, Driven, TurnInv, disowned \subseteq disowned', Next
  PROVE  \/ disk'.queue = queue'
         \/ /\ Handed' \subseteq Handed /\ \A n \in Handed' : cargo'[n] = cargo[n]
            /\ stage = "sending" => (stage' = stage /\ live'.sub = live.sub) \/ live.sub \notin Handed'
         \/ /\ Handed' \subseteq Handed \cup {live'.sub} /\ ~Submitting
            /\ \A n \in Handed' \ {live'.sub} : cargo'[n] = cargo[n]
            /\ stage' = "sending" \/ cargo'[live'.sub] = {}
<1>0. Types /\ Flow
  BY DEF HostInv
<1>1. CASE FlushQueue \/ FirstTurn
  <2>1. UNCHANGED <<taken, promises>> /\ ~Submitting
    BY <1>0, <1>1, FlushQueueIs, FirstTurnIs DEF Submitting
  <2>2. CASE cargo' = cargo /\ ~Submitting'
    BY <2>1, <2>2 DEF Handed, Submitting
  <2>3. CASE \/ Begun(AtMost(BatchSize, queue'), "sending")
             \/ Begun(<< >>, "first")
    <3>1. /\ live'.sub = provider.next /\ provider.next \in Turns
          /\ stage' = "sending" \/ cargo'[provider.next] = {}
          /\ \A n \in Turns \ {provider.next} : cargo'[n] = cargo[n]
      BY <2>3 DEF Begun, Elements
    <3>2. Handed' \subseteq Handed \cup {live'.sub} /\ Handed' \subseteq Turns
      BY <1>0, <2>1, <3>1, TurnTypes DEF Handed, Submitting
    <3> QED
      BY <2>1, <3>1, <3>2
  <2> QED
    BY <1>0, <1>1, <2>2, <2>3, FlushQueueIs, FirstTurnIs DEF Dropped, Leaving, Submitting
<1>2. CASE TurnAccepted \/ \E b \in BOOLEAN : TurnStarted(b)
  <2>1. disk' = Document'
    BY <1>2 DEF TurnAccepted, TurnStarted, Save
  <2> QED
    BY <2>1 DEF Document
<1>3. CASE TurnActive \/ \E b \in BOOLEAN : TurnRefused(b)
  BY <1>3, RefusedHanded
<1>4. CASE \E m \in Items : Deliver(m)
  BY <1>4 DEF Deliver, Save, Document
<1>5. CASE Boundaries
  BY <1>0, <1>5, BoundariesIs DEF Handed, Submitting
<1>6. CASE Crash
  <2>1. /\ UNCHANGED <<cargo, taken>> /\ stage' = "free" /\ promises' = {}
        /\ disowned' = disowned \cup (IF Submitting THEN {live.sub} \cap taken ELSE {})
    BY <1>6 DEF Crash, Disown, Submitting
  <2> QED
    BY <2>1 DEF Handed, Submitting
<1>7. CASE Others
  BY <1>7, OthersAre
<1> QED
  BY <1>1, <1>2, <1>3, <1>4, <1>5, <1>6, <1>7 DEF Next, Operate, Worker, Outside, Others

\* The saved queue is the one it was, or that of the host before or after.
LEMMA SavesQueue ==
  ASSUME HostInv, Driven, Next
  PROVE  disk'.queue \in {disk.queue, queue, queue'}
<1>1. CASE Operate \/ Worker \/ Outside
  BY <1>1, Unsteered DEF Document
<1>2. CASE Boundaries
  BY <1>2, BoundariesIs DEF HostInv, Nothing, Steers, Accepts, Doubts, Written
<1>3. CASE Crash
  BY <1>3 DEF Crash
<1> QED
  BY <1>1, <1>2, <1>3 DEF Next

LEMMA SavedNext ==
  ASSUME HostInv, Driven, TurnInv, Single, Single', Saved, disowned \subseteq disowned', Next
  PROVE  Saved'
<1>1. CASE disk'.queue = queue'
  BY <1>1 DEF Single, Saved
<1>2. CASE disk'.queue \in {disk.queue, queue}
  <2>1. /\ Once(disk'.queue)
        /\ \A n \in Handed : cargo[n] \cap Elements(disk'.queue) # {} => stage = "sending" /\ n = live.sub
    BY <1>2 DEF Single, Saved
  <2>2. CASE /\ Handed' \subseteq Handed /\ \A n \in Handed' : cargo'[n] = cargo[n]
             /\ stage = "sending" => (stage' = stage /\ live'.sub = live.sub) \/ live.sub \notin Handed'
    BY <2>1, <2>2 DEF Saved
  <2>3. CASE /\ Handed' \subseteq Handed \cup {live'.sub} /\ ~Submitting
             /\ \A n \in Handed' \ {live'.sub} : cargo'[n] = cargo[n]
             /\ stage' = "sending" \/ cargo'[live'.sub] = {}
    BY <2>1, <2>3 DEF Saved, Submitting
  <2> QED
    BY <1>1, <2>2, <2>3, HandedIs
<1> QED
  BY <1>1, <1>2, SavesQueue

LEMMA SingleNext ==
  ASSUME HostInv, Driven, TurnInv, Named, Named', Single, Saved, [Next]_vars
  PROVE  Single' /\ Saved'
<1>0. disowned \subseteq disowned'
  BY Disowns
<1>1. CASE UNCHANGED vars
  BY <1>1 DEF vars, Single, Saved, Handed, Submitting, Once
<1>2. CASE Next
  <2>1. Single'
    <3>1. CASE FlushQueue \/ FirstTurn
      BY <1>0, <3>1, FlushQueueSingle
    <3>2. CASE TurnAccepted \/ TurnActive \/ \E b \in BOOLEAN : TurnStarted(b) \/ TurnRefused(b)
      BY <1>0, <3>2, SubmittedSingle
    <3>3. CASE \E m \in Items : Deliver(m)
      BY <1>0, <3>3, DeliverSingle
    <3>4. CASE Boundaries
      BY <1>0, <3>4, BoundariesSingle
    <3>5. CASE Others
      BY <1>0, <3>5, OthersSingle
    <3>6. CASE Crash
      BY <3>6, CrashSingle
    <3> QED
      BY <1>2, <3>1, <3>2, <3>3, <3>4, <3>5, <3>6 DEF Next, Operate, Worker, Outside, Others
  <2> QED
    BY <1>0, <1>2, <2>1, SavedNext
<1> QED
  BY <1>1, <1>2

\* No item reaches the model twice, by the courier's turns and by steering
\* together, whatever is refused, cancelled, held, doubted, stopped or lost
\* (flushQueue(), endBoundary(), the splice by position after the await of
\* sendTurn).  The one exception is a hand-over the program had taken that ended
\* as refused or that the host did not live to hear of: its batch stays queued.
THEOREM HandsOverOnce == Spec => []HandedOnce
<1>1. HostInv /\ Single => HandedOnce
  <2> SUFFICES ASSUME HostInv, Single, NEW m \in sent PROVE CopiesIn(taken \ disowned, m) <= 1
    BY DEF HandedOnce
  <2> DEFINE N == {n \in taken \ disowned : m \in cargo[n]}
  <2>1. CASE N = {}
    <3>1. Cardinality(N) = 0
      BY <2>1, FS_EmptySet
    <3> QED
      BY <3>1 DEF CopiesIn
  <2>2. CASE N # {}
    <3>1. PICK n \in N : TRUE
      BY <2>2
    <3>2. n \in Handed /\ \A k \in N : k \in Handed
      BY DEF Handed
    <3>3. N = {n}
      BY <3>1, <3>2 DEF Single
    <3>4. Cardinality(N) = 1
      BY <3>3, FS_Singleton
    <3>5. m \notin steered
      BY <3>1, <3>2 DEF Single
    <3> QED
      BY <3>4, <3>5 DEF CopiesIn
  <2> QED
    BY <2>1, <2>2
<1> QED
  BY <1>1, SingleInit, SingleNext, HostNext, TurnNext, NamedNext, NamedAlways, PTL DEF Spec
-----------------------------------------------------------------------------
(* The host waits for what will come *)

LEMMA SpentGrows ==
  ASSUME HostInv, Next
  PROVE  Spent
<1>0. Types /\ Flow
  BY DEF HostInv
<1>1. Spent \/ spent' = spent
  <2>1. CASE FlushQueue \/ FirstTurn \/ StartSession \/ SessionEnded \/ Stop \/ Restart \/ EndDeadSession
    BY <1>0, <2>1, FlushQueueIs, FirstTurnIs, StartSessionIs, SessionEndedIs, StopIs, RestartIs, EndDeadSessionIs
  <2>2. CASE TurnAccepted \/ TurnActive \/ \E b \in BOOLEAN : TurnStarted(b) \/ TurnRefused(b)
    <3>1. live.sub \in Turns
      BY <1>0, <2>2 DEF TurnAccepted, TurnActive, TurnStarted, TurnRefused, Flow, Submitting
    <3> QED
      BY <1>0, <2>2, <3>1, TurnAcceptedIs, TurnStartedIs, TurnRefusedIs, TurnActiveIs
  <2>3. CASE \E b \in BOOLEAN : Launched(b)
    BY <1>0, <2>3, LaunchedIs
  <2>4. CASE (\E n \in Turns : ProviderTakes(n)) \/ ProviderCompletes \/ ProviderExits
    BY <1>0, <2>4, ProviderIs
  <2>5. CASE (\E e \in events : OnCompletion(e)) \/ \E p \in promises : PromiseKept(p)
    BY <1>0, <2>5, OnCompletionIs, PromiseKeptIs
  <2>6. CASE \E p \in promises, u, e \in BOOLEAN : TurnFailed(p, u, e)
    BY <1>0, <2>6, TurnFailedIs
  <2>7. CASE OnInteraction \/ CheckWorkers \/ Outside \/ Boundaries \/ Crash
    BY <1>0, <2>7, OnInteractionIs, CheckWorkersIs, CommandIs, DeliverIs, BoundariesIs, CrashIs DEF Outside
  <2> QED
    BY <2>1, <2>2, <2>3, <2>4, <2>5, <2>6, <2>7 DEF Next, Operate, Worker
<1> QED
  BY <1>0, <1>1, SpentSame

\* What the program's answers and events name the turn that runs with.
Latest == [gen |-> live.gen, turn |-> live.sub]

\* The turn that runs, while its program lives: what the program has taken it
\* works on or has ended, with an event that will be seen or was kept; and the
\* name of the turn, or the answer that comes with it, is still to come.
Awaited ==
  live.session /\ provider.alive /\ node.turn = "running" =>
    /\ live.sub \in taken /\ ~live.early => provider.turn = live.sub \/ Latest \in events
    /\ live.active = 0 => Submitting \/ Latest \in promises
    /\ live.early => live.active = 0
    /\ ~provider.event => Submitting \/ live.sub \in taken

\* A promise of the turn that runs is one of the session, and nothing comes
\* between an event driver's sendTurn and what follows it.
Owned ==
  /\ live.session => \A p \in promises : p.turn = live.sub => p.gen = live.gen
  /\ provider.event /\ Submitting => ~live.early

LEMMA AwaitedQuiet ==
  ASSUME Awaited /\ Owned, live' = live, provider' = provider, node'.turn = node.turn,
         taken' = taken, promises' = promises, events' = events, Submitting' = Submitting
  PROVE  Awaited' /\ Owned'
BY DEF Awaited, Owned, Latest

\* Without a session, without its program, or with no turn, nothing is awaited.
LEMMA AwaitedNone ==
  ASSUME Types, Owned, provider'.event = provider.event,
         live'.session = FALSE \/ node'.turn # "running" \/ provider'.alive = FALSE,
         promises' \subseteq promises, Submitting' => live'.early = FALSE \/ (Submitting /\ live' = live),
         \/ live'.session = FALSE \/ live'.sub = 0
         \/ live.session /\ live'.sub = live.sub /\ live'.gen = live.gen
  PROVE  Awaited' /\ Owned'
<1>1. Awaited'
  BY DEF Awaited
<1>2. \A p \in promises' : p.turn # 0
  BY TurnTypes DEF Turns
<1> QED
  BY <1>1, <1>2 DEF Owned

LEMMA BegunAwaited ==
  ASSUME Types, TurnInv, Owned, NEW items, NEW next \in {"first", "sending"}, Begun(items, next),
         UNCHANGED <<taken, promises>>
  PROVE  Awaited' /\ Owned'
<1>1. /\ live'.sub = provider.next /\ live'.active = 0 /\ live'.early = FALSE /\ Submitting'
      /\ provider.next \in Nat
  BY TurnTypes DEF Begun, Submitting
<1>2. live'.sub \notin taken' /\ \A p \in promises' : p.turn # live'.sub
  BY <1>1, TurnTypes DEF TurnInv, Numbers, Turns
<1> QED
  BY <1>1, <1>2 DEF Awaited, Owned

\* The answer to sendTurn gives the turn its name.
LEMMA AnsweredAwaited ==
  ASSUME HostInv, TurnInv, Awaited, Owned,
         TurnAccepted \/ TurnActive \/ \E b \in BOOLEAN : TurnStarted(b) \/ TurnRefused(b)
  PROVE  Awaited' /\ Owned'
<1>0. Types /\ Flow
  BY DEF HostInv
<1>1. live.sub \in Turns /\ Submitting /\ live.session /\ node.turn = "running" /\ live.sub # 0
  BY <1>0, TurnTypes DEF TurnAccepted, TurnActive, TurnStarted, TurnRefused, Flow, Submitting
<1>2. CASE TurnAccepted
  <2>1. /\ UNCHANGED <<provider, taken, events, promises>> /\ ~provider.event /\ live.sub \in taken
        /\ stage' = "free"
        /\ Finished(live.sub) \/ (Called(live.sub) /\ node' = node)
    BY <1>0, <1>1, <1>2, TurnAcceptedIs
  <2>2. Finished(live.sub) \/ ~live.early
    <3>1. node \in NodeType
      BY <1>0 DEF Types
    <3>2. live.early => node'.turn = "idle"
      BY <1>2, <3>1 DEF TurnAccepted, CompleteTurn, NodeType
    <3> QED
      BY <1>1, <2>1, <3>2
  <2>3. CASE Finished(live.sub)
    BY <1>0, <2>1, <2>3, AwaitedNone DEF Finished
  <2>4. CASE Called(live.sub) /\ node' = node /\ ~live.early
    <3>1. Latest' = Latest /\ live'.session = live.session /\ live'.sub = live.sub /\ live'.gen = live.gen
          /\ live'.active = live.sub /\ live'.early = FALSE
      BY <2>4, <1>0, TurnTypes DEF Called, Latest
    <3> QED
      BY <1>1, <2>1, <2>4, <3>1 DEF Awaited, Owned, Submitting
  <2> QED
    BY <2>1, <2>2, <2>3, <2>4
<1>3. CASE \E b \in BOOLEAN : TurnStarted(b)
  <2>1. /\ UNCHANGED <<node, provider, taken, events>> /\ provider.event /\ stage' = "free"
        /\ promises' = promises \cup {Latest}
        /\ Called(live.sub) \/ Called(0)
    BY <1>0, <1>1, <1>3, TurnStartedIs DEF Dropped, Latest
  <2>2. Latest' = Latest /\ live'.session = live.session /\ live'.sub = live.sub /\ live'.gen = live.gen
        /\ live'.early = live.early
    BY <2>1 DEF Called, Latest
  <2>3. ~live.early
    BY <1>1, <2>1 DEF Owned
  <2>4. \A p \in promises' : p.turn = live.sub => p.gen = live.gen
    BY <1>1, <2>1 DEF Owned, Latest
  <2> QED
    BY <2>1, <2>2, <2>3, <2>4, <1>1 DEF Awaited, Owned, Submitting
<1>4. CASE TurnActive \/ \E b \in BOOLEAN : TurnRefused(b)
  <2>1. /\ node'.turn = "idle" /\ UNCHANGED <<provider, promises>>
        /\ stage' \in {"failing", "free"} /\ live'.sub = 0
    BY <1>0, <1>1, <1>4, TurnRefusedIs, TurnActiveIs DEF Leaving, Dropped
  <2> QED
    BY <1>0, <2>1, AwaitedNone DEF Submitting
<1> QED
  BY <1>2, <1>3, <1>4

\* What the program does with its turn.
LEMMA ProviderAwaited ==
  ASSUME HostInv, TurnInv, Awaited, Owned,
         (\E n \in Turns : ProviderTakes(n)) \/ ProviderCompletes \/ ProviderExits
  PROVE  Awaited' /\ Owned'
<1>0. Types
  BY DEF HostInv
<1>1. /\ UNCHANGED <<node, live, stage, promises>> /\ provider'.event = provider.event
  BY <1>0, ProviderIs
<1>2. Latest' = Latest /\ Submitting' = Submitting
  BY <1>1 DEF Latest, Submitting
<1>3. Owned'
  BY <1>1, <1>2 DEF Owned
<1>4. CASE \E n \in Turns : ProviderTakes(n)
  <2>1. PICK n \in Turns : ProviderTakes(n)
    BY <1>4
  <2>2. /\ provider.alive /\ provider.turn = 0 /\ provider'.turn = n /\ taken' = taken \cup {n} /\ events' = events
    BY <1>0, <2>1, ProviderIs
  <2>3. live.sub \in taken => live.sub # 0
    BY <1>0, TurnTypes
  <2> QED
    BY <1>1, <1>2, <1>3, <2>2, <2>3 DEF Awaited
<1>5. CASE ProviderCompletes
  <2>1. /\ taken' = taken /\ events' = events \cup {[gen |-> provider.gen, turn |-> provider.turn]}
        /\ provider'.alive = provider.alive
    BY <1>0, <1>5, ProviderIs
  <2>2. live.session => provider.gen = live.gen
    BY DEF TurnInv, Numbers
  <2>3. live.session /\ provider.turn = live.sub => Latest \in events'
    BY <2>1, <2>2 DEF Latest
  <2> QED
    BY <1>1, <1>2, <1>3, <2>1, <2>3 DEF Awaited
<1>6. CASE ProviderExits
  <2>1. provider'.alive = FALSE
    BY <1>0, <1>6, ProviderIs
  <2> QED
    BY <1>3, <2>1 DEF Awaited
<1> QED
  BY <1>4, <1>5, <1>6

\* An event of the turn that runs is seen or kept.
LEMMA OnCompletionAwaited ==
  ASSUME HostInv, TurnInv, Awaited, Owned, NEW e \in events, OnCompletion(e)
  PROVE  Awaited' /\ Owned'
<1>0. Types /\ Flow
  BY DEF HostInv
<1>1. /\ UNCHANGED <<stage, provider, taken, promises>> /\ events' = events \ {e} /\ Settled
  BY <1>0, OnCompletionIs DEF OnCompletion
<1>2. Submitting' = Submitting /\ (provider.event => ~Submitting)
  BY <1>1 DEF Submitting, Settled
<1>3. CASE live.session /\ Finished(e.turn)
  BY <1>0, <1>1, <1>2, <1>3, AwaitedNone DEF Finished, Submitting
<1>4. CASE UNCHANGED <<node, live>>
  <2>1. live.session /\ node.turn = "running" /\ e = Latest => live.early
    <3> SUFFICES ASSUME live.session, node.turn = "running", e = Latest PROVE live.early
      OBVIOUS
    <3>1. e.gen = live.gen /\ e.turn = live.sub /\ live.active \in {0, live.sub} /\ live \in LiveType
          /\ node \in NodeType
      BY <1>0, <3>1 DEF Latest, TurnInv, Numbers, Types
    <3>2. live.active # 0 => node'.turn = "idle"
      BY <3>1 DEF OnCompletion, NamesTurn, CompleteTurn, NodeType
    <3>3. live.active = 0 => live'.early = TRUE
      BY <3>1 DEF OnCompletion, KeptEarly, LiveType
    <3> QED
      BY <1>4, <3>2, <3>3
  <2>2. Latest' = Latest
    BY <1>4 DEF Latest
  <2> QED
    BY <1>1, <1>2, <1>4, <2>1, <2>2 DEF Awaited, Owned
<1>5. CASE /\ live.session /\ live.active = 0 /\ node' = node
           /\ live'.session = live.session /\ live'.gen = live.gen
           /\ live'.sub = live.sub /\ live'.active = live.active /\ live' # live
  <2>1. live'.early = TRUE
    <3>1. live.early \in BOOLEAN /\ live' = [live EXCEPT !.early = @ \/ KeptEarly(e)] /\ live \in LiveType
      BY <1>0, <1>5 DEF OnCompletion, CompleteTurn, Types, LiveType
    <3> QED
      BY <1>5, <3>1 DEF LiveType, KeptEarly
  <2>2. Latest' = Latest
    BY <1>5 DEF Latest
  <2> QED
    BY <1>1, <1>2, <1>5, <2>1, <2>2 DEF Awaited, Owned
<1> QED
  BY <1>0, <1>3, <1>4, <1>5, OnCompletionIs

\* The answer of an event driver's turn names it or, when it is over, ends it.
LEMMA PromiseKeptAwaited ==
  ASSUME HostInv, TurnInv, Awaited, Owned, NEW p \in promises, PromiseKept(p)
  PROVE  Awaited' /\ Owned'
<1>0. Types
  BY DEF HostInv
<1>1. /\ UNCHANGED <<stage, provider, taken, events>> /\ promises' = promises \ {p} /\ Settled
      /\ Submitting' = Submitting
  BY <1>0, PromiseKeptIs DEF Submitting
<1>2. CASE LatestSubmission(p) /\ Finished(p.turn)
  BY <1>0, <1>1, <1>2, AwaitedNone DEF Finished
<1>3. CASE LatestSubmission(p) /\ live.active = 0 /\ Called(p.turn) /\ node' = node
  <2>1. p.turn = live.sub /\ live.sub \in taken /\ p.turn # 0
    BY <1>0, <1>3, PromiseKeptIs, TurnTypes DEF LatestSubmission, Turns
  <2>2. ~live.early
    BY <1>3, <2>1, <1>0 DEF PromiseKept, CompleteTurn, LatestSubmission, Called, Types, LiveType
  <2>3. Latest' = Latest /\ live'.session = live.session /\ live'.sub = live.sub /\ live'.gen = live.gen
        /\ live'.active = live.sub /\ live'.early = live.early
    BY <1>3, <2>1 DEF Called, Latest
  <2> QED
    BY <1>1, <1>3, <2>1, <2>2, <2>3 DEF Awaited, Owned
<1>4. CASE UNCHANGED <<node, live>>
  <2>1. live.session /\ node.turn = "running" /\ live.active = 0 => p # Latest
    <3> SUFFICES ASSUME live.session, node.turn = "running", live.active = 0, p = Latest PROVE FALSE
      OBVIOUS
    <3>1. LatestSubmission(p) /\ p.turn \in Turns /\ p.turn # 0 /\ live \in LiveType /\ node \in NodeType
      BY <1>0, <3>1, TurnTypes DEF Latest, LatestSubmission, Turns, Types
    <3>2. CASE live.early
      <4>1. node'.turn = "idle"
        BY <3>1, <3>2 DEF PromiseKept, CompleteTurn, NodeType
      <4> QED
        BY <1>4, <4>1
    <3>3. CASE ~live.early
      <4>1. live'.active = p.turn
        BY <3>1, <3>3 DEF PromiseKept, LiveType
      <4> QED
        BY <1>4, <3>1, <4>1
    <3> QED
      BY <3>2, <3>3
  <2>2. Latest' = Latest
    BY <1>4 DEF Latest
  <2> QED
    BY <1>1, <1>4, <2>1, <2>2 DEF Awaited, Owned
<1> QED
  BY <1>0, <1>2, <1>3, <1>4, PromiseKeptIs

\* A failed promise is one of the turn that runs, which ends, or of an older one.
LEMMA TurnFailedAwaited ==
  ASSUME HostInv, TurnInv, Awaited, Owned, NEW p \in promises, NEW u \in BOOLEAN, NEW ended \in BOOLEAN,
         TurnFailed(p, u, ended)
  PROVE  Awaited' /\ Owned'
<1>0. Types
  BY DEF HostInv
<1>1. /\ UNCHANGED <<stage, taken, events>> /\ promises' = promises \ {p} /\ Submitting' = Submitting
      /\ provider'.event = provider.event /\ provider'.alive = provider.alive
      /\ provider'.turn = IF provider.turn = p.turn /\ ~u THEN 0 ELSE provider.turn
  BY <1>0, TurnFailedIs DEF Submitting
<1>2. CASE LatestSubmission(p) /\ Finished(p.turn)
  BY <1>0, <1>1, <1>2, AwaitedNone DEF Finished
<1>3. CASE ~LatestSubmission(p) /\ UNCHANGED <<node, live>>
  <2>1. live.session /\ node.turn = "running" => p.turn # live.sub /\ p # Latest
    BY <1>3 DEF Owned, LatestSubmission, Latest
  <2>2. Latest' = Latest
    BY <1>3 DEF Latest
  <2> QED
    BY <1>1, <1>3, <2>1, <2>2 DEF Awaited, Owned
<1> QED
  BY <1>0, <1>2, <1>3, TurnFailedIs

LEMMA AwaitedNext ==
  ASSUME HostInv, Driven, TurnInv, Awaited, Owned, Next
  PROVE  Awaited' /\ Owned'
<1>0. Types /\ Flow /\ TurnInv
  BY DEF HostInv
<1>1. provider'.event = provider.event
  BY Drives
<1>2. CASE FlushQueue \/ FirstTurn
  <2>1. UNCHANGED <<taken, promises, events>> /\ stage \notin {"first", "sending"}
    BY <1>0, <1>2, FlushQueueIs, FirstTurnIs
  <2>2. \/ Begun(AtMost(BatchSize, queue'), "sending") \/ Begun(<< >>, "first")
        \/ UNCHANGED <<node, live, provider>> /\ stage' = "free"
        \/ live'.session = FALSE /\ stage' = "failing"
    BY <1>0, <1>2, FlushQueueIs, FirstTurnIs DEF Dropped, Leaving
  <2>3. CASE Begun(AtMost(BatchSize, queue'), "sending") \/ Begun(<< >>, "first")
    BY <1>0, <2>1, <2>3, BegunAwaited
  <2>4. CASE UNCHANGED <<node, live, provider>> /\ stage' = "free"
    BY <2>1, <2>4, AwaitedQuiet DEF Submitting
  <2>5. CASE live'.session = FALSE /\ stage' = "failing"
    BY <1>0, <1>1, <2>1, <2>5, AwaitedNone DEF Submitting
  <2> QED
    BY <2>2, <2>3, <2>4, <2>5
<1>3. CASE StartSession \/ Stop \/ Restart \/ EndDeadSession
  <2>1. UNCHANGED <<provider, taken, promises, events>> /\ stage = "free"
    BY <1>0, <1>3, StartSessionIs, StopIs, RestartIs, EndDeadSessionIs
  <2>2. \/ UNCHANGED <<node, live>> /\ stage' = "free"
        \/ live'.session = FALSE /\ stage' \in {"launching", "stopping", "failing"}
    BY <1>0, <1>3, StartSessionIs, StopIs, RestartIs, EndDeadSessionIs DEF Dropped, Leaving
  <2>3. CASE UNCHANGED <<node, live>> /\ stage' = "free"
    BY <2>1, <2>3, AwaitedQuiet DEF Submitting
  <2>4. CASE live'.session = FALSE /\ stage' \in {"launching", "stopping", "failing"}
    BY <1>0, <1>1, <2>1, <2>4, AwaitedNone DEF Submitting
  <2> QED
    BY <2>2, <2>3, <2>4
<1>4. CASE SessionEnded \/ \E b \in BOOLEAN : Launched(b)
  <2>1. /\ promises' = promises /\ node'.turn # "running" /\ live'.sub = 0 /\ stage' \in {"free", "opening"}
    BY <1>0, <1>4, SessionEndedIs, LaunchedIs DEF Flow, Dropped
  <2> QED
    BY <1>0, <1>1, <2>1, AwaitedNone DEF Submitting
<1>5. CASE TurnAccepted \/ TurnActive \/ \E b \in BOOLEAN : TurnStarted(b) \/ TurnRefused(b)
  BY <1>5, AnsweredAwaited
<1>6. CASE (\E n \in Turns : ProviderTakes(n)) \/ ProviderCompletes \/ ProviderExits
  BY <1>6, ProviderAwaited
<1>7. CASE \E e \in events : OnCompletion(e)
  BY <1>7, OnCompletionAwaited
<1>8. CASE \E p \in promises : PromiseKept(p)
  BY <1>8, PromiseKeptAwaited
<1>9. CASE \E p \in promises, u, e \in BOOLEAN : TurnFailed(p, u, e)
  BY <1>9, TurnFailedAwaited
<1>10. CASE OnInteraction \/ CheckWorkers \/ Outside \/ Boundaries
  <2>1. /\ UNCHANGED <<live, provider, taken, promises, events, stage>> /\ node'.turn = node.turn
    BY <1>0, <1>10, OnInteractionIs, CheckWorkersIs, CommandIs, DeliverIs, BoundariesIs DEF Outside
  <2> QED
    BY <2>1, AwaitedQuiet DEF Submitting
<1>11. CASE Crash
  <2>1. live'.session = FALSE /\ promises' = {} /\ stage' = "free"
    BY <1>0, <1>11, CrashIs
  <2> QED
    BY <1>0, <1>1, <2>1, AwaitedNone DEF Submitting
<1> QED
  BY <1>2, <1>3, <1>4, <1>5, <1>6, <1>7, <1>8, <1>9, <1>10, <1>11 DEF Next, Operate, Worker

\* The answer a running turn waits for is on its way, as long as its program lives.
WaitsForProgram ==
  Running /\ provider.alive /\ node.turn = "running" =>
    Submitting \/ provider.turn = live.sub \/ Latest \in events \/ Latest \in promises

LEMMA WaitsIs ==
  ASSUME TurnInv, Awaited, Promised
  PROVE  WaitsForProgram
<1> SUFFICES ASSUME live.session, provider.alive, node.turn = "running", ~Submitting, Latest \notin promises
             PROVE  provider.turn = live.sub \/ Latest \in events
  BY DEF WaitsForProgram, Running
<1>1. live.active # 0 /\ live.active = live.sub /\ ~live.early
  BY DEF Awaited, TurnInv, Numbers
<1>2. live.sub \in taken
  BY <1>1 DEF Awaited, Promised, Latest
<1> QED
  BY <1>1, <1>2 DEF Awaited

\* Nothing has kept the courier from its round: no refused turn, none without an
\* answer or a name, no hold.
Unhindered == spent["refuse"] = 0 /\ spent["unbound"] = 0 /\ spent["uncertain"] = 0 /\ spent["hold"] = 0

\* What waits in the queue of an idle worker will be handed over.
HandOverComes ==
  Running /\ provider.alive /\ node.turn = "idle" /\ queue # << >> /\ ~Unresolved /\ Unhindered =>
    stage = "opening" \/ Flush \in Elements(chain)

\* A turn with a name runs, and a hold was asked for.
Busy ==
  /\ live.session /\ live.active # 0 => node.turn = "running"
  /\ spent["hold"] = 0 => hold = 0 /\ disk.hold = 0

\* The program works on a turn the host has given up only after a refusal.
Blamed ==
  /\ disowned \subseteq taken
  /\ provider.turn \in disowned => spent["refuse"] # 0 \/ spent["unbound"] # 0

LEMMA BlamedNext ==
  ASSUME HostInv, Driven, TurnInv, Blamed, Next
  PROVE  Blamed'
<1>0. Types /\ taken \subseteq Turns /\ taken' \subseteq Turns
  <2>1. HostInv'
    BY HostNext
  <2> QED
    BY <2>1 DEF HostInv, Types
<1>1. disowned' \subseteq taken'
  BY Disowns DEF Blamed
<1>2. /\ spent["refuse"] # 0 => spent'["refuse"] # 0
      /\ spent["unbound"] # 0 => spent'["unbound"] # 0
  <2>1. spent["refuse"] \in Nat /\ spent["unbound"] \in Nat
    BY <1>0 DEF Types, Inputs
  <2>2. /\ spent'["refuse"] \in Nat /\ spent'["refuse"] >= spent["refuse"]
        /\ spent'["unbound"] \in Nat /\ spent'["unbound"] >= spent["unbound"]
    BY SpentGrows DEF Spent, Inputs
  <2> QED
    BY <2>1, <2>2
<1>3. CASE provider'.turn = 0
  BY <1>0, <1>1, <1>3 DEF Blamed, Turns
<1>4. CASE disowned' = disowned /\ provider'.turn \in {provider.turn, 0}
  BY <1>0, <1>1, <1>2, <1>3, <1>4 DEF Blamed
<1>5. CASE \E b \in BOOLEAN : TurnRefused(b)
  <2>1. PICK b \in BOOLEAN : TurnRefused(b)
    BY <1>5
  <2>2. provider' = provider /\ (provider.turn # 0 => provider.alive)
    BY <2>1 DEF TurnRefused, outside, TurnInv, Ended
  <2>3. CASE provider.alive
    <3>1. PICK w \in {"refuse", "unbound"} : Spend(w)
      BY <2>1, <2>3 DEF TurnRefused
    <3>2. w \in Inputs /\ spent[w] \in Nat
      BY <1>0, <3>1 DEF Inputs, Types
    <3>3. spent'[w] = spent[w] + 1
      BY <1>0, <3>1, <3>2, SpendIs
    <3>4. spent'[w] # 0
      BY <3>2, <3>3
    <3> QED
      BY <1>1, <3>1, <3>4 DEF Blamed
  <2> QED
    BY <1>3, <2>2, <2>3
<1>6. CASE \E n \in Turns : ProviderTakes(n)
  BY <1>0, <1>1, <1>6 DEF ProviderTakes, history, Blamed, Types, ProviderType
<1>7. CASE Crash
  BY <1>0, <1>3, <1>7, CrashIs
<1>8. CASE \/ StartSession \/ Stop \/ Restart \/ EndDeadSession \/ TurnAccepted \/ TurnActive
           \/ \E b \in BOOLEAN : TurnStarted(b)
  BY <1>4, <1>8 DEF StartSession, Stop, Restart, EndDeadSession, TurnAccepted, TurnActive, TurnStarted, outside, history
<1>9. CASE FlushQueue \/ FirstTurn \/ SessionEnded \/ \E b \in BOOLEAN : Launched(b)
  <2>1. disowned' = disowned
    BY <1>9 DEF FlushQueue, FirstTurn, SessionEnded, Launched, history
  <2>2. provider \in ProviderType
    BY <1>0 DEF Types
  <2>3. provider'.turn \in {provider.turn, 0}
    BY <1>9, <2>2 DEF FlushQueue, FirstTurn, Submit, SessionEnded, Launched, ProviderType
  <2> QED
    BY <1>4, <2>1, <2>3
<1>10. CASE ProviderCompletes \/ ProviderExits \/ \E p \in promises, u, e \in BOOLEAN : TurnFailed(p, u, e)
  <2>1. provider \in ProviderType
    BY <1>0 DEF Types
  <2>2. disowned' = disowned /\ provider'.turn \in {provider.turn, 0}
    BY <1>10, <2>1 DEF ProviderCompletes, ProviderExits, TurnFailed, history, ProviderType
  <2> QED
    BY <1>4, <2>2
<1>11. CASE \/ OnInteraction \/ CheckWorkers \/ Outside \/ Boundaries
            \/ \E e \in events : OnCompletion(e)
            \/ \E p \in promises : PromiseKept(p)
  <2>1. disowned' = disowned /\ provider' = provider
    BY <1>11 DEF OnInteraction, CheckWorkers, Outside, Deliver, Command, OnCompletion, PromiseKept, Boundaries,
                 EndBoundary, Steer, BeginBoundary, SteerAccepted, SteerUnknown, Checkpoint, Release, outside, history
  <2> QED
    BY <1>4, <2>1
<1> QED
  BY <1>5, <1>6, <1>7, <1>8, <1>9, <1>10, <1>11 DEF Next, Operate, Worker

LEMMA ComesStays ==
  ASSUME Types, HandOverComes, Spent, Running' => Running, provider'.alive => provider.alive,
         node'.turn = "idle" => node.turn = "idle", queue' # << >> => queue # << >>,
         Unresolved => Unresolved', stage = "opening" => stage' = "opening",
         Flush \in Elements(chain) => Flush \in Elements(chain')
  PROVE  HandOverComes'
<1>1. Unhindered' => Unhindered
  <2>1. \A w \in {"refuse", "unbound", "uncertain", "hold"} : spent[w] \in Nat /\ spent'[w] \in Nat /\ spent'[w] >= spent[w]
    BY DEF Types, Spent, Inputs
  <2> QED
    BY <2>1 DEF Unhindered
<1> QED
  BY <1>1 DEF HandOverComes

\* What is removed from an empty queue leaves it empty.
LEMMA StaysEmpty ==
  ASSUME Types, NEW q, Typed(q), Elements(q) \subseteq Elements(queue), queue = << >>
  PROVE  q = << >>
<1>1. Elements(queue) = {}
  BY DEF Elements
<1>2. q \in Seq(Items) /\ Len(q) \in Nat /\ DOMAIN q = 1 .. Len(q)
  BY LenProperties DEF Typed
<1>3. Len(q) # 0 => 1 \in DOMAIN q
  BY <1>2
<1>4. Len(q) = 0
  BY <1>1, <1>3 DEF Elements
<1> QED
  BY <1>2, <1>4, EmptySeq

\* Only a flush takes a flush off the chain.
LEMMA FlushWaits ==
  ASSUME HostInv
  PROVE  /\ chain # << >> /\ Head(chain).kind # "flush" /\ Flush \in Elements(chain) =>
              Flush \in Elements(Tail(chain))
         /\ \A e \in ChainType : e.kind # "launch" => Elements(Append(chain, e)) = Elements(chain) \cup {e}
         /\ chain # << >> => Flush \in Elements(<<Flush>> \o Tail(chain))
         /\ chain # << >> => Orderly(Tail(chain))
<1>1. Orderly(chain) /\ Flush \in ChainType /\ Flush.kind = "flush"
  BY FlushIs DEF HostInv, Types, Flow, Orderly
<1>2. chain # << >> => Elements(chain) = {Head(chain)} \cup Elements(Tail(chain)) /\ Orderly(Tail(chain))
  BY <1>1, OrderlySteps
<1>3. \A e \in ChainType : e.kind # "launch" => Elements(Append(chain, e)) = Elements(chain) \cup {e}
  BY <1>1, OrderlySteps
<1>4. chain # << >> => Elements(<<Flush>> \o Tail(chain)) = Elements(Tail(chain)) \cup {Flush}
  BY <1>1, OrderlySteps
<1> QED
  BY <1>1, <1>2, <1>3, <1>4

\* With a flush queued there is nothing to show.
LEMMA FlushComes ==
  ASSUME Flush \in Elements(chain')
  PROVE  HandOverComes'
BY DEF HandOverComes

\* flushQueue() hands over, or there was a reason not to.
LEMMA FlushQueueComes ==
  ASSUME HostInv, Busy, HandOverComes, FlushQueue
  PROVE  HandOverComes'
<1>0. Types /\ Flow
  BY DEF HostInv
<1>1. CASE node'.turn = "running"
  BY <1>1 DEF HandOverComes
<1>2. CASE /\ UNCHANGED <<node, live, journal, hold, spent>>
           /\ ~(Running /\ node.turn = "idle" /\ queue # << >> /\ Available /\ Admitted)
  <2>1. queue' # << >> => queue # << >>
    <3>1. queue' = queue \/ queue' = Retired(queue)
      BY <1>0, FlushQueueIs
    <3>2. Typed(Retired(queue)) /\ Elements(Retired(queue)) \subseteq Elements(queue)
      BY <1>0, QueuesAre
    <3> QED
      BY <1>0, <3>1, <3>2, StaysEmpty
  <2>2. Unresolved' = Unresolved /\ Running' = Running
    BY <1>2 DEF Unresolved, Running
  <2>3. Unhindered' => hold = 0
    BY <1>2 DEF Busy, Unhindered
  <2> QED
    BY <1>2, <2>1, <2>2, <2>3 DEF HandOverComes, Available, Admitted
<1>3. UNCHANGED <<journal, hold, spent>>
  BY <1>0, FlushQueueIs
<1>4. CASE Running /\ node.turn = "idle" /\ queue # << >> /\ Available /\ Admitted
  <2>1. node \in NodeType
    BY <1>0 DEF Types
  <2>2. node' = [node EXCEPT !.turn = "running", !.waiting = FALSE]
    BY <1>4 DEF FlushQueue, Submit
  <2> QED
    BY <1>1, <2>1, <2>2 DEF NodeType
<1>5. CASE ~(Running /\ node.turn = "idle" /\ queue # << >> /\ Available /\ Admitted)
  <2>1. UNCHANGED <<node, live>>
    BY <1>5 DEF FlushQueue
  <2> QED
    BY <1>2, <1>3, <1>5, <2>1
<1> QED
  BY <1>4, <1>5

\* The end of a turn queues the hand-over, unless the turn was refused, remained
\* without an answer, or its program is gone.
LEMMA AnsweredComes ==
  ASSUME HostInv, TurnInv, Blamed, HandOverComes,
         TurnAccepted \/ TurnActive \/ \E b \in BOOLEAN : TurnStarted(b) \/ TurnRefused(b)
  PROVE  HandOverComes'
<1>0. Types /\ Flow
  BY DEF HostInv
<1>1. live.sub \in Turns /\ Submitting /\ live.session /\ node.turn = "running" /\ live.sub # 0 /\ chain # << >>
  BY <1>0, TurnTypes DEF TurnAccepted, TurnActive, TurnStarted, TurnRefused, Flow, Submitting
<1>2. CASE node'.turn # "idle"
  BY <1>2 DEF HandOverComes
<1>3. CASE TurnAccepted
  <2>1. chain' = Append(Tail(chain), Flush) \/ node' = node
    BY <1>0, <1>1, <1>3, TurnAcceptedIs
  <2>2. Flush \in Elements(Append(Tail(chain), Flush))
    <3>1. Orderly(Tail(chain)) /\ Flush \in ChainType /\ Flush.kind # "launch"
      BY <1>1, FlushWaits, FlushIs
    <3>2. Elements(Append(Tail(chain), Flush)) = Elements(Tail(chain)) \cup {Flush}
      BY <3>1, OrderlySteps
    <3> QED
      BY <3>2
  <2> QED
    BY <1>1, <1>2, <2>1, <2>2, FlushComes
<1>4. CASE \E b \in BOOLEAN : TurnStarted(b)
  <2>1. node' = node
    BY <1>0, <1>1, <1>4, TurnStartedIs
  <2> QED
    BY <1>1, <1>2, <2>1
<1>5. CASE \E b \in BOOLEAN : TurnRefused(b)
  <2>1. PICK b \in BOOLEAN : TurnRefused(b)
    BY <1>5
  <2>2. CASE provider.alive
    <3>1. PICK w \in {"refuse", "unbound"} : Spend(w)
      BY <2>1, <2>2 DEF TurnRefused
    <3>2. w \in Inputs /\ spent[w] \in Nat
      BY <1>0, <3>1 DEF Inputs, Types
    <3>3. spent'[w] = spent[w] + 1
      BY <1>0, <3>1, <3>2, SpendIs
    <3>4. spent'[w] # 0
      BY <3>2, <3>3
    <3> QED
      BY <3>1, <3>4 DEF HandOverComes, Unhindered
  <2>3. CASE ~provider.alive
    <3>1. provider' = provider
      BY <1>0, <1>1, <2>1, TurnRefusedIs
    <3> QED
      BY <2>3, <3>1 DEF HandOverComes
  <2> QED
    BY <2>2, <2>3
<1>6. CASE TurnActive
  <2>1. /\ provider' = provider /\ spent' = spent
        /\ ~provider.event /\ provider.turn \notin {0, live.sub}
    BY <1>6 DEF TurnActive
  <2>2. provider.turn \in disowned
    BY <2>1 DEF TurnInv, Knows
  <2>3. ~Unhindered'
    BY <2>1, <2>2 DEF Blamed, Unhindered
  <2> QED
    BY <2>3 DEF HandOverComes
<1> QED
  BY <1>3, <1>4, <1>5, <1>6

LEMMA TurnFailedComes ==
  ASSUME HostInv, TurnInv, HandOverComes, NEW p \in promises, NEW u \in BOOLEAN, NEW ended \in BOOLEAN,
         TurnFailed(p, u, ended)
  PROVE  HandOverComes'
<1>0. Types /\ Flow
  BY DEF HostInv
<1>1. /\ UNCHANGED <<queue, stage, journal>> /\ Spent /\ provider'.alive = provider.alive
      /\ \E q \in {chain, Append(chain, Flush)} : chain' = q \/ chain' = Append(q, Op("fail", p.gen))
      /\ p.gen \in Nat
  BY <1>0, TurnFailedIs
<1>2. /\ Elements(chain) \subseteq Elements(chain')
      /\ Flush \in ChainType /\ Op("fail", p.gen) \in ChainType
  <2>1. Flush \in ChainType /\ Flush.kind = "flush"
    BY FlushIs
  <2>2. Op("fail", p.gen) \in ChainType /\ Op("fail", p.gen).kind = "fail"
    BY <1>1, OpIs DEF Kinds
  <2>3. Orderly(chain)
    BY <1>0 DEF Types, Flow, Orderly
  <2>4. PICK q \in {chain, Append(chain, Flush)} : chain' = q \/ chain' = Append(q, Op("fail", p.gen))
    BY <1>1
  <2>5. Orderly(q) /\ Elements(chain) \subseteq Elements(q)
    <3>1. Flush \in ChainType /\ Flush.kind # "launch"
      BY <2>1
    <3>2. Orderly(Append(chain, Flush)) /\ Elements(Append(chain, Flush)) = Elements(chain) \cup {Flush}
      BY <2>3, <3>1, OrderlySteps
    <3> QED
      BY <2>3, <3>2
  <2>6. Elements(Append(q, Op("fail", p.gen))) = Elements(q) \cup {Op("fail", p.gen)}
    BY <2>2, <2>5, OrderlySteps
  <2> QED
    BY <2>1, <2>2, <2>4, <2>5, <2>6
<1>3. CASE ~LatestSubmission(p)
  <2>1. UNCHANGED <<node, live>>
    BY <1>3 DEF TurnFailed
  <2> QED
    BY <1>0, <1>1, <1>2, <2>1, ComesStays DEF Running, Unresolved
<1>4. CASE ~provider.alive
  BY <1>1, <1>4 DEF HandOverComes
<1>5. CASE provider.alive
  <2>1. Spend(IF u THEN "uncertain" ELSE "refuse")
    BY <1>5 DEF TurnFailed
  <2>2. "refuse" \in Inputs /\ "uncertain" \in Inputs /\ spent["refuse"] \in Nat /\ spent["uncertain"] \in Nat
    BY <1>0 DEF Inputs, Types
  <2>3. spent'["refuse"] = spent["refuse"] + 1 \/ spent'["uncertain"] = spent["uncertain"] + 1
    BY <1>0, <2>1, <2>2, SpendIs
  <2> QED
    BY <2>2, <2>3 DEF HandOverComes, Unhindered
<1> QED
  BY <1>3, <1>4, <1>5

\* A message for an idle worker asks for its own hand-over.
LEMMA DeliverComes ==
  ASSUME HostInv, HandOverComes, NEW m \in Items, Deliver(m)
  PROVE  HandOverComes'
<1>1. UNCHANGED <<node, live>> /\ Running' = Running
  BY DEF Deliver, Running
<1>2. CASE Running
  <2>1. chain' = Append(chain, Flush)
    BY <1>2 DEF Deliver
  <2>2. Flush \in ChainType /\ Flush.kind # "launch"
    BY FlushIs
  <2>3. Flush \in Elements(chain')
    BY <2>1, <2>2, FlushWaits
  <2> QED
    BY <2>3, FlushComes
<1>3. CASE ~Running
  BY <1>1, <1>3 DEF HandOverComes
<1> QED
  BY <1>2, <1>3

\* Steering goes to a turn that runs; a delivery in doubt stays in doubt.
LEMMA BoundariesComes ==
  ASSUME HostInv, Busy, HandOverComes, Boundaries
  PROVE  HandOverComes'
<1>0. Types
  BY DEF HostInv
<1>1. UNCHANGED <<node, live, chain, stage, provider>> /\ Spent
  BY <1>0, BoundariesIs
<1>2. queue' # << >> => queue # << >>
  <2>1. queue' = queue \/ queue' = Retired(queue) \/ \E A : queue' = Without(queue, A)
    BY <1>0, BoundariesIs DEF Nothing, Steers, Accepts, Doubts
  <2>2. /\ Typed(Retired(queue)) /\ Elements(Retired(queue)) \subseteq Elements(queue)
        /\ \A A : Typed(Without(queue, A)) /\ Elements(Without(queue, A)) \subseteq Elements(queue)
    BY <1>0, QueuesAre
  <2> QED
    BY <1>0, <2>1, <2>2, StaysEmpty
<1>3. CASE node.turn = "idle" /\ live.session
  <2>1. live.active = 0
    BY <1>3 DEF Busy
  <2>2. Unresolved => Unresolved'
    <3>1. CASE journal' = journal
      BY <3>1 DEF Unresolved
    <3>2. CASE \E a \in Journaled : Steers(a)
      BY <2>1, <3>2 DEF Steers
    <3>3. CASE \E a \in steering : Accepts(a)
      <4>1. PICK a \in steering : Accepts(a)
        BY <3>3
      <4>2. a.turn # 0
        BY <1>0 DEF Types, Journaled, Turns
      <4> QED
        BY <2>1, <4>1, <4>2 DEF Accepts
    <3>4. CASE \E a \in steering : Doubts(a)
      <4>1. PICK a \in steering : Doubts(a)
        BY <3>4
      <4>2. [a EXCEPT !.status = "unknown"] \in journal' /\ a \in Journaled
        BY <1>0, <4>1 DEF Doubts, With, Types
      <4>3. [a EXCEPT !.status = "unknown"].status = "unknown"
        BY <4>2 DEF Journaled
      <4> QED
        BY <4>2, <4>3 DEF Unresolved
    <3> QED
      BY <1>0, <3>1, <3>2, <3>3, <3>4, BoundariesIs DEF Nothing
  <2> QED
    BY <1>0, <1>1, <1>2, <2>2, ComesStays DEF Running
<1>4. CASE ~(node.turn = "idle" /\ live.session)
  BY <1>1, <1>4 DEF HandOverComes, Running
<1> QED
  BY <1>3, <1>4

\* No hold without checkpoint(), saved or not.
LEMMA HoldAsked ==
  ASSUME HostInv, Spent, spent["hold"] = 0 => hold = 0 /\ disk.hold = 0, Next
  PROVE  spent'["hold"] = 0 => hold' = 0 /\ disk'.hold = 0
<1>0. Types /\ Flow
  BY DEF HostInv
<1>1. spent'["hold"] = 0 => spent["hold"] = 0
  <2>1. spent["hold"] \in Nat /\ spent'["hold"] \in Nat /\ spent'["hold"] >= spent["hold"]
    BY <1>0 DEF Types, Spent, Inputs
  <2> QED
    BY <2>1
<1>2. Document'.hold = hold'
  BY DEF Document
<1>3. CASE hold' = hold /\ disk' \in {disk, Document'}
  BY <1>1, <1>2, <1>3
<1>4. CASE FlushQueue \/ FirstTurn \/ StartSession \/ SessionEnded \/ Stop \/ Restart \/ EndDeadSession
  BY <1>0, <1>3, <1>4, FlushQueueIs, FirstTurnIs, StartSessionIs, SessionEndedIs, StopIs, RestartIs, EndDeadSessionIs
<1>5. CASE TurnAccepted \/ TurnActive \/ \E b \in BOOLEAN : TurnStarted(b) \/ TurnRefused(b)
  <2>1. live.sub \in Turns
    BY <1>0, <1>5 DEF TurnAccepted, TurnActive, TurnStarted, TurnRefused, Flow, Submitting
  <2>2. hold' = hold /\ disk' \in {disk, Document'}
    BY <1>0, <1>5, <2>1, TurnAcceptedIs, TurnStartedIs, TurnRefusedIs, TurnActiveIs
  <2> QED
    BY <1>3, <2>2
<1>6. CASE \E b \in BOOLEAN : Launched(b)
  BY <1>0, <1>3, <1>6, LaunchedIs
<1>7. CASE (\E n \in Turns : ProviderTakes(n)) \/ ProviderCompletes \/ ProviderExits
  BY <1>0, <1>3, <1>7, ProviderIs
<1>8. CASE (\E e \in events : OnCompletion(e)) \/ \E p \in promises : PromiseKept(p)
  BY <1>0, <1>3, <1>8, OnCompletionIs, PromiseKeptIs
<1>9. CASE \E p \in promises, u, e \in BOOLEAN : TurnFailed(p, u, e)
  BY <1>0, <1>3, <1>9, TurnFailedIs
<1>10. CASE OnInteraction \/ CheckWorkers \/ Outside
  BY <1>0, <1>3, <1>10, OnInteractionIs, CheckWorkersIs, CommandIs, DeliverIs DEF Outside
<1>11. CASE Crash
  BY <1>0, <1>1, <1>11, CrashIs
<1>12. CASE Boundaries
  <2>1. CASE Checkpoint
    <3>1. Spend("hold") /\ "hold" \in Inputs /\ spent["hold"] \in Nat
      BY <1>0, <2>1 DEF Checkpoint, Inputs, Types
    <3>2. spent'["hold"] = spent["hold"] + 1
      BY <1>0, <3>1, SpendIs
    <3> QED
      BY <3>1, <3>2
  <2>2. CASE Release
    BY <1>2, <2>2 DEF Release, Save
  <2>3. CASE \E r \in Requests, protected \in BOOLEAN : EndBoundary(r) \/ BeginBoundary(r, protected)
    BY <1>3, <2>3 DEF EndBoundary, BeginBoundary
  <2>4. CASE \E r \in Requests : Steer(r)
    <3>1. PICK r \in Requests : Steer(r)
      BY <2>4
    <3>2. hold' = hold
      BY <3>1 DEF Steer
    <3>3. \/ disk' \in {disk, Document'}
          \/ \E a : disk' = [Document' EXCEPT !.journal = @ \cup {a}]
      BY <3>1 DEF Steer, Save, SaveLost
    <3>4. \A a : [Document' EXCEPT !.journal = @ \cup {a}].hold = hold'
      BY DEF Document
    <3> QED
      BY <1>1, <1>2, <3>2, <3>3, <3>4
  <2>5. CASE \E a \in steering : SteerAccepted(a) \/ SteerUnknown(a)
    <3>1. PICK a \in steering : SteerAccepted(a) \/ SteerUnknown(a)
      BY <2>5
    <3>2. hold' = hold
      BY <3>1 DEF SteerAccepted, SteerUnknown
    <3>3. disk' \in {disk, Document'} \/ disk' = [Document EXCEPT !.journal = With(a, "accepted")]
      BY <3>1 DEF SteerAccepted, SteerUnknown, Save, SaveLost
    <3>4. [Document EXCEPT !.journal = With(a, "accepted")].hold = hold
      BY DEF Document
    <3> QED
      BY <1>1, <1>2, <3>2, <3>3, <3>4
  <2> QED
    BY <1>12, <2>1, <2>2, <2>3, <2>4, <2>5 DEF Boundaries
<1> QED
  BY <1>4, <1>5, <1>6, <1>7, <1>8, <1>9, <1>10, <1>11, <1>12 DEF Next, Operate, Worker

LEMMA BusyNext ==
  ASSUME HostInv, TurnInv, Busy, Next
  PROVE  Busy'
<1>0. Types /\ Flow
  BY DEF HostInv
<1>1. spent'["hold"] = 0 => hold' = 0 /\ disk'.hold = 0
  BY HoldAsked, SpentGrows DEF Busy
<1>2. CASE live'.session = FALSE \/ live'.active = 0 \/ node'.turn = "running"
  BY <1>1, <1>2 DEF Busy
<1>3. CASE live' = live /\ node'.turn = node.turn
  BY <1>1, <1>3 DEF Busy
<1>4. CASE FlushQueue \/ FirstTurn \/ StartSession \/ SessionEnded \/ Stop \/ Restart \/ EndDeadSession
  BY <1>0, <1>2, <1>3, <1>4, FlushQueueIs, FirstTurnIs, StartSessionIs, SessionEndedIs, StopIs, RestartIs,
     EndDeadSessionIs DEF Dropped, Begun, Leaving
<1>5. CASE TurnAccepted \/ TurnActive \/ \E b \in BOOLEAN : TurnStarted(b) \/ TurnRefused(b)
  <2>1. live.sub \in Turns /\ node.turn = "running"
    BY <1>0, <1>5 DEF TurnAccepted, TurnActive, TurnStarted, TurnRefused, Flow, Submitting
  <2>2. live'.session = FALSE \/ live'.active = 0 \/ node' = node
    BY <1>0, <1>5, <2>1, TurnAcceptedIs, TurnStartedIs, TurnRefusedIs, TurnActiveIs DEF Finished, Leaving
  <2> QED
    BY <1>2, <2>1, <2>2
<1>6. CASE \E b \in BOOLEAN : Launched(b)
  <2>1. live'.active = live.active /\ live.sub = 0
    BY <1>0, <1>6, LaunchedIs DEF Flow
  <2>2. live.active = 0
    BY <2>1 DEF TurnInv, Numbers
  <2> QED
    BY <1>2, <2>1, <2>2
<1>7. CASE (\E n \in Turns : ProviderTakes(n)) \/ ProviderCompletes \/ ProviderExits
  BY <1>0, <1>3, <1>7, ProviderIs
<1>8. CASE \E e \in events : OnCompletion(e)
  <2>1. \/ live' = live /\ node' = node
        \/ live'.active = 0
    BY <1>0, <1>8, OnCompletionIs DEF Finished
  <2> QED
    BY <1>2, <1>3, <2>1
<1>9. CASE \E p \in promises : PromiseKept(p)
  <2>1. \/ live' = live /\ node' = node
        \/ live'.active = 0
        \/ node' = node /\ node.turn = "running"
    BY <1>0, <1>9, PromiseKeptIs DEF Finished, LatestSubmission
  <2> QED
    BY <1>2, <1>3, <2>1
<1>10. CASE \E p \in promises, u, e \in BOOLEAN : TurnFailed(p, u, e)
  <2>1. \/ live' = live /\ node' = node
        \/ live'.active = 0
    BY <1>0, <1>10, TurnFailedIs DEF Finished
  <2> QED
    BY <1>2, <1>3, <2>1
<1>11. CASE OnInteraction \/ CheckWorkers \/ Outside \/ Boundaries
  BY <1>0, <1>3, <1>11, OnInteractionIs, CheckWorkersIs, CommandIs, DeliverIs, BoundariesIs DEF Outside
<1>12. CASE Crash
  BY <1>0, <1>2, <1>12, CrashIs
<1> QED
  BY <1>4, <1>5, <1>6, <1>7, <1>8, <1>9, <1>10, <1>11, <1>12 DEF Next, Operate, Worker

LEMMA ComesNext ==
  ASSUME HostInv, TurnInv, Busy, Blamed, HandOverComes, Next
  PROVE  HandOverComes'
<1>0. Types /\ Flow
  BY DEF HostInv
<1>1. Spent
  BY SpentGrows
<1>2. CASE ~live'.session \/ provider'.alive = FALSE \/ node'.turn # "idle" \/ stage' = "opening"
  BY <1>2 DEF HandOverComes, Running
<1>3. CASE /\ UNCHANGED <<live, queue, journal, stage>> /\ node'.state = node.state /\ node'.turn = node.turn
           /\ provider'.alive = provider.alive /\ Elements(chain) \subseteq Elements(chain')
  BY <1>0, <1>1, <1>3, ComesStays DEF Running, Unresolved
<1>4. CASE FlushQueue
  BY <1>4, FlushQueueComes
<1>5. CASE StartSession \/ Stop \/ Restart \/ EndDeadSession
  <2>1. /\ UNCHANGED <<journal, provider>> /\ stage = "free" /\ chain # << >> /\ Head(chain).kind # "flush"
    BY <1>0, <1>5, StartSessionIs, StopIs, RestartIs, EndDeadSessionIs
  <2>2. \/ ~live'.session
        \/ UNCHANGED <<node, live, queue, stage>> /\ chain' = Tail(chain)
    BY <1>0, <1>5, <2>1, StartSessionIs, StopIs, RestartIs, EndDeadSessionIs DEF Dropped, Leaving
  <2>3. Flush \in Elements(chain) => Flush \in Elements(Tail(chain))
    BY <2>1, FlushWaits
  <2>4. CASE UNCHANGED <<node, live, queue, stage>> /\ chain' = Tail(chain)
    BY <1>0, <1>1, <2>1, <2>3, <2>4, ComesStays DEF Running, Unresolved
  <2> QED
    BY <1>2, <2>2, <2>4
<1>6. CASE FirstTurn \/ SessionEnded
  <2>1. live'.session = FALSE \/ provider'.alive = FALSE \/ node'.turn = "running"
    BY <1>0, <1>6, FirstTurnIs, SessionEndedIs DEF Begun, Leaving
  <2> QED
    BY <1>2, <2>1
<1>7. CASE \E b \in BOOLEAN : Launched(b)
  <2>1. chain # << >>
    BY <1>0, <1>7 DEF Launched, Flow
  <2>2. stage' = "opening" \/ chain' = <<Flush>> \o Tail(chain) \/ node'.turn = "none"
    BY <1>0, <1>7, LaunchedIs
  <2>3. Flush \in Elements(<<Flush>> \o Tail(chain))
    BY <2>1, FlushWaits
  <2> QED
    BY <1>2, <2>2, <2>3, FlushComes
<1>8. CASE TurnAccepted \/ TurnActive \/ \E b \in BOOLEAN : TurnStarted(b) \/ TurnRefused(b)
  BY <1>8, AnsweredComes
<1>9. CASE (\E n \in Turns : ProviderTakes(n)) \/ ProviderCompletes \/ ProviderExits
  BY <1>0, <1>2, <1>3, <1>9, ProviderIs
<1>10. CASE (\E e \in events : OnCompletion(e)) \/ \E p \in promises : PromiseKept(p)
  <2>1. Flush \in Elements(Append(chain, Flush))
    BY FlushWaits, FlushIs
  <2>2. /\ UNCHANGED <<queue, journal, stage, provider>>
        /\ \/ chain' = Append(chain, Flush)
           \/ /\ UNCHANGED <<node, chain>> /\ live'.session = live.session
    BY <1>0, <1>10, OnCompletionIs, PromiseKeptIs DEF Called
  <2>3. CASE UNCHANGED <<node, chain>> /\ live'.session = live.session
    BY <1>0, <1>1, <2>2, <2>3, ComesStays DEF Running, Unresolved
  <2> QED
    BY <2>1, <2>2, <2>3, FlushComes
<1>11. CASE \E p \in promises, u, e \in BOOLEAN : TurnFailed(p, u, e)
  BY <1>11, TurnFailedComes
<1>12. CASE \E m \in Items : Deliver(m)
  BY <1>12, DeliverComes
<1>13. CASE OnInteraction \/ CheckWorkers \/ \E kind \in Commands : Command(kind)
  <2>1. \A kind \in Commands : Op(kind, 0) \in ChainType /\ Op(kind, 0).kind # "launch"
    BY OpIs DEF Commands, Kinds
  <2>2. Op("exit", 0) \in ChainType /\ Op("exit", 0).kind # "launch"
    BY OpIs DEF Kinds
  <2>3. \/ chain' = chain
        \/ \E e \in ChainType : e.kind # "launch" /\ chain' = Append(chain, e)
    BY <1>0, <1>13, <2>1, <2>2, OnInteractionIs, CheckWorkersIs, CommandIs
  <2>4. Elements(chain) \subseteq Elements(chain')
    BY <2>3, FlushWaits
  <2> QED
    BY <1>0, <1>3, <1>13, <2>4, OnInteractionIs, CheckWorkersIs, CommandIs
<1>14. CASE Boundaries
  BY <1>14, BoundariesComes
<1>15. CASE Crash
  BY <1>0, <1>2, <1>15, CrashIs
<1> QED
  BY <1>4, <1>5, <1>6, <1>7, <1>8, <1>9, <1>10, <1>11, <1>12, <1>13, <1>14, <1>15 DEF Next, Operate, Worker, Outside

\* No wake-up is lost between the courier, the chain and the program's answers.
\* What waits in the queue of an idle worker has a hand-over ahead of it, although
\* flushQueue() drops its round silently whenever the worker is not idle, and only
\* deliver(), completeTurn() and resumeNode() ask for another; a refused turn, one
\* without an answer or a name, a hold and a delivery in doubt are the exceptions.  And a turn
\* the host waits for is being sent, worked on, or its end is on its way or kept,
\* although onEvent() drops what names another turn or session and the answer of
\* sendTurn may come before or after the events of its turn.
THEOREM NoWakeUpLost == Spec => [](HandOverComes /\ WaitsForProgram)
<1>1. Init => Awaited /\ Owned /\ Busy /\ Blamed /\ HandOverComes /\ Promised
  <2> SUFFICES ASSUME Init PROVE Awaited /\ Owned /\ Busy /\ Blamed /\ HandOverComes /\ Promised
    OBVIOUS
  <2>1. /\ live.session = FALSE /\ live.active = 0 /\ live.early = FALSE /\ provider.alive = FALSE
        /\ promises = {} /\ hold = 0 /\ disk.hold = 0 /\ disowned = {}
    BY DEF Init
  <2> QED
    BY <2>1 DEF Awaited, Owned, Busy, Blamed, HandOverComes, Promised, Running
<1>2. /\ HostInv /\ Driven /\ TurnInv /\ Awaited /\ Owned /\ Busy /\ Blamed /\ HandOverComes /\ Promised /\ [Next]_vars
      => Awaited' /\ Owned' /\ Busy' /\ Blamed' /\ HandOverComes' /\ Promised'
  <2>1. UNCHANGED vars /\ Awaited /\ Owned /\ Busy /\ Blamed /\ HandOverComes /\ Promised =>
          Awaited' /\ Owned' /\ Busy' /\ Blamed' /\ HandOverComes' /\ Promised'
    BY DEF vars, Awaited, Owned, Busy, Blamed, HandOverComes, Promised, Latest, Submitting, Unresolved, Unhindered, Running
  <2>2. /\ HostInv /\ Driven /\ TurnInv /\ Awaited /\ Owned /\ Busy /\ Blamed /\ HandOverComes /\ Promised /\ Next
        => Awaited' /\ Owned' /\ Busy' /\ Blamed' /\ HandOverComes' /\ Promised'
    BY AwaitedNext, BusyNext, BlamedNext, ComesNext, PromisedNext
  <2> QED
    BY <2>1, <2>2
<1>3. TurnInv /\ Awaited /\ Promised => WaitsForProgram
  BY WaitsIs
<1> QED
  BY <1>1, <1>2, <1>3, TurnAlways, PTL DEF Spec
=============================================================================
