-------------------------- MODULE SubsequenceTheorems --------------------------
(***************************************************************************)
(* What Subsequence leaves of a sequence, for the proofs about the filters *)
(* of the audit ledger and of the message broker.                          *)
(***************************************************************************)
EXTENDS Subsequences, FiniteSetTheorems, TLAPS

\* The positions of a finite set of naturals are counted without gaps.
LEMMA RanksCount ==
  ASSUME NEW n \in Nat, NEW P \in SUBSET (1 .. n)
  PROVE  /\ Cardinality(P) \in Nat
         /\ \A i \in P : Rank(P, i) \in 1 .. Cardinality(P) /\ Nth(P, Rank(P, i)) = i
         /\ \A j \in 1 .. Cardinality(P) : Nth(P, j) \in P /\ Rank(P, Nth(P, j)) = j
         /\ \A i, k \in P : i < k => Rank(P, i) < Rank(P, k)
<1> DEFINE upto(i) == {k \in P : k <= i}
           r == [i \in P |-> Rank(P, i)]
<1>1. IsFiniteSet(P) /\ Cardinality(P) \in Nat /\ \A i \in P : i \in Nat
  <2>1. IsFiniteSet(1 .. n)
    BY FS_Interval
  <2>2. IsFiniteSet(P)
    BY <2>1, FS_Subset
  <2> QED
    BY <2>2, FS_CardinalityType
<1>2. \A i \in P : /\ IsFiniteSet(upto(i)) /\ Cardinality(upto(i)) \in Nat
                    /\ Cardinality(upto(i)) <= Cardinality(P)
  BY <1>1, FS_Subset, FS_CardinalityType
<1>3. \A i \in P : Cardinality(upto(i)) # 0
  <2>1. \A i \in P : i \in upto(i)
    OBVIOUS
  <2> QED
    BY <1>2, <2>1, FS_EmptySet
<1>4. \A i \in P : Rank(P, i) \in 1 .. Cardinality(P)
  BY <1>1, <1>2, <1>3 DEF Rank
<1>5. ASSUME NEW i \in P, NEW k \in P, i < k PROVE Rank(P, i) < Rank(P, k)
  <2>1. upto(i) \in SUBSET upto(k) /\ upto(i) # upto(k)
    <3>1. ASSUME NEW m \in upto(i) PROVE m \in upto(k)
      <4>1. m \in Nat /\ i \in Nat /\ k \in Nat /\ m \in P /\ m <= i
        BY <1>1
      <4> QED
        BY <1>5, <4>1
    <3>2. k \in upto(k) /\ k \notin upto(i)
      BY <1>5
    <3> QED
      BY <3>1, <3>2
  <2>2. Cardinality(upto(i)) <= Cardinality(upto(k)) /\ Cardinality(upto(k)) # Cardinality(upto(i))
    BY <1>2, <2>1, FS_Subset
  <2> QED
    BY <1>2, <2>2 DEF Rank
<1>6. \A i, k \in P : Rank(P, i) = Rank(P, k) => i = k
  <2> SUFFICES ASSUME NEW i \in P, NEW k \in P, Rank(P, i) = Rank(P, k), i # k PROVE FALSE
    OBVIOUS
  <2>1. i < k \/ k < i
    OBVIOUS
  <2> QED
    BY <1>4, <1>5, <2>1
<1>7. r \in Injection(P, 1 .. Cardinality(P))
  <2>1. r \in [P -> 1 .. Cardinality(P)]
    BY <1>4
  <2>2. \A i, k \in P : r[i] = r[k] => i = k
    BY <1>6
  <2> QED
    BY <2>1, <2>2, Zenon DEF Injection, IsInjective
<1>8. r \in Surjection(P, 1 .. Cardinality(P))
  <2>1. IsFiniteSet(1 .. Cardinality(P)) /\ Cardinality(1 .. Cardinality(P)) = Cardinality(P)
    BY <1>1, FS_Interval
  <2> QED
    BY <1>7, <2>1, FS_Injection
<1>9. ASSUME NEW j \in 1 .. Cardinality(P) PROVE Nth(P, j) \in P /\ Rank(P, Nth(P, j)) = j
  <2>1. \E i \in P : r[i] = j
    BY <1>8, Zenon DEF Surjection
  <2>2. \E i \in P : Rank(P, i) = j
    BY <2>1
  <2> QED
    BY <2>2, Zenon DEF Nth
<1>10. \A i \in P : Nth(P, Rank(P, i)) = i
  BY <1>4, <1>6, <1>9
<1> QED
  BY <1>1, <1>4, <1>5, <1>9, <1>10

\* The elements of a subsequence are those at its positions, each position once
\* and in their order.
LEMMA SubsequenceElements ==
  ASSUME NEW S, NEW q \in Seq(S), NEW P \in SUBSET DOMAIN q
  PROVE  /\ Subsequence(q, P) \in Seq(S)
         /\ Len(Subsequence(q, P)) = Cardinality(P) /\ Cardinality(P) \in Nat
         /\ DOMAIN Subsequence(q, P) = 1 .. Cardinality(P)
         /\ \A j \in 1 .. Cardinality(P) : Nth(P, j) \in P /\ Subsequence(q, P)[j] = q[Nth(P, j)]
         /\ \A i \in P : \E j \in 1 .. Cardinality(P) : Nth(P, j) = i
         /\ \A j, k \in 1 .. Cardinality(P) : j < k => Nth(P, j) < Nth(P, k)
         /\ \A j, k \in 1 .. Cardinality(P) : Nth(P, j) = Nth(P, k) => j = k
<1> DEFINE s == Subsequence(q, P)
           n == Cardinality(P)
<1>1. /\ n \in Nat
      /\ \A i \in P : Rank(P, i) \in 1 .. n /\ Nth(P, Rank(P, i)) = i
      /\ \A j \in 1 .. n : Nth(P, j) \in P /\ Rank(P, Nth(P, j)) = j
      /\ \A i, k \in P : i < k => Rank(P, i) < Rank(P, k)
  <2>1. P \in SUBSET (1 .. Len(q)) /\ Len(q) \in Nat
    OBVIOUS
  <2> QED
    BY <2>1, RanksCount
<1>2. /\ DOMAIN s = 1 .. n
      /\ \A j \in 1 .. n : s[j] = q[Nth(P, j)]
  BY DEF Subsequence
<1>3. s \in Seq(S)
  <2>1. \A j \in 1 .. n : q[Nth(P, j)] \in S
    BY <1>1
  <2> QED
    BY <1>1, <2>1 DEF Subsequence
<1>4. Len(s) = n
  BY <1>1, <1>2, <1>3
<1> HIDE DEF s, n
<1>5. \A j, k \in 1 .. n : j < k => Nth(P, j) < Nth(P, k)
  <2> SUFFICES ASSUME NEW j \in 1 .. n, NEW k \in 1 .. n, j < k, ~(Nth(P, j) < Nth(P, k))
               PROVE  FALSE
    OBVIOUS
  <2>1. Nth(P, j) \in P /\ Nth(P, k) \in P /\ Nth(P, j) \in Nat /\ Nth(P, k) \in Nat
    BY <1>1
  <2>2. Rank(P, Nth(P, j)) = j /\ Rank(P, Nth(P, k)) = k
    BY <1>1
  <2>3. CASE Nth(P, j) = Nth(P, k)
    BY <1>1, <2>2, <2>3
  <2>4. CASE Nth(P, k) < Nth(P, j)
    BY <1>1, <2>1, <2>2, <2>4
  <2> QED
    BY <2>1, <2>3, <2>4
<1>6. \A j, k \in 1 .. n : Nth(P, j) = Nth(P, k) => j = k
  BY <1>1
<1> QED
  BY <1>1, <1>2, <1>3, <1>4, <1>5, <1>6 DEF s, n
\* The elements of a set of naturals in their order.
Sorted(A) == [j \in 1 .. Cardinality(A) |-> Nth(A, j)]
Ascending(s) == \A i, j \in DOMAIN s : i < j => s[i] < s[j]
Members(s) == {s[i] : i \in DOMAIN s}

\* There is one ascending sequence of the elements of a set.
LEMMA AscendingIsSorted ==
  ASSUME NEW n \in Nat, NEW s \in Seq(1 .. n), Ascending(s)
  PROVE  s = Sorted(Members(s))
<1> DEFINE A == Members(s)
           m == Len(s)
<1>1. m \in Nat /\ DOMAIN s = 1 .. m /\ \A i \in 1 .. m : s[i] \in 1 .. n
  OBVIOUS
<1>2. A \in SUBSET (1 .. n)
  BY <1>1 DEF Members
<1>3. \A i, j \in 1 .. m : s[i] = s[j] => i = j
  <2> SUFFICES ASSUME NEW i \in 1 .. m, NEW j \in 1 .. m, s[i] = s[j], i # j PROVE FALSE
    OBVIOUS
  <2>1. i < j \/ j < i
    BY <1>1
  <2>2. s[i] < s[j] \/ s[j] < s[i]
    BY <1>1, <2>1 DEF Ascending
  <2>3. s[i] \in Nat
    BY <1>1
  <2> QED
    BY <2>2, <2>3
<1>4. ASSUME NEW i \in 0 .. m
      PROVE  Cardinality({s[j] : j \in 1 .. i}) = i
  <2> DEFINE B == {s[j] : j \in 1 .. i}
             f == [j \in 1 .. i |-> s[j]]
  <2>1. IsFiniteSet(1 .. i) /\ Cardinality(1 .. i) = i
    <3>1. /\ IsFiniteSet(1 .. i) /\ Cardinality(1 .. i) = IF 1 > i THEN 0 ELSE i - 1 + 1
      BY <1>1, FS_Interval
    <3> QED
      BY <1>1, <3>1
  <2>2. \A j \in 1 .. i : j \in 1 .. m
    BY <1>1
  <2>3. f \in Bijection(1 .. i, B)
    <3>1. f \in [1 .. i -> B]
      OBVIOUS
    <3>2. \A j, k \in 1 .. i : f[j] = f[k] => j = k
      BY <1>3, <2>2
    <3>3. \A b \in B : \E j \in 1 .. i : f[j] = b
      OBVIOUS
    <3> HIDE DEF f, B
    <3> QED
      BY <3>1, <3>2, <3>3, Zenon DEF Bijection, Injection, Surjection, IsInjective
  <2>4. ExistsBijection(1 .. i, B)
    BY <2>3, Zenon DEF ExistsBijection
  <2> QED
    BY <2>1, <2>4, FS_Bijection
<1>5. Cardinality(A) = m
  <2>1. A = {s[j] : j \in 1 .. m}
    BY <1>1 DEF Members
  <2> QED
    BY <1>1, <1>4, <2>1
<1>6. ASSUME NEW i \in 1 .. m PROVE s[i] \in A /\ Rank(A, s[i]) = i
  <2>1. {k \in A : k <= s[i]} = {s[j] : j \in 1 .. i}
    <3>1. ASSUME NEW j \in 1 .. m PROVE s[j] <= s[i] <=> j \in 1 .. i
      <4>1. i \in Nat /\ j \in Nat /\ s[i] \in Nat /\ s[j] \in Nat
        BY <1>1
      <4>2. i < j => s[i] < s[j]
        BY <1>1 DEF Ascending
      <4>3. j < i => s[j] < s[i]
        BY <1>1 DEF Ascending
      <4>4. j = i \/ j < i \/ i < j
        BY <4>1
      <4>5. j \in 1 .. i <=> ~(i < j)
        BY <1>1, <4>1
      <4> QED
        BY <4>1, <4>2, <4>3, <4>4, <4>5
    <3>2. \A j \in 1 .. i : j \in 1 .. m
      BY <1>1
    <3>3. A = {s[j] : j \in 1 .. m}
      BY <1>1 DEF Members
    <3> HIDE DEF A
    <3> QED
      BY <3>1, <3>2, <3>3
  <2>2. i \in 0 .. m
    BY <1>1
  <2> QED
    BY <1>1, <1>4, <2>1, <2>2 DEF Rank, Members
<1>7. ASSUME NEW i \in 1 .. m PROVE Nth(A, i) = s[i]
  BY <1>2, <1>6, RanksCount, ZenonT(60)
<1>8. Sorted(A) = [i \in 1 .. m |-> Nth(A, i)]
  BY <1>5 DEF Sorted
<1>9. s = [i \in 1 .. m |-> s[i]]
  BY <1>1
<1> HIDE DEF A, m
<1>10. Sorted(A) = s
  BY <1>7, <1>8, <1>9
<1> QED
  BY <1>10 DEF A

\* The elements of a set of naturals in their order, and no others.
LEMMA SortedIs ==
  ASSUME NEW n \in Nat, NEW A \in SUBSET (1 .. n)
  PROVE  /\ Sorted(A) \in Seq(1 .. n) /\ Ascending(Sorted(A)) /\ Members(Sorted(A)) = A
         /\ A # {} => /\ Sorted(A) # <<>> /\ Head(Sorted(A)) \in A
                      /\ \A a \in A : Head(Sorted(A)) <= a
<1> DEFINE s == Sorted(A)
           m == Cardinality(A)
<1>1. /\ m \in Nat
      /\ \A i \in A : Rank(A, i) \in 1 .. m /\ Nth(A, Rank(A, i)) = i
      /\ \A j \in 1 .. m : Nth(A, j) \in A /\ Rank(A, Nth(A, j)) = j
      /\ \A i, k \in A : i < k => Rank(A, i) < Rank(A, k)
  BY RanksCount
<1>2. DOMAIN s = 1 .. m /\ \A j \in 1 .. m : s[j] = Nth(A, j)
  BY DEF Sorted
<1>3. s \in Seq(1 .. n)
  <2>1. s = [j \in 1 .. m |-> Nth(A, j)] /\ \A j \in 1 .. m : Nth(A, j) \in 1 .. n
    BY <1>1 DEF Sorted
  <2> HIDE DEF s, m
  <2> QED
    BY <1>1, <2>1
<1> HIDE DEF s, m
<1>4. Ascending(s)
  <2> SUFFICES ASSUME NEW i \in 1 .. m, NEW j \in 1 .. m, i < j PROVE s[i] < s[j]
    BY <1>2 DEF Ascending
  <2>1. s[i] \in A /\ s[j] \in A /\ Rank(A, s[i]) = i /\ Rank(A, s[j]) = j
    BY <1>1, <1>2
  <2>2. s[i] \in Nat /\ s[j] \in Nat /\ i \in Nat /\ j \in Nat
    <3>1. \A a \in A : a \in Nat
      OBVIOUS
    <3>2. s[i] \in Nat /\ s[j] \in Nat
      BY <2>1, <3>1
    <3>3. m \in Nat
      BY <1>1
    <3> QED
      BY <3>2, <3>3
  <2>3. s[j] < s[i] => j < i
    BY <1>1, <2>1
  <2>4. s[i] # s[j]
    BY <2>1, <2>2
  <2> QED
    BY <2>2, <2>3, <2>4
<1>5. Members(s) = A
  <2>1. \A a \in A : \E j \in 1 .. m : s[j] = a
    BY <1>1, <1>2
  <2>2. \A j \in 1 .. m : s[j] \in A
    BY <1>1, <1>2
  <2> QED
    BY <1>2, <2>1, <2>2 DEF Members
<1>6. ASSUME A # {} PROVE s # <<>> /\ Head(s) \in A /\ \A a \in A : Head(s) <= a
  <2>1. PICK a \in A : TRUE
    BY <1>6
  <2>2. Rank(A, a) \in 1 .. m
    BY <1>1
  <2>3. 1 \in 1 .. m /\ s # <<>> /\ Head(s) = s[1]
    BY <1>1, <1>2, <1>3, <2>2
  <2>4. s[1] \in A
    BY <1>1, <1>2, <2>3
  <2>5. ASSUME NEW b \in A PROVE s[1] <= b
    <3>1. PICK j \in 1 .. m : s[j] = b
      BY <1>2, <1>5 DEF Members
    <3>2. j = 1 \/ 1 < j
      BY <1>1
    <3>3. s[1] = b \/ s[1] < b
      BY <1>2, <1>4, <2>3, <3>1, <3>2 DEF Ascending
    <3>4. s[1] \in Nat /\ b \in Nat
      <4>1. \A x \in A : x \in Nat
        OBVIOUS
      <4> QED
        BY <2>4, <4>1
    <3> QED
      BY <3>3, <3>4
  <2> QED
    BY <2>3, <2>4, <2>5
<1> QED
  BY <1>3, <1>4, <1>5, <1>6 DEF s

\* What a queue does to the sorted sequence of its elements.
LEMMA SortedChanges ==
  ASSUME NEW n \in Nat, NEW A \in SUBSET (1 .. n)
  PROVE  /\ \A x \in 1 .. n : (\A a \in A : a < x) => Append(Sorted(A), x) = Sorted(A \cup {x})
         /\ A # {} => Tail(Sorted(A)) = Sorted(A \ {Head(Sorted(A))})
         /\ \A gone : Subsequence(Sorted(A), {k \in DOMAIN Sorted(A) : Sorted(A)[k] \notin gone})
                        = Sorted(A \ gone)
<1>1. PICK s : s = Sorted(A)
  OBVIOUS
<1>2. /\ s \in Seq(1 .. n) /\ Ascending(s) /\ Members(s) = A
      /\ A # {} => s # <<>>
  BY <1>1, SortedIs
<1>3. Len(s) \in Nat /\ DOMAIN s = 1 .. Len(s) /\ \A i \in 1 .. Len(s) : s[i] \in 1 .. n /\ s[i] \in A
  BY <1>2 DEF Members
<1>4. ASSUME NEW x \in 1 .. n, \A a \in A : a < x PROVE Append(s, x) = Sorted(A \cup {x})
  <2>1. PICK t : t = Append(s, x)
    OBVIOUS
  <2>2. /\ t \in Seq(1 .. n) /\ DOMAIN t = 1 .. (Len(s) + 1)
        /\ \A i \in 1 .. Len(s) : t[i] = s[i]
        /\ t[Len(s) + 1] = x
    BY <1>2, <1>3, <2>1
  <2>3. Ascending(t)
    <3> SUFFICES ASSUME NEW i \in 1 .. (Len(s) + 1), NEW j \in 1 .. (Len(s) + 1), i < j PROVE t[i] < t[j]
      BY <2>2 DEF Ascending
    <3>1. i \in 1 .. Len(s) /\ (j \in 1 .. Len(s) \/ j = Len(s) + 1)
      <4>1. Len(s) \in Nat /\ i \in Nat /\ j \in Nat
        BY <1>3
      <4> QED
        BY <4>1
    <3>2. CASE j = Len(s) + 1
      BY <1>3, <1>4, <2>2, <3>1, <3>2
    <3>3. CASE j \in 1 .. Len(s)
      BY <1>2, <1>3, <2>2, <3>1, <3>3 DEF Ascending
    <3> QED
      BY <3>1, <3>2, <3>3
  <2>4. Members(t) = A \cup {x}
    <3>1. \A i \in 1 .. (Len(s) + 1) : i \in 1 .. Len(s) \/ i = Len(s) + 1
      BY <1>3
    <3>2. \A i \in 1 .. Len(s) : i \in 1 .. (Len(s) + 1)
      BY <1>3
    <3>3. Len(s) + 1 \in 1 .. (Len(s) + 1)
      BY <1>3
    <3> QED
      BY <1>2, <1>3, <2>2, <3>1, <3>2, <3>3 DEF Members
  <2> QED
    BY <2>1, <2>2, <2>3, <2>4, AscendingIsSorted
<1>5. ASSUME A # {} PROVE Tail(s) = Sorted(A \ {Head(s)})
  <2>1. PICK t : t = Tail(s)
    OBVIOUS
  <2>2. s # <<>> /\ Len(s) > 0
    BY <1>2, <1>3, <1>5
  <2>3. /\ t \in Seq(1 .. n) /\ Len(t) = Len(s) - 1 /\ DOMAIN t = 1 .. (Len(s) - 1)
        /\ \A i \in 1 .. (Len(s) - 1) : t[i] = s[i + 1]
        /\ Head(s) = s[1]
    BY <1>2, <1>3, <2>1, <2>2
  <2>4. Ascending(t)
    <3> SUFFICES ASSUME NEW i \in 1 .. (Len(s) - 1), NEW j \in 1 .. (Len(s) - 1), i < j PROVE t[i] < t[j]
      BY <2>3 DEF Ascending
    <3>1. i + 1 \in 1 .. Len(s) /\ j + 1 \in 1 .. Len(s) /\ i + 1 < j + 1
      BY <1>3
    <3> QED
      BY <1>2, <1>3, <2>3, <3>1 DEF Ascending
  <2>5. Members(t) = A \ {Head(s)}
    <3>1. \A i \in 1 .. (Len(s) - 1) : i + 1 \in 1 .. Len(s) /\ 1 < i + 1
      BY <1>3
    <3>2. \A i \in 1 .. Len(s) : i # 1 => i - 1 \in 1 .. (Len(s) - 1) /\ (i - 1) + 1 = i /\ 1 < i
      BY <1>3
    <3>3. \A i \in 1 .. Len(s) : 1 < i => s[i] # s[1]
      <4>1. 1 \in 1 .. Len(s)
        BY <1>3, <2>2
      <4> QED
        BY <1>2, <1>3, <4>1 DEF Ascending
    <3>4. \A i \in 1 .. (Len(s) - 1) : t[i] \in A /\ t[i] # s[1]
      BY <1>3, <2>3, <3>1, <3>3
    <3>5. \A a \in A : a # s[1] => \E i \in 1 .. (Len(s) - 1) : t[i] = a
      <4> SUFFICES ASSUME NEW a \in A, a # s[1] PROVE \E i \in 1 .. (Len(s) - 1) : t[i] = a
        OBVIOUS
      <4>1. PICK i \in 1 .. Len(s) : s[i] = a
        BY <1>2, <1>3 DEF Members
      <4>2. i # 1
        BY <4>1
      <4>3. i - 1 \in 1 .. (Len(s) - 1) /\ t[i - 1] = s[i]
        BY <2>3, <3>2, <4>2
      <4> QED
        BY <4>1, <4>3
    <3>6. Members(t) = {t[i] : i \in 1 .. (Len(s) - 1)} /\ Head(s) = s[1]
      BY <2>3 DEF Members
    <3>7. \A a : a \in Members(t) <=> a \in A /\ a # s[1]
      BY <3>4, <3>5, <3>6
    <3> QED
      BY <3>6, <3>7
  <2> QED
    BY <2>1, <2>3, <2>4, <2>5, AscendingIsSorted
<1>6. ASSUME NEW gone PROVE Subsequence(s, {k \in DOMAIN s : s[k] \notin gone}) = Sorted(A \ gone)
  <2> DEFINE P == {k \in DOMAIN s : s[k] \notin gone}
  <2>1. PICK t : t = Subsequence(s, P)
    OBVIOUS
  <2>2. /\ t \in Seq(1 .. n) /\ Cardinality(P) \in Nat /\ DOMAIN t = 1 .. Cardinality(P)
        /\ \A j \in 1 .. Cardinality(P) : Nth(P, j) \in P /\ t[j] = s[Nth(P, j)]
        /\ \A i \in P : \E j \in 1 .. Cardinality(P) : Nth(P, j) = i
        /\ \A j, k \in 1 .. Cardinality(P) : j < k => Nth(P, j) < Nth(P, k)
    <3>1. P \in SUBSET DOMAIN s /\ s \in Seq(1 .. n)
      BY <1>2
    <3> HIDE DEF P
    <3> QED
      BY <2>1, <3>1, SubsequenceElements
  <2>3. \A k \in P : k \in 1 .. Len(s) /\ s[k] \notin gone
    BY <1>3
  <2>4. Ascending(t)
    <3> SUFFICES ASSUME NEW i \in 1 .. Cardinality(P), NEW j \in 1 .. Cardinality(P), i < j
                 PROVE  t[i] < t[j]
      BY <2>2 DEF Ascending
    <3> QED
      BY <1>2, <1>3, <2>2, <2>3 DEF Ascending
  <2>5. Members(t) = A \ gone
    <3>1. \A j \in 1 .. Cardinality(P) : t[j] \in A \ gone
      BY <1>3, <2>2, <2>3
    <3>2. ASSUME NEW a \in A \ gone PROVE \E j \in 1 .. Cardinality(P) : t[j] = a
      <4>1. PICK k \in DOMAIN s : s[k] = a
        BY <1>2 DEF Members
      <4>2. k \in P
        BY <4>1
      <4> HIDE DEF P
      <4> QED
        BY <2>2, <4>1, <4>2
    <3>3. Members(t) = {t[j] : j \in 1 .. Cardinality(P)}
      BY <2>2 DEF Members
    <3> HIDE DEF P
    <3> QED
      BY <3>1, <3>2, <3>3
  <2> QED
    BY <2>1, <2>2, <2>4, <2>5, AscendingIsSorted
<1> QED
  BY <1>1, <1>4, <1>5, <1>6, Zenon
=============================================================================
