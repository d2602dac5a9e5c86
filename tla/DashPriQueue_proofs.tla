------------------------- MODULE DashPriQueue_proofs -------------------------
(***************************************************************************)
(* The queue of the access point, for any number of buckets, packets and   *)
(* packet sizes, any limit, quantum and weights.                           *)
(***************************************************************************)
EXTENDS DashPriQueue, FiniteSetTheorems, WellFoundedInduction, SequenceTheorems, TLAPS

-----------------------------------------------------------------------------
(* Sequences without repetition.                                           *)

(* A non-empty set of naturals has a smallest element. *)
LEMMA SmallestExists ==
    ASSUME NEW S, S \subseteq Nat, S # {}
    PROVE  \E x \in S : \A y \in S : x <= y
<1>1. IsWellFoundedOn(OpToRel(<, Nat), Nat)
  BY NatLessThanWellFounded
<1>2. PICK x \in S : \A y \in S : ~(<<y, x>> \in OpToRel(<, Nat))
  BY <1>1, WFMin
<1>3. ASSUME NEW y \in S PROVE x <= y
  <2>1. ~(y < x)
    BY <1>2 DEF OpToRel
  <2>2. QED
    BY <2>1
<1>4. QED
  BY <1>3

LEMMA ElementsOf ==
    ASSUME NEW S, NEW s \in Seq(S)
    PROVE  /\ Len(s) \in Nat /\ DOMAIN s = 1..Len(s) /\ ToSet(s) \subseteq S
           /\ \A i \in 1..Len(s) : s[i] \in ToSet(s) /\ s[i] \in S
           /\ \A e \in ToSet(s) : \E i \in 1..Len(s) : s[i] = e
           /\ ToSet(s) = {} <=> s = <<>>
           /\ s = <<>> <=> Len(s) = 0
<1>1. Len(s) \in Nat /\ DOMAIN s = 1..Len(s) /\ (s = <<>> <=> Len(s) = 0)
  BY LenProperties, EmptySeq
<1>2. \A i \in 1..Len(s) : s[i] \in S
  BY <1>1, LenProperties
<1>3. ToSet(s) = {s[i] : i \in 1..Len(s)}
  BY <1>1 DEF ToSet
<1>4. Len(s) # 0 => 1 \in 1..Len(s)
  BY <1>1
<1>5. QED
  BY <1>1, <1>2, <1>3, <1>4

(* Position in s of the i-th element that is left without the k-th. *)
Shift(i, k) == IF i < k THEN i ELSE i + 1

LEMMA RemoveAtIs ==
    ASSUME NEW S, NEW s \in Seq(S), NEW k \in 1..Len(s)
    PROVE  /\ RemoveAt(s, k) \in Seq(S) /\ Len(RemoveAt(s, k)) = Len(s) - 1
           /\ \A i \in 1..(Len(s) - 1) : /\ RemoveAt(s, k)[i] = s[Shift(i, k)]
                                         /\ Shift(i, k) \in 1..Len(s)
<1> DEFINE n == Len(s)
           a == SubSeq(s, 1, k - 1)
           b == SubSeq(s, k + 1, n)
<1>1. n \in Nat /\ \A i \in 1..n : s[i] \in S
  BY ElementsOf
<1>2. /\ a \in Seq(S) /\ Len(a) = k - 1
      /\ \A i \in 1..(k - 1) : a[i] = s[i]
  <2>1. \A i \in 1..(k - 1) : s[i] \in S
    BY <1>1
  <2>2. /\ a \in Seq(S) /\ Len(a) = IF 1 <= k - 1 THEN (k - 1) - 1 + 1 ELSE 0
        /\ \A i \in 1..((k - 1) - 1 + 1) : a[i] = s[1 + i - 1]
    BY <2>1, SubSeqProperties
  <2>3. QED
    BY <2>2
<1>3. /\ b \in Seq(S) /\ Len(b) = n - k
      /\ \A i \in 1..(n - k) : b[i] = s[k + i]
  <2>1. \A i \in (k + 1)..n : s[i] \in S
    BY <1>1
  <2> HIDE DEF n
  <2>2. /\ b \in Seq(S) /\ Len(b) = IF k + 1 <= n THEN n - (k + 1) + 1 ELSE 0
        /\ \A i \in 1..(n - (k + 1) + 1) : b[i] = s[(k + 1) + i - 1]
    BY <1>1, <2>1, SubSeqProperties
  <2>3. k <= n
    BY DEF n
  <2>4. QED
    BY <1>1, <2>2, <2>3
<1> HIDE DEF a, b
<1>4. /\ a \o b \in Seq(S) /\ Len(a \o b) = Len(a) + Len(b)
      /\ \A i \in 1..Len(a) : (a \o b)[i] = a[i]
      /\ \A i \in 1..Len(b) : (a \o b)[Len(a) + i] = b[i]
  <2>1. /\ a \o b \in Seq(S) /\ Len(a \o b) = Len(a) + Len(b)
        /\ \A i \in 1..(Len(a) + Len(b)) :
              (a \o b)[i] = IF i <= Len(a) THEN a[i] ELSE b[i - Len(a)]
    BY <1>2, <1>3, ConcatProperties
  <2>2. Len(a) \in Nat /\ Len(b) \in Nat
    BY <1>2, <1>3, LenProperties
  <2>3. QED
    BY <2>1, <2>2
<1>5. RemoveAt(s, k) = a \o b
  BY DEF RemoveAt, a, b
<1> HIDE DEF n
<1>6. k \in 1..n
  BY DEF n
<1>7. ASSUME NEW i \in 1..(n - 1) PROVE (a \o b)[i] = s[Shift(i, k)] /\ Shift(i, k) \in 1..n
  <2>1. CASE i < k
    BY <1>1, <1>2, <1>4, <1>6, <2>1 DEF Shift
  <2>2. CASE ~(i < k)
    <3>1. i - (k - 1) \in 1..(n - k) /\ (k - 1) + (i - (k - 1)) = i /\ k + (i - (k - 1)) = i + 1
      BY <1>1, <1>6, <2>2
    <3>2. (a \o b)[(k - 1) + (i - (k - 1))] = b[i - (k - 1)] /\ b[i - (k - 1)] = s[k + (i - (k - 1))]
      BY <1>2, <1>3, <1>4, <3>1
    <3>3. Shift(i, k) = i + 1 /\ i + 1 \in 1..n
      BY <1>1, <1>6, <2>2 DEF Shift
    <3>4. (a \o b)[i] = s[i + 1]
      BY <3>1, <3>2
    <3>5. QED
      BY <3>3, <3>4
  <2>3. QED
    BY <2>1, <2>2
<1>8. Len(a \o b) = n - 1
  BY <1>1, <1>2, <1>3, <1>4, <1>6
<1>9. QED
  BY <1>4, <1>5, <1>7, <1>8 DEF n

(* PacketQueue::remove and list::remove. *)
LEMMA RemoveFirstIs ==
    ASSUME NEW S, NEW s \in Seq(S), NEW e
    PROVE  /\ e \notin ToSet(s) => RemoveFirst(s, e) = s
           /\ e \in ToSet(s) =>
                \E k \in 1..Len(s) : s[k] = e /\ RemoveFirst(s, e) = RemoveAt(s, k)
<1>1. \A i \in 1..Len(s) : s[i] \in ToSet(s)
  BY ElementsOf
<1>2. ASSUME e \notin ToSet(s) PROVE RemoveFirst(s, e) = s
  BY <1>1, <1>2 DEF RemoveFirst
<1>3. ASSUME e \in ToSet(s)
      PROVE  \E k \in 1..Len(s) : s[k] = e /\ RemoveFirst(s, e) = RemoveAt(s, k)
  <2> DEFINE I == {i \in 1..Len(s) : s[i] = e}
  <2>1. I # {} /\ I \subseteq Nat /\ \E i \in 1..Len(s) : s[i] = e
    BY <1>3, ElementsOf
  <2>2. RemoveFirst(s, e) = RemoveAt(s, Min(I))
    BY <2>1 DEF RemoveFirst, SelectInSeq
  <2>3. \E x \in I : \A y \in I : x <= y
    BY <2>1, SmallestExists
  <2>4. Min(I) \in I
    BY <2>3 DEF Min
  <2>5. QED
    BY <2>2, <2>4
<1>4. QED
  BY <1>2, <1>3

LEMMA RemoveDistinct ==
    ASSUME NEW S, NEW s \in Seq(S), IsInjective(s), NEW k \in 1..Len(s)
    PROVE  IsInjective(RemoveAt(s, k)) /\ ToSet(RemoveAt(s, k)) = ToSet(s) \ {s[k]}
<1> DEFINE r == RemoveAt(s, k)
           n == Len(s)
<1>1. /\ r \in Seq(S) /\ Len(r) = n - 1 /\ n \in Nat
      /\ \A i \in 1..(n - 1) : r[i] = s[Shift(i, k)] /\ Shift(i, k) \in 1..n
  <2>1. n \in Nat
    BY ElementsOf
  <2>2. QED
    BY <2>1, RemoveAtIs
<1>2. DOMAIN s = 1..n
  BY ElementsOf
<1>3. DOMAIN r = 1..(n - 1)
  BY <1>1, ElementsOf
<1>4. \A i, j \in 1..n : s[i] = s[j] => i = j
  BY <1>2, Zenon DEF IsInjective
<1> HIDE DEF r, n
<1>5. IsInjective(r)
  <2>1. \A i, j \in 1..(n - 1) : Shift(i, k) = Shift(j, k) => i = j
    BY <1>1 DEF Shift
  <2>2. ASSUME NEW i \in 1..(n - 1), NEW j \in 1..(n - 1), r[i] = r[j] PROVE i = j
    <3>1. /\ Shift(i, k) \in 1..n /\ Shift(j, k) \in 1..n
          /\ s[Shift(i, k)] = s[Shift(j, k)]
      BY <1>1, <2>2
    <3>2. Shift(i, k) = Shift(j, k)
      BY <1>4, <3>1
    <3>3. QED
      BY <2>1, <3>2
  <2>3. QED
    BY <1>3, <2>2 DEF IsInjective
<1>6. ToSet(r) = ToSet(s) \ {s[k]}
  <2>1. k \in 1..n
    BY DEF n
  <2>2. ASSUME NEW e \in ToSet(r) PROVE e \in ToSet(s) \ {s[k]}
    <3>1. PICK i \in 1..(n - 1) : e = r[i]
      BY <1>3, <2>2 DEF ToSet
    <3>2. Shift(i, k) # k
      BY DEF Shift
    <3>3. QED
      BY <1>1, <1>2, <1>4, <2>1, <3>1, <3>2 DEF ToSet
  <2>3. ASSUME NEW e \in ToSet(s) \ {s[k]} PROVE e \in ToSet(r)
    <3>1. PICK j \in 1..n : e = s[j]
      BY <1>2, <2>3 DEF ToSet
    <3> DEFINE i == IF j < k THEN j ELSE j - 1
    <3>2. i \in 1..(n - 1) /\ Shift(i, k) = j
      BY <1>1, <2>1, <3>1 DEF Shift
    <3>3. QED
      BY <1>1, <1>3, <3>1, <3>2 DEF ToSet
  <2>4. QED
    BY <2>2, <2>3
<1>7. QED
  BY <1>5, <1>6 DEF r

LEMMA AppendDistinct ==
    ASSUME NEW S, NEW s \in Seq(S), IsInjective(s), NEW e \in S, e \notin ToSet(s)
    PROVE  IsInjective(Append(s, e)) /\ ToSet(Append(s, e)) = ToSet(s) \cup {e}
<1> DEFINE r == Append(s, e)
           n == Len(s)
<1>1. /\ r \in Seq(S) /\ Len(r) = n + 1 /\ n \in Nat /\ r[n + 1] = e
      /\ \A i \in 1..n : r[i] = s[i]
  BY AppendProperties, ElementsOf
<1>2. /\ DOMAIN s = 1..n /\ DOMAIN r = 1..(n + 1)
      /\ \A i, j \in 1..n : s[i] = s[j] => i = j
      /\ \A i \in 1..n : s[i] # e
  <2>1. DOMAIN s = 1..n /\ \A i \in 1..n : s[i] # e
    BY ElementsOf
  <2>2. DOMAIN r = 1..(n + 1)
    BY <1>1, ElementsOf
  <2>3. \A i, j \in 1..n : s[i] = s[j] => i = j
    BY <2>1, Zenon DEF IsInjective
  <2>4. QED
    BY <2>1, <2>2, <2>3
<1> HIDE DEF r, n
<1>3. \A i \in 1..(n + 1) : i \in 1..n \/ i = n + 1
  BY <1>1
<1>4. IsInjective(r)
  <2>1. ASSUME NEW i \in 1..(n + 1), NEW j \in 1..(n + 1), r[i] = r[j] PROVE i = j
    <3>1. (i \in 1..n /\ r[i] = s[i] /\ r[i] # e) \/ (i = n + 1 /\ r[i] = e)
      BY <1>1, <1>2, <1>3
    <3>2. (j \in 1..n /\ r[j] = s[j] /\ r[j] # e) \/ (j = n + 1 /\ r[j] = e)
      BY <1>1, <1>2, <1>3
    <3>3. QED
      BY <1>2, <2>1, <3>1, <3>2
  <2>2. QED
    BY <1>2, <2>1 DEF IsInjective
<1>5. ToSet(r) = ToSet(s) \cup {e}
  <2>1. n + 1 \in 1..(n + 1) /\ 1..n \subseteq 1..(n + 1)
    BY <1>1
  <2>2. QED
    BY <1>1, <1>2, <1>3, <2>1 DEF ToSet
<1>6. QED
  BY <1>4, <1>5 DEF r

-----------------------------------------------------------------------------
(* The bytes of a list of packets. The fold is a recursive function on the *)
(* sets of indices; it exists, by induction (on the smallest               *)
(* counterexample), and its values are the partial sums.                   *)
Bytes(s) == FoldLeft(LAMBDA n, x : n + x.size, 0, s)

FoldedTo(it, s, n) ==
    it = [D \in SUBSET (1..n) |->
             IF D = {} THEN 0 ELSE it[D \ {Max(D)}] + s[Max(D)].size]

(* The fold of a list is the value of that function on all its indices.    *)
LEMMA BytesFold ==
    ASSUME NEW S, NEW s \in Seq(S)
    PROVE  Bytes(s) = (CHOOSE it : FoldedTo(it, s, Len(s)))[1..Len(s)]
<1>1. DOMAIN s = 1..Len(s)
  OBVIOUS
<1>2. QED
  BY <1>1 DEF Bytes, FoldLeft, MapThenFoldSet, FoldedTo

(* The last index is the largest. *)
LEMMA LargestIndex ==
    ASSUME NEW n \in Nat \ {0}, NEW D \in SUBSET (1..n), n \in D
    PROVE  Max(D) = n
<1>1. \A x \in D : x \in Int /\ n >= x
  OBVIOUS
<1>2. \A x \in D : (\A y \in D : x >= y) => x = n
  BY <1>1
<1>3. QED
  BY <1>1, <1>2 DEF Max

(* The function exists for the indices 1..m of any list.                   *)
LEMMA FoldExists ==
    ASSUME NEW s, NEW m \in Nat
    PROVE  \E it : FoldedTo(it, s, m)
<1> DEFINE Bad == {n \in 0..m : ~\E it : FoldedTo(it, s, n)}
<1> SUFFICES ASSUME Bad # {} PROVE FALSE
  BY m \in 0..m
<1>1. PICK n \in Bad : \A k \in Bad : n <= k
  BY Bad \subseteq Nat, SmallestExists
<1>2. n # 0
  <2>1. SUBSET (1..0) = {{}}
    OBVIOUS
  <2>2. PICK it : it = [D \in SUBSET (1..0) |-> 0]
    OBVIOUS
  <2>3. FoldedTo(it, s, 0)
    BY <2>1, <2>2 DEF FoldedTo
  <2>4. QED
    BY <2>3
<1>3. PICK l \in 0..m : l = n - 1 /\ n = l + 1
  <2>1. n - 1 \in 0..m /\ n = (n - 1) + 1
    BY <1>2
  <2>2. QED
    BY <2>1
<1>4. PICK it : FoldedTo(it, s, l)
  <2>1. l \notin Bad
    BY <1>1, <1>3
  <2>2. QED
    BY <2>1
<1>5. PICK jt : jt = [D \in SUBSET (1..n) |->
                         IF n \in D THEN it[D \ {n}] + s[n].size ELSE it[D]]
  OBVIOUS
<1>6. ASSUME NEW D \in SUBSET (1..n)
      PROVE  jt[D] = IF D = {} THEN 0 ELSE jt[D \ {Max(D)}] + s[Max(D)].size
  <2>1. CASE n \in D
    <3>1. Max(D) = n
      BY <1>2, <1>1, <2>1, LargestIndex
    <3>2. D \ {n} \in SUBSET (1..n) /\ n \notin D \ {n}
      OBVIOUS
    <3>3. jt[D \ {n}] = it[D \ {n}]
      BY <1>5, <3>2
    <3>4. jt[D] = it[D \ {n}] + s[n].size
      BY <1>5, <2>1
    <3>5. QED
      BY <2>1, <3>1, <3>3, <3>4
  <2>2. CASE n \notin D
    <3>1. D \in SUBSET (1..l)
      BY <1>3, <2>2
    <3>2. jt[D] = it[D]
      BY <1>5, <2>2
    <3>3. it[D] = IF D = {} THEN 0 ELSE it[D \ {Max(D)}] + s[Max(D)].size
      BY <1>4, <3>1 DEF FoldedTo
    <3>4. D \ {Max(D)} \in SUBSET (1..n) /\ n \notin D \ {Max(D)}
      BY <2>2
    <3>5. jt[D \ {Max(D)}] = it[D \ {Max(D)}]
      BY <1>5, <3>4
    <3>6. QED
      BY <3>2, <3>3, <3>5
  <2>3. QED
    BY <2>1, <2>2
<1>7. jt = [D \in SUBSET (1..n) |-> jt[D]]
  BY <1>5
<1>8. jt = [D \in SUBSET (1..n) |->
               IF D = {} THEN 0 ELSE jt[D \ {Max(D)}] + s[Max(D)].size]
  BY <1>6, <1>7
<1>9. FoldedTo(jt, s, n)
  BY <1>8 DEF FoldedTo
<1>10. QED
  BY <1>9

(* P[k] is the number of bytes of the first k packets. *)
Sums(P, s) ==
    /\ P \in [0..Len(s) -> Int] /\ P[0] = 0
    /\ \A k \in 1..Len(s) : P[k] = P[k - 1] + s[k].size

(* The elements of S have sizes. *)
Sized(S) == \A x \in S : x.size \in Int

(* The bytes of a list are the last of its partial sums.                   *)
LEMMA BytesAreSums ==
    ASSUME NEW S, Sized(S), NEW s \in Seq(S)
    PROVE  \E P : Sums(P, s) /\ Bytes(s) = P[Len(s)]
<1> DEFINE it == CHOOSE jt : FoldedTo(jt, s, Len(s))
<1>1. Len(s) \in Nat /\ \A k \in 1..Len(s) : s[k].size \in Int
  BY DEF Sized
<1>2. FoldedTo(it, s, Len(s))
  BY <1>1, FoldExists
<1>3. Bytes(s) = it[1..Len(s)]
  BY BytesFold
<1> HIDE DEF it
<1>4. it[1..0] = 0
  <2>1. 1..0 = {} /\ 1..0 \in SUBSET (1..Len(s))
    OBVIOUS
  <2>2. QED
    BY <1>2, <2>1 DEF FoldedTo
<1>5. ASSUME NEW k \in 1..Len(s) PROVE it[1..k] = it[1..(k - 1)] + s[k].size
  <2>1. 1..k \in SUBSET (1..Len(s)) /\ 1..k # {} /\ k \in 1..k /\ k \in Nat \ {0}
    BY <1>1
  <2>2. Max(1..k) = k
    BY <2>1, LargestIndex
  <2>3. (1..k) \ {k} = 1..(k - 1)
    BY <1>1
  <2>4. it[1..k] = it[(1..k) \ {Max(1..k)}] + s[Max(1..k)].size
    BY <1>2, <2>1 DEF FoldedTo
  <2>5. QED
    BY <2>2, <2>3, <2>4
<1>6. ASSUME NEW m \in 0..Len(s) PROVE it[1..m] \in Int
  <2> DEFINE Bad == {n \in 0..Len(s) : it[1..n] \notin Int}
  <2> SUFFICES ASSUME Bad # {} PROVE FALSE
    OBVIOUS
  <2>1. PICK n \in Bad : \A k \in Bad : n <= k
    BY Bad \subseteq Nat, SmallestExists
  <2>2. n # 0
    BY <1>4
  <2>3. n \in 1..Len(s) /\ n - 1 \in 0..Len(s) /\ ~(n <= n - 1)
    BY <1>1, <2>2
  <2>4. it[1..(n - 1)] \in Int
    BY <2>1, <2>3
  <2>5. it[1..n] = it[1..(n - 1)] + s[n].size
    BY <1>5, <2>3
  <2>6. QED
    BY <1>1, <2>3, <2>4, <2>5
<1>7. PICK P : P = [k \in 0..Len(s) |-> it[1..k]]
  OBVIOUS
<1>8. \A k \in 1..Len(s) : k \in 0..Len(s) /\ k - 1 \in 0..Len(s)
  BY <1>1
<1>9. Sums(P, s)
  <2>1. P \in [0..Len(s) -> Int]
    BY <1>6, <1>7
  <2>2. P[0] = 0
    BY <1>1, <1>4, <1>7
  <2>3. \A k \in 1..Len(s) : P[k] = P[k - 1] + s[k].size
    BY <1>5, <1>7, <1>8
  <2>4. QED
    BY <2>1, <2>2, <2>3 DEF Sums
<1>10. QED
  BY <1>1, <1>3, <1>7, <1>9

(* Two lists of partial sums of one list end with the same number.         *)
LEMMA SumsAgree ==
    ASSUME NEW S, Sized(S), NEW s \in Seq(S), NEW P, NEW R, Sums(P, s), Sums(R, s)
    PROVE  P[Len(s)] = R[Len(s)]
<1> DEFINE Bad == {n \in 0..Len(s) : P[n] # R[n]}
<1>1. Len(s) \in Nat
  OBVIOUS
<1> SUFFICES ASSUME Bad # {} PROVE FALSE
  BY <1>1
<1>2. PICK n \in Bad : \A k \in Bad : n <= k
  BY Bad \subseteq Nat, SmallestExists
<1>3. n # 0
  BY DEF Sums
<1>4. n \in 1..Len(s) /\ n - 1 \in 0..Len(s) /\ ~(n <= n - 1)
  BY <1>1, <1>3
<1>5. P[n - 1] = R[n - 1]
  BY <1>2, <1>4
<1>6. P[n] = P[n - 1] + s[n].size /\ R[n] = R[n - 1] + s[n].size
  BY <1>4 DEF Sums
<1>7. QED
  BY <1>5, <1>6

(* Every sequence of partial sums ends with the sum.                       *)
LEMMA BytesFrom ==
    ASSUME NEW S, Sized(S), NEW s \in Seq(S), NEW P, Sums(P, s)
    PROVE  Bytes(s) = P[Len(s)] /\ Bytes(s) \in Int
<1>1. PICK R : Sums(R, s) /\ Bytes(s) = R[Len(s)]
  BY BytesAreSums
<1>2. R[Len(s)] \in Int
  BY <1>1 DEF Sums
<1>3. QED
  BY <1>1, <1>2, SumsAgree

(* No packets, no bytes. *)
LEMMA BytesEmpty ==
    Bytes(<<>>) = 0
<1>1. <<>> \in Seq({}) /\ Len(<<>>) = 0 /\ Sized({})
  BY DEF Sized
<1>2. PICK P : Sums(P, <<>>) /\ Bytes(<<>>) = P[Len(<<>>)]
  BY <1>1, BytesAreSums
<1>3. QED
  BY <1>1, <1>2 DEF Sums

(* A packet that is added adds its bytes. *)
LEMMA BytesAppend ==
    ASSUME NEW S, Sized(S), NEW s \in Seq(S), NEW e \in S
    PROVE  /\ Bytes(Append(s, e)) = Bytes(s) + e.size
           /\ Bytes(s) \in Int /\ e.size \in Int
<1> DEFINE n == Len(s)
           t == Append(s, e)
<1>1. n \in Nat /\ t \in Seq(S) /\ Len(t) = n + 1 /\ e.size \in Int
      /\ t[n + 1] = e /\ \A i \in 1..n : t[i] = s[i]
  BY DEF Sized
<1>2. PICK P : Sums(P, s) /\ Bytes(s) = P[n]
  BY BytesAreSums
<1>3. PICK R : R = [k \in 0..(n + 1) |-> IF k = n + 1 THEN P[n] + e.size ELSE P[k]]
  OBVIOUS
<1>4. P \in [0..n -> Int] /\ P[0] = 0 /\ P[n] \in Int
  BY <1>1, <1>2 DEF Sums
<1> HIDE DEF t, n
<1>5. R \in [0..(n + 1) -> Int] /\ R[0] = 0
  BY <1>1, <1>3, <1>4
<1>6. ASSUME NEW k \in 1..(n + 1) PROVE R[k] = R[k - 1] + t[k].size
  <2>1. CASE k = n + 1
    <3>1. k - 1 = n /\ n \in 0..(n + 1) /\ n # n + 1 /\ n + 1 \in 0..(n + 1)
      BY <1>1, <2>1
    <3>2. R[k] = P[n] + e.size /\ R[k - 1] = P[n]
      BY <1>3, <2>1, <3>1
    <3>3. QED
      BY <1>1, <2>1, <3>2
  <2>2. CASE k # n + 1
    <3>1. k \in 1..n /\ k \in 0..(n + 1) /\ k - 1 \in 0..(n + 1) /\ k - 1 # n + 1
      BY <1>1, <2>2
    <3>2. R[k] = P[k] /\ R[k - 1] = P[k - 1]
      BY <1>3, <2>2, <3>1
    <3>3. P[k] = P[k - 1] + s[k].size
      BY <1>2, <3>1 DEF Sums, n
    <3>4. QED
      BY <1>1, <3>1, <3>2, <3>3
  <2>3. QED
    BY <2>1, <2>2
<1>7. Sums(R, t)
  BY <1>1, <1>5, <1>6 DEF Sums
<1>8. Bytes(t) = R[n + 1]
  BY <1>1, <1>7, BytesFrom
<1>9. R[n + 1] = P[n] + e.size
  BY <1>1, <1>3
<1>10. QED
  BY <1>1, <1>2, <1>4, <1>8, <1>9 DEF t

(* A packet that is taken out, wherever it stands, takes its bytes with it. *)
LEMMA BytesRemove ==
    ASSUME NEW S, Sized(S), NEW s \in Seq(S), NEW k \in 1..Len(s)
    PROVE  /\ Bytes(RemoveAt(s, k)) = Bytes(s) - s[k].size
           /\ Bytes(s) \in Int /\ s[k].size \in Int
<1> DEFINE n == Len(s)
           t == RemoveAt(s, k)
<1>1. n \in Nat /\ n - 1 \in Nat /\ k \in 1..n /\ t \in Seq(S) /\ Len(t) = n - 1
      /\ \A i \in 1..(n - 1) : t[i] = s[Shift(i, k)]
      /\ \A j \in 1..n : s[j].size \in Int
  BY RemoveAtIs DEF Sized
<1>2. s[k].size \in Int
  <2>1. s[k] \in S
    OBVIOUS
  <2>2. QED
    BY <2>1 DEF Sized
<1>3. PICK P : Sums(P, s) /\ Bytes(s) = P[n]
  BY BytesAreSums
<1>4. PICK R : R = [j \in 0..(n - 1) |-> IF j < k THEN P[j] ELSE P[j + 1] - s[k].size]
  OBVIOUS
<1>5. P \in [0..n -> Int] /\ P[0] = 0 /\ \A j \in 1..n : P[j] = P[j - 1] + s[j].size
  BY <1>1, <1>3 DEF Sums, n
<1> HIDE DEF t, n
<1>6. \A j \in 0..(n - 1) : j \in 0..n /\ j + 1 \in 0..n /\ P[j] \in Int /\ P[j + 1] \in Int
  BY <1>1, <1>5
<1>7. R \in [0..(n - 1) -> Int] /\ R[0] = 0
  <2>1. s[k].size \in Int /\ 0 < k /\ 0 \in 0..(n - 1)
    BY <1>1, <1>2
  <2>2. \A j \in 0..(n - 1) : (IF j < k THEN P[j] ELSE P[j + 1] - s[k].size) \in Int
    BY <1>6, <2>1
  <2>3. QED
    BY <1>4, <1>5, <2>1, <2>2
<1>8. ASSUME NEW j \in 1..(n - 1) PROVE R[j] = R[j - 1] + t[j].size
  <2>1. /\ j \in 0..(n - 1) /\ j - 1 \in 0..(n - 1) /\ j \in 1..n /\ j + 1 \in 1..n
        /\ (j + 1) - 1 = j /\ (j - 1) + 1 = j
    BY <1>1
  <2>2. R[j] = (IF j < k THEN P[j] ELSE P[j + 1] - s[k].size)
        /\ R[j - 1] = (IF j - 1 < k THEN P[j - 1] ELSE P[j] - s[k].size)
    BY <1>4, <2>1
  <2>3. P[j] = P[j - 1] + s[j].size /\ P[j + 1] = P[j] + s[j + 1].size
    BY <1>5, <2>1
  <2>4. P[j] \in Int /\ P[j - 1] \in Int /\ P[j + 1] \in Int
        /\ s[j].size \in Int /\ s[j + 1].size \in Int /\ s[k].size \in Int
    BY <1>1, <1>6, <2>1
  <2>5. CASE j < k
    <3>1. t[j] = s[j] /\ j - 1 < k
      BY <1>1, <2>5 DEF Shift
    <3>2. QED
      BY <2>2, <2>3, <2>5, <3>1
  <2>6. CASE j = k
    <3>1. t[j] = s[j + 1] /\ j - 1 < k /\ ~(j < k)
      BY <1>1, <2>6 DEF Shift
    <3>2. QED
      BY <2>2, <2>3, <2>4, <2>6, <3>1
  <2>7. CASE k < j
    <3>1. t[j] = s[j + 1] /\ ~(j - 1 < k) /\ ~(j < k)
      BY <1>1, <2>7 DEF Shift
    <3>2. QED
      BY <2>2, <2>3, <2>4, <3>1, SMTT(30)
  <2>8. QED
    BY <1>1, <2>5, <2>6, <2>7
<1>9. Sums(R, t)
  BY <1>1, <1>7, <1>8 DEF Sums
<1>10. Bytes(t) = R[n - 1]
  BY <1>1, <1>9, BytesFrom
<1>11. R[n - 1] = P[n] - s[k].size
  <2>1. n - 1 \in 0..(n - 1) /\ (n - 1) + 1 = n
    BY <1>1
  <2>2. CASE n - 1 < k
    <3>1. k = n
      BY <1>1, <2>2
    <3>2. P[n] = P[n - 1] + s[k].size /\ R[n - 1] = P[n - 1]
      BY <1>1, <1>4, <1>5, <2>1, <2>2, <3>1
    <3>3. P[n - 1] \in Int /\ s[k].size \in Int
      BY <1>2, <1>6, <2>1
    <3>4. QED
      BY <3>2, <3>3
  <2>3. CASE ~(n - 1 < k)
    BY <1>4, <2>1, <2>3
  <2>4. QED
    BY <2>2, <2>3
<1>12. P[n] \in Int /\ s[k].size \in Int
  BY <1>1, <1>2, <1>5
<1>13. QED
  BY <1>3, <1>10, <1>11, <1>12 DEF t

-----------------------------------------------------------------------------
(* The queue's fields.                                                     *)

QueueFields ==
    [main : Seq(Packet), subq : [Buckets -> Seq(Packet)], cnt : [Buckets -> Nat],
     qcrt : [Buckets -> Int], ring : Seq(Buckets), numFlows : Int,
     turn : [Buckets -> {0, 1}], deficit : [Buckets -> Nat],
     start : [Buckets -> Nat], finish : [Buckets -> Nat], vclock : Nat]

LEMMA PacketFields ==
    ASSUME NEW p \in Packet
    PROVE  /\ p.id \in Ids /\ p.id \in Nat /\ p.flow \in Buckets
           /\ p.size \in Sizes /\ p.size \in Nat /\ p.size > 0 /\ p # NoPacket
<1>1. p.id \in Ids /\ p.flow \in Buckets /\ p.size \in Sizes
  BY DEF Packet
<1>2. Ids \subseteq Nat /\ Sizes \subseteq Nat \ {0}
  BY QueueAssumption
<1>3. p.id \in Nat /\ p.size \in Nat \ {0}
  BY <1>1, <1>2
<1>4. p # NoPacket
  BY NoPacketAssumption
<1>5. QED
  BY <1>1, <1>3, <1>4

LEMMA FieldTypes ==
    ASSUME NEW s \in QueueFields
    PROVE  /\ s.main \in Seq(Packet) /\ s.ring \in Seq(Buckets)
           /\ s.subq \in [Buckets -> Seq(Packet)] /\ s.cnt \in [Buckets -> Nat]
           /\ s.qcrt \in [Buckets -> Int] /\ s.numFlows \in Int
           /\ s.turn \in [Buckets -> {0, 1}] /\ s.deficit \in [Buckets -> Nat]
           /\ s.start \in [Buckets -> Nat] /\ s.finish \in [Buckets -> Nat]
           /\ s.vclock \in Nat
  BY DEF QueueFields

HeldBy(m, f) == {x \in ToSet(m) : x.flow = f}

(* The packet counters are those of the packets in the main queue, which   *)
(* holds each of them once.                                                *)
Counted(s) ==
    /\ s \in QueueFields
    /\ IsInjective(s.main)
    /\ \A f \in Buckets : s.cnt[f] = Cardinality(HeldBy(s.main, f))

(* The ring lists the buckets that hold packets, and num_flows is their    *)
(* number.                                                                 *)
Linked(s) ==
    /\ IsInjective(s.ring)
    /\ ToSet(s.ring) = {f \in Buckets : HeldBy(s.main, f) # {}}
    /\ s.numFlows = Len(s.ring)

Base(s) == Counted(s) /\ Linked(s)

LEMMA HeldFinite ==
    ASSUME NEW m \in Seq(Packet), NEW f
    PROVE  IsFiniteSet(HeldBy(m, f)) /\ Cardinality(HeldBy(m, f)) \in Nat
<1>1. Len(m) \in Nat /\ DOMAIN m = 1..Len(m) /\ m \in [1..Len(m) -> Packet]
  BY LenProperties
<1>2. m \in Surjection(1..Len(m), ToSet(m))
  BY <1>1 DEF ToSet, Surjection
<1>3. IsFiniteSet(ToSet(m))
  BY <1>1, <1>2, FS_Surjection, FS_Interval
<1>4. HeldBy(m, f) \in SUBSET ToSet(m)
  BY DEF HeldBy
<1>5. QED
  BY <1>3, <1>4, FS_Subset, FS_CardinalityType

(* A bucket's packet count tells whether it holds a packet. *)
LEMMA CountTells ==
    ASSUME NEW s, Counted(s), NEW f \in Buckets
    PROVE  /\ s.cnt[f] \in Nat /\ (s.cnt[f] = 0 <=> HeldBy(s.main, f) = {})
           /\ IsFiniteSet(HeldBy(s.main, f))
<1>1. s.main \in Seq(Packet)
  BY DEF Counted, QueueFields
<1>2. QED
  BY <1>1, HeldFinite, FS_EmptySet DEF Counted

(* What deque_packet, drop_packet and idle change, besides the main queue. *)
Left(t, f, p, m) == [IdleIfEmpty(TakeFrom(t, f, p), f) EXCEPT !.main = m]

TakesAs(u, t, f, n, p) ==
    /\ u \in QueueFields
    /\ u.cnt = [t.cnt EXCEPT ![f] = n]
    /\ u.subq = [t.subq EXCEPT ![f] = RemoveFirst(t.subq[f], p)]
    /\ u.turn = [t.turn EXCEPT ![f] = IF n = 0 THEN 0 ELSE t.turn[f]]
    /\ u.deficit = [t.deficit EXCEPT ![f] = IF n = 0 THEN 0 ELSE t.deficit[f]]
    /\ u.qcrt = [t.qcrt EXCEPT ![f] = t.qcrt[f] - p.size]

LeavesAs(u, t, f, n, p, m) ==
    /\ TakesAs(u, t, f, n, p) /\ u.main = m
    /\ u.ring = IF n = 0 THEN RemoveFirst(t.ring, f) ELSE t.ring
    /\ u.numFlows = IF n = 0 THEN t.numFlows - 1 ELSE t.numFlows

LEMMA TakenFields ==
    ASSUME NEW t \in QueueFields, NEW f \in Buckets, NEW p \in Packet,
           NEW n \in Nat, n = t.cnt[f] - 1
    PROVE  /\ TakesAs(TakeFrom(t, f, p), t, f, n, p)
           /\ TakeFrom(t, f, p).main = t.main /\ TakeFrom(t, f, p).ring = t.ring
           /\ TakeFrom(t, f, p).numFlows = t.numFlows /\ TakeFrom(t, f, p).cnt[f] = n
           /\ TakeFrom(t, f, p).start = t.start /\ TakeFrom(t, f, p).finish = t.finish
           /\ TakeFrom(t, f, p).vclock = t.vclock
<1> DEFINE sq == RemoveFirst(t.subq[f], p)
           cn == [t.cnt EXCEPT ![f] = n]
           qc == [t.qcrt EXCEPT ![f] = t.qcrt[f] - p.size]
           sb == [t.subq EXCEPT ![f] = sq]
           tn == [t.turn EXCEPT ![f] = IF n = 0 THEN 0 ELSE t.turn[f]]
           df == [t.deficit EXCEPT ![f] = IF n = 0 THEN 0 ELSE t.deficit[f]]
           v == TakeFrom(t, f, p)
<1>1. t.subq[f] \in Seq(Packet) /\ t.qcrt[f] - p.size \in Int
  BY FieldTypes, PacketFields
<1>2. sq \in Seq(Packet)
  <2>1. CASE p \in ToSet(t.subq[f])
    BY <1>1, <2>1, RemoveFirstIs, RemoveAtIs
  <2>2. CASE p \notin ToSet(t.subq[f])
    BY <1>1, <2>2, RemoveFirstIs
  <2>3. QED
    BY <2>1, <2>2
<1> HIDE DEF sq
<1>3. /\ cn \in [Buckets -> Nat] /\ qc \in [Buckets -> Int] /\ sb \in [Buckets -> Seq(Packet)]
      /\ tn \in [Buckets -> {0, 1}] /\ df \in [Buckets -> Nat] /\ cn[f] = n
  BY <1>1, <1>2, FieldTypes
<1>4. v = [t EXCEPT !.cnt = cn, !.qcrt = qc, !.subq = sb, !.turn = tn, !.deficit = df]
  BY DEF TakeFrom, sq
<1> HIDE DEF cn, qc, sb, tn, df, v
<1>5. /\ v \in QueueFields /\ v.cnt = cn /\ v.subq = sb /\ v.turn = tn /\ v.deficit = df
      /\ v.qcrt = qc /\ v.main = t.main /\ v.ring = t.ring /\ v.numFlows = t.numFlows
      /\ v.start = t.start /\ v.finish = t.finish /\ v.vclock = t.vclock
  BY <1>3, <1>4 DEF QueueFields
<1>6. QED
  BY <1>3, <1>5 DEF TakesAs, v, cn, qc, sb, tn, df, sq

LEMMA LeftFields ==
    ASSUME NEW t \in QueueFields, NEW f \in Buckets, NEW p \in Packet, NEW m \in Seq(Packet),
           NEW n \in Nat, n = t.cnt[f] - 1
    PROVE  LeavesAs(Left(t, f, p, m), t, f, n, p, m)
<1> DEFINE rg == RemoveFirst(t.ring, f)
           v == TakeFrom(t, f, p)
           w == IdleIfEmpty(v, f)
           u == [w EXCEPT !.main = m]
<1>1. t.ring \in Seq(Buckets) /\ t.numFlows \in Int /\ t.numFlows - 1 \in Int
  BY FieldTypes
<1>2. rg \in Seq(Buckets)
  <2>1. CASE f \in ToSet(t.ring)
    BY <1>1, <2>1, RemoveFirstIs, RemoveAtIs
  <2>2. CASE f \notin ToSet(t.ring)
    BY <1>1, <2>2, RemoveFirstIs
  <2>3. QED
    BY <2>1, <2>2
<1> HIDE DEF rg
<1>3. TakesAs(v, t, f, n, p) /\ v.ring = t.ring /\ v.numFlows = t.numFlows /\ v.cnt[f] = n
  BY TakenFields
<1> HIDE DEF v
<1>4. v \in QueueFields
  BY <1>3 DEF TakesAs
<1>5. /\ w \in QueueFields /\ w.cnt = v.cnt /\ w.subq = v.subq /\ w.turn = v.turn
      /\ w.deficit = v.deficit /\ w.qcrt = v.qcrt
      /\ w.ring = IF n = 0 THEN rg ELSE t.ring
      /\ w.numFlows = IF n = 0 THEN t.numFlows - 1 ELSE t.numFlows
  <2>1. CASE n = 0
    <3>1. w = [v EXCEPT !.ring = rg, !.numFlows = t.numFlows - 1]
      BY <1>3, <2>1 DEF IdleIfEmpty, rg
    <3> HIDE DEF w
    <3>2. QED
      BY <1>1, <1>2, <1>4, <2>1, <3>1 DEF QueueFields
  <2>2. CASE n # 0
    <3>1. w = v
      BY <1>3, <2>2 DEF IdleIfEmpty
    <3> HIDE DEF w
    <3>2. QED
      BY <1>3, <1>4, <2>2, <3>1
  <2>3. QED
    BY <2>1, <2>2
<1>6. Left(t, f, p, m) = u
  BY DEF Left, v
<1> HIDE DEF w
<1>7. /\ u \in QueueFields /\ u.main = m /\ u.cnt = w.cnt /\ u.subq = w.subq
      /\ u.turn = w.turn /\ u.deficit = w.deficit /\ u.qcrt = w.qcrt
      /\ u.ring = w.ring /\ u.numFlows = w.numFlows
  BY <1>5 DEF QueueFields
<1> HIDE DEF u
<1>8. TakesAs(u, t, f, n, p)
  BY <1>3, <1>5, <1>7 DEF TakesAs
<1>9. QED
  BY <1>5, <1>6, <1>7, <1>8 DEF LeavesAs, rg

(* m is the main queue of t without its k-th packet, which is of bucket f. *)
Without(t, k, f, m) ==
    /\ f \in Buckets /\ t.cnt[f] - 1 \in Nat
    /\ m \in Seq(Packet) /\ IsInjective(m) /\ ToSet(m) = ToSet(t.main) \ {t.main[k]}
    /\ HeldBy(m, f) = HeldBy(t.main, f) \ {t.main[k]} /\ t.main[k] \in HeldBy(t.main, f)
    /\ \A g \in Buckets : g # f => HeldBy(m, g) = HeldBy(t.main, g)
    /\ Cardinality(HeldBy(m, f)) = t.cnt[f] - 1
    /\ t.cnt[f] - 1 = 0 <=> HeldBy(m, f) = {}

(* The packets of each bucket after the k-th packet has left.              *)
LEMMA OneFewer ==
    ASSUME NEW t, Counted(t), NEW k \in 1..Len(t.main), NEW f, f = t.main[k].flow,
           NEW m, m = RemoveAt(t.main, k)
    PROVE  Without(t, k, f, m)
<1> DEFINE e == t.main[k]
<1>1. t \in QueueFields /\ t.main \in Seq(Packet) /\ t.cnt \in [Buckets -> Nat]
  BY FieldTypes DEF Counted
<1>2. e \in ToSet(t.main) /\ e \in Packet /\ f \in Buckets
  BY <1>1, ElementsOf, PacketFields
<1>3. m \in Seq(Packet) /\ IsInjective(m) /\ ToSet(m) = ToSet(t.main) \ {e}
  BY <1>1, RemoveAtIs, RemoveDistinct DEF Counted
<1>4. HeldBy(m, f) = HeldBy(t.main, f) \ {e} /\ e \in HeldBy(t.main, f)
  BY <1>2, <1>3 DEF HeldBy
<1>5. \A g \in Buckets : g # f => HeldBy(m, g) = HeldBy(t.main, g)
  BY <1>3 DEF HeldBy
<1>6. Cardinality(HeldBy(m, f)) = t.cnt[f] - 1
  <2>1. IsFiniteSet(HeldBy(t.main, f)) /\ t.cnt[f] = Cardinality(HeldBy(t.main, f))
    BY <1>2, CountTells DEF Counted
  <2> HIDE DEF e
  <2>2. QED
    BY <1>4, <2>1, FS_RemoveElement
<1>7. t.cnt[f] - 1 \in Nat /\ (t.cnt[f] - 1 = 0 <=> HeldBy(m, f) = {})
  BY <1>3, <1>6, HeldFinite, FS_EmptySet
<1>8. QED
  BY <1>2, <1>3, <1>4, <1>5, <1>6, <1>7 DEF Without

(* The counters follow a packet that leaves the main queue.                *)
LEMMA LeaveCounted ==
    ASSUME NEW t, Counted(t), NEW k \in 1..Len(t.main), NEW f, f = t.main[k].flow,
           NEW u \in QueueFields, u.main = RemoveAt(t.main, k),
           u.cnt = [t.cnt EXCEPT ![f] = t.cnt[f] - 1]
    PROVE  Counted(u)
<1>1. t.cnt \in [Buckets -> Nat] /\ f \in Buckets /\ IsInjective(u.main)
  <2>1. t.cnt \in [Buckets -> Nat]
    BY FieldTypes DEF Counted
  <2>2. Without(t, k, f, u.main)
    BY OneFewer
  <2>3. QED
    BY <2>1, <2>2 DEF Without
<1>2. Without(t, k, f, u.main)
  BY OneFewer
<1>3. ASSUME NEW g \in Buckets PROVE u.cnt[g] = Cardinality(HeldBy(u.main, g))
  <2>1. CASE g = f
    <3>1. u.cnt[g] = t.cnt[f] - 1
      BY <1>1, <2>1
    <3>2. QED
      BY <1>2, <2>1, <3>1 DEF Without
  <2>2. CASE g # f
    <3>1. u.cnt[g] = t.cnt[g] /\ HeldBy(u.main, g) = HeldBy(t.main, g)
      BY <1>1, <1>2, <2>2 DEF Without
    <3>2. QED
      BY <3>1 DEF Counted
  <2>3. QED
    BY <2>1, <2>2
<1>4. QED
  BY <1>1, <1>3 DEF Counted

(* The counters, the ring and num_flows follow a packet of bucket f that   *)
(* leaves the main queue, whatever packet is taken off the bucket's list.  *)
LEMMA LeaveBase ==
    ASSUME NEW t, Base(t), NEW k \in 1..Len(t.main), NEW p \in Packet
    PROVE  Base(Left(t, t.main[k].flow, p, RemoveAt(t.main, k)))
<1>1. PICK f, m, n : f = t.main[k].flow /\ m = RemoveAt(t.main, k) /\ n = t.cnt[f] - 1
  OBVIOUS
<1>2. PICK u : u = Left(t, f, p, m)
  OBVIOUS
<1>3. Counted(t) /\ t \in QueueFields /\ t.ring \in Seq(Buckets)
  BY FieldTypes DEF Base, Counted
<1>4. /\ f \in Buckets /\ n \in Nat /\ m \in Seq(Packet)
      /\ t.main[k] \in HeldBy(t.main, f) /\ (n = 0 <=> HeldBy(m, f) = {})
      /\ \A g \in Buckets : g # f => HeldBy(m, g) = HeldBy(t.main, g)
  <2>1. f = t.main[k].flow /\ m = RemoveAt(t.main, k) /\ n = t.cnt[f] - 1 /\ Counted(t)
    BY <1>1, <1>3
  <2>2. Without(t, k, f, m)
    BY <2>1, OneFewer
  <2>3. QED
    BY <2>1, <2>2 DEF Without
<1>5. LeavesAs(u, t, f, n, p, m)
  BY <1>1, <1>2, <1>3, <1>4, LeftFields
<1>6. /\ u \in QueueFields /\ u.main = m /\ u.cnt = [t.cnt EXCEPT ![f] = n]
      /\ u.ring = IF n = 0 THEN RemoveFirst(t.ring, f) ELSE t.ring
      /\ u.numFlows = IF n = 0 THEN t.numFlows - 1 ELSE t.numFlows
  BY <1>5 DEF LeavesAs, TakesAs
<1>7. Counted(u)
  BY <1>1, <1>3, <1>6, LeaveCounted
<1>8. Linked(u)
  <2>1. IsInjective(t.ring) /\ t.numFlows = Len(t.ring) /\ Len(t.ring) \in Nat
        /\ ToSet(t.ring) = {g \in Buckets : HeldBy(t.main, g) # {}}
    BY <1>3, ElementsOf DEF Base, Linked
  <2>2. CASE HeldBy(m, f) = {}
    <3>1. f \in ToSet(t.ring)
      BY <1>4, <2>1
    <3>2. PICK i \in 1..Len(t.ring) : t.ring[i] = f /\ RemoveFirst(t.ring, f) = RemoveAt(t.ring, i)
      BY <1>3, <3>1, RemoveFirstIs
    <3>3. u.ring = RemoveAt(t.ring, i) /\ u.numFlows = t.numFlows - 1
      BY <1>4, <1>6, <2>2, <3>2
    <3>4. /\ IsInjective(u.ring) /\ Len(u.ring) = Len(t.ring) - 1
          /\ ToSet(u.ring) = ToSet(t.ring) \ {f}
      <4>1. Len(RemoveAt(t.ring, i)) = Len(t.ring) - 1
        BY <1>3, RemoveAtIs
      <4>2. IsInjective(RemoveAt(t.ring, i)) /\ ToSet(RemoveAt(t.ring, i)) = ToSet(t.ring) \ {t.ring[i]}
        BY <1>3, <2>1, RemoveDistinct
      <4>3. QED
        BY <3>2, <3>3, <4>1, <4>2
    <3>5. QED
      BY <1>4, <1>6, <2>1, <2>2, <3>3, <3>4 DEF Linked
  <2>3. CASE HeldBy(m, f) # {}
    BY <1>4, <1>6, <2>1, <2>3 DEF Linked
  <2>4. QED
    BY <2>2, <2>3
<1>9. QED
  BY <1>1, <1>2, <1>7, <1>8 DEF Base

(* What storing a packet changes. *)
EntersAs(u, s, f, p) ==
    /\ u \in QueueFields /\ u.main = Append(s.main, p)
    /\ u.subq = [s.subq EXCEPT ![f] = Append(s.subq[f], p)]
    /\ u.cnt = [s.cnt EXCEPT ![f] = s.cnt[f] + 1]
    /\ u.qcrt = [s.qcrt EXCEPT ![f] = s.qcrt[f] + p.size]
    /\ u.turn = s.turn
    /\ s.cnt[f] # 0 =>
          u.ring = s.ring /\ u.numFlows = s.numFlows /\ u.deficit = s.deficit
    /\ s.cnt[f] = 0 =>
          /\ u.ring = (IF f \in ToSet(s.ring) THEN s.ring ELSE Append(s.ring, f))
          /\ u.numFlows = s.numFlows + 1 /\ u.deficit = [s.deficit EXCEPT ![f] = 0]

(* A quotient of naturals is one.                                          *)
LEMMA QuotientNat ==
    ASSUME NEW a \in Nat, NEW b \in Nat \ {0}
    PROVE  a \div b \in Nat
<1>1. PICK k \in Int : k = a \div b
  OBVIOUS
<1>2. a = b * k + (a % b) /\ a % b \in 0..(b - 1)
  BY <1>1
<1>3. SUFFICES ASSUME k <= -1 PROVE FALSE
  BY <1>1
<1>4. b * k <= -b
  BY <1>3
<1>5. b * k \in Int /\ a % b \in Int
  BY <1>2
<1>6. QED
  BY <1>2, <1>4, <1>5

(* The smallest start time is one of them. *)
LEMMA MinStartTyped ==
    ASSUME NEW s \in QueueFields, NEW m \in Nat
    PROVE  MinStart(s, m) \in Nat
<1> DEFINE S == {m} \cup {s.start[f] : f \in {g \in Flows : s.qcrt[g] > 0}}
<1>1. \A f \in Flows : s.start[f] \in Nat
  BY FieldTypes DEF Buckets
<1>2. S \subseteq Nat /\ S # {}
  BY <1>1
<1> HIDE DEF S
<1>3. \E x \in S : \A y \in S : x <= y
  BY <1>2, SmallestExists
<1>4. Min(S) \in S
  BY <1>3 DEF Min
<1>5. QED
  BY <1>2, <1>4 DEF MinStart, S

(* The WF2Q+ stamps touch nothing else. *)
LEMMA StampFields ==
    ASSUME NEW s \in QueueFields, NEW f \in Buckets, NEW size \in Nat
    PROVE  /\ Stamp(s, f, size) \in QueueFields
           /\ Stamp(s, f, size).main = s.main /\ Stamp(s, f, size).subq = s.subq
           /\ Stamp(s, f, size).cnt = s.cnt /\ Stamp(s, f, size).turn = s.turn
           /\ Stamp(s, f, size).ring = s.ring /\ Stamp(s, f, size).numFlows = s.numFlows
           /\ Stamp(s, f, size).deficit = s.deficit /\ Stamp(s, f, size).qcrt = s.qcrt
<1> DEFINE st == Maximum(s.vclock, s.start[f])
           fi == st + size \div Weight[f]
           sa == [s.start EXCEPT ![f] = st]
           fa == [s.finish EXCEPT ![f] = fi]
           t == [s EXCEPT !.start = sa, !.finish = fa]
           vc == Maximum(MinStart(t, st), s.vclock)
<1>1. st \in Nat
  BY FieldTypes DEF Maximum
<1>2. Weight[f] \in Nat \ {0}
  BY QueueAssumption
<1> HIDE DEF st
<1>3. fi \in Nat
  BY <1>1, <1>2, QuotientNat
<1> HIDE DEF fi
<1>4. sa \in [Buckets -> Nat] /\ fa \in [Buckets -> Nat]
  BY <1>1, <1>3, FieldTypes
<1> HIDE DEF sa, fa
<1>5. /\ t \in QueueFields /\ t.main = s.main /\ t.subq = s.subq /\ t.cnt = s.cnt
      /\ t.turn = s.turn /\ t.ring = s.ring /\ t.numFlows = s.numFlows
      /\ t.deficit = s.deficit /\ t.vclock = s.vclock /\ t.qcrt = s.qcrt
  BY <1>4 DEF QueueFields
<1>6. Stamp(s, f, size) = [t EXCEPT !.vclock = vc]
  <2>1. t = [s EXCEPT !.start[f] = st, !.finish[f] = st + size \div Weight[f]]
    BY DEF sa, fa, fi
  <2> HIDE DEF t
  <2>2. QED
    BY <1>5, <2>1 DEF Stamp, st
<1> HIDE DEF t
<1>7. MinStart(t, st) \in Nat
  BY <1>1, <1>5, MinStartTyped
<1>8. vc \in Nat
  BY <1>7, FieldTypes DEF Maximum
<1> HIDE DEF vc
<1>9. /\ [t EXCEPT !.vclock = vc] \in QueueFields
      /\ [t EXCEPT !.vclock = vc].main = t.main /\ [t EXCEPT !.vclock = vc].subq = t.subq
      /\ [t EXCEPT !.vclock = vc].cnt = t.cnt /\ [t EXCEPT !.vclock = vc].turn = t.turn
      /\ [t EXCEPT !.vclock = vc].ring = t.ring
      /\ [t EXCEPT !.vclock = vc].numFlows = t.numFlows
      /\ [t EXCEPT !.vclock = vc].deficit = t.deficit
      /\ [t EXCEPT !.vclock = vc].qcrt = t.qcrt
  BY <1>5, <1>8 DEF QueueFields
<1>10. QED
  BY <1>5, <1>6, <1>9

LEMMA EnqueueFields ==
    ASSUME NEW s \in QueueFields, NEW p \in Packet
    PROVE  EntersAs(Enqueue(s, p), s, p.flow, p)
<1> DEFINE f == p.flow
           ma == Append(s.main, p)
           sb == [s.subq EXCEPT ![f] = Append(s.subq[f], p)]
           cn == [s.cnt EXCEPT ![f] = s.cnt[f] + 1]
           qc == [s.qcrt EXCEPT ![f] = s.qcrt[f] + p.size]
           t == [s EXCEPT !.main = ma, !.subq = sb, !.cnt = cn, !.qcrt = qc]
           rg == IF f \in ToSet(t.ring) THEN t.ring ELSE Append(t.ring, f)
           df == [t.deficit EXCEPT ![f] = 0]
           a == [t EXCEPT !.ring = rg, !.deficit = df, !.numFlows = t.numFlows + 1]
<1>1. f \in Buckets /\ p.size \in Nat
  BY PacketFields
<1> HIDE DEF f
<1>2. s.subq[f] \in Seq(Packet) /\ s.main \in Seq(Packet) /\ s.cnt[f] \in Nat /\ s.qcrt[f] \in Int
  BY <1>1, FieldTypes
<1>3. ma \in Seq(Packet) /\ Append(s.subq[f], p) \in Seq(Packet)
  BY <1>2, AppendProperties
<1>4. sb \in [Buckets -> Seq(Packet)] /\ cn \in [Buckets -> Nat] /\ qc \in [Buckets -> Int]
  BY <1>1, <1>2, <1>3, FieldTypes
<1>5. cn[f] = s.cnt[f] + 1
  BY <1>1, FieldTypes
<1>6. t = [s EXCEPT !.main = Append(s.main, p), !.subq[f] = Append(s.subq[f], p),
                    !.cnt[f] = s.cnt[f] + 1, !.qcrt[f] = s.qcrt[f] + p.size]
  OBVIOUS
<1> HIDE DEF ma, sb, cn, qc
<1>7. /\ t \in QueueFields /\ t.main = ma /\ t.subq = sb /\ t.cnt = cn
      /\ t.turn = s.turn /\ t.ring = s.ring /\ t.numFlows = s.numFlows
      /\ t.deficit = s.deficit /\ t.qcrt = qc
  BY <1>3, <1>4 DEF QueueFields
<1>8. Enqueue(s, p) = IF t.cnt[f] = 1 THEN Stamp(Activate(t, f), f, p.size) ELSE t
  <2> HIDE DEF t
  <2>1. QED
    BY <1>6 DEF Enqueue, f
<1> HIDE DEF t
<1>9. rg \in Seq(Buckets) /\ df \in [Buckets -> Nat] /\ t.numFlows + 1 \in Int
  <2>1. t.ring \in Seq(Buckets) /\ t.deficit \in [Buckets -> Nat] /\ t.numFlows \in Int
    BY <1>7, FieldTypes
  <2>2. Append(t.ring, f) \in Seq(Buckets)
    BY <1>1, <2>1, AppendProperties
  <2>3. QED
    BY <2>1, <2>2
<1>10. Activate(t, f) = a
  BY DEF Activate
<1> HIDE DEF rg, df
<1>11. /\ a \in QueueFields /\ a.main = t.main /\ a.subq = t.subq /\ a.cnt = t.cnt
       /\ a.turn = t.turn /\ a.ring = rg /\ a.numFlows = t.numFlows + 1 /\ a.deficit = df
       /\ a.qcrt = t.qcrt
  BY <1>7, <1>9 DEF QueueFields
<1> HIDE DEF a
<1>12. CASE s.cnt[f] = 0
  <2>1. Enqueue(s, p) = Stamp(a, f, p.size)
    BY <1>5, <1>7, <1>8, <1>10, <1>12
  <2> DEFINE z == Stamp(a, f, p.size)
  <2>2. /\ z \in QueueFields /\ z.main = a.main /\ z.subq = a.subq /\ z.cnt = a.cnt
        /\ z.turn = a.turn /\ z.ring = a.ring /\ z.numFlows = a.numFlows
        /\ z.deficit = a.deficit /\ z.qcrt = a.qcrt
    BY <1>1, <1>11, StampFields
  <2> HIDE DEF z
  <2>3. rg = (IF f \in ToSet(s.ring) THEN s.ring ELSE Append(s.ring, f))
    BY <1>7 DEF rg
  <2>4. df = [s.deficit EXCEPT ![f] = 0]
    BY <1>7 DEF df
  <2>5. QED
    BY <1>7, <1>11, <1>12, <2>1, <2>2, <2>3, <2>4 DEF EntersAs, z, ma, sb, cn, qc, f
<1>13. CASE s.cnt[f] # 0
  <2>1. Enqueue(s, p) = t
    BY <1>2, <1>5, <1>7, <1>8, <1>13
  <2>2. QED
    BY <1>7, <1>13, <2>1 DEF EntersAs, ma, sb, cn, qc, f
<1>14. QED
  BY <1>12, <1>13

(* The packets of each bucket in u are those in s and the new packet p.    *)
Joined(u, s, p) ==
    /\ Counted(u)
    /\ HeldBy(u.main, p.flow) = HeldBy(s.main, p.flow) \cup {p}
    /\ \A g \in Buckets : g # p.flow => HeldBy(u.main, g) = HeldBy(s.main, g)

(* The packets of each bucket, and the counters, follow a new packet.      *)
LEMMA EnterCounted ==
    ASSUME NEW s, Counted(s), NEW p \in Packet, p \notin ToSet(s.main),
           NEW u, EntersAs(u, s, p.flow, p)
    PROVE  Joined(u, s, p)
<1> DEFINE f == p.flow
<1>1. s \in QueueFields /\ s.main \in Seq(Packet) /\ s.cnt \in [Buckets -> Nat]
  BY FieldTypes DEF Counted
<1>2. f \in Buckets
  BY PacketFields
<1>3. IsInjective(u.main) /\ ToSet(u.main) = ToSet(s.main) \cup {p}
  BY <1>1, AppendDistinct DEF EntersAs, Counted
<1>4. u \in QueueFields /\ u.cnt = [s.cnt EXCEPT ![f] = s.cnt[f] + 1]
  BY DEF EntersAs
<1> HIDE DEF f
<1>5. HeldBy(u.main, f) = HeldBy(s.main, f) \cup {p} /\ p \notin HeldBy(s.main, f)
  BY <1>3 DEF HeldBy, f
<1>6. \A g \in Buckets : g # f => HeldBy(u.main, g) = HeldBy(s.main, g)
  BY <1>3 DEF HeldBy, f
<1>7. Cardinality(HeldBy(u.main, f)) = s.cnt[f] + 1
  <2>1. IsFiniteSet(HeldBy(s.main, f)) /\ s.cnt[f] = Cardinality(HeldBy(s.main, f))
    BY <1>2, CountTells DEF Counted
  <2>2. QED
    BY <1>5, <2>1, FS_AddElement
<1>8. \A g \in Buckets : u.cnt[g] = Cardinality(HeldBy(u.main, g))
  BY <1>1, <1>2, <1>4, <1>6, <1>7 DEF Counted
<1>9. Counted(u)
  BY <1>3, <1>4, <1>8 DEF Counted
<1>10. QED
  BY <1>5, <1>6, <1>9 DEF Joined, f

(* The ring and num_flows follow a new packet.                             *)
LEMMA EnterBase ==
    ASSUME NEW s, Base(s), NEW p \in Packet, p \notin ToSet(s.main)
    PROVE  Base(Enqueue(s, p))
<1> DEFINE f == p.flow
           u == Enqueue(s, p)
<1>1. Counted(s) /\ s \in QueueFields /\ s.ring \in Seq(Buckets)
  BY FieldTypes DEF Base, Counted
<1>2. f \in Buckets
  BY PacketFields
<1>3. EntersAs(u, s, f, p)
  BY <1>1, EnqueueFields
<1> HIDE DEF u
<1>4. /\ Counted(u) /\ HeldBy(u.main, f) = HeldBy(s.main, f) \cup {p}
      /\ \A g \in Buckets : g # f => HeldBy(u.main, g) = HeldBy(s.main, g)
  <2>1. Counted(s) /\ EntersAs(u, s, p.flow, p)
    BY <1>1, <1>3
  <2>2. Joined(u, s, p)
    BY <2>1, EnterCounted
  <2>3. QED
    BY <2>2 DEF Joined
<1>5. IsInjective(s.ring) /\ s.numFlows = Len(s.ring) /\ Len(s.ring) \in Nat
      /\ ToSet(s.ring) = {g \in Buckets : HeldBy(s.main, g) # {}}
  BY <1>1, ElementsOf DEF Base, Linked
<1>6. s.cnt[f] = 0 <=> HeldBy(s.main, f) = {}
  BY <1>1, <1>2, CountTells
<1> HIDE DEF f
<1>7. Linked(u)
  <2>1. CASE s.cnt[f] = 0
    <3>1. f \notin ToSet(s.ring)
      BY <1>5, <1>6, <2>1
    <3>2. u.ring = Append(s.ring, f) /\ u.numFlows = s.numFlows + 1
      BY <1>3, <2>1, <3>1 DEF EntersAs
    <3>3. IsInjective(u.ring) /\ ToSet(u.ring) = ToSet(s.ring) \cup {f}
      BY <1>1, <1>2, <1>5, <3>1, <3>2, AppendDistinct
    <3>4. Len(u.ring) = Len(s.ring) + 1
      BY <1>1, <1>2, <3>2, AppendProperties
    <3>5. QED
      BY <1>2, <1>4, <1>5, <3>2, <3>3, <3>4 DEF Linked
  <2>2. CASE s.cnt[f] # 0
    <3>1. u.ring = s.ring /\ u.numFlows = s.numFlows
      BY <1>3, <2>2 DEF EntersAs
    <3>2. QED
      BY <1>2, <1>4, <1>5, <1>6, <2>2, <3>1 DEF Linked
  <2>3. QED
    BY <2>1, <2>2
<1>8. QED
  BY <1>4, <1>7 DEF Base, u

-----------------------------------------------------------------------------
(* The main queue's limit, for every policy.                               *)

(* A selection leaves the main queue alone. *)
LEMMA LeaveKeepsMain ==
    ASSUME NEW s, "main" \in DOMAIN s, NEW f, NEW p
    PROVE  /\ TakeFrom(s, f, p).main = s.main /\ "main" \in DOMAIN TakeFrom(s, f, p)
           /\ IdleIfEmpty(s, f).main = s.main /\ "main" \in DOMAIN IdleIfEmpty(s, f)
           /\ IdleIfEmpty(TakeFrom(s, f, p), f).main = s.main
           /\ "main" \in DOMAIN IdleIfEmpty(TakeFrom(s, f, p), f)
<1>1. TakeFrom(s, f, p).main = s.main /\ "main" \in DOMAIN TakeFrom(s, f, p)
  BY DEF TakeFrom
<1>2. \A t : "main" \in DOMAIN t =>
         IdleIfEmpty(t, f).main = t.main /\ "main" \in DOMAIN IdleIfEmpty(t, f)
  BY DEF IdleIfEmpty
<1>3. QED
  BY <1>1, <1>2

LEMMA DrrKeepsMain ==
    ASSUME NEW s, "main" \in DOMAIN s
    PROVE  select_packet_drr(s)[2].main = s.main /\ "main" \in DOMAIN select_packet_drr(s)[2]
<1> DEFINE n       == Len(s.ring)
           when(k) == (VisitsNeeded(s, s.ring[k]) - 1) * n + k
           win     == CHOOSE k \in 1..n : \A j \in 1..n : when(k) <= when(j)
           f       == s.ring[win]
           p       == Head(s.subq[f])
           visits  == [g \in ToSet(s.ring) |->
                          LET j == CHOOSE i \in 1..n : s.ring[i] = g
                          IN  Cardinality({v \in 0..when(win) : v * n + j <= when(win)})]
           df      == [g \in Buckets |->
                          IF g \notin ToSet(s.ring) \/ visits[g] = 0 THEN s.deficit[g]
                          ELSE Credit(s, g, visits[g]) - Charge(g, f, p)]
           tn      == [g \in Buckets |->
                          IF g = f THEN 1
                          ELSE IF g \in ToSet(s.ring) /\ visits[g] > 0 THEN 0
                          ELSE s.turn[g]]
           rg      == SubSeq(s.ring, win, n) \o SubSeq(s.ring, 1, win - 1)
           t       == [s EXCEPT !.deficit = df, !.turn = tn, !.ring = rg]
<1>1. select_packet_drr(s) = <<p, IdleIfEmpty(TakeFrom(t, f, p), f)>>
  BY DEF select_packet_drr
<1> HIDE DEF df, tn, rg, p, f
<1>2. "main" \in DOMAIN t /\ t.main = s.main
  OBVIOUS
<1> HIDE DEF t
<1>3. QED
  BY <1>1, <1>2, LeaveKeepsMain

LEMMA SelectionKeepsMain ==
    ASSUME NEW s, "main" \in DOMAIN s
    PROVE  /\ select_packet_prio_first(s)[2].main = s.main
           /\ "main" \in DOMAIN select_packet_prio_first(s)[2]
<1>1. /\ select_packet_fifo(s)[2].main = s.main /\ "main" \in DOMAIN select_packet_fifo(s)[2]
  BY LeaveKeepsMain DEF select_packet_fifo
<1>2. /\ select_packet_rr(s)[2].main = s.main /\ "main" \in DOMAIN select_packet_rr(s)[2]
  <2> DEFINE f == Head(s.ring)
             t == IdleIfEmpty(TakeFrom(s, f, Head(s.subq[f])), f)
  <2>1. t.main = s.main /\ "main" \in DOMAIN t
    BY LeaveKeepsMain
  <2>2. select_packet_rr(s)[2] = [t EXCEPT !.ring = Rotate(t.ring)]
    BY DEF select_packet_rr
  <2> HIDE DEF t
  <2>3. QED
    BY <2>1, <2>2
<1>3. /\ select_packet_drr(s)[2].main = s.main /\ "main" \in DOMAIN select_packet_drr(s)[2]
  BY DrrKeepsMain
<1>4. /\ select_packet_wf2q(s)[2].main = s.main /\ "main" \in DOMAIN select_packet_wf2q(s)[2]
  <2> DEFINE eligible == {f \in Flows : s.qcrt[f] # 0 /\ s.start[f] <= s.vclock}
             f   == CHOOSE g \in eligible : \A h \in eligible :
                       \/ s.finish[g] < s.finish[h]
                       \/ s.finish[g] = s.finish[h] /\ g <= h
             p   == Head(s.subq[f])
             t   == TakeFrom(s, f, p)
             u   == IF t.cnt[f] = 0 THEN t
                    ELSE [t EXCEPT !.start[f] = s.finish[f],
                                   !.finish[f] = s.finish[f] + p.size \div Weight[f]]
             W   == SumOfWeights({g \in Flows : u.qcrt[g] # 0})
             vc  == Maximum(MinStart(u, u.start[f]), u.vclock + p.size \div W)
  <2> HIDE DEF f, p
  <2>1. t.main = s.main /\ "main" \in DOMAIN t
    BY LeaveKeepsMain
  <2> HIDE DEF t
  <2>2. u.main = s.main /\ "main" \in DOMAIN u
    BY <2>1
  <2> HIDE DEF u, W, vc, eligible
  <2>3. [u EXCEPT !.vclock = vc].main = s.main /\ "main" \in DOMAIN [u EXCEPT !.vclock = vc]
    BY <2>2
  <2>4. select_packet_wf2q(s)[2] \in {s, u, [u EXCEPT !.vclock = vc]}
    BY DEF select_packet_wf2q, vc, W, u, t, p, f, eligible
  <2>5. QED
    BY <2>2, <2>3, <2>4
<1>5. Policy \in {"FIFO", "RR", "DRR", "WF2Q"}
  BY QueueAssumption DEF Policies
<1>6. select_packet(s)[2].main = s.main /\ "main" \in DOMAIN select_packet(s)[2]
  BY <1>1, <1>2, <1>3, <1>4, <1>5 DEF select_packet
<1>7. QED
  BY <1>6, LeaveKeepsMain DEF select_packet_prio_first

LEMMA EnqueueKeepsMain ==
    ASSUME NEW s, "main" \in DOMAIN s, NEW p
    PROVE  Enqueue(s, p).main = Append(s.main, p) /\ "main" \in DOMAIN Enqueue(s, p)
<1> DEFINE f == p.flow
           t == [s EXCEPT !.main = Append(@, p), !.subq[f] = Append(@, p),
                          !.cnt[f] = @ + 1, !.qcrt[f] = @ + p.size]
<1>1. t.main = Append(s.main, p) /\ "main" \in DOMAIN t
  OBVIOUS
<1>2. Enqueue(s, p) = IF t.cnt[f] = 1 THEN Stamp(Activate(t, f), f, p.size) ELSE t
  BY DEF Enqueue
<1> HIDE DEF t
<1>3. Activate(t, f).main = t.main /\ "main" \in DOMAIN Activate(t, f)
  BY <1>1 DEF Activate
<1>4. \A a, size : "main" \in DOMAIN a =>
         Stamp(a, f, size).main = a.main /\ "main" \in DOMAIN Stamp(a, f, size)
  BY DEF Stamp
<1>5. QED
  BY <1>1, <1>2, <1>3, <1>4

(* Taking a packet off a list never makes it longer. *)
LEMMA RemoveFirstShrinks ==
    ASSUME NEW S, NEW s \in Seq(S), NEW e
    PROVE  RemoveFirst(s, e) \in Seq(S) /\ Len(RemoveFirst(s, e)) <= Len(s)
<1>1. Len(s) \in Nat
  BY ElementsOf
<1>2. CASE e \in ToSet(s)
  <2>1. PICK k \in 1..Len(s) : RemoveFirst(s, e) = RemoveAt(s, k)
    BY <1>2, RemoveFirstIs
  <2>2. RemoveAt(s, k) \in Seq(S) /\ Len(RemoveAt(s, k)) = Len(s) - 1
    BY RemoveAtIs
  <2>3. QED
    BY <1>1, <2>1, <2>2
<1>3. CASE e \notin ToSet(s)
  BY <1>1, <1>3, RemoveFirstIs
<1>4. QED
  BY <1>2, <1>3

(* A buffer that nobody refers to. *)
LEMMA FreshBuffer ==
    ASSUME FreeIds # {}
    PROVE  Min(FreeIds) \in FreeIds /\ Min(FreeIds) \in Ids
<1>1. FreeIds \subseteq Ids /\ FreeIds \subseteq Nat
  BY QueueAssumption DEF FreeIds
<1>2. \E x \in FreeIds : \A y \in FreeIds : x <= y
  BY <1>1, SmallestExists
<1>3. Min(FreeIds) \in FreeIds
  BY <1>2 DEF Min
<1>4. QED
  BY <1>1, <1>3

(* The main queue alone: packets, and fewer than the limit. *)
WithinLimit == "main" \in DOMAIN q /\ q.main \in Seq(Packet) /\ Len(q.main) < Qlim

(* The same of a queue that recv or resume works on. *)
LEMMA HandOverWithinLimit ==
    ASSUME NEW s, "main" \in DOMAIN s, s.main \in Seq(Packet), Len(s.main) < Qlim,
           HandOver(select_packet_prio_first(s))
    PROVE  WithinLimit'
<1> DEFINE e == select_packet_prio_first(s)[1]
           r == select_packet_prio_first(s)[2]
<1>1. r.main = s.main /\ "main" \in DOMAIN r
  BY SelectionKeepsMain
<1>2. q' = [r EXCEPT !.main = RemoveFirst(r.main, e)]
  BY DEF HandOver
<1> HIDE DEF e, r
<1>3. q'.main = RemoveFirst(s.main, e) /\ "main" \in DOMAIN q'
  BY <1>1, <1>2
<1>4. RemoveFirst(s.main, e) \in Seq(Packet) /\ Len(RemoveFirst(s.main, e)) <= Len(s.main)
  BY RemoveFirstShrinks
<1>5. Len(s.main) \in Nat /\ Len(RemoveFirst(s.main, e)) \in Nat /\ Qlim \in Nat
  BY <1>4, ElementsOf, QueueAssumption
<1>6. QED
  BY <1>3, <1>4, <1>5 DEF WithinLimit

LEMMA StoredWithinLimit ==
    ASSUME WithinLimit, Overflows \/ ~Full(q), NEW p \in Packet, NEW s \in Stored(p)
    PROVE  "main" \in DOMAIN s /\ s.main \in Seq(Packet) /\ Len(s.main) < Qlim
<1> DEFINE e == Enqueue(q, p)
           n == Len(q.main)
<1>1. q.main \in Seq(Packet) /\ n \in Nat /\ n < Qlim /\ Qlim \in Nat
  BY ElementsOf, QueueAssumption DEF WithinLimit
<1>2. e.main = Append(q.main, p) /\ "main" \in DOMAIN e
  BY EnqueueKeepsMain DEF WithinLimit
<1>3. e.main \in Seq(Packet) /\ Len(e.main) = n + 1
  BY <1>1, <1>2, AppendProperties
<1> HIDE DEF e, n
<1>4. CASE Full(q)
  <2>1. PICK k \in 1..(n + 1) : s = DropRandom(e, p, k)
    BY <1>4 DEF Stored, e, n
  <2> DEFINE r == [e EXCEPT !.main = RemoveAt(e.main, k)]
             f == e.main[k].flow
  <2>2. s = IdleIfEmpty(TakeFrom(r, f, p), f)
    BY <2>1 DEF DropRandom
  <2>3. r.main = RemoveAt(e.main, k) /\ "main" \in DOMAIN r
    BY <1>2
  <2> HIDE DEF r, f
  <2>4. s.main = RemoveAt(e.main, k) /\ "main" \in DOMAIN s
    BY <2>2, <2>3, LeaveKeepsMain
  <2>5. k \in 1..Len(e.main)
    BY <1>3
  <2>6. RemoveAt(e.main, k) \in Seq(Packet) /\ Len(RemoveAt(e.main, k)) = Len(e.main) - 1
    BY <1>3, <2>5, RemoveAtIs
  <2>7. QED
    BY <1>1, <1>3, <2>4, <2>6
<1>5. CASE ~Full(q)
  <2>1. s = e
    BY <1>5 DEF Stored, e
  <2>2. n + 1 < Qlim
    BY <1>1, <1>5 DEF Full, n
  <2>3. QED
    BY <1>2, <1>3, <2>1, <2>2
<1>6. QED
  BY <1>4, <1>5

(* The main queue never holds qlim_ packets, and the index of a packet to  *)
(* drop always exists, whatever the policy and whether or not packets are  *)
(* dropped.                                                                *)
THEOREM QueueBelowLimit == Spec => []BelowLimit
<1>1. Init => WithinLimit
  <2> SUFFICES ASSUME Init PROVE WithinLimit
    OBVIOUS
  <2>1. "main" \in DOMAIN q /\ q.main = <<>>
    BY DEF Init
  <2>2. <<>> \in Seq(Packet) /\ Len(<<>>) = 0
    BY EmptySeq
  <2>3. QED
    BY <2>1, <2>2, QueueAssumption DEF WithinLimit
<1>2. WithinLimit /\ [Next]_vars => WithinLimit'
  <2> SUFFICES ASSUME WithinLimit, [Next]_vars PROVE WithinLimit'
    OBVIOUS
  <2>1. ASSUME NEW f \in Arriving, NEW size \in Sizes, recv(f, size) PROVE WithinLimit'
    <3> DEFINE p == [id |-> Min(FreeIds), flow |-> f, size |-> size]
    <3>1. p \in Packet
      BY <2>1, FreshBuffer, QueueAssumption DEF recv, Packet
    <3>2. PICK s \in Stored(p) :
             IF blocked THEN q' = s /\ UNCHANGED <<blocked, mac, proc>>
             ELSE HandOver(select_packet_prio_first(s))
      BY <2>1 DEF recv
    <3>3. Overflows \/ ~Full(q)
      BY <2>1 DEF recv
    <3> HIDE DEF p
    <3>4. "main" \in DOMAIN s /\ s.main \in Seq(Packet) /\ Len(s.main) < Qlim
      BY <3>1, <3>3, StoredWithinLimit
    <3>5. CASE blocked
      BY <3>2, <3>4, <3>5 DEF WithinLimit
    <3>6. CASE ~blocked
      BY <3>2, <3>4, <3>6, HandOverWithinLimit
    <3>7. QED
      BY <3>5, <3>6
  <2>2. ASSUME resume PROVE WithinLimit'
    BY <2>2, HandOverWithinLimit DEF resume, WithinLimit
  <2>3. CASE UNCHANGED vars
    BY <2>3 DEF vars, WithinLimit
  <2>4. QED
    BY <2>1, <2>2, <2>3 DEF Next
<1>3. WithinLimit => BelowLimit
  BY DEF WithinLimit, BelowLimit
<1>4. QED
  BY <1>1, <1>2, <1>3, PTL DEF Spec

-----------------------------------------------------------------------------
(* The order of a list and of the main queue.                              *)

LEMMA SameOrderIs ==
    ASSUME NEW S, NEW a \in Seq(S), NEW b \in Seq(S)
    PROVE  SameOrder(a, b) <=>
             \A i, j \in 1..Len(a), k, l \in 1..Len(b) :
                a[i] = b[k] /\ a[j] = b[l] => (i < j <=> k < l)
<1>1. DOMAIN a = 1..Len(a) /\ DOMAIN b = 1..Len(b)
  BY ElementsOf
<1>2. QED
  BY <1>1, Zenon DEF SameOrder

(* A list in the order of one that holds all its elements repeats none. *)
LEMMA MirrorInjective ==
    ASSUME NEW S, NEW a \in Seq(S), NEW b \in Seq(S), SameOrder(a, b), ToSet(a) \subseteq ToSet(b)
    PROVE  IsInjective(a)
<1>1. /\ Len(a) \in Nat /\ DOMAIN a = 1..Len(a) /\ \A i \in 1..Len(a) : a[i] \in ToSet(b)
      /\ \A e \in ToSet(b) : \E k \in 1..Len(b) : b[k] = e
  BY ElementsOf
<1>2. ASSUME NEW i \in 1..Len(a), NEW j \in 1..Len(a), a[i] = a[j] PROVE i = j
  <2>1. PICK k \in 1..Len(b) : b[k] = a[i]
    BY <1>1
  <2>2. ~(i < j) /\ ~(j < i)
    <3>1. k \in Int /\ ~(k < k)
      OBVIOUS
    <3>2. (i < j <=> k < k) /\ (j < i <=> k < k)
      BY <1>2, <2>1, SameOrderIs
    <3>3. QED
      BY <3>1, <3>2
  <2>3. i \in Int /\ j \in Int
    OBVIOUS
  <2>4. QED
    BY <2>2, <2>3
<1>3. QED
  BY <1>1, <1>2 DEF IsInjective

LEMMA SameOrderRemoveLeft ==
    ASSUME NEW S, NEW a \in Seq(S), NEW b \in Seq(S), SameOrder(a, b), NEW n \in 1..Len(a)
    PROVE  SameOrder(RemoveAt(a, n), b)
<1> DEFINE r == RemoveAt(a, n)
<1>1. /\ r \in Seq(S) /\ Len(r) = Len(a) - 1 /\ Len(a) \in Nat
      /\ \A i \in 1..(Len(a) - 1) : r[i] = a[Shift(i, n)] /\ Shift(i, n) \in 1..Len(a)
  <2>1. Len(a) \in Nat
    BY ElementsOf
  <2>2. QED
    BY <2>1, RemoveAtIs
<1>2. \A i, j \in 1..(Len(a) - 1) : i < j <=> Shift(i, n) < Shift(j, n)
  BY <1>1 DEF Shift
<1> HIDE DEF r
<1>3. ASSUME NEW i \in 1..Len(r), NEW j \in 1..Len(r), NEW k \in 1..Len(b), NEW l \in 1..Len(b),
             r[i] = b[k], r[j] = b[l]
      PROVE  i < j <=> k < l
  <2>1. i \in 1..(Len(a) - 1) /\ j \in 1..(Len(a) - 1)
    BY <1>1
  <2>2. a[Shift(i, n)] = b[k] /\ a[Shift(j, n)] = b[l] /\ Shift(i, n) \in 1..Len(a)
        /\ Shift(j, n) \in 1..Len(a)
    BY <1>1, <1>3, <2>1
  <2>3. Shift(i, n) < Shift(j, n) <=> k < l
    BY <2>2, SameOrderIs
  <2>4. QED
    BY <1>2, <2>1, <2>3
<1>4. QED
  BY <1>1, <1>3, SameOrderIs DEF r

LEMMA SameOrderRemoveRight ==
    ASSUME NEW S, NEW a \in Seq(S), NEW b \in Seq(S), SameOrder(a, b), NEW n \in 1..Len(b)
    PROVE  SameOrder(a, RemoveAt(b, n))
<1> DEFINE r == RemoveAt(b, n)
<1>1. /\ r \in Seq(S) /\ Len(r) = Len(b) - 1 /\ Len(b) \in Nat
      /\ \A i \in 1..(Len(b) - 1) : r[i] = b[Shift(i, n)] /\ Shift(i, n) \in 1..Len(b)
  <2>1. Len(b) \in Nat
    BY ElementsOf
  <2>2. QED
    BY <2>1, RemoveAtIs
<1>2. \A i, j \in 1..(Len(b) - 1) : i < j <=> Shift(i, n) < Shift(j, n)
  BY <1>1 DEF Shift
<1> HIDE DEF r
<1>3. ASSUME NEW i \in 1..Len(a), NEW j \in 1..Len(a), NEW k \in 1..Len(r), NEW l \in 1..Len(r),
             a[i] = r[k], a[j] = r[l]
      PROVE  i < j <=> k < l
  <2>1. k \in 1..(Len(b) - 1) /\ l \in 1..(Len(b) - 1)
    BY <1>1
  <2>2. a[i] = b[Shift(k, n)] /\ a[j] = b[Shift(l, n)] /\ Shift(k, n) \in 1..Len(b)
        /\ Shift(l, n) \in 1..Len(b)
    BY <1>1, <1>3, <2>1
  <2>3. i < j <=> Shift(k, n) < Shift(l, n)
    BY <2>2, SameOrderIs
  <2>4. QED
    BY <1>2, <2>1, <2>3
<1>4. QED
  BY <1>1, <1>3, SameOrderIs DEF r

LEMMA SameOrderAppendRight ==
    ASSUME NEW S, NEW a \in Seq(S), NEW b \in Seq(S), SameOrder(a, b), NEW e \in S, e \notin ToSet(a)
    PROVE  SameOrder(a, Append(b, e))
<1> DEFINE r == Append(b, e)
           n == Len(b)
<1>1. /\ r \in Seq(S) /\ Len(r) = n + 1 /\ n \in Nat /\ r[n + 1] = e
      /\ \A i \in 1..n : r[i] = b[i]
  BY AppendProperties, ElementsOf
<1>2. \A i \in 1..Len(a) : a[i] # e
  BY ElementsOf
<1> HIDE DEF r, n
<1>3. ASSUME NEW i \in 1..Len(a), NEW j \in 1..Len(a), NEW k \in 1..Len(r), NEW l \in 1..Len(r),
             a[i] = r[k], a[j] = r[l]
      PROVE  i < j <=> k < l
  <2>1. k \in 1..n /\ l \in 1..n
    BY <1>1, <1>2, <1>3
  <2>2. QED
    BY <1>1, <1>3, <2>1, SameOrderIs DEF n
<1>4. QED
  BY <1>1, <1>3, SameOrderIs DEF r

LEMMA SameOrderAppendBoth ==
    ASSUME NEW S, NEW a \in Seq(S), NEW b \in Seq(S), SameOrder(a, b), NEW e \in S,
           e \notin ToSet(a), e \notin ToSet(b)
    PROVE  SameOrder(Append(a, e), Append(b, e))
<1> DEFINE r == Append(b, e)
           n == Len(b)
           c == Append(a, e)
           m == Len(a)
<1>1. /\ r \in Seq(S) /\ Len(r) = n + 1 /\ n \in Nat /\ r[n + 1] = e
      /\ \A i \in 1..n : r[i] = b[i] /\ b[i] # e
  BY AppendProperties, ElementsOf
<1>2. /\ c \in Seq(S) /\ Len(c) = m + 1 /\ m \in Nat /\ c[m + 1] = e
      /\ \A i \in 1..m : c[i] = a[i] /\ a[i] # e
  BY AppendProperties, ElementsOf
<1>3. \A i, j \in 1..m, k, l \in 1..n : a[i] = b[k] /\ a[j] = b[l] => (i < j <=> k < l)
  BY SameOrderIs
<1> HIDE DEF r, n, c, m
<1>4. ASSUME NEW i \in 1..(m + 1), NEW j \in 1..(m + 1), NEW k \in 1..(n + 1), NEW l \in 1..(n + 1),
             c[i] = r[k], c[j] = r[l]
      PROVE  i < j <=> k < l
  <2>0. /\ \A x \in 1..(m + 1) : (x \in 1..m /\ c[x] # e) \/ (x = m + 1 /\ c[x] = e)
        /\ \A x \in 1..(n + 1) : (x \in 1..n /\ r[x] # e) \/ (x = n + 1 /\ r[x] = e)
    <3>1. \A x \in 1..(m + 1) : x \in 1..m \/ x = m + 1
      BY <1>2
    <3>2. \A x \in 1..(n + 1) : x \in 1..n \/ x = n + 1
      BY <1>1
    <3>3. QED
      BY <1>1, <1>2, <3>1, <3>2
  <2>1. (i \in 1..m /\ k \in 1..n) \/ (i = m + 1 /\ k = n + 1)
    BY <1>4, <2>0
  <2>2. (j \in 1..m /\ l \in 1..n) \/ (j = m + 1 /\ l = n + 1)
    BY <1>4, <2>0
  <2>3. CASE i \in 1..m /\ k \in 1..n /\ j \in 1..m /\ l \in 1..n
    BY <1>1, <1>2, <1>3, <1>4, <2>3
  <2>4. CASE i = m + 1 /\ k = n + 1
    BY <1>1, <1>2, <2>2, <2>4
  <2>5. CASE j = m + 1 /\ l = n + 1
    BY <1>1, <1>2, <2>1, <2>5
  <2>6. QED
    BY <2>1, <2>2, <2>3, <2>4, <2>5
<1>5. QED
  BY <1>1, <1>2, <1>4, SameOrderIs DEF r, c

(* Each sub-queue holds the packets of its bucket in the main queue's order. *)
Mirror(s) ==
    \A f \in Buckets : /\ ToSet(s.subq[f]) = HeldBy(s.main, f)
                       /\ SameOrder(s.subq[f], s.main)

LEMMA EnterMirror ==
    ASSUME NEW s \in QueueFields, Mirror(s), NEW p \in Packet, p \notin ToSet(s.main),
           IsInjective(s.main)
    PROVE  Mirror(Enqueue(s, p))
<1> DEFINE f == p.flow
           u == Enqueue(s, p)
<1>1. EntersAs(u, s, f, p)
  BY EnqueueFields
<1>2. f \in Buckets /\ s.main \in Seq(Packet) /\ s.subq \in [Buckets -> Seq(Packet)]
  BY PacketFields, FieldTypes
<1>3. ToSet(u.main) = ToSet(s.main) \cup {p} /\ u.main = Append(s.main, p)
      /\ u.subq = [s.subq EXCEPT ![f] = Append(s.subq[f], p)]
  BY <1>1, <1>2, AppendDistinct DEF EntersAs
<1> HIDE DEF u
<1>4. ASSUME NEW g \in Buckets
      PROVE  ToSet(u.subq[g]) = HeldBy(u.main, g) /\ SameOrder(u.subq[g], u.main)
  <2>1. /\ ToSet(s.subq[g]) = HeldBy(s.main, g) /\ SameOrder(s.subq[g], s.main)
        /\ s.subq[g] \in Seq(Packet) /\ p \notin ToSet(s.subq[g])
    BY <1>2 DEF Mirror, HeldBy
  <2>2. CASE g = f
    <3>1. IsInjective(s.subq[g])
      <4>1. ToSet(s.subq[g]) \subseteq ToSet(s.main)
        BY <2>1 DEF HeldBy
      <4>2. QED
        BY <1>2, <2>1, <4>1, MirrorInjective
    <3>2. u.subq[g] = Append(s.subq[g], p)
      BY <1>2, <1>3, <2>2
    <3>3. ToSet(u.subq[g]) = ToSet(s.subq[g]) \cup {p}
      BY <2>1, <3>1, <3>2, AppendDistinct
    <3>4. SameOrder(u.subq[g], u.main)
      BY <1>2, <1>3, <2>1, <3>2, SameOrderAppendBoth
    <3>5. HeldBy(u.main, g) = HeldBy(s.main, g) \cup {p}
      BY <1>3, <2>2 DEF HeldBy
    <3>6. QED
      BY <2>1, <3>3, <3>4, <3>5
  <2>3. CASE g # f
    <3>1. u.subq[g] = s.subq[g]
      BY <1>2, <1>3, <2>3
    <3>2. SameOrder(u.subq[g], u.main)
      BY <1>2, <1>3, <2>1, <3>1, SameOrderAppendRight
    <3>3. HeldBy(u.main, g) = HeldBy(s.main, g)
      BY <1>3, <2>3 DEF HeldBy
    <3>4. QED
      BY <2>1, <3>1, <3>2, <3>3
  <2>4. QED
    BY <2>2, <2>3
<1>5. QED
  BY <1>4 DEF Mirror, u

(* The lists agree after a packet has left both. *)
LEMMA LeaveMirror ==
    ASSUME NEW t, Counted(t), Mirror(t), NEW k \in 1..Len(t.main), NEW f, f = t.main[k].flow,
           NEW u, NEW n, TakesAs(u, t, f, n, t.main[k]), u.main = RemoveAt(t.main, k)
    PROVE  Mirror(u)
<1>1. PICK p, m : p = t.main[k] /\ m = RemoveAt(t.main, k)
  OBVIOUS
<1>2. /\ t \in QueueFields /\ t.main \in Seq(Packet) /\ t.subq \in [Buckets -> Seq(Packet)]
      /\ IsInjective(t.main)
  BY FieldTypes DEF Counted
<1>3. /\ f \in Buckets /\ m \in Seq(Packet) /\ ToSet(m) = ToSet(t.main) \ {p}
      /\ p \in HeldBy(t.main, f) /\ p.flow = f
  <2>1. Without(t, k, f, m)
    BY <1>1, OneFewer
  <2>2. p.flow = f
    BY <1>1
  <2>3. QED
    BY <1>1, <2>1, <2>2 DEF Without
<1>4. \A a \in Seq(Packet) : SameOrder(a, t.main) => SameOrder(a, m)
  BY <1>1, <1>2, SameOrderRemoveRight
<1>5. u.main = m /\ u.subq = [t.subq EXCEPT ![f] = RemoveFirst(t.subq[f], p)]
  BY <1>1 DEF TakesAs
<1>6. ASSUME NEW g \in Buckets
      PROVE  ToSet(u.subq[g]) = HeldBy(u.main, g) /\ SameOrder(u.subq[g], u.main)
  <2>1. /\ ToSet(t.subq[g]) = HeldBy(t.main, g) /\ SameOrder(t.subq[g], t.main)
        /\ t.subq[g] \in Seq(Packet)
    BY <1>2 DEF Mirror
  <2>2. CASE g = f
    <3>1. IsInjective(t.subq[g])
      <4>1. ToSet(t.subq[g]) \subseteq ToSet(t.main)
        BY <2>1 DEF HeldBy
      <4>2. QED
        BY <1>2, <2>1, <4>1, MirrorInjective
    <3>2. PICK i \in 1..Len(t.subq[g]) :
             t.subq[g][i] = p /\ RemoveFirst(t.subq[g], p) = RemoveAt(t.subq[g], i)
      <4>1. p \in ToSet(t.subq[g])
        BY <1>3, <2>1, <2>2
      <4>2. QED
        BY <2>1, <4>1, RemoveFirstIs
    <3>3. u.subq[g] = RemoveAt(t.subq[g], i)
      BY <1>2, <1>5, <2>2, <3>2
    <3>4. ToSet(u.subq[g]) = ToSet(t.subq[g]) \ {p} /\ u.subq[g] \in Seq(Packet)
      BY <2>1, <3>1, <3>2, <3>3, RemoveDistinct, RemoveAtIs
    <3>5. SameOrder(u.subq[g], t.main)
      BY <1>2, <2>1, <3>3, SameOrderRemoveLeft
    <3>6. HeldBy(u.main, g) = HeldBy(t.main, g) \ {p}
      BY <1>3, <1>5 DEF HeldBy
    <3>7. QED
      BY <1>4, <1>5, <2>1, <3>4, <3>5, <3>6
  <2>3. CASE g # f
    <3>1. u.subq[g] = t.subq[g]
      BY <1>2, <1>5, <2>3
    <3>2. HeldBy(u.main, g) = HeldBy(t.main, g)
      BY <1>3, <1>5, <2>3 DEF HeldBy
    <3>3. QED
      BY <1>4, <1>5, <2>1, <3>1, <3>2
  <2>4. QED
    BY <2>2, <2>3
<1>7. QED
  BY <1>6 DEF Mirror

(* The byte count of each bucket is that of the packets its list holds.    *)
ByteCounts(s) == \A f \in Buckets : s.qcrt[f] = Bytes(s.subq[f])

LEMMA EnterBytes ==
    ASSUME NEW s \in QueueFields, ByteCounts(s), NEW p \in Packet
    PROVE  ByteCounts(Enqueue(s, p))
<1> DEFINE f == p.flow
           u == Enqueue(s, p)
<1>1. EntersAs(u, s, f, p)
  BY EnqueueFields
<1>2. f \in Buckets /\ s.subq \in [Buckets -> Seq(Packet)] /\ s.qcrt \in [Buckets -> Int]
  BY PacketFields, FieldTypes
<1>3. /\ u.qcrt = [s.qcrt EXCEPT ![f] = s.qcrt[f] + p.size]
      /\ u.subq = [s.subq EXCEPT ![f] = Append(s.subq[f], p)]
  BY <1>1 DEF EntersAs
<1>4. Sized(Packet)
  BY PacketFields DEF Sized
<1> HIDE DEF u, f
<1>5. s.subq[f] \in Seq(Packet)
  BY <1>2
<1>6. Bytes(Append(s.subq[f], p)) = Bytes(s.subq[f]) + p.size
  BY <1>4, <1>5, BytesAppend
<1>7. ASSUME NEW g \in Buckets PROVE u.qcrt[g] = Bytes(u.subq[g])
  <2>1. CASE g = f
    <3>1. u.qcrt[g] = s.qcrt[f] + p.size /\ u.subq[g] = Append(s.subq[f], p)
      BY <1>2, <1>3, <2>1
    <3>2. s.qcrt[f] = Bytes(s.subq[f])
      BY <1>2 DEF ByteCounts
    <3>3. QED
      BY <1>6, <3>1, <3>2
  <2>2. CASE g # f
    <3>1. u.qcrt[g] = s.qcrt[g] /\ u.subq[g] = s.subq[g]
      BY <1>2, <1>3, <2>2
    <3>2. QED
      BY <3>1 DEF ByteCounts
  <2>3. QED
    BY <2>1, <2>2
<1>8. QED
  BY <1>7 DEF ByteCounts, u

(* The counts agree after a packet has left the list it is on.             *)
LEMMA LeaveBytes ==
    ASSUME NEW t \in QueueFields, ByteCounts(t), NEW f \in Buckets, NEW p, NEW n,
           p \in ToSet(t.subq[f]), NEW u, TakesAs(u, t, f, n, p)
    PROVE  ByteCounts(u)
<1>1. t.subq \in [Buckets -> Seq(Packet)] /\ t.qcrt \in [Buckets -> Int]
  BY FieldTypes
<1>2. /\ u.qcrt = [t.qcrt EXCEPT ![f] = t.qcrt[f] - p.size]
      /\ u.subq = [t.subq EXCEPT ![f] = RemoveFirst(t.subq[f], p)]
  BY DEF TakesAs
<1>3. Sized(Packet)
  BY PacketFields DEF Sized
<1>4. t.subq[f] \in Seq(Packet)
  BY <1>1
<1>5. PICK k \in 1..Len(t.subq[f]) :
         t.subq[f][k] = p /\ RemoveFirst(t.subq[f], p) = RemoveAt(t.subq[f], k)
  BY <1>4, RemoveFirstIs
<1>6. Bytes(RemoveFirst(t.subq[f], p)) = Bytes(t.subq[f]) - p.size
  BY <1>3, <1>4, <1>5, BytesRemove
<1>7. ASSUME NEW g \in Buckets PROVE u.qcrt[g] = Bytes(u.subq[g])
  <2>1. CASE g = f
    <3>1. u.qcrt[g] = t.qcrt[f] - p.size /\ u.subq[g] = RemoveFirst(t.subq[f], p)
      BY <1>1, <1>2, <2>1
    <3>2. t.qcrt[f] = Bytes(t.subq[f])
      BY DEF ByteCounts
    <3>3. QED
      BY <1>6, <3>1, <3>2
  <2>2. CASE g # f
    <3>1. u.qcrt[g] = t.qcrt[g] /\ u.subq[g] = t.subq[g]
      BY <1>1, <1>2, <2>2
    <3>2. QED
      BY <3>1 DEF ByteCounts
  <2>3. QED
    BY <2>1, <2>2
<1>8. QED
  BY <1>7 DEF ByteCounts

-----------------------------------------------------------------------------
(* The ring turned by rr_cur.                                              *)

(* Position in a ring of n of the i-th element after w steps. *)
Turn(i, w, n) == IF i + w <= n THEN i + w ELSE i + w - n

LEMMA TurnedRing ==
    ASSUME NEW S, NEW s \in Seq(S), NEW r \in Seq(S), Len(r) = Len(s), NEW w \in 0..Len(s),
           \A i \in 1..Len(s) : r[i] = s[Turn(i, w, Len(s))], IsInjective(s)
    PROVE  IsInjective(r) /\ ToSet(r) = ToSet(s)
<1> DEFINE n == Len(s)
<1>1. n \in Nat /\ DOMAIN s = 1..n /\ DOMAIN r = 1..n /\ w \in 0..n
  BY ElementsOf
<1>2. \A i, j \in 1..n : s[i] = s[j] => i = j
  BY <1>1 DEF IsInjective
<1>3. \A i \in 1..n : r[i] = s[Turn(i, w, n)]
  OBVIOUS
<1> HIDE DEF n
<1>4. \A i, j \in 1..n : Turn(i, w, n) \in 1..n /\ (Turn(i, w, n) = Turn(j, w, n) => i = j)
  BY <1>1 DEF Turn
<1>5. IsInjective(r)
  BY <1>1, <1>2, <1>3, <1>4, SMTT(30) DEF IsInjective
<1>6. ASSUME NEW e \in ToSet(s) PROVE e \in ToSet(r)
  <2>1. PICK j \in 1..n : e = s[j]
    BY <1>1, <1>6 DEF ToSet
  <2> DEFINE i == IF j > w THEN j - w ELSE j - w + n
  <2>2. i \in 1..n /\ Turn(i, w, n) = j
    BY <1>1, <2>1 DEF Turn
  <2> HIDE DEF i
  <2>3. r[i] = e
    BY <1>3, <2>1, <2>2
  <2>4. QED
    BY <1>1, <2>2, <2>3 DEF ToSet
<1>7. ASSUME NEW e \in ToSet(r) PROVE e \in ToSet(s)
  <2>1. PICK i \in 1..n : e = r[i]
    BY <1>1, <1>7 DEF ToSet
  <2>2. QED
    BY <1>1, <1>3, <1>4, <2>1 DEF ToSet
<1>8. QED
  BY <1>5, <1>6, <1>7

(* "rr_cur=rr_cur->next". *)
LEMMA RotateIs ==
    ASSUME NEW S, NEW s \in Seq(S), IsInjective(s)
    PROVE  /\ Rotate(s) \in Seq(S) /\ Len(Rotate(s)) = Len(s)
           /\ IsInjective(Rotate(s)) /\ ToSet(Rotate(s)) = ToSet(s)
<1> DEFINE n == Len(s)
           r == Rotate(s)
<1>1. n \in Nat /\ (s = <<>> <=> n = 0)
  BY ElementsOf
<1>2. CASE s = <<>>
  BY <1>2 DEF Rotate
<1>3. CASE s # <<>>
  <2>1. /\ Head(s) \in S /\ Tail(s) \in Seq(S) /\ Len(Tail(s)) = n - 1 /\ Head(s) = s[1]
        /\ \A i \in 1..(n - 1) : Tail(s)[i] = s[i + 1]
    <3>1. Head(s) \in S /\ Tail(s) \in Seq(S) /\ Len(Tail(s)) = n - 1
          /\ \A i \in 1..Len(Tail(s)) : Tail(s)[i] = s[i + 1]
      BY <1>3, HeadTailProperties
    <3>2. Head(s) = s[1]
      BY <1>3
    <3>3. QED
      BY <3>1, <3>2
  <2>2. r = Append(Tail(s), Head(s))
    BY <1>3 DEF Rotate
  <2>3. /\ r \in Seq(S) /\ Len(r) = Len(Tail(s)) + 1
        /\ \A i \in 1..Len(Tail(s)) : r[i] = Tail(s)[i]
        /\ r[Len(Tail(s)) + 1] = Head(s)
    BY <2>1, <2>2, AppendProperties
  <2> HIDE DEF r, n
  <2>4. n >= 1
    BY <1>1, <1>3
  <2>5. Len(r) = n /\ r[n] = s[1] /\ \A i \in 1..(n - 1) : r[i] = s[i + 1]
    BY <1>1, <2>1, <2>3
  <2>6. \A i \in 1..n : r[i] = s[Turn(i, 1, n)]
    <3>1. \A i \in 1..n : i = n \/ i \in 1..(n - 1)
      BY <1>1
    <3>2. Turn(n, 1, n) = 1 /\ \A i \in 1..(n - 1) : Turn(i, 1, n) = i + 1
      BY <1>1 DEF Turn
    <3>3. QED
      BY <2>5, <3>1, <3>2
  <2>7. 1 \in 0..n
    BY <1>1, <2>4
  <2>8. IsInjective(r) /\ ToSet(r) = ToSet(s)
    BY <2>3, <2>5, <2>6, <2>7, TurnedRing DEF n
  <2>9. QED
    BY <2>3, <2>5, <2>8 DEF r, n
<1>4. QED
  BY <1>2, <1>3

(* rr_cur moved to the w-th bucket of the ring. *)
TurnedTo(s, w) == SubSeq(s, w, Len(s)) \o SubSeq(s, 1, w - 1)

LEMMA TurnTo ==
    ASSUME NEW S, NEW s \in Seq(S), IsInjective(s), NEW w \in 1..Len(s)
    PROVE  /\ TurnedTo(s, w) \in Seq(S) /\ Len(TurnedTo(s, w)) = Len(s)
           /\ IsInjective(TurnedTo(s, w)) /\ ToSet(TurnedTo(s, w)) = ToSet(s)
<1> DEFINE n == Len(s)
           a == SubSeq(s, w, n)
           b == SubSeq(s, 1, w - 1)
           r == a \o b
<1>1. n \in Nat /\ w \in 1..n /\ \A i \in 1..n : s[i] \in S
  BY ElementsOf
<1>2. a \in Seq(S) /\ Len(a) = n - w + 1 /\ \A i \in 1..(n - w + 1) : a[i] = s[w + i - 1]
  <2>1. \A i \in w..n : s[i] \in S
    BY <1>1
  <2> HIDE DEF n
  <2>2. /\ a \in Seq(S) /\ Len(a) = IF w <= n THEN n - w + 1 ELSE 0
        /\ \A i \in 1..(n - w + 1) : a[i] = s[w + i - 1]
    BY <1>1, <2>1, SubSeqProperties
  <2>3. QED
    BY <1>1, <2>2
<1>3. b \in Seq(S) /\ Len(b) = w - 1 /\ \A i \in 1..(w - 1) : b[i] = s[i]
  <2>1. \A i \in 1..(w - 1) : s[i] \in S
    BY <1>1
  <2>2. /\ b \in Seq(S) /\ Len(b) = IF 1 <= w - 1 THEN (w - 1) - 1 + 1 ELSE 0
        /\ \A i \in 1..((w - 1) - 1 + 1) : b[i] = s[1 + i - 1]
    BY <2>1, SubSeqProperties
  <2>3. QED
    BY <2>2
<1> HIDE DEF a, b, n
<1>4. /\ r \in Seq(S) /\ Len(r) = Len(a) + Len(b)
      /\ \A i \in 1..(Len(a) + Len(b)) :
            r[i] = IF i <= Len(a) THEN a[i] ELSE b[i - Len(a)]
  BY <1>2, <1>3, ConcatProperties
<1>5. Len(r) = n
  BY <1>1, <1>2, <1>3, <1>4
<1> HIDE DEF r
<1>6. ASSUME NEW i \in 1..n PROVE r[i] = s[Turn(i, w - 1, n)]
  <2>1. r[i] = IF i <= n - w + 1 THEN a[i] ELSE b[i - (n - w + 1)]
    BY <1>1, <1>2, <1>3, <1>4
  <2>2. CASE i <= n - w + 1
    <3>1. i \in 1..(n - w + 1) /\ Turn(i, w - 1, n) = w + i - 1
      BY <1>1, <2>2 DEF Turn
    <3>2. QED
      BY <1>2, <2>1, <2>2, <3>1
  <2>3. CASE ~(i <= n - w + 1)
    <3>1. i - (n - w + 1) \in 1..(w - 1) /\ Turn(i, w - 1, n) = i - (n - w + 1)
      BY <1>1, <2>3 DEF Turn
    <3>2. QED
      BY <1>3, <2>1, <2>3, <3>1
  <2>4. QED
    BY <2>2, <2>3
<1>7. w - 1 \in 0..n
  BY <1>1
<1>8. IsInjective(r) /\ ToSet(r) = ToSet(s)
  BY <1>4, <1>5, <1>6, <1>7, TurnedRing DEF n
<1>9. QED
  BY <1>4, <1>5, <1>8 DEF TurnedTo, r, a, b, n

(* Turning the ring changes nothing else. *)
LEMMA TurnBase ==
    ASSUME NEW s, Base(s), NEW t \in QueueFields, t.main = s.main, t.cnt = s.cnt,
           t.numFlows = s.numFlows, IsInjective(t.ring), ToSet(t.ring) = ToSet(s.ring),
           Len(t.ring) = Len(s.ring)
    PROVE  Base(t)
  BY DEF Base, Counted, Linked

-----------------------------------------------------------------------------
(* Deficit round robin.                                                    *)

LEMMA MultipleLe ==
    ASSUME NEW a \in Int, NEW b \in Int, NEW n \in Nat, NEW r \in Int, r < n, a * n <= b * n + r
    PROVE  a <= b
  OBVIOUS

LEMMA MultipleMonotone ==
    ASSUME NEW a \in Int, NEW b \in Int, NEW n \in Nat, a <= b
    PROVE  a * n <= b * n
  OBVIOUS

LEMMA MultipleGrows ==
    ASSUME NEW a \in Nat, NEW b \in Nat, a >= 1
    PROVE  a * b >= b /\ b * a >= b
  OBVIOUS

(* The rounds in which position j is visited until the W-th visit. *)
Rounds(W, n, j) == {x \in 0..W : x * n + j <= W}

(* The W-th visit is the one of position w on round v. *)
VisitOf(W, n, v, w) == W = (v - 1) * n + w

(* The visits a bucket gets until the loop stops at position w on round v. *)
LEMMA VisitCount ==
    ASSUME NEW n \in Nat \ {0}, NEW w \in 1..n, NEW j \in 1..n, NEW v \in Nat \ {0},
           NEW W, VisitOf(W, n, v, w)
    PROVE  /\ j <= w => Cardinality(Rounds(W, n, j)) = v
           /\ ~(j <= w) => Cardinality(Rounds(W, n, j)) = v - 1
<1> DEFINE m == IF j <= w THEN v ELSE v - 1
           X == {x \in 0..W : x * n + j <= W}
<1>1. /\ W \in Int /\ (v - 1) * n \in Nat /\ W >= (v - 1) * n /\ W \in Nat
      /\ W = (v - 1) * n + w
  <2>1. v - 1 \in Nat
    OBVIOUS
  <2>2. (v - 1) * n \in Nat
    BY <2>1
  <2>3. QED
    BY <2>2 DEF VisitOf
<1>2. (v - 1) * n = (v - 2) * n + n
  OBVIOUS
<1>3. ASSUME NEW x \in 0..W, x * n + j <= W PROVE x <= m - 1
  <2>1. CASE j <= w
    <3>1. x * n <= (v - 1) * n + (w - j) /\ w - j < n
      BY <1>1, <1>3, <2>1
    <3>2. x <= v - 1
      BY <3>1, MultipleLe
    <3>3. QED
      BY <2>1, <3>2
  <2>2. CASE ~(j <= w)
    <3>1. x * n <= (v - 2) * n + (n + w - j) /\ n + w - j < n
      BY <1>1, <1>2, <1>3, <2>2
    <3>2. x <= v - 2
      BY <3>1, MultipleLe
    <3>3. QED
      BY <2>2, <3>2
  <2>3. QED
    BY <2>1, <2>2
<1>4. ASSUME NEW x \in 0..(m - 1) PROVE x \in 0..W /\ x * n + j <= W
  <2>1. x * n + j <= W
    <3>1. CASE j <= w
      <4>1. x * n <= (v - 1) * n
        BY <3>1, MultipleMonotone
      <4>2. QED
        BY <1>1, <3>1, <4>1
    <3>2. CASE ~(j <= w)
      <4>1. x * n <= (v - 2) * n
        BY <3>2, MultipleMonotone
      <4>2. QED
        BY <1>1, <1>2, <3>2, <4>1
    <3>3. QED
      BY <3>1, <3>2
  <2>2. x * n >= x
    BY MultipleGrows
  <2>3. QED
    BY <1>1, <2>1, <2>2
<1>5. m \in Nat
  OBVIOUS
<1>6. X = 0..(m - 1)
  <2>1. \A x \in 0..W : x <= m - 1 => x \in 0..(m - 1)
    BY <1>1, <1>5
  <2>2. QED
    BY <1>3, <1>4, <2>1
<1> HIDE DEF m, X
<1>7. Cardinality(0..(m - 1)) = IF 0 > m - 1 THEN 0 ELSE (m - 1) - 0 + 1
  BY <1>5, FS_Interval
<1>8. Cardinality(X) = m
  BY <1>5, <1>6, <1>7
<1>9. QED
  BY <1>8 DEF m, X, Rounds

(* A bucket that is not served is visited less often than it needs. *)
LEMMA LoserVisits ==
    ASSUME NEW n \in Nat \ {0}, NEW w \in 1..n, NEW j \in 1..n, j # w,
           NEW v \in Nat \ {0}, NEW u \in Nat \ {0},
           (v - 1) * n + w <= (u - 1) * n + j
    PROVE  (IF j <= w THEN v ELSE v - 1) < u
<1>1. CASE j <= w
  <2>1. v * n <= (u - 1) * n + (n - (w - j)) /\ n - (w - j) < n
    BY <1>1
  <2>2. v <= u - 1
    BY <2>1, MultipleLe
  <2>3. QED
    BY <1>1, <2>2
<1>2. CASE ~(j <= w)
  <2>1. (v - 1) * n <= (u - 1) * n + (j - w) /\ j - w < n
    BY <1>2
  <2>2. v - 1 <= u - 1
    BY <2>1, MultipleLe
  <2>3. QED
    BY <1>2, <2>2
<1>3. QED
  BY <1>1, <1>2

LEMMA HeadIs ==
    ASSUME NEW s \in QueueFields, NEW f \in Buckets, s.subq[f] # <<>>
    PROVE  /\ Head(s.subq[f]) \in Packet /\ Head(s.subq[f]).size \in Nat
           /\ Head(s.subq[f]).size > 0
<1>1. s.subq[f] \in Seq(Packet)
  BY FieldTypes
<1>2. Head(s.subq[f]) \in Packet
  BY <1>1, HeadTailProperties
<1>3. QED
  BY <1>2, PacketFields

(* A bucket that holds packets is served after finitely many visits. *)
LEMMA VisitsNeededIs ==
    ASSUME NEW s \in QueueFields, NEW f \in Buckets, s.subq[f] # <<>>
    PROVE  /\ VisitsNeeded(s, f) \in Nat \ {0}
           /\ Credit(s, f, VisitsNeeded(s, f)) >= Head(s.subq[f]).size
           /\ \A w \in 1..(VisitsNeeded(s, f) - 1) : Credit(s, f, w) < Head(s.subq[f]).size
<1> DEFINE size == Head(s.subq[f]).size
           P(v) == /\ Credit(s, f, v) >= size
                   /\ \A w \in 1..(v-1) : Credit(s, f, w) < size
           V == {v \in 1..(size + 1) : Credit(s, f, v) >= size}
<1>1. size \in Nat /\ size > 0
  BY HeadIs
<1>2. s.deficit[f] \in Nat /\ s.turn[f] \in {0, 1} /\ Quantum \in Nat /\ Quantum >= 1
  BY FieldTypes, QueueAssumption
<1> HIDE DEF size
<1>3. \A v \in 1..(size + 1) : Credit(s, f, v) \in Int
  BY <1>1, <1>2 DEF Credit
<1>4. Credit(s, f, size + 1) >= size
  <2>1. Quantum * (size + 1 - s.turn[f]) >= size + 1 - s.turn[f]
    <3> DEFINE b == size + 1 - s.turn[f]
    <3>1. b \in Nat
      BY <1>1, <1>2
    <3> HIDE DEF b
    <3>2. Quantum * b >= b
      BY <1>2, <3>1, MultipleGrows
    <3>3. QED
      BY <3>2 DEF b
  <2> DEFINE c == Quantum * (size + 1 - s.turn[f])
  <2>2. c >= size + 1 - s.turn[f] /\ c \in Int
    BY <1>1, <1>2, <2>1
  <2>3. Credit(s, f, size + 1) = s.deficit[f] + c
    BY <1>1, <1>2 DEF Credit
  <2> HIDE DEF c
  <2>4. QED
    BY <1>1, <1>2, <2>2, <2>3
<1>5. V # {} /\ V \subseteq Nat
  BY <1>1, <1>4
<1>6. PICK x \in V : \A y \in V : x <= y
  BY <1>5, SmallestExists
<1>7. x \in 1..(size + 1) /\ P(x)
  <2>1. ASSUME NEW w \in 1..(x - 1) PROVE Credit(s, f, w) < size
    <3>1. w \in 1..(size + 1) /\ w < x
      BY <1>1
    <3>2. w \notin V
      BY <1>1, <1>6, <3>1
    <3>3. QED
      BY <1>1, <1>3, <3>1, <3>2
  <2>2. QED
    BY <2>1
<1>8. VisitsNeeded(s, f) = CHOOSE v \in 1..(size + 1) : P(v)
  BY DEF VisitsNeeded, size
<1>9. VisitsNeeded(s, f) \in 1..(size + 1) /\ P(VisitsNeeded(s, f))
  <2>1. \E v \in 1..(size + 1) : P(v)
    BY <1>7
  <2> HIDE DEF P
  <2>2. QED
    BY <1>8, <2>1, Zenon
<1>10. QED
  BY <1>1, <1>9 DEF size

(* Credit left over: below the quantum while the bucket's turn lasts, too  *)
(* little for the packet at its front otherwise, none without a packet.    *)
Settled(s, f) ==
    IF s.turn[f] = 1 THEN s.deficit[f] < Quantum
    ELSE IF s.subq[f] = <<>> THEN s.deficit[f] = 0
    ELSE s.deficit[f] < Head(s.subq[f]).size

(* Only the visits of DRR give credit, and the routing packets' bucket is  *)
(* never visited.                                                          *)
Deficits(s) ==
    /\ Policy # "DRR" => \A f \in Buckets : s.deficit[f] = 0
    /\ s.deficit[Prio] = 0
    /\ \A f \in Buckets : Settled(s, f)

LEMMA EnterDeficits ==
    ASSUME NEW s, Counted(s), Mirror(s), Deficits(s), NEW p \in Packet
    PROVE  Deficits(Enqueue(s, p))
<1> DEFINE f == p.flow
           u == Enqueue(s, p)
<1>1. /\ s \in QueueFields /\ s.subq \in [Buckets -> Seq(Packet)]
      /\ s.deficit \in [Buckets -> Nat] /\ s.turn \in [Buckets -> {0, 1}]
  BY FieldTypes DEF Counted
<1>2. f \in Buckets /\ Prio \in Buckets /\ Quantum \in Nat /\ Quantum > 0
  BY PacketFields, QueueAssumption DEF Buckets
<1>3. EntersAs(u, s, f, p)
  BY <1>1, EnqueueFields
<1>4. /\ u \in QueueFields /\ u.subq = [s.subq EXCEPT ![f] = Append(s.subq[f], p)] /\ u.turn = s.turn
      /\ u.deficit = IF s.cnt[f] = 0 THEN [s.deficit EXCEPT ![f] = 0] ELSE s.deficit
  BY <1>3 DEF EntersAs
<1> HIDE DEF u, f
<1>5. \A g \in Buckets : u.deficit[g] = s.deficit[g] \/ (g = f /\ u.deficit[g] = 0)
  BY <1>1, <1>2, <1>4
<1>6. ASSUME NEW g \in Buckets PROVE Settled(u, g)
  <2>1. Settled(s, g)
    BY DEF Deficits
  <2>2. CASE g = f
    <3>1. u.subq[g] = Append(s.subq[g], p) /\ u.turn[g] = s.turn[g]
      BY <1>1, <1>2, <1>4, <2>2
    <3>2. s.subq[g] \in Seq(Packet)
      BY <1>1
    <3>3. u.subq[g] # <<>>
      <4>1. Len(u.subq[g]) = Len(s.subq[g]) + 1 /\ Len(s.subq[g]) \in Nat
        BY <3>1, <3>2, AppendProperties, ElementsOf
      <4>2. Len(<<>>) = 0
        BY EmptySeq
      <4>3. QED
        BY <4>1, <4>2
    <3>4. CASE s.cnt[f] = 0
      <4>1. u.deficit[g] = 0
        BY <1>1, <1>2, <1>4, <2>2, <3>4
      <4>2. Head(u.subq[g]).size \in Nat /\ Head(u.subq[g]).size > 0
        BY <1>4, <3>3, HeadIs
      <4>3. QED
        BY <1>2, <3>3, <4>1, <4>2 DEF Settled
    <3>5. CASE s.cnt[f] # 0
      <4>1. s.subq[g] # <<>>
        <5>1. HeldBy(s.main, g) # {}
          BY <1>2, <2>2, <3>5, CountTells
        <5>2. ToSet(s.subq[g]) # {}
          BY <5>1 DEF Mirror
        <5>3. QED
          BY <3>2, <5>2, ElementsOf
      <4>2. Head(u.subq[g]) = Head(s.subq[g])
        <5>1. Len(s.subq[g]) \in Nat /\ Len(s.subq[g]) # 0
          BY <3>2, <4>1, ElementsOf
        <5>2. 1 \in 1..Len(s.subq[g])
          BY <5>1
        <5>3. Append(s.subq[g], p)[1] = s.subq[g][1]
          BY <3>2, <5>2, AppendProperties
        <5>4. Head(s.subq[g]) = s.subq[g][1]
          BY <3>2, <4>1
        <5>5. u.subq[g] \in Seq(Packet)
          BY <3>1, <3>2, AppendProperties
        <5>6. Head(u.subq[g]) = u.subq[g][1]
          BY <3>3, <5>5
        <5>7. QED
          BY <3>1, <5>3, <5>4, <5>6
      <4>3. u.deficit[g] = s.deficit[g]
        BY <1>4, <3>5
      <4>4. QED
        BY <2>1, <3>1, <3>3, <4>1, <4>2, <4>3 DEF Settled
    <3>6. QED
      BY <3>4, <3>5
  <2>3. CASE g # f
    <3>1. u.subq[g] = s.subq[g] /\ u.turn[g] = s.turn[g] /\ u.deficit[g] = s.deficit[g]
      BY <1>1, <1>2, <1>4, <1>5, <2>3
    <3>2. QED
      BY <2>1, <3>1 DEF Settled
  <2>4. QED
    BY <2>2, <2>3
<1>7. u.deficit[Prio] = 0
  BY <1>2, <1>5 DEF Deficits
<1>8. Policy # "DRR" => \A g \in Buckets : u.deficit[g] = 0
  BY <1>5 DEF Deficits
<1>9. QED
  BY <1>6, <1>7, <1>8 DEF Deficits, u

(* A packet may leave a bucket without credit, or one whose turn it is. *)
LEMMA LeaveDeficits ==
    ASSUME NEW t \in QueueFields, Deficits(t), NEW f \in Buckets, NEW p \in Packet, NEW n \in Nat,
           NEW u, TakesAs(u, t, f, n, p), t.turn[f] = 1 \/ t.deficit[f] = 0
    PROVE  Deficits(u)
<1>1. /\ t.subq \in [Buckets -> Seq(Packet)]
      /\ t.deficit \in [Buckets -> Nat] /\ t.turn \in [Buckets -> {0, 1}]
  BY FieldTypes
<1>2. Prio \in Buckets /\ Quantum \in Nat /\ Quantum > 0
  BY QueueAssumption DEF Buckets
<1>3. /\ u \in QueueFields /\ u.subq = [t.subq EXCEPT ![f] = RemoveFirst(t.subq[f], p)]
      /\ u.turn = [t.turn EXCEPT ![f] = IF n = 0 THEN 0 ELSE t.turn[f]]
      /\ u.deficit = [t.deficit EXCEPT ![f] = IF n = 0 THEN 0 ELSE t.deficit[f]]
  BY DEF TakesAs
<1>4. \A g \in Buckets : u.deficit[g] = t.deficit[g] \/ u.deficit[g] = 0
  BY <1>1, <1>3
<1>5. ASSUME NEW g \in Buckets PROVE Settled(u, g)
  <2>1. Settled(t, g)
    BY DEF Deficits
  <2>2. CASE u.deficit[g] = 0
    <3>1. u.subq[g] # <<>> => Head(u.subq[g]).size \in Nat /\ Head(u.subq[g]).size > 0
      BY <1>3, HeadIs
    <3>2. QED
      BY <1>2, <2>2, <3>1 DEF Settled
  <2>3. CASE g = f /\ u.deficit[g] # 0
    <3>1. n # 0 /\ u.deficit[g] = t.deficit[g] /\ u.turn[g] = t.turn[g]
      BY <1>1, <1>3, <2>3
    <3>2. t.turn[g] = 1
      BY <2>3, <3>1
    <3>3. QED
      BY <2>1, <3>1, <3>2 DEF Settled
  <2>4. CASE g # f
    <3>1. u.subq[g] = t.subq[g] /\ u.turn[g] = t.turn[g] /\ u.deficit[g] = t.deficit[g]
      BY <1>1, <1>3, <2>4
    <3>2. QED
      BY <2>1, <3>1 DEF Settled
  <2>5. QED
    BY <2>2, <2>3, <2>4
<1>6. QED
  BY <1>2, <1>4, <1>5 DEF Deficits

(* The loop of DRR: the ring stands at the bucket that is served, which    *)
(* has paid for its packet, and no bucket has saved up credit.             *)
LEMMA DrrVisits ==
    ASSUME NEW s, Base(s), Mirror(s), Deficits(s), Policy = "DRR", s.cnt[Prio] = 0, s.numFlows > 0
    PROVE  \E t \in QueueFields, f \in ToSet(s.ring) :
             /\ select_packet_drr(s) =
                   <<Head(s.subq[f]), IdleIfEmpty(TakeFrom(t, f, Head(s.subq[f])), f)>>
             /\ Base(t) /\ Deficits(t) /\ t.main = s.main /\ t.subq = s.subq /\ t.turn[f] = 1
             /\ t.qcrt = s.qcrt
<1> DEFINE n       == Len(s.ring)
           when(k) == (VisitsNeeded(s, s.ring[k]) - 1) * n + k
           win     == CHOOSE k \in 1..n : \A j \in 1..n : when(k) <= when(j)
           f       == s.ring[win]
           p       == Head(s.subq[f])
           visits  == [g \in ToSet(s.ring) |->
                          LET j == CHOOSE i \in 1..n : s.ring[i] = g
                          IN  Cardinality({v \in 0..when(win) : v * n + j <= when(win)})]
           df      == [g \in Buckets |->
                          IF g \notin ToSet(s.ring) \/ visits[g] = 0 THEN s.deficit[g]
                          ELSE Credit(s, g, visits[g]) - Charge(g, f, p)]
           tn      == [g \in Buckets |->
                          IF g = f THEN 1
                          ELSE IF g \in ToSet(s.ring) /\ visits[g] > 0 THEN 0
                          ELSE s.turn[g]]
           rg      == SubSeq(s.ring, win, n) \o SubSeq(s.ring, 1, win - 1)
           t       == [s EXCEPT !.deficit = df, !.turn = tn, !.ring = rg]
           need(g) == VisitsNeeded(s, g)
<1>1. select_packet_drr(s) = <<p, IdleIfEmpty(TakeFrom(t, f, p), f)>>
  BY DEF select_packet_drr
<1>2. /\ s \in QueueFields /\ s.ring \in Seq(Buckets) /\ s.subq \in [Buckets -> Seq(Packet)]
      /\ s.deficit \in [Buckets -> Nat] /\ s.turn \in [Buckets -> {0, 1}]
  BY FieldTypes DEF Base, Counted
<1>3. /\ IsInjective(s.ring) /\ s.numFlows = n /\ n \in Nat /\ n > 0
      /\ ToSet(s.ring) = {g \in Buckets : HeldBy(s.main, g) # {}}
      /\ \A i \in 1..n : s.ring[i] \in ToSet(s.ring)
      /\ \A g \in ToSet(s.ring) : \E i \in 1..n : s.ring[i] = g
      /\ \A i, j \in 1..n : s.ring[i] = s.ring[j] => i = j
  <2>1. IsInjective(s.ring) /\ s.numFlows = n /\ ToSet(s.ring) = {g \in Buckets : HeldBy(s.main, g) # {}}
    BY DEF Base, Linked
  <2>2. n \in Nat /\ DOMAIN s.ring = 1..n /\ \A i \in 1..n : s.ring[i] \in ToSet(s.ring)
    BY <1>2, ElementsOf
  <2>3. \A g \in ToSet(s.ring) : \E i \in 1..n : s.ring[i] = g
    BY <1>2, ElementsOf
  <2>4. \A i, j \in 1..n : s.ring[i] = s.ring[j] => i = j
    BY <2>1, <2>2 DEF IsInjective
  <2>5. n > 0
    BY <2>1
  <2>6. QED
    BY <2>1, <2>2, <2>3, <2>4, <2>5
<1>4. \A g \in ToSet(s.ring) : g \in Buckets /\ s.subq[g] # <<>>
  <2>1. ASSUME NEW g \in ToSet(s.ring) PROVE g \in Buckets /\ s.subq[g] # <<>>
    <3>1. g \in Buckets /\ HeldBy(s.main, g) # {}
      BY <1>3
    <3>2. ToSet(s.subq[g]) # {} /\ s.subq[g] \in Seq(Packet)
      BY <1>2, <3>1 DEF Mirror
    <3>3. QED
      BY <3>1, <3>2, ElementsOf
  <2>2. QED
    BY <2>1
<1>5. Prio \notin ToSet(s.ring)
  <2>1. Prio \in Buckets
    BY DEF Buckets
  <2>2. QED
    BY <1>3, <2>1, CountTells DEF Base
<1>6. \A g \in ToSet(s.ring) : /\ need(g) \in Nat \ {0}
                               /\ Credit(s, g, need(g)) >= Head(s.subq[g]).size
                               /\ \A w \in 1..(need(g) - 1) : Credit(s, g, w) < Head(s.subq[g]).size
  BY <1>2, <1>4, VisitsNeededIs
<1> HIDE DEF n, need
<1>7. \A k \in 1..n : when(k) = (need(s.ring[k]) - 1) * n + k /\ when(k) \in Nat
  <2>1. ASSUME NEW k \in 1..n PROVE when(k) = (need(s.ring[k]) - 1) * n + k /\ when(k) \in Nat
    <3>1. when(k) = (need(s.ring[k]) - 1) * n + k
      BY DEF need
    <3> DEFINE a == need(s.ring[k]) - 1
    <3>2. a \in Nat
      BY <1>3, <1>6
    <3> HIDE DEF a
    <3>3. a * n + k \in Nat
      BY <1>3, <3>2
    <3>4. QED
      BY <3>1, <3>3 DEF a
  <2>2. QED
    BY <2>1
<1> HIDE DEF when
<1>8. win \in 1..n /\ \A j \in 1..n : when(win) <= when(j)
  <2> DEFINE S == {when(k) : k \in 1..n}
  <2>1. 1 \in 1..n
    BY <1>3
  <2>2. S \subseteq Nat /\ S # {}
    BY <1>7, <2>1
  <2>3. PICK x \in S : \A y \in S : x <= y
    BY <2>2, SmallestExists
  <2>4. \E k \in 1..n : \A j \in 1..n : when(k) <= when(j)
    BY <2>3
  <2>5. QED
    BY <2>4
<1> HIDE DEF win
<1>9. f \in ToSet(s.ring)
  BY <1>3, <1>8
<1>10. ASSUME NEW g \in ToSet(s.ring)
       PROVE  /\ visits[g] \in Nat
              /\ g = f => visits[g] = need(f)
              /\ g # f => visits[g] < need(g)
  <2> DEFINE j == CHOOSE i \in 1..n : s.ring[i] = g
             v == need(f)
  <2>1. j \in 1..n /\ s.ring[j] = g
    BY <1>3, <1>10
  <2>2. visits[g] = Cardinality(Rounds(when(win), n, j))
    BY <1>10 DEF Rounds
  <2> HIDE DEF j, visits
  <2>3. v \in Nat \ {0} /\ when(win) = (v - 1) * n + win
    BY <1>6, <1>7, <1>8, <1>9
  <2> HIDE DEF v, f
  <2>4. visits[g] = IF j <= win THEN v ELSE v - 1
    <3>1. n \in Nat \ {0}
      BY <1>3
    <3>2. VisitOf(when(win), n, v, win)
      BY <2>3 DEF VisitOf
    <3>3. /\ j <= win => Cardinality(Rounds(when(win), n, j)) = v
          /\ ~(j <= win) => Cardinality(Rounds(when(win), n, j)) = v - 1
      <4> DEFINE W == when(win)
      <4>1. n \in Nat \ {0} /\ win \in 1..n /\ j \in 1..n /\ v \in Nat \ {0}
        BY <1>8, <2>1, <2>3, <3>1
      <4>2. VisitOf(W, n, v, win)
        BY <3>2
      <4> HIDE DEF W
      <4>3. /\ j <= win => Cardinality(Rounds(W, n, j)) = v
            /\ ~(j <= win) => Cardinality(Rounds(W, n, j)) = v - 1
        BY <4>1, <4>2, VisitCount
      <4>4. QED
        BY <4>3 DEF W
    <3>4. QED
      BY <2>2, <3>3
  <2>5. g = f => j = win
    BY <1>3, <1>8, <2>1 DEF f
  <2>6. ASSUME g # f PROVE visits[g] < need(g)
    <3>1. j # win
      BY <2>1, <2>6 DEF f
    <3>2. need(g) \in Nat \ {0} /\ when(j) = (need(g) - 1) * n + j /\ when(win) <= when(j)
      BY <1>6, <1>7, <1>8, <2>1
    <3> DEFINE u == need(g)
    <3>3. u \in Nat \ {0} /\ (v - 1) * n + win <= (u - 1) * n + j
      BY <2>3, <3>2
    <3> HIDE DEF u
    <3>4. (IF j <= win THEN v ELSE v - 1) < u
      BY <1>3, <1>8, <2>1, <2>3, <3>1, <3>3, LoserVisits
    <3>5. QED
      BY <2>4, <3>4 DEF u
  <2>7. win <= win /\ win \in Int
    BY <1>8
  <2>8. QED
    BY <2>3, <2>4, <2>5, <2>6, <2>7 DEF v
<1> HIDE DEF visits
<1>11. /\ rg \in Seq(Buckets) /\ Len(rg) = n /\ IsInjective(rg) /\ ToSet(rg) = ToSet(s.ring)
  <2>1. rg = TurnedTo(s.ring, win) /\ win \in 1..Len(s.ring) /\ n = Len(s.ring)
    BY <1>8 DEF TurnedTo, n
  <2> HIDE DEF rg
  <2>2. QED
    BY <1>2, <1>3, <2>1, TurnTo
<1>12. Quantum \in Nat /\ Quantum >= 1
  BY QueueAssumption
<1> HIDE DEF f
<1>13. ASSUME NEW g \in ToSet(s.ring), g # f, visits[g] # 0
       PROVE  df[g] \in Nat /\ tn[g] = 0 /\ df[g] < Head(s.subq[g]).size
  <2>1. visits[g] \in 1..(need(g) - 1)
    BY <1>6, <1>10, <1>13
  <2>2. Credit(s, g, visits[g]) < Head(s.subq[g]).size
    BY <1>6, <2>1
  <2>3. Credit(s, g, visits[g]) \in Nat
    <3> DEFINE b == visits[g] - s.turn[g]
    <3>1. b \in Nat /\ s.deficit[g] \in Nat
      <4>1. s.deficit[g] \in Nat /\ s.turn[g] \in {0, 1}
        BY <1>2, <1>4
      <4>2. visits[g] \in Nat /\ visits[g] >= 1
        BY <1>10, <1>13
      <4>3. QED
        BY <4>1, <4>2
    <3>2. Credit(s, g, visits[g]) = s.deficit[g] + Quantum * b
      BY DEF Credit
    <3> HIDE DEF b
    <3>3. Quantum * b \in Nat
      BY <1>12, <3>1
    <3>4. QED
      BY <3>1, <3>2, <3>3
  <2>4. df[g] = Credit(s, g, visits[g])
    BY <1>4, <1>13, <2>3 DEF Charge
  <2>5. tn[g] = 0
    BY <1>4, <1>10, <1>13
  <2>6. QED
    BY <2>2, <2>3, <2>4, <2>5
<1>14. df[f] \in Nat /\ tn[f] = 1 /\ df[f] < Quantum
  <2> DEFINE v == need(f)
             size == Head(s.subq[f]).size
  <2>1. v \in Nat \ {0} /\ visits[f] = v /\ f \in Buckets
    BY <1>4, <1>6, <1>9, <1>10
  <2>2. size \in Nat /\ size > 0
    BY <1>2, <1>4, <1>9, HeadIs
  <2>3. Credit(s, f, v) >= size /\ (v - 1 \in 1..(v - 1) => Credit(s, f, v - 1) < size)
    BY <1>6, <1>9
  <2>4. s.deficit[f] \in Nat /\ s.turn[f] \in {0, 1}
    BY <1>2, <2>1
  <2>5. Settled(s, f) /\ s.subq[f] # <<>>
    BY <1>4, <1>9, <2>1 DEF Deficits
  <2>6. df[f] = Credit(s, f, v) - size
    BY <1>9, <2>1 DEF Charge
  <2> HIDE DEF v
  <2>7. tn[f] = 1
    BY <2>1
  <2> DEFINE c == Credit(s, f, v)
             d == Credit(s, f, v - 1)
  <2>8. c \in Int /\ d \in Int /\ c = d + Quantum
    BY <1>12, <2>1, <2>4 DEF Credit
  <2>9. (s.turn[f] = 1 => s.deficit[f] < Quantum) /\ (s.turn[f] = 0 => s.deficit[f] < size)
    BY <2>4, <2>5 DEF Settled
  <2>10. v = 1 => c = s.deficit[f] + Quantum * (1 - s.turn[f])
    BY <2>4 DEF Credit
  <2>11. c - size < Quantum /\ c - size \in Nat
    <3>1. CASE v = 1
      <4>1. (s.turn[f] = 1 => c = s.deficit[f]) /\ (s.turn[f] = 0 => c = s.deficit[f] + Quantum)
        BY <1>12, <2>4, <2>10, <3>1
      <4> HIDE DEF c, size
      <4>2. QED
        BY <1>12, <2>2, <2>3, <2>4, <2>8, <2>9, <4>1 DEF c
    <3>2. CASE v # 1
      <4>1. v - 1 \in 1..(v - 1)
        BY <2>1, <3>2
      <4>2. d < size /\ c >= size
        BY <2>3, <4>1
      <4> HIDE DEF c, d, size
      <4>3. QED
        BY <1>12, <2>2, <2>8, <4>2
    <3>3. QED
      BY <3>1, <3>2
  <2>12. QED
    BY <2>6, <2>7, <2>11
<1>15. ASSUME NEW g \in Buckets, g # f, g \notin ToSet(s.ring) \/ visits[g] = 0
       PROVE  df[g] = s.deficit[g] /\ tn[g] = s.turn[g]
  BY <1>15
<1>16. df \in [Buckets -> Nat] /\ tn \in [Buckets -> {0, 1}]
  <2>1. \A g \in Buckets : df[g] \in Nat /\ tn[g] \in {0, 1}
    BY <1>2, <1>13, <1>14, <1>15
  <2>2. df = [g \in Buckets |-> df[g]] /\ tn = [g \in Buckets |-> tn[g]]
    OBVIOUS
  <2> HIDE DEF df, tn
  <2>3. QED
    BY <2>1, <2>2
<1> HIDE DEF df, tn, rg
<1>17. /\ t \in QueueFields /\ t.deficit = df /\ t.turn = tn /\ t.ring = rg /\ t.main = s.main
       /\ t.subq = s.subq /\ t.cnt = s.cnt /\ t.numFlows = s.numFlows /\ t.qcrt = s.qcrt
  BY <1>2, <1>11, <1>16 DEF QueueFields
<1> HIDE DEF t
<1>18. Base(t)
  BY <1>11, <1>17, TurnBase DEF n
<1>19. ASSUME NEW g \in Buckets PROVE Settled(t, g)
  <2>1. CASE g = f
    BY <1>14, <1>17, <2>1 DEF Settled
  <2>2. CASE g # f /\ (g \notin ToSet(s.ring) \/ visits[g] = 0)
    <3>1. t.deficit[g] = s.deficit[g] /\ t.turn[g] = s.turn[g] /\ t.subq[g] = s.subq[g]
      BY <1>15, <1>17, <2>2
    <3>2. Settled(s, g)
      BY DEF Deficits
    <3>3. QED
      BY <3>1, <3>2 DEF Settled
  <2>3. CASE g # f /\ g \in ToSet(s.ring) /\ visits[g] # 0
    <3>1. t.turn[g] = 0 /\ t.deficit[g] < Head(t.subq[g]).size /\ t.subq[g] # <<>>
      BY <1>4, <1>13, <1>17, <2>3
    <3>2. QED
      BY <3>1 DEF Settled
  <2>4. QED
    BY <2>1, <2>2, <2>3
<1>20. t.deficit[Prio] = 0
  <2>1. Prio \in Buckets /\ Prio # f
    BY <1>5, <1>9 DEF Buckets
  <2>2. QED
    BY <1>5, <1>15, <1>17, <2>1 DEF Deficits
<1>21. Deficits(t)
  BY <1>19, <1>20 DEF Deficits
<1>22. t.turn[f] = 1
  BY <1>14, <1>17
<1>23. QED
  BY <1>1, <1>9, <1>17, <1>18, <1>21, <1>22 DEF p

-----------------------------------------------------------------------------
(* The queue as a whole.                                                   *)

(* The settings the theorems below are about. A drop takes the packet that *)
(* has just arrived off the list of the bucket the victim belongs to: with *)
(* a list that is out of step only a policy that reads the main queue      *)
(* still works.                                                            *)
Covered == Overflows => Policy = "FIFO" /\ Prio \notin Arriving

(* WF2Q+ never unlinks an empty bucket: num_flows counts activations, and  *)
(* of the buckets only the routing packets' is idled.                      *)
Activations(s) == s.numFlows \in Nat /\ (s.cnt[Prio] # 0 => s.numFlows > 0)

Good(s) ==
    /\ Counted(s)
    /\ Policy # "WF2Q" => Linked(s)
    /\ Policy = "WF2Q" => Activations(s)
    /\ ~Overflows => Mirror(s) /\ Deficits(s) /\ ByteCounts(s)
    /\ Overflows => HeldBy(s.main, Prio) = {}

(* Packet p, the first of its bucket in the main queue m, goes before the  *)
(* packets of the bucket and after the routing packets.                    *)
InOrder(m, p) ==
    /\ \A k \in 1..Len(m) : m[k].flow = p.flow => \E i \in 1..k : m[i] = p
    /\ p.flow # Prio => HeldBy(m, Prio) = {}

(* A queue that has lost packet p of bucket f, whose links are in order.   *)
LEMMA TakeGood ==
    ASSUME NEW t, Good(t), NEW p \in ToSet(t.main), NEW f, f = p.flow,
           ~Overflows => t.turn[f] = 1 \/ t.deficit[f] = 0,
           NEW n, n = t.cnt[f] - 1, NEW u, TakesAs(u, t, f, n, p),
           u.main = RemoveFirst(t.main, p),
           Policy # "WF2Q" => Linked(u), Policy = "WF2Q" => Activations(u)
    PROVE  Good(u)
<1>1. Counted(t) /\ t \in QueueFields /\ t.main \in Seq(Packet)
  BY FieldTypes DEF Good, Counted
<1>2. PICK k \in 1..Len(t.main) : t.main[k] = p /\ RemoveFirst(t.main, p) = RemoveAt(t.main, k)
  BY <1>1, RemoveFirstIs
<1>3. p \in Packet /\ f \in Buckets
  BY <1>1, ElementsOf, PacketFields
<1>4. /\ f = t.main[k].flow /\ u.main = RemoveAt(t.main, k)
      /\ u \in QueueFields /\ u.cnt = [t.cnt EXCEPT ![f] = t.cnt[f] - 1]
  BY <1>2 DEF TakesAs
<1>5. Counted(u)
  BY <1>1, <1>4, LeaveCounted
<1>6. Without(t, k, f, u.main)
  BY <1>1, <1>4, OneFewer
<1>7. ASSUME ~Overflows PROVE Mirror(u) /\ Deficits(u) /\ ByteCounts(u)
  <2>1. Mirror(t) /\ Deficits(t) /\ ByteCounts(t)
    BY <1>7 DEF Good
  <2>2. Mirror(u)
    <3>1. TakesAs(u, t, f, n, t.main[k])
      BY <1>2
    <3>2. QED
      BY <1>1, <1>4, <2>1, <3>1, LeaveMirror
  <2>3. Deficits(u)
    <3>1. n \in Nat
      BY <1>6 DEF Without
    <3>2. QED
      BY <1>1, <1>3, <1>7, <2>1, <3>1, LeaveDeficits
  <2>4. ByteCounts(u)
    <3>1. p \in ToSet(t.subq[f])
      BY <1>3, <2>1 DEF Mirror, HeldBy
    <3>2. QED
      BY <1>1, <1>3, <2>1, <3>1, LeaveBytes
  <2>5. QED
    BY <2>2, <2>3, <2>4
<1>8. Overflows => HeldBy(u.main, Prio) = {}
  BY <1>6 DEF Good, HeldBy, Without
<1>9. QED
  BY <1>5, <1>7, <1>8 DEF Good

LEMMA LeaveGood ==
    ASSUME NEW t, Good(t), NEW p \in ToSet(t.main), NEW f, f = p.flow,
           ~Overflows => t.turn[f] = 1 \/ t.deficit[f] = 0,
           Policy = "WF2Q" => f = Prio
    PROVE  /\ Good(Left(t, f, p, RemoveFirst(t.main, p)))
           /\ Left(t, f, p, RemoveFirst(t.main, p)).main = RemoveFirst(t.main, p)
<1>1. Counted(t) /\ t \in QueueFields /\ t.main \in Seq(Packet)
  BY FieldTypes DEF Good, Counted
<1>2. PICK k \in 1..Len(t.main) : t.main[k] = p /\ RemoveFirst(t.main, p) = RemoveAt(t.main, k)
  BY <1>1, RemoveFirstIs
<1>3. p \in Packet /\ f \in Buckets
  BY <1>1, ElementsOf, PacketFields
<1>4. PICK m, n : m = RemoveFirst(t.main, p) /\ n = t.cnt[f] - 1
  OBVIOUS
<1>5. PICK u : u = Left(t, f, p, m)
  OBVIOUS
<1>6. m \in Seq(Packet) /\ n \in Nat
  <2>1. Without(t, k, f, m)
    <3>1. f = t.main[k].flow /\ m = RemoveAt(t.main, k)
      BY <1>2, <1>4
    <3>2. QED
      BY <1>1, <3>1, OneFewer
  <2>2. QED
    BY <1>4, <2>1 DEF Without
<1>7. LeavesAs(u, t, f, n, p, m)
  BY <1>1, <1>3, <1>4, <1>5, <1>6, LeftFields
<1>8. TakesAs(u, t, f, n, p) /\ u.main = m
  BY <1>7 DEF LeavesAs
<1>9. ASSUME Policy # "WF2Q" PROVE Linked(u)
  <2>1. Base(t)
    BY <1>9 DEF Good, Base
  <2>2. u = Left(t, t.main[k].flow, p, RemoveAt(t.main, k))
    BY <1>2, <1>4, <1>5
  <2>3. QED
    BY <1>3, <2>1, <2>2, LeaveBase DEF Base
<1>10. ASSUME Policy = "WF2Q" PROVE Activations(u)
  <2>1. Activations(t) /\ f = Prio /\ t.cnt \in [Buckets -> Nat]
    BY <1>1, <1>10, FieldTypes DEF Good
  <2>2. u.cnt[f] = n /\ u.numFlows = IF n = 0 THEN t.numFlows - 1 ELSE t.numFlows
    BY <1>3, <1>7, <2>1 DEF LeavesAs, TakesAs
  <2>3. t.cnt[f] = n + 1
    BY <1>3, <1>4, <2>1
  <2>4. QED
    BY <1>6, <2>1, <2>2, <2>3 DEF Activations
<1>11. Good(u)
  BY <1>4, <1>8, <1>9, <1>10, TakeGood
<1>12. QED
  BY <1>4, <1>5, <1>8, <1>11

(* p is the first packet of bucket f in m.                                 *)
First(m, f, p) ==
    /\ p \in ToSet(m) /\ p.flow = f
    /\ \A k \in 1..Len(m) : m[k].flow = p.flow => \E i \in 1..k : m[i] = p

(* The packet at the front of a list is the bucket's first in the main     *)
(* queue.                                                                  *)
LEMMA FrontIsFirst ==
    ASSUME NEW s, Counted(s), Mirror(s), NEW f \in Buckets, HeldBy(s.main, f) # {}
    PROVE  First(s.main, f, Head(s.subq[f]))
<1> DEFINE a == s.subq[f]
           p == Head(a)
           m == s.main
<1>1. m \in Seq(Packet) /\ a \in Seq(Packet)
  BY FieldTypes DEF Counted
<1>2. ToSet(a) = HeldBy(m, f) /\ SameOrder(a, m)
  BY DEF Mirror
<1> HIDE DEF a, m
<1>3. a # <<>> /\ Len(a) \in Nat /\ Len(a) # 0
  BY <1>1, <1>2, ElementsOf DEF m
<1>4. 1 \in 1..Len(a)
  BY <1>3
<1>5. p = a[1]
  BY <1>1, <1>3
<1>6. p \in HeldBy(m, f)
  BY <1>1, <1>2, <1>4, <1>5, ElementsOf
<1>7. p \in ToSet(m) /\ p.flow = f
  BY <1>6 DEF HeldBy
<1> HIDE DEF p
<1>8. ASSUME NEW k \in 1..Len(m), m[k].flow = f PROVE \E i \in 1..k : m[i] = p
  <2>1. m[k] \in HeldBy(m, f)
    BY <1>1, <1>8, ElementsOf DEF HeldBy
  <2>2. PICK j \in 1..Len(a) : a[j] = m[k]
    BY <1>1, <1>2, <2>1, ElementsOf
  <2>3. PICK i \in 1..Len(m) : m[i] = p
    BY <1>1, <1>7, ElementsOf
  <2>4. CASE j = 1
    <3>1. k \in 1..k /\ m[k] = p
      BY <1>5, <2>2, <2>4
    <3>2. QED
      BY <3>1
  <2>5. CASE j # 1
    <3>1. 1 < j
      BY <2>5
    <3>2. 1 < j <=> i < k
      BY <1>1, <1>2, <1>4, <1>5, <2>2, <2>3, SameOrderIs
    <3>3. i \in 1..k
      BY <3>1, <3>2
    <3>4. QED
      BY <2>3, <3>3
  <2>6. QED
    BY <2>4, <2>5
<1>9. QED
  BY <1>7, <1>8 DEF First, p, a, m

(* What a selection sel from the queue s yields: either a packet, in       *)
(* order, and a queue in good shape without it, or nothing; only WF2Q+     *)
(* yields nothing from a queue that holds packets.                         *)
SelectsWell(s, sel) ==
    \/ sel = <<NoPacket, s>> /\ (Policy # "WF2Q" => s.main = <<>>)
    \/ /\ sel[1] \in ToSet(s.main) /\ sel[2].main = s.main
       /\ InOrder(s.main, sel[1])
       /\ Good([sel[2] EXCEPT !.main = RemoveFirst(s.main, sel[1])])
       /\ [sel[2] EXCEPT !.main = RemoveFirst(s.main, sel[1])].main = RemoveFirst(s.main, sel[1])

(* A selection that takes p off its bucket and then idles it. *)
LEMMA TakesWell ==
    ASSUME NEW s, NEW t, Good(t), t.main = s.main, NEW p \in ToSet(s.main), NEW f, f = p.flow,
           ~Overflows => t.turn[f] = 1 \/ t.deficit[f] = 0, InOrder(s.main, p),
           Policy = "WF2Q" => f = Prio
    PROVE  SelectsWell(s, <<p, IdleIfEmpty(TakeFrom(t, f, p), f)>>)
<1> DEFINE r == IdleIfEmpty(TakeFrom(t, f, p), f)
           m == RemoveFirst(s.main, p)
<1>1. "main" \in DOMAIN t
  BY DEF Good, Counted, QueueFields
<1>2. r.main = s.main
  BY <1>1, LeaveKeepsMain
<1>3. Good(Left(t, f, p, m)) /\ Left(t, f, p, m).main = m
  BY LeaveGood
<1>4. [r EXCEPT !.main = m] = Left(t, f, p, m)
  BY DEF Left
<1> HIDE DEF r, m
<1>5. QED
  BY <1>2, <1>3, <1>4 DEF SelectsWell, r, m

LEMMA FifoSelectsWell ==
    ASSUME NEW s, Good(s), Policy = "FIFO", HeldBy(s.main, Prio) = {}
    PROVE  SelectsWell(s, select_packet_fifo(s))
<1>1. s.main \in Seq(Packet)
  BY FieldTypes DEF Good, Counted
<1>2. CASE s.main = <<>>
  BY <1>2 DEF select_packet_fifo, SelectsWell
<1>3. CASE s.main # <<>>
  <2> DEFINE p == Head(s.main)
  <2>1. Len(s.main) \in Nat /\ Len(s.main) # 0 /\ p = s.main[1]
    BY <1>1, <1>3, ElementsOf
  <2>2. 1 \in 1..Len(s.main)
    BY <2>1
  <2>3. p \in ToSet(s.main) /\ p \in Packet
    BY <1>1, <2>1, <2>2, ElementsOf
  <2>4. \A k \in 1..Len(s.main) : 1 \in 1..k
    BY <2>1
  <2>5. InOrder(s.main, p)
    BY <2>1, <2>4 DEF InOrder
  <2>6. ~Overflows => s.turn[p.flow] = 1 \/ s.deficit[p.flow] = 0
    BY <2>3, PacketFields DEF Good, Deficits
  <2>7. select_packet_fifo(s) = <<p, IdleIfEmpty(TakeFrom(s, p.flow, p), p.flow)>>
    BY <1>3 DEF select_packet_fifo
  <2> HIDE DEF p
  <2>8. QED
    BY <2>3, <2>5, <2>6, <2>7, TakesWell
<1>4. QED
  BY <1>2, <1>3

LEMMA RrSelectsWell ==
    ASSUME NEW s, Good(s), ~Overflows, Policy = "RR", HeldBy(s.main, Prio) = {}, s.numFlows > 0
    PROVE  SelectsWell(s, select_packet_rr(s))
<1> DEFINE f == Head(s.ring)
           p == Head(s.subq[f])
           m == RemoveFirst(s.main, p)
           t == IdleIfEmpty(TakeFrom(s, f, p), f)
           r == [t EXCEPT !.ring = Rotate(t.ring)]
           u == Left(s, f, p, m)
<1>1. Base(s) /\ Mirror(s) /\ Deficits(s) /\ s.ring \in Seq(Buckets) /\ s.numFlows = Len(s.ring)
  BY FieldTypes DEF Good, Base, Counted, Linked
<1>2. f \in ToSet(s.ring)
  <2>1. 1 \in 1..Len(s.ring) /\ s.ring # <<>>
    BY <1>1, ElementsOf
  <2>2. f = s.ring[1]
    BY <1>1, <2>1
  <2>3. QED
    BY <1>1, <2>1, <2>2, ElementsOf
<1>3. f \in Buckets /\ HeldBy(s.main, f) # {}
  BY <1>1, <1>2 DEF Base, Linked
<1> HIDE DEF f
<1>4. p \in ToSet(s.main) /\ f = p.flow /\ InOrder(s.main, p)
  <2>1. First(s.main, f, p)
    BY <1>1, <1>3, FrontIsFirst DEF Base
  <2> HIDE DEF p
  <2>2. QED
    BY <2>1 DEF First, InOrder
<1>5. s.deficit[f] = 0
  BY <1>1, <1>3 DEF Deficits
<1> HIDE DEF p
<1>6. Good(u) /\ u.main = m
  BY <1>4, <1>5, LeaveGood
<1>7. u = [t EXCEPT !.main = m]
  BY DEF Left
<1>8. "main" \in DOMAIN s
  BY <1>1 DEF Base, Counted, Linked, QueueFields
<1>9. t.main = s.main /\ "main" \in DOMAIN t
  BY <1>8, LeaveKeepsMain
<1> HIDE DEF u, t, m
<1> DEFINE z == [u EXCEPT !.ring = Rotate(u.ring)]
<1>10. u \in QueueFields /\ u.ring \in Seq(Buckets) /\ IsInjective(u.ring)
  BY <1>6, FieldTypes DEF Good, Base, Counted, Linked
<1>11. /\ Rotate(u.ring) \in Seq(Buckets) /\ Len(Rotate(u.ring)) = Len(u.ring)
       /\ IsInjective(Rotate(u.ring)) /\ ToSet(Rotate(u.ring)) = ToSet(u.ring)
  BY <1>10, RotateIs
<1>12. /\ z \in QueueFields /\ z.main = u.main /\ z.subq = u.subq /\ z.cnt = u.cnt
       /\ z.ring = Rotate(u.ring) /\ z.numFlows = u.numFlows /\ z.turn = u.turn
       /\ z.deficit = u.deficit /\ z.qcrt = u.qcrt
  BY <1>10, <1>11 DEF QueueFields
<1>13. [r EXCEPT !.main = m] = z
  <2>1. t.ring = u.ring
    BY <1>7
  <2>2. [r EXCEPT !.main = m] = [t EXCEPT !.ring = Rotate(u.ring), !.main = m]
    BY <2>1
  <2>3. z = [t EXCEPT !.main = m, !.ring = Rotate(u.ring)]
    BY <1>7
  <2>4. QED
    BY <2>2, <2>3
<1> HIDE DEF z
<1>14. Good(z)
  <2>1. Base(z)
    <3>1. Base(u)
      BY <1>6 DEF Good, Base
    <3>2. QED
      BY <1>11, <1>12, <3>1, TurnBase
  <2>2. Mirror(z)
    BY <1>6, <1>12 DEF Good, Mirror
  <2>3. Deficits(z)
    <3>1. Deficits(u)
      BY <1>6 DEF Good
    <3>2. \A g \in Buckets : Settled(u, g) => Settled(z, g)
      BY <1>12 DEF Settled
    <3>3. QED
      BY <1>12, <3>1, <3>2 DEF Deficits
  <2>4. ByteCounts(z)
    BY <1>6, <1>12 DEF Good, ByteCounts
  <2>5. QED
    BY <2>1, <2>2, <2>3, <2>4 DEF Good, Base
<1>15. r.main = s.main
  BY <1>9
<1>16. select_packet_rr(s) = <<p, r>>
  BY DEF select_packet_rr, p, f, t
<1> HIDE DEF r
<1>17. QED
  BY <1>4, <1>6, <1>12, <1>13, <1>14, <1>15, <1>16 DEF SelectsWell, m

LEMMA DrrSelectsWell ==
    ASSUME NEW s, Good(s), ~Overflows, Policy = "DRR", HeldBy(s.main, Prio) = {}, s.numFlows > 0
    PROVE  SelectsWell(s, select_packet_drr(s))
<1>1. Base(s) /\ Counted(s) /\ Linked(s) /\ Mirror(s) /\ Deficits(s)
  BY DEF Good, Base
<1>2. s.cnt[Prio] = 0
  <2>1. Prio \in Buckets
    BY DEF Buckets
  <2>2. QED
    BY <1>1, <2>1, CountTells
<1>3. PICK t \in QueueFields, f \in ToSet(s.ring) :
         /\ select_packet_drr(s) =
               <<Head(s.subq[f]), IdleIfEmpty(TakeFrom(t, f, Head(s.subq[f])), f)>>
         /\ Base(t) /\ Deficits(t) /\ t.main = s.main /\ t.subq = s.subq /\ t.turn[f] = 1
         /\ t.qcrt = s.qcrt
  BY <1>1, <1>2, DrrVisits
<1> DEFINE p == Head(s.subq[f])
<1>4. Mirror(t)
  BY <1>1, <1>3 DEF Mirror
<1>5. Good(t)
  <2>1. ByteCounts(t)
    BY <1>3 DEF Good, ByteCounts
  <2>2. QED
    BY <1>3, <1>4, <2>1 DEF Good, Base
<1>6. f \in Buckets /\ HeldBy(s.main, f) # {}
  BY <1>1 DEF Linked
<1>7. p \in ToSet(s.main) /\ f = p.flow /\ InOrder(s.main, p)
  <2>1. First(s.main, f, p)
    BY <1>1, <1>6, FrontIsFirst
  <2> HIDE DEF p
  <2>2. QED
    BY <2>1 DEF First, InOrder
<1>8. select_packet_drr(s) = <<p, IdleIfEmpty(TakeFrom(t, f, p), f)>>
  BY <1>3
<1> HIDE DEF p
<1>9. QED
  BY <1>3, <1>5, <1>7, <1>8, TakesWell

-----------------------------------------------------------------------------
(* The weights of the backlogged buckets. This fold is a recursive         *)
(* function on the sets of buckets; it exists, by induction on their       *)
(* cardinality, and its values are natural numbers.                        *)
Some(s) == CHOOSE x \in s : TRUE

(* it sums the weights of the sets in D, which has what it needs.          *)
WeightsIn(it, D) ==
    it = [s \in D |-> IF s = {} THEN 0 ELSE Weight[Some(s)] + it[s \ {Some(s)}]]

LEMMA SumFold ==
    ASSUME NEW F
    PROVE  SumOfWeights(F) = (CHOOSE it : WeightsIn(it, SUBSET F))[F]
BY DEF SumOfWeights, MapThenSumSet, MapThenFoldSet, WeightsIn, Some

(* A set of buckets without one of them is smaller.                        *)
LEMMA OneLess ==
    ASSUME NEW F, IsFiniteSet(F), NEW s \in SUBSET F, s # {}
    PROVE  /\ s \ {Some(s)} \in SUBSET F /\ Some(s) \in F
           /\ Cardinality(s) \in Nat \ {0}
           /\ Cardinality(s \ {Some(s)}) = Cardinality(s) - 1
<1>1. IsFiniteSet(s)
  BY FS_Subset
<1>2. Some(s) \in s
  BY DEF Some
<1>3. Cardinality(s) \in Nat /\ Cardinality(s) # 0
  BY <1>1, FS_CardinalityType, FS_EmptySet
<1>4. Cardinality(s \ {Some(s)}) = Cardinality(s) - 1
  BY <1>1, <1>2, FS_RemoveElement
<1>5. QED
  BY <1>2, <1>3, <1>4

UpTo(F, n) == {s \in SUBSET F : Cardinality(s) <= n}

(* The function exists on the sets of at most m buckets.                   *)
LEMMA WeightsExist ==
    ASSUME NEW F, IsFiniteSet(F), NEW m \in Nat
    PROVE  \E it : WeightsIn(it, UpTo(F, m))
<1> DEFINE Bad == {n \in Nat : ~\E it : WeightsIn(it, UpTo(F, n))}
<1> SUFFICES ASSUME Bad # {} PROVE FALSE
  OBVIOUS
<1>1. PICK n \in Bad : \A k \in Bad : n <= k
  BY Bad \subseteq Nat, SmallestExists
<1>2. n # 0
  <2> SUFFICES ASSUME n = 0 PROVE FALSE
    OBVIOUS
  <2>1. ASSUME NEW s \in UpTo(F, 0) PROVE s = {}
    <3>1. s \in SUBSET F /\ Cardinality(s) <= 0
      BY DEF UpTo
    <3>2. s # {} => Cardinality(s) \in Nat \ {0}
      BY <3>1, OneLess
    <3>3. QED
      BY <3>1, <3>2
  <2>2. PICK it : it = [s \in UpTo(F, 0) |-> 0]
    OBVIOUS
  <2>3. WeightsIn(it, UpTo(F, 0))
    BY <2>1, <2>2 DEF WeightsIn
  <2>4. QED
    BY <2>3
<1>3. PICK l \in Nat : l = n - 1 /\ n = l + 1
  BY <1>2
<1>4. PICK it : WeightsIn(it, UpTo(F, l))
  <2>1. l \notin Bad
    BY <1>1, <1>3
  <2>2. QED
    BY <2>1
<1> HIDE DEF Bad
<1>5. PICK jt : jt = [s \in UpTo(F, n) |->
                         IF s = {} THEN 0 ELSE Weight[Some(s)] + it[s \ {Some(s)}]]
  OBVIOUS
<1>6. ASSUME NEW s \in UpTo(F, n), s # {} PROVE jt[s \ {Some(s)}] = it[s \ {Some(s)}]
  <2>1. s \in SUBSET F /\ Cardinality(s) <= n
    BY DEF UpTo
  <2>2. /\ s \ {Some(s)} \in SUBSET F /\ Cardinality(s) \in Nat
        /\ Cardinality(s \ {Some(s)}) = Cardinality(s) - 1
    BY <1>6, <2>1, OneLess
  <2> DEFINE r == s \ {Some(s)}
  <2>3. r \in SUBSET F /\ Cardinality(r) <= l /\ Cardinality(r) <= n
    BY <1>3, <2>1, <2>2
  <2> HIDE DEF r
  <2>4. r \in UpTo(F, l) /\ r \in UpTo(F, n)
    BY <2>3 DEF UpTo
  <2>5. it[r] = IF r = {} THEN 0 ELSE Weight[Some(r)] + it[r \ {Some(r)}]
    BY <1>4, <2>4 DEF WeightsIn
  <2>6. jt[r] = it[r]
    BY <1>5, <2>4, <2>5
  <2>7. QED
    BY <2>6 DEF r
<1>7. WeightsIn(jt, UpTo(F, n))
  <2>1. [s \in UpTo(F, n) |-> IF s = {} THEN 0 ELSE Weight[Some(s)] + it[s \ {Some(s)}]]
        = [s \in UpTo(F, n) |-> IF s = {} THEN 0 ELSE Weight[Some(s)] + jt[s \ {Some(s)}]]
    BY <1>6
  <2>2. QED
    BY <1>5, <2>1 DEF WeightsIn
<1>8. QED
  BY <1>1, <1>7 DEF Bad

LEMMA SumTyped ==
    ASSUME NEW F \in SUBSET Flows
    PROVE  SumOfWeights(F) \in Nat
<1>1. IsFiniteSet(F) /\ IsFiniteSet(Flows)
  BY QueueAssumption, FS_Subset
<1>2. PICK n \in Nat : n = Cardinality(F)
  BY <1>1, FS_CardinalityType
<1>3. UpTo(F, n) = SUBSET F
  <2>1. ASSUME NEW s \in SUBSET F PROVE Cardinality(s) <= n
    BY <1>1, <1>2, FS_Subset
  <2>2. QED
    BY <2>1 DEF UpTo
<1>4. PICK it : it = (CHOOSE g : WeightsIn(g, SUBSET F))
  OBVIOUS
<1>5. WeightsIn(it, SUBSET F)
  <2>1. \E g : WeightsIn(g, UpTo(F, n))
    BY <1>1, WeightsExist
  <2>2. \E g : WeightsIn(g, SUBSET F)
    BY <1>3, <2>1
  <2>3. QED
    BY <1>4, <2>2
<1> DEFINE Bad == {k \in Nat : \E s \in SUBSET F : Cardinality(s) = k /\ it[s] \notin Nat}
<1>6. Bad = {}
  <2> SUFFICES ASSUME Bad # {} PROVE FALSE
    OBVIOUS
  <2>1. PICK k \in Bad : \A j \in Bad : k <= j
    BY Bad \subseteq Nat, SmallestExists
  <2>2. PICK s \in SUBSET F : Cardinality(s) = k /\ it[s] \notin Nat
    OBVIOUS
  <2>3. it[s] = IF s = {} THEN 0 ELSE Weight[Some(s)] + it[s \ {Some(s)}]
    BY <1>5 DEF WeightsIn
  <2>4. s # {}
    BY <2>2, <2>3
  <2> DEFINE r == s \ {Some(s)}
  <2>5. /\ r \in SUBSET F /\ Some(s) \in F /\ k \in Nat \ {0}
        /\ Cardinality(r) = k - 1
    BY <1>1, <2>2, <2>4, OneLess
  <2> HIDE DEF r
  <2>6. it[r] \in Nat
    <3>1. k - 1 \in Nat /\ ~(k <= k - 1)
      BY <2>5
    <3>2. k - 1 \notin Bad
      BY <2>1, <3>1
    <3>3. QED
      BY <2>5, <3>1, <3>2
  <2>7. Weight[Some(s)] \in Nat
    BY <2>5, QueueAssumption DEF Buckets
  <2>8. QED
    BY <2>2, <2>3, <2>4, <2>6, <2>7 DEF r
<1>7. it[F] \in Nat
  BY <1>2, <1>6
<1>8. QED
  BY <1>4, <1>7, SumFold

-----------------------------------------------------------------------------
(* Worst-case fair weighted fair queueing.                                 *)

(* v has the packets, the links and the credit of t.                       *)
Restamped(v, t) ==
    /\ v \in QueueFields /\ v.main = t.main /\ v.subq = t.subq /\ v.cnt = t.cnt
    /\ v.qcrt = t.qcrt /\ v.ring = t.ring /\ v.numFlows = t.numFlows
    /\ v.turn = t.turn /\ v.deficit = t.deficit

(* The stamps of the next packet of bucket f, if there is one.             *)
Advanced(s, t, f, p) ==
    IF t.cnt[f] = 0 THEN t
    ELSE [t EXCEPT !.start[f] = s.finish[f],
                   !.finish[f] = s.finish[f] + p.size \div Weight[f]]

LEMMA AdvancedFields ==
    ASSUME NEW s \in QueueFields, NEW t \in QueueFields, NEW f \in Buckets, NEW p \in Packet
    PROVE  Restamped(Advanced(s, t, f, p), t)
<1>1. CASE t.cnt[f] = 0
  BY <1>1 DEF Advanced, Restamped
<1>2. CASE t.cnt[f] # 0
  <2>1. /\ s.finish[f] \in Nat /\ p.size \in Nat /\ Weight[f] \in Nat \ {0}
        /\ t.start \in [Buckets -> Nat] /\ t.finish \in [Buckets -> Nat]
    BY FieldTypes, PacketFields, QueueAssumption
  <2>2. PICK d \in Nat : d = p.size \div Weight[f]
    BY <2>1, QuotientNat
  <2>3. PICK st, fi : /\ st = [t.start EXCEPT ![f] = s.finish[f]]
                      /\ fi = [t.finish EXCEPT ![f] = s.finish[f] + d]
    OBVIOUS
  <2>4. st \in [Buckets -> Nat] /\ fi \in [Buckets -> Nat]
    BY <2>1, <2>3
  <2>5. Advanced(s, t, f, p) = [t EXCEPT !.start = st, !.finish = fi]
    BY <1>2, <2>2, <2>3 DEF Advanced
  <2>6. QED
    BY <2>4, <2>5 DEF QueueFields, Restamped
<1>3. QED
  BY <1>1, <1>2

(* The virtual clock after packet p of bucket f.                           *)
Clocked(u, f, p) ==
    LET W == SumOfWeights({g \in Flows : u.qcrt[g] # 0})
    IN  IF W = 0 THEN u
        ELSE [u EXCEPT !.vclock = Maximum(MinStart(u, u.start[f]), @ + p.size \div W)]

LEMMA ClockedFields ==
    ASSUME NEW u \in QueueFields, NEW f \in Buckets, NEW p \in Packet
    PROVE  Restamped(Clocked(u, f, p), u)
<1>1. PICK W : W = SumOfWeights({g \in Flows : u.qcrt[g] # 0})
  OBVIOUS
<1>2. W \in Nat
  <2>1. {g \in Flows : u.qcrt[g] # 0} \in SUBSET Flows
    OBVIOUS
  <2>2. QED
    BY <1>1, <2>1, SumTyped
<1>3. CASE W = 0
  BY <1>1, <1>3 DEF Clocked, Restamped
<1>4. CASE W # 0
  <2>1. PICK d \in Nat : d = p.size \div W
    BY <1>2, <1>4, PacketFields, QuotientNat
  <2>2. u.start[f] \in Nat /\ u.vclock \in Nat
    BY FieldTypes
  <2>3. PICK a \in Nat : a = MinStart(u, u.start[f])
    BY <2>2, MinStartTyped
  <2>4. PICK c \in Nat : c = Maximum(a, u.vclock + d)
    BY <2>2 DEF Maximum
  <2>5. Clocked(u, f, p) = [u EXCEPT !.vclock = c]
    BY <1>1, <1>4, <2>1, <2>3, <2>4 DEF Clocked
  <2>6. QED
    BY <2>5 DEF QueueFields, Restamped
<1>5. QED
  BY <1>3, <1>4

(* Bucket g finishes first of those in E, the lower number of two that     *)
(* finish together.                                                        *)
Earliest(s, E, g) ==
    \A h \in E : \/ s.finish[g] < s.finish[h]
                 \/ s.finish[g] = s.finish[h] /\ g <= h

LEMMA EarliestExists ==
    ASSUME NEW s \in QueueFields, NEW E \in SUBSET Flows, E # {}
    PROVE  \E g \in E : Earliest(s, E, g)
<1>1. \A g \in E : g \in Nat /\ s.finish[g] \in Nat
  BY FieldTypes, QueueAssumption DEF Buckets
<1>2. PICK S : S = {s.finish[g] : g \in E}
  OBVIOUS
<1>3. PICK x \in S : \A y \in S : x <= y
  <2>1. S \subseteq Nat /\ S # {}
    BY <1>1, <1>2
  <2>2. QED
    BY <2>1, SmallestExists
<1>4. PICK R : R = {g \in E : s.finish[g] = x}
  OBVIOUS
<1>5. PICK g \in R : \A h \in R : g <= h
  <2>1. R \subseteq Nat /\ R # {}
    BY <1>1, <1>2, <1>4
  <2>2. QED
    BY <2>1, SmallestExists
<1>6. g \in E /\ s.finish[g] = x
  BY <1>4
<1>7. ASSUME NEW h \in E
      PROVE  s.finish[g] < s.finish[h] \/ (s.finish[g] = s.finish[h] /\ g <= h)
  <2>1. s.finish[h] \in S /\ x <= s.finish[h] /\ s.finish[h] \in Nat /\ x \in Nat
    BY <1>1, <1>2, <1>3, <1>6
  <2>2. CASE s.finish[h] = x
    BY <1>4, <1>5, <1>6, <2>2
  <2>3. CASE s.finish[h] # x
    BY <1>6, <2>1, <2>3
  <2>4. QED
    BY <2>2, <2>3
<1>8. Earliest(s, E, g)
  BY <1>7 DEF Earliest
<1>9. QED
  BY <1>6, <1>8

Eligible(s) == {f \in Flows : s.qcrt[f] # 0 /\ s.start[f] <= s.vclock}
Winner(s) == CHOOSE g \in Eligible(s) : Earliest(s, Eligible(s), g)

(* The selection, in the terms above.                                      *)
LEMMA Wf2qIs ==
    ASSUME NEW s, NEW f, f = Winner(s), NEW p, p = Head(s.subq[f])
    PROVE  select_packet_wf2q(s) =
               IF Eligible(s) = {} THEN <<NoPacket, s>>
               ELSE <<p, Clocked(Advanced(s, TakeFrom(s, f, p), f, p), f, p)>>
  BY DEF select_packet_wf2q, Winner, Eligible, Earliest, Advanced, Clocked

LEMMA Wf2qSelectsWell ==
    ASSUME NEW s, Good(s), ~Overflows, Policy = "WF2Q", HeldBy(s.main, Prio) = {}
    PROVE  SelectsWell(s, select_packet_wf2q(s))
<1>1. /\ Counted(s) /\ s \in QueueFields /\ Mirror(s) /\ Deficits(s) /\ ByteCounts(s)
      /\ Activations(s) /\ s.main \in Seq(Packet) /\ s.subq \in [Buckets -> Seq(Packet)]
      /\ s.cnt \in [Buckets -> Nat]
  BY FieldTypes DEF Good, Counted
<1>2. PICK E : E = Eligible(s)
  OBVIOUS
<1>3. CASE E = {}
  <2>1. select_packet_wf2q(s) = <<NoPacket, s>>
    BY <1>2, <1>3, Wf2qIs
  <2>2. QED
    BY <2>1 DEF SelectsWell
<1>4. CASE E # {}
  <2>1. PICK f : f = Winner(s)
    OBVIOUS
  <2>2. f \in Flows /\ f \in Buckets /\ f # Prio /\ s.qcrt[f] # 0
    <3>1. E \in SUBSET Flows
      BY <1>2 DEF Eligible
    <3>2. \E g \in E : Earliest(s, E, g)
      BY <1>1, <1>4, <3>1, EarliestExists
    <3>3. f \in E
      BY <1>2, <2>1, <3>2 DEF Winner
    <3>4. f \in Flows /\ s.qcrt[f] # 0
      BY <1>2, <3>3 DEF Eligible
    <3>5. QED
      BY <3>4, QueueAssumption DEF Buckets, Prio
  <2>3. HeldBy(s.main, f) # {}
    <3>1. s.subq[f] # <<>>
      BY <1>1, <2>2, BytesEmpty DEF ByteCounts
    <3>2. s.subq[f] \in Seq(Packet)
      BY <1>1, <2>2
    <3>3. ToSet(s.subq[f]) # {}
      BY <3>1, <3>2, ElementsOf
    <3>4. QED
      BY <1>1, <2>2, <3>3 DEF Mirror
  <2>4. PICK p : p = Head(s.subq[f])
    OBVIOUS
  <2>5. p \in ToSet(s.main) /\ p.flow = f /\ InOrder(s.main, p)
    <3>1. First(s.main, f, p)
      BY <1>1, <2>2, <2>3, <2>4, FrontIsFirst
    <3>2. QED
      BY <3>1 DEF First, InOrder
  <2>6. p \in Packet
    BY <1>1, <2>5, ElementsOf
  <2>7. PICK m : m = RemoveFirst(s.main, p)
    OBVIOUS
  <2>8. PICK k \in 1..Len(s.main) : s.main[k] = p /\ m = RemoveAt(s.main, k)
    BY <1>1, <2>5, <2>7, RemoveFirstIs
  <2>9. PICK n : n = s.cnt[f] - 1
    OBVIOUS
  <2>10. n \in Nat /\ m \in Seq(Packet)
    <3>1. Without(s, k, f, m)
      BY <1>1, <2>5, <2>8, OneFewer
    <3>2. QED
      BY <2>9, <3>1 DEF Without
  <2>11. PICK t : t = TakeFrom(s, f, p)
    OBVIOUS
  <2>12. TakesAs(t, s, f, n, p) /\ t.main = s.main /\ t.numFlows = s.numFlows
    BY <1>1, <2>2, <2>6, <2>9, <2>10, <2>11, TakenFields
  <2>13. t \in QueueFields
    BY <2>12 DEF TakesAs
  <2>14. PICK u : u = Advanced(s, t, f, p)
    OBVIOUS
  <2>15. Restamped(u, t) /\ u \in QueueFields
    <3>1. Restamped(u, t)
      BY <1>1, <2>2, <2>6, <2>13, <2>14, AdvancedFields
    <3>2. QED
      BY <3>1 DEF Restamped
  <2>16. PICK r : r = Clocked(u, f, p)
    OBVIOUS
  <2>17. Restamped(r, u)
    BY <2>2, <2>6, <2>15, <2>16, ClockedFields
  <2>18. select_packet_wf2q(s) = <<p, r>>
    BY <1>2, <1>4, <2>1, <2>4, <2>11, <2>14, <2>16, Wf2qIs
  <2>19. PICK z : z = [r EXCEPT !.main = m]
    OBVIOUS
  <2>20. Restamped(r, t)
    BY <2>15, <2>17 DEF Restamped
  <2>21. /\ z \in QueueFields /\ z.main = m /\ z.subq = t.subq /\ z.cnt = t.cnt
         /\ z.qcrt = t.qcrt /\ z.numFlows = t.numFlows /\ z.turn = t.turn
         /\ z.deficit = t.deficit
    <3>1. r \in QueueFields /\ r.subq = t.subq /\ r.cnt = t.cnt
          /\ r.qcrt = t.qcrt /\ r.numFlows = t.numFlows /\ r.turn = t.turn
          /\ r.deficit = t.deficit
      BY <2>20 DEF Restamped
    <3>2. QED
      BY <2>10, <2>19, <3>1 DEF QueueFields
  <2>22. TakesAs(z, s, f, n, p)
    BY <2>12, <2>21 DEF TakesAs
  <2>23. Activations(z)
    <3>1. z.cnt[Prio] = s.cnt[Prio]
      BY <1>1, <2>2, <2>22 DEF TakesAs, Buckets
    <3>2. QED
      BY <1>1, <2>12, <2>21, <3>1 DEF Activations
  <2>24. Good(z)
    <3>1. s.deficit[f] = 0
      BY <1>1, <2>2 DEF Deficits
    <3>2. QED
      BY <2>5, <2>7, <2>9, <2>21, <2>22, <2>23, <3>1, TakeGood
  <2>25. r.main = s.main
    BY <2>12, <2>20 DEF Restamped
  <2>26. QED
    BY <2>5, <2>7, <2>18, <2>19, <2>21, <2>24, <2>25 DEF SelectsWell
<1>5. QED
  BY <1>3, <1>4

(* Routing packets first, then the policy. *)
LEMMA Selection ==
    ASSUME Covered, NEW s, Good(s)
    PROVE  SelectsWell(s, select_packet_prio_first(s))
<1>1. Counted(s) /\ Prio \in Buckets /\ s.main \in Seq(Packet) /\ s.ring \in Seq(Buckets)
  BY FieldTypes DEF Good, Counted, Buckets
<1>2. s.cnt[Prio] = 0 <=> HeldBy(s.main, Prio) = {}
  BY <1>1, CountTells
<1>3. CASE s.cnt[Prio] # 0
  <2> DEFINE p == Head(s.subq[Prio])
  <2>1. ~Overflows /\ HeldBy(s.main, Prio) # {}
    BY <1>2, <1>3 DEF Good
  <2>2. Mirror(s) /\ Deficits(s)
    BY <2>1 DEF Good
  <2>3. p \in ToSet(s.main) /\ Prio = p.flow /\ InOrder(s.main, p)
    <3>1. First(s.main, Prio, p)
      BY <1>1, <2>1, <2>2, FrontIsFirst
    <3> HIDE DEF p
    <3>2. QED
      BY <3>1 DEF First, InOrder
  <2>4. s.deficit[Prio] = 0
    BY <2>2 DEF Deficits
  <2>5. select_packet_prio_first(s) = <<p, IdleIfEmpty(TakeFrom(s, Prio, p), Prio)>>
    BY <1>3 DEF select_packet_prio_first
  <2> HIDE DEF p
  <2>6. QED
    BY <2>3, <2>4, <2>5, TakesWell
<1>4. CASE s.cnt[Prio] = 0 /\ s.numFlows > 0
  <2>1. HeldBy(s.main, Prio) = {} /\ select_packet_prio_first(s) = select_packet(s)
    BY <1>2, <1>4 DEF select_packet_prio_first
  <2>2. Policy \in {"FIFO", "RR", "DRR", "WF2Q"} /\ (Policy # "FIFO" => ~Overflows)
    BY QueueAssumption DEF Covered, Policies
  <2>3. CASE Policy = "FIFO"
    <3>1. select_packet(s) = select_packet_fifo(s)
      BY <2>3 DEF select_packet
    <3>2. QED
      BY <2>1, <2>3, <3>1, FifoSelectsWell
  <2>4. CASE Policy = "RR"
    <3>1. select_packet(s) = select_packet_rr(s)
      BY <2>4 DEF select_packet
    <3>2. QED
      BY <1>4, <2>1, <2>2, <2>4, <3>1, RrSelectsWell
  <2>5. CASE Policy = "DRR"
    <3>1. select_packet(s) = select_packet_drr(s)
      BY <2>5 DEF select_packet
    <3>2. QED
      BY <1>4, <2>1, <2>2, <2>5, <3>1, DrrSelectsWell
  <2>6. CASE Policy = "WF2Q"
    <3>1. select_packet(s) = select_packet_wf2q(s)
      BY <2>6 DEF select_packet
    <3>2. QED
      BY <2>1, <2>2, <2>6, <3>1, Wf2qSelectsWell
  <2>7. QED
    BY <2>2, <2>3, <2>4, <2>5, <2>6
<1>5. CASE s.cnt[Prio] = 0 /\ ~(s.numFlows > 0)
  <2>1. select_packet_prio_first(s) = <<NoPacket, s>>
    BY <1>5 DEF select_packet_prio_first
  <2>2. ASSUME Policy # "WF2Q" PROVE s.main = <<>>
    <3>1. Linked(s) /\ s.numFlows = Len(s.ring)
      BY <2>2 DEF Good, Linked
    <3>2. s.ring = <<>>
      BY <1>1, <1>5, <3>1, ElementsOf
    <3>3. \A f \in Buckets : HeldBy(s.main, f) = {}
      <4>1. ToSet(s.ring) = {}
        BY <1>1, <3>2, ElementsOf
      <4>2. QED
        BY <3>1, <4>1 DEF Linked
    <3>4. \A x \in ToSet(s.main) : x.flow \in Buckets /\ x \in HeldBy(s.main, x.flow)
      BY <1>1, ElementsOf, PacketFields DEF HeldBy
    <3>5. QED
      BY <1>1, <3>3, <3>4, ElementsOf
  <2>3. QED
    BY <2>1, <2>2 DEF SelectsWell
<1>6. QED
  BY <1>3, <1>4, <1>5

(* drop_packet on the victim's bucket, written with the main queue last. *)
LEMMA DropIsLeave ==
    ASSUME NEW s \in QueueFields, NEW p, NEW k
    PROVE  DropRandom(s, p, k) = Left(s, s.main[k].flow, p, RemoveAt(s.main, k))
<1> DEFINE f == s.main[k].flow
           m == RemoveAt(s.main, k)
           t == [s EXCEPT !.main = m]
<1>1. DropRandom(s, p, k) = IdleIfEmpty(TakeFrom(t, f, p), f)
  BY DEF DropRandom
<1> HIDE DEF f, m
<1>2. TakeFrom(t, f, p) = [TakeFrom(s, f, p) EXCEPT !.main = m]
  BY ZenonT(60) DEF TakeFrom, QueueFields
<1> DEFINE v == TakeFrom(s, f, p)
<1>3. "main" \in DOMAIN v /\ "ring" \in DOMAIN v /\ "numFlows" \in DOMAIN v /\ "cnt" \in DOMAIN v
  BY DEF TakeFrom, QueueFields
<1> HIDE DEF v, t
<1>4. IdleIfEmpty([v EXCEPT !.main = m], f) = [IdleIfEmpty(v, f) EXCEPT !.main = m]
  BY <1>3 DEF IdleIfEmpty
<1>5. QED
  BY <1>1, <1>2, <1>4 DEF Left, v, f, m

(* The queue that recv has stored a new packet in. *)
LEMMA StoredGood ==
    ASSUME Covered, Good(q), NEW p \in Packet, p \notin ToSet(q.main), p.flow \in Arriving,
           Overflows \/ ~Full(q), NEW s \in Stored(p)
    PROVE  Good(s)
<1> DEFINE e == Enqueue(q, p)
<1>1. Counted(q) /\ q \in QueueFields /\ q.main \in Seq(Packet)
  BY FieldTypes DEF Good, Counted
<1>2. EntersAs(e, q, p.flow, p) /\ Counted(e)
  <2>1. EntersAs(e, q, p.flow, p)
    BY <1>1, EnqueueFields
  <2>2. Joined(e, q, p)
    BY <1>1, <2>1, EnterCounted
  <2>3. QED
    BY <2>1, <2>2 DEF Joined
<1>3. e.main = Append(q.main, p) /\ ToSet(e.main) = ToSet(q.main) \cup {p}
  BY <1>1, <1>2, AppendDistinct DEF EntersAs, Counted
<1>4. Overflows => HeldBy(e.main, Prio) = {}
  BY <1>3 DEF Good, HeldBy, Covered
<1>5. ~Overflows => Mirror(e) /\ Deficits(e) /\ ByteCounts(e)
  <2> SUFFICES ASSUME ~Overflows PROVE Mirror(e) /\ Deficits(e) /\ ByteCounts(e)
    OBVIOUS
  <2>1. Mirror(q) /\ Deficits(q) /\ ByteCounts(q) /\ IsInjective(q.main)
    BY <1>1 DEF Good, Counted
  <2>2. QED
    BY <1>1, <2>1, EnterMirror, EnterDeficits, EnterBytes
<1>6. ASSUME Policy # "WF2Q" PROVE Base(e)
  <2>1. Base(q)
    BY <1>6 DEF Good, Base
  <2>2. QED
    BY <2>1, EnterBase
<1> HIDE DEF e
<1>7. ASSUME Policy = "WF2Q" PROVE Activations(e)
  <2>1. Activations(q) /\ Prio \in Buckets /\ p.flow \in Buckets /\ q.cnt \in [Buckets -> Nat]
    BY <1>1, <1>7, FieldTypes, PacketFields DEF Good, Buckets
  <2>2. /\ e.cnt = [q.cnt EXCEPT ![p.flow] = q.cnt[p.flow] + 1]
        /\ q.cnt[p.flow] # 0 => e.numFlows = q.numFlows
        /\ q.cnt[p.flow] = 0 => e.numFlows = q.numFlows + 1
    BY <1>2 DEF EntersAs
  <2>3. QED
    BY <2>1, <2>2 DEF Activations
<1>8. Good(e)
  BY <1>2, <1>4, <1>5, <1>6, <1>7 DEF Good, Base
<1>9. CASE ~Full(q)
  BY <1>8, <1>9 DEF Stored, e
<1>10. CASE Full(q)
  <2>1. PICK k \in 1..(Len(q.main) + 1) : s = DropRandom(e, p, k)
    BY <1>10 DEF Stored, e
  <2>2. Overflows
    BY <1>10
  <2>3. e \in QueueFields /\ e.main \in Seq(Packet) /\ k \in 1..Len(e.main)
    <3>1. e \in QueueFields /\ e.main \in Seq(Packet)
      BY <1>2, FieldTypes DEF Counted
    <3>2. Len(e.main) = Len(q.main) + 1
      BY <1>1, <1>3, AppendProperties
    <3>3. QED
      BY <2>1, <3>1, <3>2
  <2> DEFINE f == e.main[k].flow
             m == RemoveAt(e.main, k)
  <2>4. s = Left(e, f, p, m)
    BY <2>1, <2>3, DropIsLeave
  <2>5. Base(s) /\ Policy # "WF2Q"
    <3>1. Policy # "WF2Q" /\ Base(e)
      BY <1>6, <2>2 DEF Covered
    <3>2. QED
      BY <2>3, <2>4, <3>1, LeaveBase
  <2>6. s.main = m
    <3>1. "main" \in DOMAIN IdleIfEmpty(TakeFrom(e, f, p), f)
      <4>1. "main" \in DOMAIN e
        BY <2>3 DEF QueueFields
      <4>2. QED
        BY <4>1, LeaveKeepsMain
    <3> HIDE DEF m, f
    <3>2. QED
      BY <2>4, <3>1 DEF Left
  <2>7. ToSet(m) \subseteq ToSet(e.main)
    BY <1>2, <2>3, RemoveDistinct DEF Counted
  <2>8. HeldBy(s.main, Prio) = {}
    BY <1>4, <2>2, <2>6, <2>7 DEF HeldBy
  <2>9. QED
    BY <2>2, <2>5, <2>8 DEF Good, Base
<1>11. QED
  BY <1>9, <1>10

(* The inductive invariant: the queue is in good shape, the MAC has a      *)
(* packet exactly while the queue is blocked, and only WF2Q+ leaves the    *)
(* MAC without a packet while there are some.                              *)
QueueInv ==
    /\ Good(q)
    /\ blocked \in BOOLEAN /\ mac \in Packet \cup {NoPacket} /\ proc = "running"
    /\ blocked <=> mac # NoPacket
    /\ Policy # "WF2Q" => WorkConserving

(* Handing a packet over from the queue s. *)
LEMMA HandOverGood ==
    ASSUME Covered, QueueInv, NEW s, Good(s), HandOver(select_packet_prio_first(s))
    PROVE  /\ QueueInv'
           /\ mac' # NoPacket => mac' \in Packet /\ InOrder(s.main, mac')
<1> DEFINE sel == select_packet_prio_first(s)
<1>1. SelectsWell(s, sel)
  BY Selection
<1>2. /\ mac' = sel[1] /\ q' = [sel[2] EXCEPT !.main = RemoveFirst(sel[2].main, sel[1])]
      /\ proc' = IF sel[1] = NoPacket \/ sel[1] \in ToSet(sel[2].main) THEN proc ELSE "abort"
      /\ blocked' = (sel[1] # NoPacket)
  BY DEF HandOver
<1>3. blocked' \in BOOLEAN
  BY <1>2
<1>4. s \in QueueFields /\ s.main \in Seq(Packet)
  BY FieldTypes DEF Good, Counted
<1> HIDE DEF sel
<1>5. CASE sel = <<NoPacket, s>> /\ (Policy # "WF2Q" => s.main = <<>>)
  <2>1. RemoveFirst(s.main, NoPacket) = s.main
    <3>1. NoPacket \notin ToSet(s.main)
      BY <1>4, ElementsOf, NoPacketAssumption
    <3>2. QED
      BY <1>4, <3>1, RemoveFirstIs
  <2>2. sel[1] = NoPacket /\ sel[2] = s
    BY <1>5
  <2>3. q' = [s EXCEPT !.main = s.main]
    BY <1>2, <2>1, <2>2
  <2>4. q' = s
    BY <1>4, <2>3 DEF QueueFields
  <2>5. mac' = NoPacket /\ proc' = "running" /\ ~blocked'
    BY <1>2, <2>2 DEF QueueInv
  <2>6. QED
    BY <1>3, <1>5, <2>4, <2>5 DEF QueueInv, WorkConserving
<1>6. CASE /\ sel[1] \in ToSet(s.main) /\ sel[2].main = s.main
           /\ InOrder(s.main, sel[1])
           /\ Good([sel[2] EXCEPT !.main = RemoveFirst(s.main, sel[1])])
  <2>1. sel[1] \in Packet /\ sel[1] # NoPacket
    BY <1>4, <1>6, ElementsOf, PacketFields
  <2>2. Good(q')
    BY <1>2, <1>6
  <2>3. mac' = sel[1] /\ proc' = "running" /\ blocked'
    BY <1>2, <1>6, <2>1 DEF QueueInv
  <2>4. QED
    BY <1>3, <1>6, <2>1, <2>2, <2>3 DEF QueueInv, WorkConserving
<1>7. QED
  BY <1>1, <1>5, <1>6 DEF SelectsWell

LEMMA QueueInit == Init => QueueInv
<1> SUFFICES ASSUME Init PROVE QueueInv
  OBVIOUS
<1>1. /\ q.main = <<>> /\ q.ring = <<>> /\ q.numFlows = 0
      /\ \A f \in Buckets : /\ q.subq[f] = <<>> /\ q.cnt[f] = 0
                            /\ q.turn[f] = 0 /\ q.deficit[f] = 0 /\ q.qcrt[f] = 0
  BY DEF Init
<1>2. <<>> \in Seq(Packet) /\ <<>> \in Seq(Buckets) /\ Len(<<>>) = 0
  BY EmptySeq
<1>3. q \in QueueFields
  <2>1. /\ [f \in Buckets |-> <<>>] \in [Buckets -> Seq(Packet)]
        /\ [f \in Buckets |-> 0] \in [Buckets -> Nat] /\ [f \in Buckets |-> 0] \in [Buckets -> Int]
        /\ [f \in Buckets |-> 0] \in [Buckets -> {0, 1}]
    BY <1>2
  <2>2. QED
    BY <1>2, <2>1 DEF Init, QueueFields
<1>4. ToSet(<<>>) = {} /\ IsInjective(<<>>)
  <2>1. DOMAIN <<>> = {}
    OBVIOUS
  <2>2. QED
    BY <2>1 DEF IsInjective, ToSet
<1>5. \A f : HeldBy(q.main, f) = {}
  BY <1>1, <1>4 DEF HeldBy
<1>6. Base(q)
  BY <1>1, <1>2, <1>3, <1>4, <1>5, FS_EmptySet DEF Base, Counted, Linked
<1>7. Mirror(q)
  <2>1. SameOrder(<<>>, <<>>)
    BY <1>2, ElementsOf DEF SameOrder
  <2>2. QED
    BY <1>1, <1>4, <1>5, <2>1 DEF Mirror
<1>8. Deficits(q)
  <2>1. Prio \in Buckets
    BY DEF Buckets
  <2>2. QED
    BY <1>1, <2>1 DEF Deficits, Settled
<1>9. Good(q)
  <2>1. ByteCounts(q)
    BY <1>1, BytesEmpty DEF ByteCounts
  <2>2. QED
    <3>1. Activations(q)
      <4>1. Prio \in Buckets
        BY DEF Buckets
      <4>2. QED
        BY <1>1, <4>1 DEF Activations
    <3>2. QED
      BY <1>5, <1>6, <1>7, <1>8, <2>1, <3>1 DEF Good, Base
<1>10. blocked \in BOOLEAN /\ mac \in Packet \cup {NoPacket} /\ proc = "running"
  BY DEF Init
<1>11. WorkConserving /\ (blocked <=> mac # NoPacket)
  BY <1>1 DEF Init, WorkConserving
<1>12. QED
  BY <1>9, <1>10, <1>11 DEF QueueInv

(* What is in order stays so without the packet that came last.            *)
LEMMA InOrderBefore ==
    ASSUME NEW m \in Seq(Packet), NEW p \in Packet, NEW x, InOrder(Append(m, p), x)
    PROVE  InOrder(m, x)
<1>1. PICK a : a = Append(m, p)
  OBVIOUS
<1>2. Len(m) \in Nat /\ Len(a) = Len(m) + 1 /\ \A i \in 1..Len(m) : a[i] = m[i]
  BY <1>1, AppendProperties
<1>3. InOrder(a, x)
  BY <1>1
<1>4. ASSUME NEW k \in 1..Len(m), m[k].flow = x.flow PROVE \E i \in 1..k : m[i] = x
  <2>1. k \in 1..Len(a) /\ a[k].flow = x.flow
    BY <1>2, <1>4
  <2>2. PICK i \in 1..k : a[i] = x
    BY <1>3, <2>1 DEF InOrder
  <2>3. m[i] = x
    BY <1>2, <2>2
  <2>4. QED
    BY <2>3
<1>5. x.flow # Prio => HeldBy(m, Prio) = {}
  <2>1. a \in Seq(Packet)
    BY <1>1
  <2>2. ToSet(m) \subseteq ToSet(a)
    BY <1>2, <2>1, ElementsOf
  <2>3. QED
    BY <1>3, <2>2 DEF InOrder, HeldBy
<1>6. QED
  BY <1>4, <1>5 DEF InOrder

(* What recv may do: it keeps the invariant, and a packet it hands over is *)
(* in order.                                                               *)
LEMMA RecvGood ==
    ASSUME Covered, QueueInv, NEW f \in Arriving, NEW size \in Sizes, recv(f, size)
    PROVE  QueueInv' /\ (mac' # NoPacket /\ mac' # mac => InOrder(q.main, mac'))
<1> DEFINE p == [id |-> Min(FreeIds), flow |-> f, size |-> size]
<1>1. p \in Packet /\ p.flow = f /\ p.id \in FreeIds
  BY FreshBuffer, QueueAssumption DEF recv, Packet
<1>2. p \notin ToSet(q.main)
  BY <1>1 DEF FreeIds
<1>3. PICK s \in Stored(p) :
         IF blocked THEN q' = s /\ UNCHANGED <<blocked, mac, proc>>
         ELSE HandOver(select_packet_prio_first(s))
  BY DEF recv
<1>4. Overflows \/ ~Full(q)
  BY DEF recv
<1> HIDE DEF p
<1>5. Good(s)
  BY <1>1, <1>2, <1>4, StoredGood DEF QueueInv
<1>6. CASE blocked
  BY <1>3, <1>5, <1>6 DEF QueueInv, WorkConserving
<1>7. CASE ~blocked
  <2>1. QueueInv' /\ (mac' # NoPacket => InOrder(s.main, mac'))
    BY <1>3, <1>5, <1>7, HandOverGood
  <2>2. q \in QueueFields /\ q.main \in Seq(Packet)
    BY FieldTypes DEF QueueInv, Good, Counted
  <2>3. CASE Policy # "WF2Q"
    <3>1. q.main = <<>>
      BY <1>7, <2>3 DEF QueueInv, WorkConserving
    <3>2. InOrder(q.main, mac')
      <4>1. 1..Len(q.main) = {} /\ ToSet(q.main) = {}
        BY <2>2, <3>1, ElementsOf
      <4>2. QED
        BY <4>1 DEF InOrder, HeldBy
    <3>3. QED
      BY <2>1, <3>2
  <2>4. CASE Policy = "WF2Q"
    <3>1. s = Enqueue(q, p)
      BY <1>4, <2>4 DEF Covered, Stored
    <3>2. s.main = Append(q.main, p)
      BY <1>1, <2>2, <3>1, EnqueueFields DEF EntersAs
    <3>3. QED
      BY <1>1, <2>1, <2>2, <3>2, InOrderBefore
  <2>5. QED
    BY <2>3, <2>4
<1>8. QED
  BY <1>6, <1>7

LEMMA QueueStep == Covered /\ QueueInv /\ [Next]_vars => QueueInv'
<1> SUFFICES ASSUME Covered, QueueInv, [Next]_vars PROVE QueueInv'
  OBVIOUS
<1>1. ASSUME NEW f \in Arriving, NEW size \in Sizes, recv(f, size) PROVE QueueInv'
  BY <1>1, RecvGood
<1>2. ASSUME resume PROVE QueueInv'
  BY <1>2, HandOverGood DEF resume, QueueInv
<1>3. CASE UNCHANGED vars
  BY <1>3 DEF vars, QueueInv, WorkConserving
<1>4. QED
  BY <1>1, <1>2, <1>3 DEF Next

(* For every number of buckets and packets, every limit, quantum and       *)
(* weight: under FIFO with or without drops, and under RR, DRR and WF2Q+   *)
(* without drops, the counters agree with the main queue, the lists and    *)
(* the byte counts with the packets, and the MAC has a packet exactly      *)
(* while the queue is blocked.                                             *)
THEOREM QueueInvariant == ASSUME Covered PROVE Spec => []QueueInv
<1>1. QueueInv /\ [Next]_vars => QueueInv'
  BY QueueStep
<1>2. QED
  BY <1>1, QueueInit, PTL DEF Spec

(* The fields keep their types and the deficits never become negative. *)
THEOREM QueueTyped == ASSUME Covered PROVE Spec => []TypeOK
<1>1. QueueInv => TypeOK
  <2> SUFFICES ASSUME QueueInv PROVE TypeOK
    OBVIOUS
  <2>1. q \in QueueFields
    BY DEF QueueInv, Good, Counted
  <2>2. /\ q.main \in Seq(Packet) /\ q.ring \in Seq(Buckets) /\ q.vclock \in Nat
        /\ \A f \in Buckets : /\ q.subq[f] \in Seq(Packet) /\ q.cnt[f] \in Nat
                              /\ q.turn[f] \in {0, 1} /\ q.deficit[f] \in Nat
    BY <2>1, FieldTypes
  <2>3. ToSet(q.ring) \subseteq Buckets /\ Len(q.ring) \in Nat
    BY <2>2, ElementsOf
  <2>4. q.numFlows \in Nat
    <3>1. CASE Policy = "WF2Q"
      BY <3>1 DEF QueueInv, Good, Activations
    <3>2. CASE Policy # "WF2Q"
      BY <2>3, <3>2 DEF QueueInv, Good, Linked
    <3>3. QED
      BY <3>1, <3>2
  <2>5. blocked \in BOOLEAN /\ mac \in Packet \cup {NoPacket} /\ proc \in {"running", "abort"}
    BY DEF QueueInv
  <2>6. QED
    BY <2>1, <2>2, <2>3, <2>4, <2>5 DEF TypeOK
<1>2. QED
  BY <1>1, QueueInvariant, PTL

(* The packet counters of the buckets, the ring and num_flows agree with   *)
(* the main queue: a bucket is linked once, and exactly while the main     *)
(* queue holds a packet for it. WF2Q+ alone leaves empty buckets linked.   *)
THEOREM RingIsExact ==
    ASSUME Covered, Policy # "WF2Q" PROVE Spec => []RingMatchesBacklog
<1>1. QueueInv => RingMatchesBacklog
  <2>1. \A f : Backlog(f) = HeldBy(q.main, f)
    BY DEF Backlog, HeldBy
  <2>2. QED
    BY <2>1 DEF QueueInv, Good, Base, Counted, Linked, RingMatchesBacklog
<1>2. QED
  BY <1>1, QueueInvariant, PTL

(* No packet waits while the MAC is free, unless WF2Q+ holds it back.      *)
THEOREM QueueWorkConserving ==
    ASSUME Covered, Policy # "WF2Q" PROVE Spec => []WorkConserving
<1>1. QueueInv => WorkConserving
  BY DEF QueueInv
<1>2. QED
  BY <1>1, QueueInvariant, PTL

(* PacketQueue::remove always finds the packet a policy has selected, so   *)
(* its abort() is never reached.                                           *)
THEOREM NeverAborts == ASSUME Covered PROVE Spec => []NoAbort
<1>1. QueueInv => NoAbort
  BY DEF QueueInv, NoAbort
<1>2. QED
  BY <1>1, QueueInvariant, PTL

(* Without drops each sub-queue lists the packets of its bucket that are   *)
(* in the main queue, in the same order.                                   *)
THEOREM SubqueuesMirror ==
    ASSUME Covered, ~Overflows PROVE Spec => []SubqueuesMirrorMain
<1>1. QueueInv => SubqueuesMirrorMain
  <2>1. \A f : Backlog(f) = HeldBy(q.main, f)
    BY DEF Backlog, HeldBy
  <2>2. QED
    BY <2>1 DEF QueueInv, Good, Mirror, SubqueuesMirrorMain
<1>2. QED
  BY <1>1, QueueInvariant, PTL

(* Without drops the byte count of a bucket is the sum of the sizes of the *)
(* packets its list holds.                                                 *)
THEOREM ByteCountsMatch ==
    ASSUME Covered, ~Overflows PROVE Spec => []BytesMatchSubqueue
<1>1. QueueInv => BytesMatchSubqueue
  <2>1. QueueInv => \A f \in Buckets : q.qcrt[f] = Bytes(q.subq[f])
    BY DEF QueueInv, Good, ByteCounts
  <2>2. QED
    BY <2>1 DEF BytesMatchSubqueue, Bytes
<1>2. QED
  BY <1>1, QueueInvariant, PTL

(* Without drops no bucket saves up credit: what is left over stays below  *)
(* the quantum while the bucket's turn lasts, and below the largest packet *)
(* otherwise.                                                              *)
THEOREM CreditBounded ==
    ASSUME Covered, ~Overflows PROVE Spec => []DeficitBounded
<1>1. \A x \in Sizes : x <= Max(Sizes) /\ Max(Sizes) \in Nat /\ Max(Sizes) > 0
  <2>1. \E m \in Sizes : \A n \in Sizes : m >= n
    <3>1. Sizes \subseteq Nat /\ \E m \in Sizes : \A n \in Sizes : n <= m
      BY QueueAssumption
    <3>2. QED
      BY <3>1
  <2>2. Max(Sizes) \in Sizes /\ \A n \in Sizes : Max(Sizes) >= n
    BY <2>1 DEF Max
  <2>3. Sizes \subseteq Nat \ {0}
    BY QueueAssumption
  <2> DEFINE M == Max(Sizes)
  <2>4. M \in Nat /\ M # 0
    BY <2>2, <2>3
  <2>5. ASSUME NEW x \in Sizes PROVE x \in Nat /\ M >= x
    BY <2>2, <2>3
  <2> HIDE DEF M
  <2>6. \A x \in Sizes : x <= M /\ M \in Nat /\ M > 0
    BY <2>4, <2>5
  <2>7. QED
    BY <2>6 DEF M
<1>2. \E x \in Sizes : TRUE
  BY QueueAssumption
<1>3. QueueInv => DeficitBounded
  <2> SUFFICES ASSUME QueueInv, NEW f \in Buckets
               PROVE  q.deficit[f] < (IF q.turn[f] = 1 THEN Quantum ELSE Max(Sizes))
    BY DEF DeficitBounded
  <2>1. q \in QueueFields /\ Settled(q, f)
    BY DEF QueueInv, Good, Counted, Deficits
  <2>2. CASE q.turn[f] = 1
    BY <2>1, <2>2 DEF Settled
  <2>3. CASE q.turn[f] # 1 /\ q.subq[f] = <<>>
    BY <1>1, <1>2, <2>1, <2>3 DEF Settled
  <2>4. CASE q.turn[f] # 1 /\ q.subq[f] # <<>>
    <3>1. Head(q.subq[f]) \in Packet
      BY <2>1, <2>4, HeadIs
    <3> DEFINE z == Head(q.subq[f]).size
               d == q.deficit[f]
               x == Max(Sizes)
    <3>2. z \in Nat /\ z <= x /\ x \in Nat
      BY <1>1, <3>1, PacketFields
    <3>3. d < z /\ d \in Nat
      BY <2>1, <2>4, FieldTypes DEF Settled
    <3> HIDE DEF z, d, x
    <3>4. d < x
      BY <3>2, <3>3
    <3>5. QED
      BY <2>4, <3>4 DEF d, x
  <2>5. QED
    BY <2>2, <2>3, <2>4
<1>4. QED
  BY <1>3, QueueInvariant, PTL

(* Packets of one bucket leave in the order in which they arrived, and no  *)
(* data packet overtakes a routing packet.                                 *)
THEOREM KeepsFlowOrder == ASSUME Covered PROVE Spec => FlowOrder
<1> DEFINE Orderly ==
             mac' # NoPacket /\ mac' # mac =>
               /\ \A k \in DOMAIN q.main :
                     q.main[k].flow = mac'.flow => \E i \in 1..k : q.main[i] = mac'
               /\ mac'.flow # Prio => Backlog(Prio) = {}
<1>1. QueueInv /\ [Next]_vars => [Orderly]_vars
  <2> SUFFICES ASSUME QueueInv, Next, mac' # NoPacket, mac' # mac PROVE Orderly
    BY DEF vars
  <2>1. q.main \in Seq(Packet)
    BY FieldTypes DEF QueueInv, Good, Counted
  <2>2. DOMAIN q.main = 1..Len(q.main) /\ Backlog(Prio) = HeldBy(q.main, Prio)
    BY <2>1, ElementsOf DEF Backlog, HeldBy
  <2>3. ASSUME NEW f \in Arriving, NEW size \in Sizes, recv(f, size) PROVE Orderly
    <3>1. InOrder(q.main, mac')
      BY <2>3, RecvGood
    <3>2. QED
      BY <2>2, <3>1 DEF InOrder
  <2>4. ASSUME resume PROVE Orderly
    <3>1. InOrder(q.main, mac')
      BY <2>4, HandOverGood DEF resume, QueueInv
    <3>2. QED
      BY <2>2, <3>1 DEF InOrder
  <2>5. QED
    BY <2>3, <2>4 DEF Next
<1>2. QED
  BY <1>1, QueueInvariant, PTL DEF Spec, FlowOrder

=============================================================================
