-------------------------- MODULE RateSelect_proofs --------------------------
(***************************************************************************)
(* What the selection functions of RateSelect return, for every ladder.    *)
(***************************************************************************)
EXTENDS RateSelect, WellFoundedInduction, SequenceTheorems, TLAPS

(* A loop that takes the first hit finds one: a non-empty set of naturals  *)
(* has a smallest element.                                                 *)
LEMMA SmallestExists ==
    ASSUME NEW S, S \subseteq Nat, S # {}
    PROVE  \E x \in S : \A y \in S : x <= y
<1>1. IsWellFoundedOn(OpToRel(<, Nat), Nat)
  BY NatLessThanWellFounded
<1>2. PICK x \in S : \A y \in S : ~(<<y, x>> \in OpToRel(<, Nat))
  BY <1>1, WFMin
<1>3. ASSUME NEW y \in S PROVE x <= y
  <2>1. ~(<<y, x>> \in OpToRel(<, Nat))
    BY <1>2
  <2>2. ~(y < x)
    BY <2>1 DEF OpToRel
  <2>3. QED
    BY <2>2
<1>4. QED
  BY <1>2, <1>3

(* A loop that keeps the last hit finds one: a non-empty set of positions  *)
(* of a sequence has a largest element.                                    *)
LEMMA LargestExists ==
    ASSUME NEW n \in Nat, NEW S, S \subseteq 1..n, S # {}
    PROVE  \E x \in S : \A y \in S : x >= y
<1> DEFINE T == {n - i : i \in S}
<1> HIDE DEF T
<1>1. T \subseteq Nat /\ T # {}
  <2>1. ASSUME NEW t \in T PROVE t \in Nat
    <3>1. PICK i \in S : t = n - i
      BY DEF T
    <3>2. QED
      BY <3>1
  <2>2. PICK i \in S : TRUE
    OBVIOUS
  <2>3. n - i \in T
    BY DEF T
  <2>4. QED
    BY <2>1, <2>3
<1>2. PICK t \in T : \A u \in T : t <= u
  BY <1>1, SmallestExists
<1>3. PICK x \in S : t = n - x
  BY DEF T
<1>4. ASSUME NEW y \in S PROVE x >= y
  <2>1. n - y \in T
    BY DEF T
  <2>2. n - x <= n - y
    BY <2>1, <1>2, <1>3
  <2>3. QED
    BY <2>2
<1>5. QED
  BY <1>4

-----------------------------------------------------------------------------
(* Whatever bound or rate they are given, higher_bandwidth,                *)
(* lower_bandwidth and the scan of best_matching_bandwidth return an entry *)
(* of a non-empty ladder; the first two honour the bound when some entry   *)
(* does.                                                                   *)
LEMMA HigherOffered ==
    ASSUME NEW q \in Seq(Int), q # <<>>, NEW bound \in Int
    PROVE  /\ higher_bandwidth(q, bound) \in Offered(q)
           /\ (\E b \in Offered(q) : b >= bound) => higher_bandwidth(q, bound) >= bound
<1> DEFINE fits == {i \in DOMAIN q : q[i] >= bound}
<1>1. Len(q) \in DOMAIN q /\ DOMAIN q = 1..Len(q) /\ Len(q) \in Nat
  BY EmptySeq, LenProperties
<1>2. CASE fits = {}
  <2>1. higher_bandwidth(q, bound) = q[Len(q)]
    BY <1>2 DEF higher_bandwidth
  <2>2. QED
    BY <1>1, <1>2, <2>1 DEF Offered
<1>3. CASE fits # {}
  <2>1. fits \subseteq Nat
    BY <1>1
  <2>2. \E i \in fits : \A j \in fits : i <= j
    BY <1>3, <2>1, SmallestExists
  <2> DEFINE k == CHOOSE i \in fits : \A j \in fits : i <= j
  <2>3. k \in fits
    BY <2>2
  <2>4. higher_bandwidth(q, bound) = q[k]
    BY <1>3 DEF higher_bandwidth
  <2> HIDE DEF k
  <2>5. QED
    BY <2>3, <2>4 DEF Offered
<1>4. QED
  BY <1>2, <1>3

LEMMA LowerOffered ==
    ASSUME NEW q \in Seq(Int), q # <<>>, NEW bound \in Int
    PROVE  /\ lower_bandwidth(q, bound) \in Offered(q)
           /\ (\E b \in Offered(q) : b <= bound) => lower_bandwidth(q, bound) <= bound
<1> DEFINE fits == {i \in DOMAIN q : q[i] <= bound}
<1>1. 1 \in DOMAIN q /\ DOMAIN q = 1..Len(q) /\ Len(q) \in Nat
  BY EmptySeq, LenProperties
<1>2. CASE fits = {}
  <2>1. lower_bandwidth(q, bound) = q[1]
    BY <1>2 DEF lower_bandwidth
  <2>2. QED
    BY <1>1, <1>2, <2>1 DEF Offered
<1>3. CASE fits # {}
  <2>1. fits \subseteq 1..Len(q)
    BY <1>1
  <2>2. \E i \in fits : \A j \in fits : i >= j
    BY <1>1, <1>3, <2>1, LargestExists
  <2> DEFINE k == CHOOSE i \in fits : \A j \in fits : i >= j
  <2>3. k \in fits
    BY <2>2
  <2>4. lower_bandwidth(q, bound) = q[k]
    BY <1>3 DEF lower_bandwidth
  <2> HIDE DEF k
  <2>5. QED
    BY <2>3, <2>4 DEF Offered
<1>4. QED
  BY <1>2, <1>3

LEMMA CandidateOffered ==
    ASSUME NEW q \in Seq(Int), q # <<>>, NEW rate \in Int
    PROVE  Candidate(q, rate) \in Offered(q)
<1> DEFINE ok == Scanned(q, rate)
<1>1. 1 \in DOMAIN q /\ DOMAIN q = 1..Len(q) /\ Len(q) \in Nat
  BY EmptySeq, LenProperties
<1>2. ok \subseteq 1..Len(q)
  BY <1>1 DEF Scanned
<1>3. CASE ok = {}
  BY <1>1, <1>3 DEF Candidate, Offered
<1>4. CASE ok # {}
  <2>1. \E i \in ok : \A j \in ok : i >= j
    BY <1>1, <1>2, <1>4, LargestExists
  <2> DEFINE k == CHOOSE i \in ok : \A j \in ok : i >= j
  <2>2. k \in ok
    BY <2>1
  <2>3. Candidate(q, rate) = q[k]
    BY <1>4 DEF Candidate
  <2> HIDE DEF k, ok
  <2>4. QED
    BY <1>1, <1>2, <2>2, <2>3 DEF Offered
<1>5. QED
  BY <1>3, <1>4

(* best_matching_bandwidth stays in the ladder. *)
LEMMA BestMatchOffered ==
    ASSUME NEW q \in Seq(Int), q # <<>>, NEW lo \in Int, NEW hi \in Int, NEW rate \in Int
    PROVE  best_matching_bandwidth(q, lo, hi, rate) \in Offered(q)
BY CandidateOffered, HigherOffered, LowerOffered DEF best_matching_bandwidth

(* next_higher_bandwidth and initial_bandwidth return numbers. *)
LEMMA NextHigherInt ==
    ASSUME NEW q \in Seq(Int), NEW bw \in Int
    PROVE  next_higher_bandwidth(q, bw) \in Int
<1> DEFINE at == {i \in DOMAIN q : q[i] = bw}
           k  == CHOOSE i \in at : \A j \in at : i <= j
<1>1. DOMAIN q = 1..Len(q) /\ Len(q) \in Nat
  BY LenProperties
<1>2. next_higher_bandwidth(q, bw) = IF at = {} THEN -1 ELSE IF k = Len(q) THEN bw ELSE q[k+1]
  BY DEF next_higher_bandwidth
<1>3. CASE at # {}
  <2>1. at \subseteq Nat
    BY <1>1
  <2>2. \E i \in at : \A j \in at : i <= j
    BY <1>3, <2>1, SmallestExists
  <2>3. k \in 1..Len(q)
    BY <1>1, <2>2
  <2> HIDE DEF k, at
  <2>4. ASSUME k # Len(q) PROVE q[k+1] \in Int
    <3>1. PICK n \in 1..Len(q) : n = k
      BY <2>3
    <3>2. n # Len(q)
      BY <2>4, <3>1, Zenon
    <3>3. n + 1 \in 1..Len(q)
      <4>1. \A L \in Nat : \A x \in 1..L : x # L => x + 1 \in 1..L
        OBVIOUS
      <4>2. QED
        BY <1>1, <3>2, <4>1
    <3>4. QED
      BY <3>1, <3>3, ElementOfSeq
  <2>5. QED
    BY <1>2, <1>3, <2>4
<1>4. CASE at = {}
  BY <1>2, <1>4
<1>5. QED
  BY <1>3, <1>4

LEMMA InitialOffered ==
    ASSUME NEW q \in Seq(Int), q # <<>>, NEW lo \in Int
    PROVE  initial_bandwidth(q, lo) \in Offered(q)
<1>1. 1 \in DOMAIN q
  BY EmptySeq, LenProperties
<1>2. QED
  BY <1>1, HigherOffered DEF initial_bandwidth, Offered

-----------------------------------------------------------------------------
(* On a ladder in ascending order that has an entry within the bounds, the *)
(* bandwidth chosen for any rate, and the first one requested, are within  *)
(* the bounds too.                                                         *)
Within(b, lo, hi) == (lo > 0 => b >= lo) /\ (hi > 0 => b <= hi)

(* higher_bandwidth is the smallest entry that reaches the bound. *)
LEMMA HigherIsSmallest ==
    ASSUME NEW q \in Seq(Int), q # <<>>, Ascending(q), NEW bound \in Int,
           NEW b \in Offered(q), b >= bound
    PROVE  higher_bandwidth(q, bound) <= b
<1> DEFINE fits == {i \in DOMAIN q : q[i] >= bound}
           k    == CHOOSE i \in fits : \A j \in fits : i <= j
<1>1. DOMAIN q = 1..Len(q) /\ Len(q) \in Nat
  BY LenProperties
<1>2. PICK n \in DOMAIN q : b = q[n]
  BY DEF Offered
<1>3. n \in fits /\ fits \subseteq Nat
  BY <1>1, <1>2
<1>4. \E i \in fits : \A j \in fits : i <= j
  BY <1>3, SmallestExists
<1>5. k \in fits /\ k <= n
  BY <1>3, <1>4
<1>6. higher_bandwidth(q, bound) = q[k]
  BY <1>3 DEF higher_bandwidth
<1>7. k \in DOMAIN q
  BY <1>5
<1> HIDE DEF k, fits
<1>8. k = n \/ k < n
  BY <1>1, <1>2, <1>5, <1>7
<1>9. q[k] \in Int /\ q[n] \in Int
  BY <1>1, <1>2, <1>7, ElementOfSeq
<1>10. QED
  BY <1>2, <1>6, <1>7, <1>8, <1>9 DEF Ascending

(* lower_bandwidth is the largest entry within the bound. *)
LEMMA LowerIsLargest ==
    ASSUME NEW q \in Seq(Int), q # <<>>, Ascending(q), NEW bound \in Int,
           NEW b \in Offered(q), b <= bound
    PROVE  lower_bandwidth(q, bound) >= b
<1> DEFINE fits == {i \in DOMAIN q : q[i] <= bound}
           k    == CHOOSE i \in fits : \A j \in fits : i >= j
<1>1. DOMAIN q = 1..Len(q) /\ Len(q) \in Nat
  BY LenProperties
<1>2. PICK n \in DOMAIN q : b = q[n]
  BY DEF Offered
<1>3. n \in fits /\ fits \subseteq 1..Len(q)
  BY <1>1, <1>2
<1>4. \E i \in fits : \A j \in fits : i >= j
  BY <1>1, <1>3, LargestExists
<1>5. k \in fits /\ k >= n
  BY <1>3, <1>4
<1>6. lower_bandwidth(q, bound) = q[k]
  BY <1>3 DEF lower_bandwidth
<1>7. k \in DOMAIN q
  BY <1>5
<1> HIDE DEF k, fits
<1>8. k = n \/ n < k
  BY <1>1, <1>2, <1>5, <1>7
<1>9. q[k] \in Int /\ q[n] \in Int
  BY <1>1, <1>2, <1>7, ElementOfSeq
<1>10. QED
  BY <1>2, <1>6, <1>7, <1>8, <1>9 DEF Ascending

LEMMA BestMatchWithin ==
    ASSUME NEW q \in Seq(Int), q # <<>>, Ascending(q),
           NEW lo \in Int, NEW hi \in Int, NEW rate \in Int,
           NEW b \in Offered(q), Within(b, lo, hi)
    PROVE  Within(best_matching_bandwidth(q, lo, hi, rate), lo, hi)
<1>1. \A x \in Offered(q) : x \in Int
  BY LenProperties DEF Offered
<1> DEFINE c1 == Candidate(q, rate)
           c2 == IF lo > 0 /\ c1 < lo THEN higher_bandwidth(q, lo) ELSE c1
<1>2. c1 \in Offered(q)
  BY CandidateOffered
<1>3. c2 \in Int /\ (lo > 0 => c2 >= lo)
  <2>1. CASE lo > 0 /\ c1 < lo
    <3>1. \E x \in Offered(q) : x >= lo
      BY <2>1 DEF Within
    <3>2. higher_bandwidth(q, lo) \in Int /\ higher_bandwidth(q, lo) >= lo
      BY <1>1, <3>1, HigherOffered
    <3>3. QED
      BY <2>1, <3>2
  <2>2. CASE ~(lo > 0 /\ c1 < lo)
    <3>1. c2 = c1 /\ c1 \in Int
      BY <1>1, <1>2, <2>2
    <3> HIDE DEF c1, c2
    <3>2. QED
      BY <2>2, <3>1
  <2>3. QED
    BY <2>1, <2>2
<1>4. CASE hi > 0 /\ c2 > hi
  <2>1. best_matching_bandwidth(q, lo, hi, rate) = lower_bandwidth(q, hi)
    BY <1>4 DEF best_matching_bandwidth
  <2>2. lower_bandwidth(q, hi) \in Int /\ lower_bandwidth(q, hi) <= hi
    BY <1>1, <1>4, LowerOffered DEF Within
  <2>3. lower_bandwidth(q, hi) >= b
    BY <1>4, LowerIsLargest DEF Within
  <2>4. QED
    BY <1>1, <2>1, <2>2, <2>3 DEF Within
<1>5. CASE ~(hi > 0 /\ c2 > hi)
  <2>1. best_matching_bandwidth(q, lo, hi, rate) = c2
    BY <1>5 DEF best_matching_bandwidth
  <2> HIDE DEF c2
  <2>2. QED
    BY <1>3, <1>5, <2>1 DEF Within
<1>6. QED
  BY <1>4, <1>5

LEMMA InitialWithin ==
    ASSUME NEW q \in Seq(Int), q # <<>>, Ascending(q),
           NEW lo \in Int, NEW hi \in Int,
           NEW b \in Offered(q), Within(b, lo, hi)
    PROVE  Within(initial_bandwidth(q, lo), lo, hi)
<1>1. \A x \in Offered(q) : x \in Int
  BY LenProperties DEF Offered
<1>2. CASE lo > 0
  <2>1. higher_bandwidth(q, lo) \in Int /\ higher_bandwidth(q, lo) >= lo
    BY <1>1, <1>2, HigherOffered DEF Within
  <2>2. higher_bandwidth(q, lo) <= b
    BY <1>2, HigherIsSmallest DEF Within
  <2>3. QED
    BY <1>1, <1>2, <2>1, <2>2 DEF Within, initial_bandwidth
<1>3. CASE lo <= 0
  <2>1. initial_bandwidth(q, lo) = q[1]
    BY <1>3 DEF initial_bandwidth
  <2>2. PICK n \in DOMAIN q : b = q[n]
    BY DEF Offered
  <2>3. DOMAIN q = 1..Len(q) /\ Len(q) \in Nat /\ 1 \in DOMAIN q
    BY EmptySeq, LenProperties
  <2>4. n = 1 \/ 1 < n
    BY <2>2, <2>3
  <2>5. q[1] \in Int /\ q[n] \in Int
    BY <2>2, <2>3, ElementOfSeq
  <2>6. q[1] <= b
    BY <2>2, <2>3, <2>4, <2>5 DEF Ascending
  <2>7. QED
    BY <1>3, <2>1, <2>2, <2>5, <2>6 DEF Within
<1>4. QED
  BY <1>2, <1>3

=============================================================================
