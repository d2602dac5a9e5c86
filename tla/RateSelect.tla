----------------------------- MODULE RateSelect -----------------------------
(***************************************************************************)
(* The bandwidth ladder of a DASH client: the pure functions of            *)
(* ns-2.35/dash/dashclient.cc that pick one of the offered bandwidths.     *)
(*                                                                         *)
(* q is the client's _bwqueue, a non-empty sequence of positive            *)
(* bandwidths; lo and hi are _bitrate_lower_bound and                      *)
(* _bitrate_upper_bound, where a non-positive value means "not set".       *)
(***************************************************************************)
EXTENDS Integers, Sequences

Offered(q) == {q[i] : i \in DOMAIN q}

Ascending(q) == \A i, j \in DOMAIN q : i < j => q[i] < q[j]

-----------------------------------------------------------------------------
(* higher_bandwidth: the first entry that reaches the bound, else the last. *)
higher_bandwidth(q, bound) ==
    LET fits == {i \in DOMAIN q : q[i] >= bound}
    IN  IF fits = {} THEN q[Len(q)]
        ELSE q[CHOOSE i \in fits : \A j \in fits : i <= j]

(* lower_bandwidth: the last entry within the bound, else the first. *)
lower_bandwidth(q, bound) ==
    LET fits == {i \in DOMAIN q : q[i] <= bound}
    IN  IF fits = {} THEN q[1]
        ELSE q[CHOOSE i \in fits : \A j \in fits : i >= j]

(* The entries the scan of best_matching_bandwidth has accepted when it    *)
(* leaves its loop: it stops at the first entry that is above the rate or  *)
(* does not raise the candidate.                                           *)
Scanned(q, rate) ==
    {i \in DOMAIN q : \A j \in 1..i : /\ q[j] <= rate
                                      /\ q[j] > (IF j = 1 THEN 0 ELSE q[j-1])}

(* The candidate after the scan: the last accepted entry, or the first one *)
(* of the queue when nothing was accepted.                                 *)
Candidate(q, rate) ==
    LET ok == Scanned(q, rate)
    IN  IF ok = {} THEN q[1] ELSE q[CHOOSE i \in ok : \A j \in ok : i >= j]

(* Mutant: the upper bound is forgotten. *)
best_matching_bandwidth_NoUpper(q, lo, hi, rate) ==
    LET c1 == Candidate(q, rate)
    IN  IF lo > 0 /\ c1 < lo THEN higher_bandwidth(q, lo) ELSE c1

(* best_matching_bandwidth: the candidate, moved into the client's bounds, *)
(* the lower bound first. (A rate <= 0 ends the process: see DashClient.)  *)
best_matching_bandwidth(q, lo, hi, rate) ==
    LET c1 == Candidate(q, rate)
        c2 == IF lo > 0 /\ c1 < lo THEN higher_bandwidth(q, lo) ELSE c1
    IN  IF hi > 0 /\ c2 > hi THEN lower_bandwidth(q, hi) ELSE c2

(* next_higher_bandwidth: the successor of bw in the queue; bw itself at   *)
(* the top; -1 when bw is not in the queue.                                *)
next_higher_bandwidth(q, bw) ==
    LET at == {i \in DOMAIN q : q[i] = bw}
        i  == CHOOSE k \in at : \A j \in at : k <= j
    IN  IF at = {} THEN -1
        ELSE IF i = Len(q) THEN bw
        ELSE q[i+1]

(* The bandwidth process_m3u8item_data asks for first. *)
initial_bandwidth(q, lo) ==
    IF lo <= 0 THEN q[1] ELSE higher_bandwidth(q, lo)

=============================================================================
