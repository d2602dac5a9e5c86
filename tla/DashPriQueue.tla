---------------------------- MODULE DashPriQueue ----------------------------
(***************************************************************************)
(* The interface queue of the access point (ns-2.35/dash/dashpriqueue.cc,  *)
(* dashpriqueue.h): one main packet queue q_, a sub-queue (RRQueue) per    *)
(* destination bucket and one for routing packets, a ring of the sub-      *)
(* queues that hold packets, and four selection policies.                  *)
(*                                                                         *)
(* The queue is driven by two events: recv() of a packet from above, and   *)
(* resume(), the callback the MAC makes when it wants the next packet.     *)
(* Between the two the queue is blocked_. The operators below compute the  *)
(* effect of a method on the record s of all the queue's fields; the two   *)
(* actions compose them.                                                   *)
(***************************************************************************)
EXTENDS Integers, Sequences, FiniteSets, SequencesExt, FiniteSetsExt

CONSTANTS
    Flows,       \* data buckets in use: 1..n, in the order of rr_drr
    Arriving,    \* the buckets packets arrive for; 0 is the priority one
    Sizes,       \* packet sizes
    Ids,         \* packet buffers
    Qlim,        \* qlim_
    Quantum,     \* quantum (250 in the code)
    Weight,      \* weight_ of each sub-queue
    Policy,      \* the policy DashLL::select_packet dispatches on
    Overflows,   \* may packets arrive at a queue that is full?
    MaxNumFlows, \* bound on num_flows, which WF2Q never decrements
    MaxClock,    \* bound on the virtual clock of WF2Q
    NoPacket     \* the NULL packet

Prio == 0
Buckets == {Prio} \cup Flows
Policies == {"FIFO", "RR", "DRR", "WF2Q"}

ASSUME QueueAssumption ==
    /\ Flows \subseteq Nat \ {0} /\ IsFiniteSet(Flows)
    /\ Arriving \subseteq Buckets
    /\ Sizes \subseteq Nat \ {0} /\ \E m \in Sizes : \A n \in Sizes : n <= m
    /\ Ids \subseteq Nat /\ IsFiniteSet(Ids)
    /\ Qlim \in Nat \ {0} /\ Quantum \in Nat \ {0}
    /\ MaxNumFlows \in Nat /\ MaxClock \in Nat
    /\ Weight \in [Buckets -> Nat \ {0}]
    /\ Policy \in Policies
    /\ Overflows \in BOOLEAN

(* Virtual times stay integers: every quotient of a size is exact. *)
SumOfWeights(F) == MapThenSumSet(LAMBDA f : Weight[f], F)

ASSUME WeightAssumption ==
    \A size \in Sizes :
        /\ \A f \in Buckets : size % Weight[f] = 0
        /\ \A F \in SUBSET Flows : F # {} => size % SumOfWeights(F) = 0

Packet == [id : Ids, flow : Buckets, size : Sizes]
ASSUME NoPacketAssumption == NoPacket \notin Packet

VARIABLES
    q,        \* the fields of DashPriQueue and of its RRQueues
    blocked,  \* blocked_
    mac,      \* the packet the MAC is sending
    proc      \* running, or ended by the abort() of PacketQueue::remove

vars == <<q, blocked, mac, proc>>

Maximum(a, b) == IF a >= b THEN a ELSE b

-----------------------------------------------------------------------------
(* Mutants: the byte count is not reduced; the packet stays in the list. *)
TakeFrom_KeepsBytes(s, f, p) ==
    [s EXCEPT !.cnt[f] = @ - 1, !.subq[f] = RemoveFirst(@, p),
              !.turn[f] = IF s.cnt[f] = 1 THEN 0 ELSE @,
              !.deficit[f] = IF s.cnt[f] = 1 THEN 0 ELSE @]
TakeFrom_KeepsPacket(s, f, p) ==
    [s EXCEPT !.cnt[f] = @ - 1, !.qcrt[f] = @ - p.size]

(* RRQueue::deque_packet / drop_packet: the bookkeeping of bucket f when   *)
(* packet p is taken out of its list, which names a packet at most once.   *)
(* An empty bucket loses its deficit.                                      *)
TakeFrom(s, f, p) ==
    LET n == s.cnt[f] - 1
    IN  [s EXCEPT !.cnt[f] = n,
                  !.qcrt[f] = @ - p.size,
                  !.subq[f] = RemoveFirst(@, p),
                  !.turn[f] = IF n = 0 THEN 0 ELSE @,
                  !.deficit[f] = IF n = 0 THEN 0 ELSE @]

(* Mutant: the bucket becomes rr_cur itself. *)
Activate_Front(s, f) ==
    [s EXCEPT !.ring = IF f \in ToSet(@) THEN @ ELSE <<f>> \o @,
              !.deficit[f] = 0,
              !.numFlows = @ + 1]

(* RRQueue::activate: an empty ring becomes <<f>>, otherwise f enters just *)
(* before rr_cur. The ring is listed from rr_cur on. Only WF2Q activates   *)
(* a bucket that is still linked; it never reads the ring, whose links are *)
(* then not modelled.                                                      *)
Activate(s, f) ==
    [s EXCEPT !.ring = IF f \in ToSet(@) THEN @ ELSE Append(@, f),
              !.deficit[f] = 0,
              !.numFlows = @ + 1]

(* Mutants: num_flows is decremented for every packet; an empty bucket is  *)
(* not unlinked.                                                           *)
IdleIfEmpty_Always(s, f) ==
    [s EXCEPT !.ring = IF s.cnt[f] > 0 THEN @ ELSE RemoveFirst(@, f), !.numFlows = @ - 1]
IdleIfEmpty_StaysLinked(s, f) ==
    IF s.cnt[f] = 0 THEN [s EXCEPT !.numFlows = @ - 1] ELSE s

(* RRQueue::idle when bucket f is empty: unlink it; rr_cur moves on if it  *)
(* was f.                                                                  *)
IdleIfEmpty(s, f) ==
    IF s.cnt[f] = 0
    THEN [s EXCEPT !.ring = RemoveFirst(@, f), !.numFlows = @ - 1]
    ELSE s

(* The smallest start time of m and of the backlogged data buckets. *)
MinStart(s, m) == Min({m} \cup {s.start[f] : f \in {g \in Flows : s.qcrt[g] > 0}})

(* The WF2Q+ time stamps of the first packet of a bucket. *)
Stamp(s, f, size) ==
    LET st == Maximum(s.vclock, s.start[f])
        t  == [s EXCEPT !.start[f] = st, !.finish[f] = st + size \div Weight[f]]
    IN  [t EXCEPT !.vclock = Maximum(MinStart(t, st), @)]

(* recv_data_packet up to the overflow handling: the packet enters the     *)
(* main queue and its bucket, which is activated and stamped if it was     *)
(* empty.                                                                  *)
Enqueue(s, p) ==
    LET f == p.flow
        t == [s EXCEPT !.main = Append(@, p),
                       !.subq[f] = Append(@, p),
                       !.cnt[f] = @ + 1,
                       !.qcrt[f] = @ + p.size]
    IN  IF t.cnt[f] = 1 THEN Stamp(Activate(t, f), f, p.size) ELSE t

(* The overflow branch: the packet is queued, a random victim leaves the   *)
(* main queue, and drop_packet(p) is called on the victim's bucket with    *)
(* the packet that has just arrived.                                       *)
DropRandom(s, p, k) ==
    LET victim == s.main[k]
        f      == victim.flow
        t      == TakeFrom([s EXCEPT !.main = RemoveAt(@, k)], f, p)
    IN  IdleIfEmpty(t, f)

(* Mutant: the check comes one packet late. *)
Full_Late(s) == Len(s.main) + 1 > Qlim

(* The queue would be full with one packet more. *)
Full(s) == Len(s.main) + 1 >= Qlim

-----------------------------------------------------------------------------
(* Selection. A selection is a pair: the packet (or NoPacket) and the      *)
(* queue's fields afterwards, the main queue excepted.                     *)

select_packet_fifo(s) ==
    IF s.main = <<>> THEN <<NoPacket, s>>
    ELSE LET p == Head(s.main)
         IN  <<p, IdleIfEmpty(TakeFrom(s, p.flow, p), p.flow)>>

Rotate(ring) == IF ring = <<>> THEN ring ELSE Append(Tail(ring), Head(ring))

(* Mutant: the packet stays in its sub-queue. *)
select_packet_rr_Peek(s) == <<Head(s.subq[Head(s.ring)]), [s EXCEPT !.ring = Rotate(@)]>>

(* Round robin: after idle() has moved rr_cur to the next bucket, the      *)
(* common "rr_cur=rr_cur->next" moves it once more.                        *)
select_packet_rr(s) ==
    LET f == Head(s.ring)
        p == Head(s.subq[f])
        t == IdleIfEmpty(TakeFrom(s, f, p), f)
    IN  <<p, [t EXCEPT !.ring = Rotate(@)]>>

(* Deficit round robin. The loop visits the ring from rr_cur on; a visit   *)
(* adds the quantum unless the bucket's turn has already begun, and the    *)
(* first bucket whose deficit covers its front packet is served. Pos is a  *)
(* bucket's position in the ring.                                          *)
Credit(s, f, visits) == s.deficit[f] + Quantum * (visits - s.turn[f])

(* Mutant: the packet that is sent is not charged. *)
Charge_None(g, f, p) == 0

Charge(g, f, p) == IF g = f THEN p.size ELSE 0

VisitsNeeded(s, f) ==
    LET size == Head(s.subq[f]).size
    IN  CHOOSE v \in 1..(size + 1) :
            /\ Credit(s, f, v) >= size
            /\ \A w \in 1..(v-1) : Credit(s, f, w) < size

select_packet_drr(s) ==
    LET n       == Len(s.ring)
        when(k) == (VisitsNeeded(s, s.ring[k]) - 1) * n + k
        win     == CHOOSE k \in 1..n : \A j \in 1..n : when(k) <= when(j)
        f       == s.ring[win]
        p       == Head(s.subq[f])
        visits  == [g \in ToSet(s.ring) |->
                       LET j == CHOOSE i \in 1..n : s.ring[i] = g
                       IN  Cardinality({v \in 0..when(win) : v * n + j <= when(win)})]
        t       == [s EXCEPT
                      !.deficit = [g \in Buckets |->
                          IF g \notin ToSet(s.ring) \/ visits[g] = 0 THEN s.deficit[g]
                          ELSE Credit(s, g, visits[g]) - Charge(g, f, p)],
                      !.turn = [g \in Buckets |->
                          IF g = f THEN 1
                          ELSE IF g \in ToSet(s.ring) /\ visits[g] > 0 THEN 0
                          ELSE s.turn[g]],
                      !.ring = SubSeq(@, win, n) \o SubSeq(@, 1, win - 1)]
    IN  <<p, IdleIfEmpty(TakeFrom(t, f, p), f)>>

(* WF2Q+: the eligible bucket with the earliest finish time. The bucket    *)
(* stays in the ring and in num_flows when it becomes empty.               *)
select_packet_wf2q(s) ==
    LET eligible == {f \in Flows : s.qcrt[f] # 0 /\ s.start[f] <= s.vclock}
        f   == CHOOSE g \in eligible : \A h \in eligible :
                   \/ s.finish[g] < s.finish[h]
                   \/ s.finish[g] = s.finish[h] /\ g <= h
        p   == Head(s.subq[f])
        t   == TakeFrom(s, f, p)
        u   == IF t.cnt[f] = 0 THEN t
               ELSE [t EXCEPT !.start[f] = s.finish[f],
                              !.finish[f] = s.finish[f] + p.size \div Weight[f]]
        W   == SumOfWeights({g \in Flows : u.qcrt[g] # 0})
    IN  IF eligible = {} THEN <<NoPacket, s>>
        ELSE <<p, IF W = 0 THEN u
                  ELSE [u EXCEPT !.vclock = Maximum(MinStart(u, u.start[f]),
                                                    @ + p.size \div W)]>>

(* Mac802_11mr::select_packet_mac and DashLL::select_packet: the policy. *)
select_packet(s) ==
    CASE Policy = "FIFO" -> select_packet_fifo(s)
      [] Policy = "RR"   -> select_packet_rr(s)
      [] Policy = "DRR"  -> select_packet_drr(s)
      [] Policy = "WF2Q" -> select_packet_wf2q(s)

(* Mutant: the policy is asked first. *)
select_packet_prio_first_Data(s) ==
    IF s.numFlows > 0 THEN select_packet(s) ELSE <<NoPacket, s>>

(* Routing packets go first, then what the policy says. *)
select_packet_prio_first(s) ==
    IF s.cnt[Prio] # 0
    THEN LET p == Head(s.subq[Prio])
         IN  <<p, IdleIfEmpty(TakeFrom(s, Prio, p), Prio)>>
    ELSE IF s.numFlows > 0 THEN select_packet(s)
    ELSE <<NoPacket, s>>

-----------------------------------------------------------------------------
Init ==
    /\ q = [main     |-> <<>>,
            subq     |-> [f \in Buckets |-> <<>>],
            cnt      |-> [f \in Buckets |-> 0],
            qcrt     |-> [f \in Buckets |-> 0],
            ring     |-> <<>>,
            numFlows |-> 0,
            turn     |-> [f \in Buckets |-> 0],
            deficit  |-> [f \in Buckets |-> 0],
            start    |-> [f \in Buckets |-> 0],
            finish   |-> [f \in Buckets |-> 0],
            vclock   |-> 0]
    /\ blocked = FALSE
    /\ mac = NoPacket
    /\ proc = "running"

(* Mutant: the queue is never unblocked. *)
HandOver_StaysBlocked(sel) ==
    /\ mac' = sel[1]
    /\ q' = [sel[2] EXCEPT !.main = RemoveFirst(@, sel[1])]
    /\ proc' = IF sel[1] = NoPacket \/ sel[1] \in ToSet(sel[2].main)
               THEN proc ELSE "abort"
    /\ blocked' = (blocked \/ sel[1] # NoPacket)

(* Hand the selected packet to the MAC and take it off the main queue;     *)
(* PacketQueue::remove aborts if it is not there.                          *)
HandOver(sel) ==
    /\ mac' = sel[1]
    /\ q' = [sel[2] EXCEPT !.main = RemoveFirst(@, sel[1])]
    /\ proc' = IF sel[1] = NoPacket \/ sel[1] \in ToSet(sel[2].main)
               THEN proc ELSE "abort"
    /\ blocked' = (sel[1] # NoPacket)

(* Buffers nobody refers to. (A dropped packet that a sub-queue still      *)
(* lists keeps its buffer: a bound on drops, not a claim about the code.)  *)
FreeIds == Ids \ {x.id : x \in ToSet(q.main) \cup ({mac} \ {NoPacket})
                                \cup UNION {ToSet(q.subq[f]) : f \in Buckets}}

(* The queue after recv_data_packet has stored p, dropping one of the      *)
(* packets if it is full.                                                  *)
Stored(p) ==
    IF Full(q) THEN {DropRandom(Enqueue(q, p), p, k) : k \in 1..(Len(q.main) + 1)}
    ELSE {Enqueue(q, p)}

recv(f, size) ==
    /\ FreeIds # {}
    /\ q.numFlows < MaxNumFlows /\ q.vclock < MaxClock
    /\ Overflows \/ ~Full(q)
    /\ \E s \in Stored([id |-> Min(FreeIds), flow |-> f, size |-> size]) :
           IF blocked THEN q' = s /\ UNCHANGED <<blocked, mac, proc>>
           ELSE HandOver(select_packet_prio_first(s))

(* The MAC is done with its packet and asks for the next one. *)
resume ==
    /\ mac # NoPacket
    /\ HandOver(select_packet_prio_first(q))

Next == /\ proc = "running"
        /\ \/ \E f \in Arriving, size \in Sizes : recv(f, size)
           \/ resume

Spec == Init /\ [][Next]_vars

(* The MAC always finishes with a packet, by an acknowledgement or after   *)
(* its last retry, and then calls back.                                    *)
FairSpec == Spec /\ WF_vars(proc = "running" /\ resume)

(* The same assumption with ENABLED resume written out as mac # NoPacket,  *)
(* which spares TLC the evaluation of ENABLED on every state.              *)
FairSpecUnfolded ==
    /\ Spec
    /\ \/ []<>(mac = NoPacket \/ proc # "running")
       \/ []<><<proc = "running" /\ resume>>_vars

-----------------------------------------------------------------------------
(* The packets of bucket f in the main queue. *)
Backlog(f) == {x \in ToSet(q.main) : x.flow = f}

(* What both sequences hold comes in the same order, once in each. *)
SameOrder(a, b) ==
    \A i, j \in DOMAIN a, k, l \in DOMAIN b :
        a[i] = b[k] /\ a[j] = b[l] => (i < j <=> k < l)

TypeOK ==
    /\ q.main \in Seq(Packet)
    /\ \A f \in Buckets : /\ q.subq[f] \in Seq(Packet)
                          /\ q.cnt[f] \in Nat /\ q.turn[f] \in {0, 1}
                          /\ q.deficit[f] \in Nat
    /\ ToSet(q.ring) \subseteq Buckets /\ q.numFlows \in Nat
    /\ q.vclock \in Nat
    /\ blocked \in BOOLEAN /\ mac \in Packet \cup {NoPacket}
    /\ proc \in {"running", "abort"}

(* The packet counters of the buckets, the ring and num_flows agree with   *)
(* the main queue, also when packets are dropped: a bucket is linked once  *)
(* and exactly while the main queue holds a packet for it. The ring is     *)
(* walked without a check for empty buckets.                               *)
RingMatchesBacklog ==
    /\ \A f \in Buckets : q.cnt[f] = Cardinality(Backlog(f))
    /\ IsInjective(q.main) /\ IsInjective(q.ring)
    /\ ToSet(q.ring) = {f \in Buckets : Backlog(f) # {}}
    /\ q.numFlows = Len(q.ring)

(* Each sub-queue lists the packets of its bucket that are in the main     *)
(* queue, in the same order.                                               *)
SubqueuesMirrorMain ==
    \A f \in Buckets : ToSet(q.subq[f]) = Backlog(f) /\ SameOrder(q.subq[f], q.main)

(* The byte count of a bucket is that of the packets listed for it. *)
BytesMatchSubqueue ==
    \A f \in Buckets : q.qcrt[f] = FoldLeft(LAMBDA n, x : n + x.size, 0, q.subq[f])

(* No packet waits while the MAC is free: whenever the queue is not        *)
(* blocked_ it is empty, so the next recv or resume cannot be missed.      *)
WorkConserving ==
    /\ ~blocked => q.main = <<>>
    /\ blocked <=> mac # NoPacket

(* The main queue never holds qlim_ packets, and the packet index          *)
(* rand()%qlim_ always exists when one is dropped.                         *)
BelowLimit == Len(q.main) < Qlim \/ (Qlim = 1 /\ q.main = <<>>)

(* q_->remove finds the packet that a sub-queue selected. *)
NoAbort == proc = "running"

(* A deficit left over from an earlier turn stays below the largest        *)
(* packet, and below the quantum while the turn lasts: no bucket saves up  *)
(* credit and then sends a burst.                                          *)
DeficitBounded ==
    \A f \in Buckets :
        q.deficit[f] < (IF q.turn[f] = 1 THEN Quantum ELSE Max(Sizes))

(* Packets of one bucket leave in the order in which they arrived, and no  *)
(* data packet overtakes a routing packet, whatever the policy.            *)
FlowOrder ==
    [][mac' # NoPacket /\ mac' # mac =>
         /\ \A k \in DOMAIN q.main :
               q.main[k].flow = mac'.flow => \E i \in 1..k : q.main[i] = mac'
         /\ mac'.flow # Prio => Backlog(Prio) = {}]_vars

(* A bucket that holds packets is eventually served. *)
NoStarvation ==
    \A f \in Arriving : (q.cnt[f] > 0) ~> (mac # NoPacket /\ mac.flow = f)

=============================================================================
