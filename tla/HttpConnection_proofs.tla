------------------------ MODULE HttpConnection_proofs ------------------------
(***************************************************************************)
(* Two agents over a lossy path implement the streams of module Streams,   *)
(* for any segment size, any responses and any bounds. The argument: an    *)
(* application hands its agent one batch of messages at a time, all but    *)
(* the last of them as long as a segment, and only when everything before  *)
(* is acknowledged, because the packet that made it send carried that      *)
(* acknowledgement. So segments and messages have the same edges, and      *)
(* TCP's counters are positions in the batch.                              *)
(***************************************************************************)
EXTENDS HttpConnection, FiniteSetTheorems, WellFoundedInduction, SequenceTheorems, TLAPS

(* What an application hands over at once. *)
Batch(m) ==
    /\ \A i \in 1..Len(m) : /\ m[i].size \in 1..MaxSeg
                            /\ i < Len(m) => m[i].size = MaxSeg
                            /\ m[i].final => i = Len(m)
    /\ Len(m) > 1 => \A i \in 1..Len(m) : m[i].media

(* One direction of the connection: the batch under way, the byte it       *)
(* starts at, and how many of its messages the sender knows to be          *)
(* acknowledged, has behind t_seqno_ and has sent, and the receiver has    *)
(* got.                                                                    *)
Flow == {d \in [base : Nat, msgs : Seq(Message),
                acked : Nat, next : Nat, sent : Nat, got : Nat] :
            /\ Batch(d.msgs)
            /\ d.acked <= d.next /\ d.next <= d.sent /\ d.sent <= Len(d.msgs)
            /\ d.acked <= d.got /\ d.got <= d.sent}

(* The first byte of message i, and the byte behind the last message. *)
Edge(b, m, i) ==
    IF i <= Len(m) THEN b + (i-1) * MaxSeg
    ELSE IF m = <<>> THEN b ELSE b + (Len(m)-1) * MaxSeg + m[Len(m)].size

At(d, i) == Edge(d.base, d.msgs, i)

Entry(d, i) == [data |-> d.msgs[i], start_seq |-> At(d, i), length |-> d.msgs[i].size]

Sender(a, d) ==
    /\ a.waitq = [i \in 1..(d.sent - d.acked) |-> Entry(d, d.acked + i)]
    /\ a.appq = [i \in 1..(Len(d.msgs) - d.sent) |-> d.msgs[d.sent + i]]
    /\ a.highest_ack = At(d, d.acked + 1)
    /\ a.t_seqno = At(d, d.next + 1)
    /\ a.maxseq = At(d, d.sent + 1)
    /\ a.curseq = At(d, Len(d.msgs) + 1)

(* A packet of the flow d, to the sender of the flow r: it acknowledges an *)
(* edge of r, and it carries nothing, or a message that has been received, *)
(* or one that is waiting; and in this case it acknowledges all of r that  *)
(* has arrived.                                                            *)
Carries(p, d, i) == /\ p.seqno = At(d, i)
                    /\ p.data = d.msgs[i]
                    /\ p.datalen = d.msgs[i].size

OnTheWay(p, d, r) ==
    /\ p.ackno <= r.base \/ \E j \in 0..r.got : p.ackno = At(r, j + 1)
    /\ \/ p.datalen = 0 /\ p.data = NoData
       \/ /\ p.datalen > 0 /\ p.datalen = p.data.size
          /\ p.seqno + p.datalen <= At(d, d.got + 1)
       \/ /\ \E i \in (d.got + 1)..d.sent : Carries(p, d, i)
          /\ p.ackno = At(r, r.got + 1)

Path(q, d, r) == \A i \in 1..Len(q) : OnTheWay(q[i], d, r)

(* The client's receive queue: messages that are being handed over,        *)
(* without a gap, and messages behind a hole, whose bytes are in TCP's     *)
(* reassembly queue.                                                       *)
Tile(d, i) == [data |-> d.msgs[i], start_seq |-> At(d, i)]

Has(a, d, j) == \E i \in 1..Len(a.recvq) : a.recvq[i] = Tile(d, j)

Sorted(q) == \A i, j \in 1..Len(q) : i <= j => q[i].start_seq <= q[j].start_seq

Queued(a, d) ==
    /\ \A i \in 1..Len(a.recvq) :
           \E j \in 1..d.sent : /\ j # d.got + 1
                                /\ a.recvq[i] = Tile(d, j)
                                /\ d.msgs[j].media
    /\ Sorted(a.recvq)
    /\ \A j \in 1..d.got :
           a.recvq # <<>> /\ a.recvq[1].start_seq <= At(d, j) => Has(a, d, j)
    /\ a.rq = {y \in Nat : \E j \in (d.got + 1)..d.sent :
                              Has(a, d, j) /\ At(d, j) <= y /\ y < At(d, j + 1)}

(* Copies of the last message of the batch before, when the next batch is  *)
(* already under way, with exchange n.                                     *)
OldCopies(a, d, n) ==
    /\ d.got = 0 /\ a.rq = {}
    /\ \A i \in 1..Len(a.recvq) :
           LET x == a.recvq[i]
           IN  /\ x = a.recvq[1]
               /\ x.data.media /\ x.data.exchange < n /\ x.start_seq < d.base

(* The three phases of an exchange, with c the flow of the client and s    *)
(* that of the server.                                                     *)
OnlyLast(a, d) == \A i \in 1..Len(a.recvq) : a.recvq[i] = Tile(d, Len(d.msgs))

Idle(c, s) == /\ expected = 0
              /\ c.acked = Len(c.msgs)
              /\ s.got = Len(s.msgs) /\ OnlyLast(agent["client"], s)
              /\ Queued(agent["client"], s)

Asking(c, s) == /\ expected # 0 /\ asked > 0
                /\ c.got = 0
                /\ s.got = Len(s.msgs) /\ OnlyLast(agent["client"], s)
                /\ \A i \in 1..Len(s.msgs) : s.msgs[i].exchange < asked
                /\ Queued(agent["client"], s)

Answering(c, s) ==
    /\ expected # 0 /\ asked > 0
    /\ c.got = 1
    /\ \A i \in 1..Len(s.msgs) : s.msgs[i].exchange = asked
    /\ c.acked = 1 \/ (s.got = 0 /\ agent["client"].rq = {})
    /\ Queued(agent["client"], s) \/ OldCopies(agent["client"], s, asked)

Phase(c, s) ==
    /\ agent["server"].recvq = <<>> /\ agent["server"].rq = {}
    /\ c.msgs = IF asked = 0 THEN <<>> ELSE <<Request(asked)>>
    /\ \A i \in 1..Len(s.msgs) : s.msgs[i].exchange <= asked /\ s.msgs[i].piece > 0
    /\ Idle(c, s) \/ Asking(c, s) \/ Answering(c, s)

(* End e sends the flow d and receives the flow r. *)
Link(e, d, r) == /\ Sender(agent[e], d)
                 /\ agent[e].rcv_nxt = At(r, r.got + 1)
                 /\ Path(net[e], r, d)

Connection(c, s) == Link("client", c, s) /\ Link("server", s, c) /\ Phase(c, s)

Inv == TypeOK /\ Running /\ \E c, s \in Flow : Connection(c, s)

-----------------------------------------------------------------------------
(* Numbers: smallest elements, the order of a set, and multiples of the    *)
(* segment size.                                                           *)

(* A non-empty set of naturals has a smallest element. *)
LEMMA SmallestExists ==
    ASSUME NEW S, S \subseteq Nat, S # {}
    PROVE  \E x \in S : \A y \in S : x <= y
<1>1. IsWellFoundedOn(OpToRel(<, Nat), Nat)
  BY NatLessThanWellFounded
<1>2. PICK x \in S : \A y \in S : ~(<<y, x>> \in OpToRel(<, Nat))
  BY <1>1, WFMin
<1>3. ASSUME NEW y \in S PROVE x <= y
  <2>1. ~(y < x)
    BY <1>2 DEF OpToRel
  <2>2. QED
    BY <2>1
<1>4. QED
  BY <1>3

(* The smallest element of a set of numbers.                               *)
LEMMA MinOf ==
    ASSUME NEW S, S \subseteq Nat, NEW x \in S, \A y \in S : x <= y
    PROVE  Min(S) = x
<1>1. Min(S) \in S /\ \A y \in S : Min(S) <= y
  BY DEF Min
<1>2. Min(S) \in Nat /\ x \in Nat /\ Min(S) <= x /\ x <= Min(S)
  BY <1>1
<1>3. QED
  BY <1>2

(* A strictly increasing enumeration of a set lists its members in the     *)
(* order of Nth.                                                           *)
LEMMA NthOf ==
    ASSUME NEW S, S \subseteq Nat, NEW n \in Nat, NEW f \in [1..n -> S],
           \A i, j \in 1..n : i < j => f[i] < f[j],
           \A x \in S : \E i \in 1..n : f[i] = x
    PROVE  /\ Cardinality(S) = n
           /\ \A k \in 1..n : Nth(S, k) = f[k]
<1>1. ASSUME NEW k \in 0..n
      PROVE  Cardinality({f[i] : i \in 1..k}) = k
  <2> DEFINE g == [i \in 1..k |-> f[i]]
             T == {f[i] : i \in 1..k}
  <2>1. g \in Bijection(1..k, T)
    <3>1. g \in [1..k -> T]
      OBVIOUS
    <3>2. \A x, y \in 1..k : g[x] = g[y] => x = y
      <4> SUFFICES ASSUME NEW x \in 1..k, NEW y \in 1..k, f[x] = f[y] PROVE x = y
        OBVIOUS
      <4>1. x \in 1..n /\ y \in 1..n
        OBVIOUS
      <4>2. f[x] \in Nat /\ f[y] \in Nat
        BY <4>1
      <4>3. ~(x < y) /\ ~(y < x)
        BY <4>1, <4>2
      <4>4. QED
        BY <4>1, <4>3
    <3>3. \A t \in T : \E x \in 1..k : g[x] = t
      OBVIOUS
    <3>4. QED
      BY <3>1, <3>2, <3>3 DEF Bijection, Injection, Surjection, IsInjective
  <2>2. IsFiniteSet(1..k) /\ Cardinality(1..k) = k
    BY FS_Interval
  <2>3. QED
    BY <2>1, <2>2, FS_Bijection DEF ExistsBijection
<1>2. Cardinality(S) = n
  <2>1. S = {f[i] : i \in 1..n}
    OBVIOUS
  <2>2. n \in 0..n
    OBVIOUS
  <2>3. QED
    BY <1>1, <2>1, <2>2
<1>3. ASSUME NEW k \in 1..n
      PROVE  Cardinality({y \in S : y < f[k]}) = k - 1
  <2>1. {y \in S : y < f[k]} = {f[i] : i \in 1..(k-1)}
    <3>1. ASSUME NEW y \in S, y < f[k] PROVE y \in {f[i] : i \in 1..(k-1)}
      <4>1. PICK i \in 1..n : f[i] = y
        OBVIOUS
      <4>2. i < k
        <5>1. f[i] \in Nat /\ f[k] \in Nat
          OBVIOUS
        <5>2. ~(i = k) /\ ~(k < i)
          BY <3>1, <4>1, <5>1
        <5>3. QED
          BY <5>2
      <4>3. QED
        BY <4>1, <4>2
    <3>2. ASSUME NEW i \in 1..(k-1) PROVE f[i] \in S /\ f[i] < f[k]
      OBVIOUS
    <3>3. QED
      BY <3>1, <3>2
  <2>2. k - 1 \in 0..n
    OBVIOUS
  <2>3. QED
    BY <1>1, <2>1, <2>2
<1>4. ASSUME NEW k \in 1..n PROVE Nth(S, k) = f[k]
  <2>1. f[k] \in S /\ Cardinality({y \in S : y < f[k]}) = k - 1
    BY <1>3
  <2>2. ASSUME NEW x \in S, Cardinality({y \in S : y < x}) = k - 1 PROVE x = f[k]
    <3>1. PICK i \in 1..n : f[i] = x
      OBVIOUS
    <3>2. i - 1 = k - 1
      BY <1>3, <2>2, <3>1
    <3>3. i = k
      BY <3>2
    <3>4. QED
      BY <3>1, <3>3
  <2>3. QED
    BY <2>1, <2>2 DEF Nth
<1>5. QED
  BY <1>2, <1>4

(* The entries from an index on. *)
LEMMA KeptSuffix ==
    ASSUME NEW q, NEW h \in Nat, NEW n \in Nat, h <= n
    PROVE  Kept(q, (h+1)..n) = [k \in 1..(n-h) |-> q[h+k]]
<1> DEFINE S == (h+1)..n
           f == [k \in 1..(n-h) |-> h + k]
<1>1. S \subseteq Nat /\ n - h \in Nat /\ f \in [1..(n-h) -> S]
  OBVIOUS
<1>2. \A i, j \in 1..(n-h) : i < j => f[i] < f[j]
  OBVIOUS
<1>3. \A x \in S : \E i \in 1..(n-h) : f[i] = x
  <2> TAKE x \in S
  <2>1. x - h \in 1..(n-h) /\ f[x - h] = x
    OBVIOUS
  <2>2. QED
    BY <2>1
<1> HIDE DEF S
<1>4. Cardinality(S) = n - h /\ \A k \in 1..(n-h) : Nth(S, k) = f[k]
  <2> HIDE DEF f
  <2>1. QED
    BY <1>1, <1>2, <1>3, NthOf
<1>5. Kept(q, S) = [k \in 1..(n-h) |-> q[h+k]]
  BY <1>4 DEF Kept
<1>6. QED
  BY <1>5 DEF S

(* The arithmetic of multiples of the segment size, stated once: the       *)
(* provers do not multiply two unknowns.                                   *)
LEMMA SegmentMultiples ==
    /\ MaxSeg \in Nat /\ MaxSeg > 0
    /\ \A i \in Int : i * MaxSeg \in Int
    /\ \A i, j \in Int : (i + j) * MaxSeg = i * MaxSeg + j * MaxSeg
    /\ \A i, j \in Int : (i - j) * MaxSeg = i * MaxSeg - j * MaxSeg
    /\ \A i \in Nat : i * MaxSeg >= 0
    /\ \A i \in Nat : i * MaxSeg \in Nat
    /\ \A i \in Int : i > 0 => i * MaxSeg >= MaxSeg
    /\ \A i \in Int : i <= 0 => i * MaxSeg <= 0
    /\ 0 * MaxSeg = 0 /\ 1 * MaxSeg = MaxSeg
<1>1. MaxSeg \in Nat /\ MaxSeg > 0
  BY AgentAssumption
<1>2. QED
  BY <1>1

-----------------------------------------------------------------------------
(* Edges. *)

(* Every edge of a batch is a byte number.                                 *)
LEMMA EdgeNat ==
    ASSUME NEW b \in Nat, NEW m \in Seq(Message), Batch(m), NEW i \in 1..(Len(m) + 1)
    PROVE  Edge(b, m, i) \in Nat
<1>1. CASE i <= Len(m)
  <2>1. i - 1 \in Nat
    OBVIOUS
  <2>2. PICK e \in Nat : e = (i - 1) * MaxSeg
    BY <2>1, SegmentMultiples
  <2>3. Edge(b, m, i) = b + e
    BY <1>1, <2>2 DEF Edge
  <2>4. QED
    BY <2>2, <2>3
<1>2. CASE i > Len(m) /\ m = <<>>
  BY <1>2 DEF Edge
<1>3. CASE i > Len(m) /\ m # <<>>
  <2>1. Len(m) \in 1..Len(m)
    BY <1>3, EmptySeq, LenProperties
  <2>2. m[Len(m)].size \in Nat /\ (Len(m) - 1) * MaxSeg \in Nat
    BY <2>1, SegmentMultiples DEF Batch
  <2>3. QED
    BY <1>3, <2>2 DEF Edge
<1>4. QED
  BY <1>1, <1>2, <1>3

(* The first edge is where the batch starts.                               *)
LEMMA EdgeFirst ==
    ASSUME NEW b \in Nat, NEW m \in Seq(Message)
    PROVE  Edge(b, m, 1) = b
<1>1. CASE m = <<>>
  BY <1>1 DEF Edge
<1>2. CASE m # <<>>
  <2>1. 1 <= Len(m)
    BY <1>2
  <2>2. QED
    BY <2>1, SegmentMultiples DEF Edge
<1>3. QED
  BY <1>1, <1>2

(* From one edge to the next it is the size of the message between them.   *)
LEMMA EdgeNext ==
    ASSUME NEW b \in Nat, NEW m \in Seq(Message), Batch(m), NEW i \in 1..Len(m)
    PROVE  Edge(b, m, i + 1) = Edge(b, m, i) + m[i].size
<1>1. m[i].size \in Nat /\ (i < Len(m) => m[i].size = MaxSeg) /\ m # <<>>
  BY DEF Batch
<1>2. i * MaxSeg = (i - 1) * MaxSeg + MaxSeg /\ (i - 1) * MaxSeg \in Nat
  <2>1. i = (i - 1) + 1
    OBVIOUS
  <2>2. QED
    BY <2>1, SegmentMultiples
<1>3. CASE i < Len(m)
  <2>1. Edge(b, m, i + 1) = b + i * MaxSeg
    BY <1>3 DEF Edge
  <2>2. Edge(b, m, i) = b + (i - 1) * MaxSeg
    BY DEF Edge
  <2>3. QED
    BY <1>1, <1>2, <1>3, <2>1, <2>2, SegmentMultiples
<1>4. CASE i = Len(m)
  <2>1. Edge(b, m, i + 1) = b + (i - 1) * MaxSeg + m[i].size
    BY <1>1, <1>4 DEF Edge
  <2>2. Edge(b, m, i) = b + (i - 1) * MaxSeg
    BY DEF Edge
  <2>3. QED
    BY <1>1, <1>2, <2>1, <2>2
<1>5. QED
  BY <1>3, <1>4

(* The edges of a batch increase, and none is strictly inside a message.   *)
LEMMA EdgeOrder ==
    ASSUME NEW b \in Nat, NEW m \in Seq(Message), Batch(m),
           NEW i \in 1..(Len(m) + 1), NEW j \in 1..(Len(m) + 1), i < j
    PROVE  /\ Edge(b, m, i) < Edge(b, m, j)
           /\ Edge(b, m, i + 1) <= Edge(b, m, j)
<1>1. i \in 1..Len(m) /\ m # <<>> /\ i + 1 \in 1..(Len(m) + 1)
  OBVIOUS
<1>2. Edge(b, m, i) \in Nat /\ Edge(b, m, i + 1) \in Nat /\ Edge(b, m, j) \in Nat
  BY <1>1, EdgeNat
<1>3. Edge(b, m, i) < Edge(b, m, i + 1)
  <2>1. m[i].size > 0 /\ m[i].size \in Nat
    BY <1>1 DEF Batch
  <2>2. QED
    BY <1>1, <1>2, <2>1, EdgeNext
<1>4. Edge(b, m, i + 1) <= Edge(b, m, j)
  <2>1. CASE j = i + 1
    BY <1>2, <2>1
  <2>2. CASE i + 1 < j /\ j <= Len(m)
    <3>1. Edge(b, m, i + 1) = b + i * MaxSeg /\ Edge(b, m, j) = b + (j - 1) * MaxSeg
      BY <2>2 DEF Edge
    <3>2. (j - 1 - i) * MaxSeg >= 0 /\ (j - 1 - i) * MaxSeg = (j - 1) * MaxSeg - i * MaxSeg
      <4>1. j - 1 - i \in Nat
        BY <2>2
      <4>2. QED
        BY <4>1, SegmentMultiples
    <3>3. i * MaxSeg \in Int /\ (j - 1) * MaxSeg \in Int
      BY SegmentMultiples
    <3>4. QED
      BY <3>1, <3>2, <3>3
  <2>3. CASE i + 1 < j /\ j = Len(m) + 1
    <3>1. Edge(b, m, i + 1) = b + i * MaxSeg
      BY <2>3 DEF Edge
    <3>2. Edge(b, m, j) = b + (Len(m) - 1) * MaxSeg + m[Len(m)].size /\ m[Len(m)].size \in Nat
      BY <1>1, <2>3 DEF Edge, Batch
    <3>3. /\ (Len(m) - 1 - i) * MaxSeg >= 0
          /\ (Len(m) - 1 - i) * MaxSeg = (Len(m) - 1) * MaxSeg - i * MaxSeg
      <4>1. Len(m) - 1 - i \in Nat
        BY <2>3
      <4>2. QED
        BY <4>1, SegmentMultiples
    <3>4. i * MaxSeg \in Int /\ (Len(m) - 1) * MaxSeg \in Int
      BY SegmentMultiples
    <3>5. QED
      BY <3>1, <3>2, <3>3, <3>4
  <2>4. QED
    BY <2>1, <2>2, <2>3
<1>5. QED
  BY <1>2, <1>3, <1>4

(* The same for the edges of a flow, in one place. *)
LEMMA FlowType ==
    ASSUME NEW d \in Flow
    PROVE  /\ d.base \in Nat /\ d.msgs \in Seq(Message) /\ Batch(d.msgs)
           /\ d.acked \in Nat /\ d.next \in Nat /\ d.sent \in Nat /\ d.got \in Nat
           /\ d.acked <= d.next /\ d.next <= d.sent /\ d.sent <= Len(d.msgs)
           /\ d.acked <= d.got /\ d.got <= d.sent
           /\ Len(d.msgs) \in Nat
BY DEF Flow

(* The same facts for the edges of a flow.                                 *)
LEMMA AtFacts ==
    ASSUME NEW d \in Flow
    PROVE  /\ \A i \in 1..(Len(d.msgs) + 1) : At(d, i) \in Nat
           /\ At(d, 1) = d.base
           /\ \A i \in 1..Len(d.msgs) : /\ d.msgs[i].size \in 1..MaxSeg
                                        /\ At(d, i + 1) = At(d, i) + d.msgs[i].size
           /\ \A i, j \in 1..(Len(d.msgs) + 1) :
                  i < j => At(d, i) < At(d, j) /\ At(d, i + 1) <= At(d, j)
<1>1. d.base \in Nat /\ d.msgs \in Seq(Message) /\ Batch(d.msgs)
  BY FlowType
<1>2. \A i \in 1..(Len(d.msgs) + 1) : At(d, i) \in Nat
  BY <1>1, EdgeNat DEF At
<1>3. At(d, 1) = d.base
  BY <1>1, EdgeFirst DEF At
<1>4. ASSUME NEW i \in 1..Len(d.msgs)
      PROVE  d.msgs[i].size \in 1..MaxSeg /\ At(d, i + 1) = At(d, i) + d.msgs[i].size
  BY <1>1, EdgeNext DEF At, Batch
<1>5. ASSUME NEW i \in 1..(Len(d.msgs) + 1), NEW j \in 1..(Len(d.msgs) + 1), i < j
      PROVE  At(d, i) < At(d, j) /\ At(d, i + 1) <= At(d, j)
  BY <1>1, <1>5, EdgeOrder DEF At
<1>6. QED
  BY <1>2, <1>3, <1>4, <1>5

(* Edges of a flow compare like their indices: a sequence number names one *)
(* message.                                                                *)
LEMMA AtInjective ==
    ASSUME NEW d \in Flow, NEW i \in 1..(Len(d.msgs) + 1), NEW j \in 1..(Len(d.msgs) + 1)
    PROVE  /\ At(d, i) = At(d, j) <=> i = j
           /\ At(d, i) <= At(d, j) <=> i <= j
           /\ At(d, i) < At(d, j) <=> i < j
<1>1. At(d, i) \in Nat /\ At(d, j) \in Nat /\ Len(d.msgs) \in Nat
  BY AtFacts, FlowType
<1>2. CASE i < j
  BY <1>1, <1>2, AtFacts
<1>3. CASE j < i
  BY <1>1, <1>3, AtFacts
<1>4. CASE i = j
  BY <1>1, <1>4
<1>5. QED
  BY <1>1, <1>2, <1>3, <1>4

(* Every byte of the messages h .. n-1 belongs to one of them. *)
LEMMA Locate ==
    ASSUME NEW d \in Flow, NEW h \in 1..(Len(d.msgs) + 1), NEW n \in 1..(Len(d.msgs) + 1),
           NEW y \in Nat, At(d, h) <= y, y < At(d, n)
    PROVE  \E j \in h..(n-1) : At(d, j) <= y /\ y < At(d, j + 1)
<1> DEFINE S == {j \in 1..(Len(d.msgs) + 1) : y < At(d, j)}
<1>1. Len(d.msgs) \in Nat
  BY FlowType
<1>2. S \subseteq Nat /\ S # {}
  BY <1>1
<1>3. PICK j \in S : \A i \in S : j <= i
  BY <1>2, SmallestExists
<1>4. j <= n
  BY <1>3
<1>5. At(d, h) \in Nat /\ At(d, j) \in Nat
  BY AtFacts
<1>6. h < j
  <2>1. At(d, h) < At(d, j)
    BY <1>3, <1>5
  <2>2. QED
    BY <2>1, <1>3, AtInjective
<1>7. j - 1 \in 1..(Len(d.msgs) + 1) /\ j - 1 \notin S
  BY <1>1, <1>3, <1>6
<1>8. At(d, j - 1) <= y
  <2>1. At(d, j - 1) \in Nat
    BY <1>7, AtFacts
  <2>2. ~(y < At(d, j - 1))
    BY <1>7
  <2>3. QED
    BY <2>1, <2>2
<1>9. j - 1 \in h..(n-1) /\ (j - 1) + 1 = j /\ y < At(d, j)
  BY <1>1, <1>3, <1>4, <1>6
<1>10. QED
  BY <1>8, <1>9

-----------------------------------------------------------------------------
(* Sending. *)

(* foutput's byte count ends a segment at the edge of a message. *)
LEMMA DatalenTile ==
    ASSUME NEW a, NEW d \in Flow, Sender(a, d),
           NEW i \in d.acked..Len(d.msgs), NEW w \in Nat \ {0}
    PROVE  \/ Datalen(a, At(d, i + 1), w) = 0
           \/ /\ i < Len(d.msgs)
              /\ Datalen(a, At(d, i + 1), w) = d.msgs[i + 1].size
<1> DEFINE k == Len(d.msgs)
           A == At(d, i + 1)
           H == At(d, d.acked + 1)
           C == At(d, k + 1)
           left == Lesser(C - H, w * MaxSeg) - (A - H)
<1>1. /\ d.base \in Nat /\ d.msgs \in Seq(Message) /\ d.acked \in Nat /\ k \in Nat
      /\ d.acked <= k /\ i \in Nat /\ d.acked <= i /\ i <= k /\ w \in Nat /\ w > 0
  BY FlowType
<1>2. A \in Nat /\ H \in Nat /\ C \in Nat /\ w * MaxSeg \in Int
  BY <1>1, AtFacts, SegmentMultiples
<1>3. Datalen(a, A, w) = IF left < 0 THEN 0 ELSE Lesser(left, MaxSeg)
  BY DEF Datalen, Sender
<1>4. MaxSeg \in Nat /\ MaxSeg > 0
  BY SegmentMultiples
<1>5. CASE i = k
  <2>1. A = C
    BY <1>5
  <2> HIDE DEF A, H, C
  <2>2. left \in Int /\ left <= 0
    BY <1>2, <2>1 DEF Lesser
  <2> HIDE DEF left
  <2>3. Datalen(a, A, w) = 0
    BY <1>3, <1>4, <2>2 DEF Lesser
  <2>4. QED
    BY <2>3 DEF A
<1>6. CASE i < k
  <2> DEFINE L == d.msgs[k].size
             s == d.msgs[i + 1].size
  <2>1. /\ L \in 1..MaxSeg /\ s \in 1..MaxSeg
        /\ i + 1 < k => s = MaxSeg
        /\ i + 1 = k => s = L
    <3>1. i + 1 \in 1..k /\ k \in 1..k
      BY <1>1, <1>6
    <3>2. Batch(d.msgs)
      BY FlowType
    <3>3. QED
      BY <3>1, <3>2 DEF Batch
  <2>2. /\ A = d.base + i * MaxSeg
        /\ H = d.base + d.acked * MaxSeg
    BY <1>1, <1>6 DEF At, Edge
  <2>3. C = d.base + (k - 1) * MaxSeg + L
    <3>1. d.msgs # <<>> /\ ~(k + 1 <= k)
      BY <1>1, <1>6
    <3>2. QED
      BY <3>1 DEF At, Edge
  <2>4. /\ i * MaxSeg \in Int /\ d.acked * MaxSeg \in Int /\ (k - 1) * MaxSeg \in Int
        /\ (k - 1 - i) * MaxSeg = (k - 1) * MaxSeg - i * MaxSeg
    <3>1. k - 1 \in Int /\ i \in Int /\ d.acked \in Int
      BY <1>1
    <3>2. QED
      BY <3>1, SegmentMultiples
  <2>5. /\ (i - d.acked) * MaxSeg = i * MaxSeg - d.acked * MaxSeg
        /\ (w - (i - d.acked)) * MaxSeg = w * MaxSeg - (i - d.acked) * MaxSeg
    BY <1>1, SegmentMultiples
  <2>6. /\ i + 1 < k => (k - 1 - i) * MaxSeg >= MaxSeg
        /\ i + 1 = k => (k - 1 - i) * MaxSeg = 0
    <3>1. k - 1 - i \in Int /\ (i + 1 < k => k - 1 - i > 0) /\ (i + 1 = k => k - 1 - i = 0)
      BY <1>1
    <3>2. QED
      BY <3>1, SegmentMultiples
  <2>7. C - A = (k - 1 - i) * MaxSeg + L
    <3> DEFINE x == i * MaxSeg
               y == (k - 1) * MaxSeg
               z == (k - 1 - i) * MaxSeg
    <3>1. x \in Int /\ y \in Int /\ A = d.base + x /\ C = d.base + y + L /\ L \in Int
      BY <2>1, <2>2, <2>3, <2>4, SMTT(60)
    <3>2. z = y - x
      BY <2>4
    <3>3. d.base \in Nat
      BY <1>1
    <3>4. SUFFICES C - A = z + L
      OBVIOUS
    <3> HIDE DEF x, y, z, A, C, L
    <3>5. QED
      BY <3>1, <3>2, <3>3
  <2>8. i + 1 < k \/ i + 1 = k
    BY <1>1, <1>6
  <2>9. CASE C - H < w * MaxSeg
    <3>1. left = C - A
      BY <1>2, <2>9 DEF Lesser
    <3>2. CASE i + 1 < k
      <4>1. left \in Int /\ left >= MaxSeg /\ s = MaxSeg
        BY <1>4, <2>1, <2>4, <2>6, <2>7, <3>1, <3>2
      <4> HIDE DEF left
      <4>2. Datalen(a, A, w) = s
        BY <1>3, <1>4, <4>1 DEF Lesser
      <4>3. QED
        BY <1>6, <4>2
    <3>3. CASE i + 1 = k
      <4>1. left \in Int /\ left = L /\ s = L
        BY <1>4, <2>1, <2>4, <2>6, <2>7, <3>1, <3>3
      <4> HIDE DEF left
      <4>2. Datalen(a, A, w) = s
        BY <1>3, <1>4, <2>1, <4>1 DEF Lesser
      <4>3. QED
        BY <1>6, <4>2
    <3>4. QED
      BY <2>8, <3>2, <3>3
  <2>10. CASE ~(C - H < w * MaxSeg)
    <3>1. left = (w - (i - d.acked)) * MaxSeg
      <4>1. left = w * MaxSeg - (A - H)
        BY <2>10 DEF Lesser
      <4>2. A - H = (i - d.acked) * MaxSeg
        BY <1>1, <2>2, <2>4, <2>5, SMTT(60)
      <4>3. QED
        BY <2>5, <4>1, <4>2
    <3>2. left <= C - A
      <4>1. left = w * MaxSeg - (A - H)
        BY <2>10 DEF Lesser
      <4> HIDE DEF left, A, C, H
      <4>2. QED
        BY <1>2, <2>10, <4>1
    <3>3. CASE w - (i - d.acked) <= 0
      <4>1. left \in Int /\ left <= 0
        <5> DEFINE j == w - (i - d.acked)
        <5>1. j \in Int /\ j <= 0 /\ left = j * MaxSeg
          BY <1>1, <3>1, <3>3
        <5> HIDE DEF j, left
        <5>2. QED
          BY <5>1, SegmentMultiples
      <4> HIDE DEF left
      <4>2. Datalen(a, A, w) = 0
        BY <1>3, <1>4, <4>1 DEF Lesser
      <4>3. QED
        BY <4>2
    <3>4. CASE w - (i - d.acked) > 0
      <4>1. left \in Int /\ left >= MaxSeg
        <5> DEFINE j == w - (i - d.acked)
        <5>1. j \in Int /\ j > 0 /\ left = j * MaxSeg
          BY <1>1, <3>1, <3>4
        <5> HIDE DEF j, left
        <5>2. QED
          BY <5>1, SegmentMultiples
      <4>2. s = MaxSeg
        <5>1. CASE i + 1 = k
          <6>1. C - A = L /\ L <= MaxSeg /\ L \in Nat
            BY <2>1, <2>6, <2>7, <5>1
          <6> HIDE DEF left, A, C
          <6>2. L = MaxSeg
            BY <1>4, <3>2, <4>1, <6>1
          <6>3. QED
            BY <2>1, <5>1, <6>2
        <5>2. QED
          BY <2>1, <2>8, <5>1
      <4> HIDE DEF left
      <4>3. Datalen(a, A, w) = s
        BY <1>3, <1>4, <4>1, <4>2 DEF Lesser
      <4>4. QED
        BY <1>6, <4>3
    <3>5. QED
      BY <1>1, <3>3, <3>4
  <2>11. QED
    BY <2>9, <2>10
<1>7. QED
  BY <1>1, <1>5, <1>6

(* Tail as a function.                                                     *)
LEMMA TailFunction ==
    ASSUME NEW S, NEW q \in Seq(S), q # <<>>
    PROVE  /\ Tail(q) = [j \in 1..(Len(q) - 1) |-> q[j + 1]]
           /\ Tail(q) \in Seq(S) /\ Len(Tail(q)) = Len(q) - 1 /\ Len(q) \in Nat \ {0}
<1> DEFINE t == Tail(q)
<1>1. t \in Seq(S) /\ Len(t) = Len(q) - 1 /\ \A i \in 1..Len(t) : t[i] = q[i + 1]
  BY HeadTailProperties
<1>2. t = [j \in 1..Len(t) |-> t[j]]
  BY <1>1, LenProperties
<1> HIDE DEF t
<1>3. t = [j \in 1..(Len(q) - 1) |-> q[j + 1]]
  BY <1>1, <1>2
<1>4. QED
  BY <1>1, <1>3, EmptySeq DEF t

(* The fields of a message.                                                *)
LEMMA MessageType ==
    ASSUME NEW m \in Message
    PROVE  /\ m.size \in 1..MaxSeg /\ m.media \in BOOLEAN /\ m.final \in BOOLEAN
           /\ m.exchange \in Nat /\ m.piece \in Nat
<1>1. CASE m \in {Request(n) : n \in 1..MaxExchanges}
  <2>1. PICK n \in 1..MaxExchanges : m = Request(n)
    BY <1>1
  <2>2. n \in Nat /\ RequestSize \in 1..MaxSeg
    BY ConnectionAssumption
  <2>3. QED
    BY <2>1, <2>2 DEF Request
<1>2. ASSUME NEW r \in Responses, m \in {Piece(n, r, i) : n \in 1..MaxExchanges, i \in DOMAIN r.sizes}
      PROVE  /\ m.size \in 1..MaxSeg /\ m.media \in BOOLEAN /\ m.final \in BOOLEAN
             /\ m.exchange \in Nat /\ m.piece \in Nat
  <2>1. r.media \in BOOLEAN /\ r.sizes \in Seq(1..MaxSeg)
    BY ConnectionAssumption
  <2>2. PICK n \in 1..MaxExchanges, i \in DOMAIN r.sizes : m = Piece(n, r, i)
    BY <1>2
  <2>3. i \in Nat /\ r.sizes[i] \in 1..MaxSeg /\ n \in Nat
    <3>1. DOMAIN r.sizes = 1..Len(r.sizes) /\ r.sizes \in [1..Len(r.sizes) -> 1..MaxSeg]
      BY <2>1, LenProperties
    <3>2. QED
      BY <3>1
  <2>4. QED
    BY <2>1, <2>2, <2>3 DEF Piece
<1>3. QED
  BY <1>1, <1>2 DEF Message

(* What sending leaves alone. *)
SameReceiver(a, b) == /\ b.recvq = a.recvq /\ b.rq = a.rq /\ b.rcv_nxt = a.rcv_nxt
                      /\ b.fatal = a.fatal

(* An entry of the queue of messages that wait for an acknowledgement.     *)
LEMMA EntryType ==
    ASSUME NEW d \in Flow, NEW i \in 1..Len(d.msgs)
    PROVE  /\ d.msgs[i] \in Message
           /\ Entry(d, i) \in [data : Message, start_seq : Nat, length : Nat]
           /\ Entry(d, i).data = d.msgs[i]
           /\ Entry(d, i).start_seq = At(d, i)
           /\ Entry(d, i).length = d.msgs[i].size
<1>1. d.msgs \in Seq(Message) /\ Len(d.msgs) \in Nat
  BY FlowType
<1>2. d.msgs[i] \in Message
  BY <1>1
<1>3. At(d, i) \in Nat /\ d.msgs[i].size \in Nat
  BY <1>1, AtFacts
<1>4. QED
  BY <1>2, <1>3 DEF Entry

(* A retransmission finds its message. *)
LEMMA Retransmits ==
    ASSUME NEW a, NEW d \in Flow, Sender(a, d),
           NEW i \in Nat, d.acked <= i, i < d.sent
    PROVE  sendpacket(a, At(d, i + 1), d.msgs[i + 1].size) = [agent |-> a, data |-> d.msgs[i + 1]]
<1> DEFINE q == a.waitq
           o == i + 1 - d.acked
           n == d.msgs[i + 1].size
           found == getRetransmitData(a, At(d, i + 1), n)
<1>1. /\ d.acked \in Nat /\ d.sent \in Nat /\ Len(d.msgs) \in Nat
      /\ d.acked <= d.sent /\ d.sent <= Len(d.msgs)
  BY FlowType
<1>2. DOMAIN q = 1..(d.sent - d.acked) /\ o \in DOMAIN q
  BY <1>1 DEF Sender
<1>3. ASSUME NEW j \in DOMAIN q
      PROVE  /\ q[j] = Entry(d, d.acked + j) /\ d.acked + j \in 1..Len(d.msgs)
             /\ q[j].start_seq = At(d, d.acked + j)
             /\ q[j].length = d.msgs[d.acked + j].size
  <2>1. j \in 1..(d.sent - d.acked)
    BY <1>2
  <2>2. q[j] = Entry(d, d.acked + j)
    BY <2>1 DEF Sender
  <2>3. d.acked + j \in 1..Len(d.msgs)
    BY <1>1, <2>1
  <2>4. QED
    BY <2>2, <2>3, EntryType
<1>4. i + 1 \in 1..Len(d.msgs) /\ d.acked + o = i + 1 /\ n \in 1..MaxSeg
  <2>1. i + 1 \in 1..Len(d.msgs) /\ d.acked + o = i + 1
    BY <1>1
  <2>2. d.msgs[i + 1].size \in 1..MaxSeg
    <3>1. PICK j \in 1..Len(d.msgs) : j = i + 1
      BY <2>1
    <3>2. QED
      BY <3>1, AtFacts
  <2>3. QED
    BY <2>1, <2>2
<1>5. ASSUME NEW j \in DOMAIN q, q[j].start_seq = At(d, i + 1) PROVE j = o
  <2>1. d.acked + j = i + 1
    BY <1>1, <1>3, <1>4, <1>5, AtInjective, SMTT(60)
  <2>2. QED
    BY <1>1, <1>2, <2>1
<1>6. q[o].start_seq = At(d, i + 1) /\ q[o].length <= n
  BY <1>2, <1>3, <1>4
<1>7. found = {o}
  <2>1. ASSUME NEW j \in 1..(o-1)
        PROVE  ~(q[j].start_seq = At(d, i + 1) /\ q[j].length <= n)
    <3>1. j \in DOMAIN q /\ j # o
      BY <1>1, <1>2
    <3>2. QED
      BY <1>5, <3>1
  <2> HIDE DEF o, n
  <2>2. QED
    BY <1>2, <1>5, <1>6, <2>1 DEF getRetransmitData
<1>8. At(d, i + 1) < a.maxseq
  <2>1. i + 1 \in 1..(Len(d.msgs) + 1) /\ d.sent + 1 \in 1..(Len(d.msgs) + 1)
    BY <1>1
  <2>2. QED
    BY <1>1, <2>1, AtFacts DEF Sender
<1>9. q[CHOOSE j \in found : TRUE].data = d.msgs[i + 1]
  <2>1. (CHOOSE j \in found : TRUE) = o
    BY <1>7
  <2>2. q[o].data = d.msgs[i + 1]
    BY <1>2, <1>3, <1>4, EntryType
  <2>3. QED
    BY <2>1, <2>2
<1>10. n # 0 /\ found # {}
  <2>1. n # 0
    BY <1>4
  <2> HIDE DEF n, found
  <2>2. QED
    BY <1>7, <2>1
<1>11. QED
  BY <1>8, <1>9, <1>10 DEF sendpacket

(* New bytes are the next message, whole. *)
LEMMA SendsNew ==
    ASSUME NEW a \in Agent, NEW d \in Flow, Sender(a, d), d.sent < Len(d.msgs)
    PROVE  sendpacket(a, At(d, d.sent + 1), d.msgs[d.sent + 1].size) =
               [agent |-> [a EXCEPT !.appq = [j \in 1..(Len(d.msgs) - (d.sent + 1)) |->
                                                  d.msgs[(d.sent + 1) + j]],
                                    !.waitq = [j \in 1..((d.sent + 1) - d.acked) |->
                                                   Entry(d, d.acked + j)]],
                data |-> d.msgs[d.sent + 1]]
<1> DEFINE k == Len(d.msgs)
           m == d.msgs[d.sent + 1]
           n == m.size
           newapp == [j \in 1..(k - (d.sent + 1)) |-> d.msgs[(d.sent + 1) + j]]
           newwait == [j \in 1..((d.sent + 1) - d.acked) |-> Entry(d, d.acked + j)]
<1>1. /\ d.acked \in Nat /\ d.sent \in Nat /\ k \in Nat
      /\ d.acked <= d.sent /\ d.sent <= k /\ d.msgs \in Seq(Message)
  BY FlowType
<1>2. d.sent + 1 \in 1..k /\ n \in 1..MaxSeg
  BY <1>1, AtFacts
<1>3. /\ a.appq = [j \in 1..(k - d.sent) |-> d.msgs[d.sent + j]]
      /\ a.appq \in Seq(Message) /\ a.waitq \in Seq([data : Message, start_seq : Nat, length : Nat])
  BY DEF Sender, Agent
<1>4. a.appq # <<>> /\ Head(a.appq) = m
  <2>1. 1 \in 1..(k - d.sent)
    BY <1>1
  <2>2. a.appq[1] = m /\ Len(a.appq) = k - d.sent
    BY <1>1, <1>3, <2>1
  <2>3. a.appq # <<>>
    BY <1>1, <2>2
  <2>4. QED
    BY <1>3, <2>2, <2>3
<1>5. <<>> \o Tail(a.appq) = newapp
  <2>1. Tail(a.appq) = newapp
    <3>1. Len(a.appq) = k - d.sent
      BY <1>1, <1>3
    <3>2. Tail(a.appq) = [j \in 1..(Len(a.appq) - 1) |-> a.appq[j + 1]]
      BY <1>3, <1>4, TailFunction
    <3>3. Len(a.appq) - 1 = k - (d.sent + 1)
      BY <1>1, <3>1
    <3>4. ASSUME NEW j \in 1..(k - (d.sent + 1)) PROVE a.appq[j + 1] = d.msgs[(d.sent + 1) + j]
      <4>1. j + 1 \in 1..(k - d.sent) /\ d.sent + (j + 1) = (d.sent + 1) + j
        BY <1>1
      <4>2. QED
        BY <1>3, <4>1
    <3>5. QED
      BY <3>2, <3>3, <3>4
  <2>2. Tail(a.appq) \in Seq(Message)
    BY <1>3, <1>4
  <2>3. QED
    BY <2>1, <2>2, ConcatEmptySeq
<1>6. Append(a.waitq, [data |-> m, start_seq |-> At(d, d.sent + 1), length |-> n]) = newwait
  <2> DEFINE q == a.waitq
             x == Entry(d, d.sent + 1)
  <2>1. q = [j \in 1..(d.sent - d.acked) |-> Entry(d, d.acked + j)]
    BY DEF Sender
  <2>2. Len(q) = d.sent - d.acked
    BY <1>1, <1>3, <2>1
  <2>3. x = [data |-> m, start_seq |-> At(d, d.sent + 1), length |-> n]
    BY DEF Entry
  <2>4. Append(q, x) = [j \in 1..(Len(q) + 1) |-> IF j = Len(q) + 1 THEN x ELSE q[j]]
    BY <1>3, <2>2
  <2>5. ASSUME NEW j \in 1..((d.sent + 1) - d.acked)
        PROVE  (IF j = Len(q) + 1 THEN x ELSE q[j]) = Entry(d, d.acked + j)
    <3>1. CASE j = Len(q) + 1
      <4>1. d.acked + j = d.sent + 1
        BY <1>1, <2>2, <3>1
      <4>2. QED
        BY <3>1, <4>1
    <3>2. CASE j # Len(q) + 1
      <4>1. j \in 1..(d.sent - d.acked)
        BY <1>1, <2>2, <3>2
      <4>2. QED
        BY <2>1, <3>2, <4>1
    <3>3. QED
      BY <3>1, <3>2
  <2>6. Len(q) + 1 = (d.sent + 1) - d.acked
    BY <1>1, <2>2
  <2>7. Append(q, x) = newwait
    BY <2>4, <2>5, <2>6
  <2>8. QED
    BY <2>3, <2>7
<1>7. ~(At(d, d.sent + 1) < a.maxseq)
  <2>1. At(d, d.sent + 1) \in Nat
    BY <1>1, AtFacts
  <2>2. QED
    BY <2>1 DEF Sender
<1>8. n # 0 /\ ~(n > n)
  BY <1>2
<1>9. TakeNew(a, At(d, d.sent + 1), n) =
          [agent |-> [a EXCEPT !.appq = newapp, !.waitq = newwait], data |-> m]
  <2> HIDE DEF m, newapp, newwait
  <2>1. QED
    BY <1>4, <1>5, <1>6, <1>8 DEF TakeNew
<1>10. sendpacket(a, At(d, d.sent + 1), n) = TakeNew(a, At(d, d.sent + 1), n)
  <2> HIDE DEF m, newapp, newwait
  <2>1. QED
    BY <1>4, <1>7, <1>8 DEF sendpacket
<1>11. QED
  BY <1>9, <1>10

(* A function on 1..n is a sequence.                                       *)
LEMMA SeqOf ==
    ASSUME NEW S, NEW n \in Nat, NEW f \in [1..n -> S]
    PROVE  f \in Seq(S) /\ Len(f) = n
<1>1. f \in Seq(S)
  BY SeqDef
<1>2. QED
  BY <1>1, LenProperties

(* The positions in a batch move, its edges do not. *)
LEMMA SameEdges ==
    ASSUME NEW d, NEW e, e.base = d.base, e.msgs = d.msgs
    PROVE  \A i : At(e, i) = At(d, i) /\ Entry(e, i) = Entry(d, i) /\ Tile(e, i) = Tile(d, i)
BY DEF At, Entry, Tile

Moved(d, acked, next, sent, got) ==
    [d EXCEPT !.acked = acked, !.next = next, !.sent = sent, !.got = got]

(* The fields of a flow whose positions moved.                             *)
LEMMA MovedFields ==
    ASSUME NEW d \in Flow, NEW u, NEW w, NEW v, NEW x
    PROVE  /\ Moved(d, u, w, v, x).base = d.base
           /\ Moved(d, u, w, v, x).msgs = d.msgs
           /\ Moved(d, u, w, v, x).acked = u
           /\ Moved(d, u, w, v, x).next = w
           /\ Moved(d, u, w, v, x).sent = v
           /\ Moved(d, u, w, v, x).got = x
BY DEF Moved, Flow

(* Positions in order make a flow again.                                   *)
LEMMA MovedFlow ==
    ASSUME NEW d \in Flow, NEW u \in Nat, NEW w \in Nat, NEW v \in Nat, NEW x \in Nat,
           u <= w, w <= v, v <= Len(d.msgs), u <= x, x <= v
    PROVE  Moved(d, u, w, v, x) \in Flow
<1> DEFINE e == Moved(d, u, w, v, x)
<1>1. /\ e.base = d.base /\ e.msgs = d.msgs
      /\ e.acked = u /\ e.next = w /\ e.sent = v /\ e.got = x
  BY MovedFields
<1>2. e \in [base : Nat, msgs : Seq(Message), acked : Nat, next : Nat, sent : Nat, got : Nat]
  BY DEF Moved, Flow
<1>3. Batch(e.msgs)
  BY <1>1, FlowType
<1> HIDE DEF e
<1>4. e \in Flow
  BY <1>1, <1>2, <1>3 DEF Flow
<1>5. QED
  BY <1>4 DEF e

(* What a sender must look like for the positions u, w and v.              *)
LEMMA MovedSender ==
    ASSUME NEW d \in Flow, NEW u \in Nat, NEW w \in Nat, NEW v \in Nat, NEW x \in Nat,
           u <= w, w <= v, v <= Len(d.msgs), u <= x, x <= v,
           NEW a,
           a.waitq = [i \in 1..(v - u) |-> Entry(d, u + i)],
           a.appq = [i \in 1..(Len(d.msgs) - v) |-> d.msgs[v + i]],
           a.highest_ack = At(d, u + 1), a.t_seqno = At(d, w + 1), a.maxseq = At(d, v + 1),
           a.curseq = At(d, Len(d.msgs) + 1)
    PROVE  Sender(a, Moved(d, u, w, v, x))
<1>0. PICK e : e = Moved(d, u, w, v, x)
  OBVIOUS
<1>1. /\ e.msgs = d.msgs /\ e.acked = u /\ e.next = w /\ e.sent = v
      /\ \A i : At(e, i) = At(d, i) /\ Entry(e, i) = Entry(d, i)
  <2>1. e.msgs = d.msgs /\ e.base = d.base /\ e.acked = u /\ e.next = w /\ e.sent = v
    BY <1>0, MovedFields
  <2>2. QED
    BY <2>1, SameEdges
<1>2. [i \in 1..(v - u) |-> Entry(e, u + i)] = [i \in 1..(v - u) |-> Entry(d, u + i)]
  BY <1>1
<1>3. Sender(a, e)
  BY <1>1, <1>2 DEF Sender
<1>4. QED
  BY <1>0, <1>3

(* One call of foutput at an edge: n1 and s1 are the new positions. *)
Sends(a, d, out, n1, s1) ==
    /\ d.acked <= n1 /\ n1 <= s1 /\ s1 <= Len(d.msgs) /\ d.sent <= s1
    /\ Sender(out.agent, Moved(d, d.acked, n1, s1, d.got))
    /\ out.agent \in Agent /\ SameReceiver(a, out.agent)
    /\ out.packet \in Packet /\ out.packet.ackno = a.rcv_nxt
    /\ \/ out.packet.datalen = 0 /\ out.packet.data = NoData
       \/ \E j \in (d.acked + 1)..s1 : Carries(out.packet, d, j)

(* foutput at an edge of the flow sends one whole message, or the one that *)
(* is asked for again, or a bare ACK: the byte count it computes is the    *)
(* size of the message, because a short segment can only be the last of    *)
(* its batch.                                                              *)
LEMMA FoutputStep ==
    ASSUME NEW a \in Agent, NEW d \in Flow, Sender(a, d),
           NEW i \in Nat, d.acked <= i, i <= d.sent,
           NEW w \in Nat \ {0}, NEW moves \in BOOLEAN, moves => i = d.next
    PROVE  \E n1, s1 \in Nat : Sends(a, d, foutput(a, At(d, i + 1), w, moves), n1, s1)
<1> DEFINE seqno == At(d, i + 1)
           n == Datalen(a, seqno, w)
           p == sendpacket(a, seqno, n)
           out == foutput(a, seqno, w, moves)
           k == Len(d.msgs)
<1>1. /\ d.acked \in Nat /\ d.next \in Nat /\ d.sent \in Nat /\ d.got \in Nat /\ k \in Nat
      /\ d.acked <= d.next /\ d.next <= d.sent /\ d.sent <= k
      /\ d.acked <= d.got /\ d.got <= d.sent
  BY FlowType
<1>2. /\ out.agent = [p.agent EXCEPT !.ackNow = FALSE,
                                     !.maxseq = IF seqno + n > @ THEN seqno + n ELSE @,
                                     !.t_seqno = IF moves THEN @ + n ELSE @]
      /\ out.packet = [seqno |-> seqno, datalen |-> n, ackno |-> a.rcv_nxt, data |-> p.data]
  BY DEF foutput
<1>3. /\ a.highest_ack = At(d, d.acked + 1) /\ a.t_seqno = At(d, d.next + 1)
      /\ a.maxseq = At(d, d.sent + 1) /\ a.curseq = At(d, k + 1)
      /\ a.waitq = [j \in 1..(d.sent - d.acked) |-> Entry(d, d.acked + j)]
      /\ a.appq = [j \in 1..(k - d.sent) |-> d.msgs[d.sent + j]]
  BY DEF Sender
<1>4. seqno \in Nat /\ a.maxseq \in Nat /\ seqno <= a.maxseq /\ a.rcv_nxt \in Nat /\ a.t_seqno \in Nat
  <2>1. i + 1 \in 1..(k + 1) /\ d.sent + 1 \in 1..(k + 1)
    BY <1>1
  <2>2. seqno <= At(d, d.sent + 1)
    BY <1>1, <2>1, AtInjective
  <2>3. QED
    BY <1>3, <2>1, <2>2, AtFacts DEF Agent
<1>5. \/ n = 0
      \/ i < k /\ n = d.msgs[i + 1].size
  <2>1. i \in d.acked..k
    BY <1>1
  <2>2. QED
    BY <2>1, DatalenTile
<1>6. CASE n = 0
  <2>1. p = [agent |-> a, data |-> NoData]
    BY <1>6 DEF sendpacket
  <2>2. out.agent = [a EXCEPT !.ackNow = FALSE]
    <3>1. ~(seqno + n > a.maxseq)
      BY <1>4, <1>6
    <3>2. a.t_seqno + n = a.t_seqno
      BY <1>4, <1>6
    <3> HIDE DEF seqno, n, p, out
    <3>3. QED
      BY <1>2, <2>1, <3>1, <3>2 DEF Agent
  <2>3. out.packet = [seqno |-> seqno, datalen |-> 0, ackno |-> a.rcv_nxt, data |-> NoData]
    BY <1>2, <1>6, <2>1
  <2> HIDE DEF seqno, n, p, out
  <2>4. out.agent \in Agent /\ SameReceiver(a, out.agent)
    BY <2>2 DEF Agent, SameReceiver
  <2>5. Sender(out.agent, Moved(d, d.acked, d.next, d.sent, d.got))
    <3>1. /\ out.agent.highest_ack = a.highest_ack /\ out.agent.maxseq = a.maxseq
          /\ out.agent.curseq = a.curseq /\ out.agent.waitq = a.waitq
          /\ out.agent.appq = a.appq /\ out.agent.t_seqno = a.t_seqno
      BY <2>2 DEF Agent
    <3>2. QED
      BY <1>1, <1>3, <3>1, MovedSender
  <2>6. out.packet \in Packet /\ out.packet.ackno = a.rcv_nxt
    BY <1>4, <2>3, SegmentMultiples DEF Packet
  <2>7. Sends(a, d, out, d.next, d.sent)
    BY <1>1, <2>3, <2>4, <2>5, <2>6 DEF Sends
  <2>8. QED
    BY <1>1, <2>7 DEF out, seqno
<1>7. CASE i < d.sent /\ n = d.msgs[i + 1].size
  <2>1. p = [agent |-> a, data |-> d.msgs[i + 1]]
    BY <1>7, Retransmits
  <2>2. i + 1 \in 1..k /\ i + 2 \in 1..(k + 1) /\ d.sent + 1 \in 1..(k + 1)
    BY <1>1, <1>7
  <2>3. n \in 1..MaxSeg /\ seqno + n = At(d, i + 2) /\ seqno + n <= a.maxseq
    <3>1. n \in 1..MaxSeg /\ At(d, (i + 1) + 1) = seqno + n
      BY <1>7, <2>2, AtFacts
    <3>2. At(d, i + 2) <= At(d, d.sent + 1)
      BY <1>1, <1>7, <2>2, AtInjective
    <3>3. (i + 1) + 1 = i + 2
      OBVIOUS
    <3>4. QED
      BY <1>3, <3>1, <3>2, <3>3
  <2> DEFINE n1 == IF moves THEN d.next + 1 ELSE d.next
  <2>4. out.agent = [a EXCEPT !.ackNow = FALSE, !.t_seqno = At(d, n1 + 1)]
    <3>1. ~(seqno + n > a.maxseq)
      BY <1>4, <2>3
    <3>2. (IF moves THEN a.t_seqno + n ELSE a.t_seqno) = At(d, n1 + 1)
      <4>1. CASE moves
        <5>1. i = d.next /\ (d.next + 1) + 1 = i + 2
          BY <1>1, <4>1
        <5>2. QED
          BY <1>3, <2>3, <4>1, <5>1
      <4>2. CASE ~moves
        BY <1>3, <4>2
      <4>3. QED
        BY <4>1, <4>2
    <3> HIDE DEF seqno, n, p, out, n1
    <3>3. QED
      BY <1>2, <2>1, <3>1, <3>2 DEF Agent
  <2>5. out.packet = [seqno |-> seqno, datalen |-> n, ackno |-> a.rcv_nxt, data |-> d.msgs[i + 1]]
    BY <1>2, <2>1
  <2>6. n1 \in Nat /\ d.acked <= n1 /\ n1 <= d.sent
    BY <1>1, <1>7
  <2>7. At(d, n1 + 1) \in Nat /\ d.msgs[i + 1] \in Message
    <3>1. n1 + 1 \in 1..(k + 1)
      BY <1>1, <2>6, SMTT(60)
    <3>2. QED
      BY <2>2, <3>1, AtFacts, EntryType
  <2>8. Carries(out.packet, d, i + 1) /\ i + 1 \in (d.acked + 1)..d.sent
    BY <1>1, <1>7, <2>5 DEF Carries
  <2> HIDE DEF seqno, n, p, out, n1
  <2>9. out.agent \in Agent /\ SameReceiver(a, out.agent)
    BY <2>4, <2>7 DEF Agent, SameReceiver
  <2>10. Sender(out.agent, Moved(d, d.acked, n1, d.sent, d.got))
    <3>1. /\ out.agent.highest_ack = a.highest_ack /\ out.agent.maxseq = a.maxseq
          /\ out.agent.curseq = a.curseq /\ out.agent.waitq = a.waitq
          /\ out.agent.appq = a.appq /\ out.agent.t_seqno = At(d, n1 + 1)
      BY <2>4 DEF Agent
    <3>2. QED
      BY <1>1, <1>3, <2>6, <3>1, MovedSender
  <2>11. out.packet \in Packet /\ out.packet.ackno = a.rcv_nxt
    BY <1>4, <2>3, <2>5, <2>7 DEF Packet
  <2>12. Sends(a, d, out, n1, d.sent)
    BY <1>1, <2>6, <2>8, <2>9, <2>10, <2>11 DEF Sends
  <2>13. QED
    BY <1>1, <2>6, <2>12 DEF out, seqno
<1>8. CASE i = d.sent /\ i < k /\ n = d.msgs[i + 1].size
  <2> DEFINE s1 == d.sent + 1
             n1 == IF moves THEN d.next + 1 ELSE d.next
             newapp == [j \in 1..(k - s1) |-> d.msgs[s1 + j]]
             newwait == [j \in 1..(s1 - d.acked) |-> Entry(d, d.acked + j)]
             b == [a EXCEPT !.appq = newapp, !.waitq = newwait]
  <2>1. p = [agent |-> b, data |-> d.msgs[i + 1]]
    BY <1>8, SendsNew
  <2>2. s1 \in 1..k /\ s1 + 1 \in 1..(k + 1) /\ i + 1 = s1
    BY <1>1, <1>8
  <2>3. n \in 1..MaxSeg /\ seqno + n = At(d, s1 + 1)
    BY <1>8, <2>2, AtFacts
  <2>4. n1 \in Nat /\ d.acked <= n1 /\ n1 <= s1
    BY <1>1, <1>8
  <2>5. /\ newapp \in Seq(Message)
        /\ newwait \in Seq([data : Message, start_seq : Nat, length : Nat])
    <3>1. \A j \in 1..k : d.msgs[j] \in Message
                          /\ Entry(d, j) \in [data : Message, start_seq : Nat, length : Nat]
      BY EntryType
    <3>2. \A j \in 1..(k - s1) : s1 + j \in 1..k
      BY <1>1, <2>2, SMTT(60)
    <3>3. \A j \in 1..(s1 - d.acked) : d.acked + j \in 1..k
      BY <1>1, <2>2
    <3>4. k - s1 \in Nat /\ s1 - d.acked \in Nat
      BY <1>1, <2>2
    <3> HIDE DEF s1
    <3>5. \A j \in 1..(k - s1) : d.msgs[s1 + j] \in Message
      BY <3>1, <3>2
    <3>6. \A j \in 1..(s1 - d.acked) :
              Entry(d, d.acked + j) \in [data : Message, start_seq : Nat, length : Nat]
      BY <3>1, <3>3
    <3>7. QED
      BY <3>4, <3>5, <3>6, SeqOf
  <2>6. out.agent = [b EXCEPT !.ackNow = FALSE, !.maxseq = At(d, s1 + 1), !.t_seqno = At(d, n1 + 1)]
    <3>1. seqno + n > a.maxseq
      BY <1>3, <1>4, <1>8, <2>3
    <3>2. (IF moves THEN a.t_seqno + n ELSE a.t_seqno) = At(d, n1 + 1)
      <4>1. CASE moves
        <5>1. a.t_seqno = seqno /\ n1 = s1
          BY <1>1, <1>3, <1>8, <4>1
        <5>2. QED
          BY <2>3, <4>1, <5>1
      <4>2. CASE ~moves
        BY <1>3, <4>2
      <4>3. QED
        BY <4>1, <4>2
    <3>3. b.maxseq = a.maxseq /\ b.t_seqno = a.t_seqno /\ b \in Agent
      BY <2>5 DEF Agent
    <3> HIDE DEF seqno, n, p, out, n1, b, s1
    <3>4. QED
      BY <1>2, <2>1, <2>3, <3>1, <3>2, <3>3 DEF Agent
  <2>7. out.packet = [seqno |-> seqno, datalen |-> n, ackno |-> a.rcv_nxt, data |-> d.msgs[i + 1]]
    BY <1>2, <2>1
  <2>8. At(d, n1 + 1) \in Nat /\ At(d, s1 + 1) \in Nat /\ d.msgs[i + 1] \in Message
    <3>1. n1 + 1 \in 1..(k + 1)
      BY <1>1, <2>2, <2>4, SMTT(60)
    <3>2. QED
      BY <2>2, <3>1, AtFacts, EntryType
  <2>9. Carries(out.packet, d, i + 1) /\ i + 1 \in (d.acked + 1)..s1
    BY <1>1, <1>8, <2>7 DEF Carries
  <2>10. /\ out.agent \in Agent /\ SameReceiver(a, out.agent)
         /\ out.agent.highest_ack = a.highest_ack /\ out.agent.maxseq = At(d, s1 + 1)
         /\ out.agent.curseq = a.curseq /\ out.agent.waitq = newwait
         /\ out.agent.appq = newapp /\ out.agent.t_seqno = At(d, n1 + 1)
    <3> HIDE DEF seqno, n, p, out, n1, s1, newapp, newwait
    <3>1. b \in Agent
      BY <2>5 DEF Agent
    <3>2. out.agent \in Agent
      <4> HIDE DEF b
      <4>1. QED
        BY <2>6, <2>8, <3>1 DEF Agent
    <3>3. SameReceiver(a, out.agent)
      BY <2>6 DEF Agent, SameReceiver
    <3>4. QED
      BY <2>6, <3>2, <3>3 DEF Agent
  <2> HIDE DEF seqno, n, p, out, n1
  <2>11. Sender(out.agent, Moved(d, d.acked, n1, s1, d.got))
    <3>1. s1 \in Nat /\ s1 <= k /\ d.got <= s1
      BY <1>1, <2>2
    <3> HIDE DEF s1
    <3>2. QED
      BY <1>1, <1>3, <2>4, <2>10, <3>1, MovedSender
  <2>12. out.packet \in Packet /\ out.packet.ackno = a.rcv_nxt
    BY <1>4, <2>3, <2>7, <2>8 DEF Packet
  <2>13. Sends(a, d, out, n1, s1)
    BY <1>1, <2>2, <2>4, <2>9, <2>10, <2>11, <2>12, SMTT(60) DEF Sends
  <2>14. QED
    BY <1>1, <2>4, <2>13 DEF out, seqno
<1>9. QED
  BY <1>1, <1>5, <1>6, <1>7, <1>8

(* An acknowledgement of what the receiver has got. *)
LEMMA NewackStep ==
    ASSUME NEW a \in Agent, NEW d \in Flow, Sender(a, d),
           NEW j \in Nat, d.acked < j, j <= d.got
    PROVE  \E w \in Nat :
               /\ j <= w /\ w <= d.sent
               /\ Sender(newack(a, At(d, j + 1)), Moved(d, j, w, d.sent, d.got))
               /\ newack(a, At(d, j + 1)) \in Agent
               /\ SameReceiver(a, newack(a, At(d, j + 1)))
               /\ newack(a, At(d, j + 1)).ackNow = a.ackNow
<1> DEFINE new == At(d, j + 1)
           old == At(d, d.acked + 1)
           k == Len(d.msgs)
           q == a.waitq
           w == IF d.next < j THEN j ELSE d.next
           b == [a EXCEPT !.highest_ack = new, !.t_seqno = IF @ < new THEN new ELSE @]
           kept == [i \in 1..(d.sent - j) |-> Entry(d, j + i)]
           c == newack(a, new)
<1>1. /\ d.acked \in Nat /\ d.next \in Nat /\ d.sent \in Nat /\ d.got \in Nat /\ k \in Nat
      /\ d.acked <= d.next /\ d.next <= d.sent /\ d.sent <= k
      /\ d.acked <= d.got /\ d.got <= d.sent
  BY FlowType
<1>2. /\ a.highest_ack = old /\ a.t_seqno = At(d, d.next + 1)
      /\ a.maxseq = At(d, d.sent + 1) /\ a.curseq = At(d, k + 1)
      /\ q = [i \in 1..(d.sent - d.acked) |-> Entry(d, d.acked + i)]
      /\ a.appq = [i \in 1..(k - d.sent) |-> d.msgs[d.sent + i]]
  BY DEF Sender
<1>3. new \in Nat /\ old \in Nat /\ At(d, d.next + 1) \in Nat
  BY <1>1, AtFacts, SMTT(60)
<1>4. DOMAIN q = 1..(d.sent - d.acked)
  BY <1>2
<1>5. ASSUME NEW i \in DOMAIN q
      PROVE  /\ q[i] = Entry(d, d.acked + i)
             /\ q[i].start_seq \in Nat /\ q[i].start_seq >= old
             /\ q[i].start_seq >= new <=> i >= j - d.acked + 1
  <2>1. i \in 1..(d.sent - d.acked)
    BY <1>4
  <2>2. d.acked + i \in 1..k /\ d.acked + 1 \in 1..(k + 1) /\ j + 1 \in 1..(k + 1)
    BY <1>1, <2>1, SMTT(60)
  <2>3. q[i] = Entry(d, d.acked + i)
    BY <1>2, <2>1
  <2>4. q[i].start_seq = At(d, d.acked + i) /\ At(d, d.acked + i) \in Nat
    BY <2>2, <2>3, EntryType, AtFacts
  <2>5. d.acked + i \in 1..(k + 1)
    BY <1>1, <2>2
  <2>6. old <= At(d, d.acked + i)
    BY <1>1, <2>1, <2>2, <2>5, AtInjective
  <2>7. new <= At(d, d.acked + i) <=> j + 1 <= d.acked + i
    BY <2>2, <2>5, AtInjective
  <2> HIDE DEF new, old, q
  <2>8. QED
    BY <1>1, <1>3, <2>1, <2>3, <2>4, <2>6, <2>7, SMTT(60)
<1>6. b.waitq = q /\ b.highest_ack = new /\ b \in Agent
  BY <1>3 DEF Agent
<1>7. ~ \E i \in DOMAIN b.waitq : b.waitq[i].start_seq < a.highest_ack
  <2> HIDE DEF new, old, q, b
  <2>1. QED
    BY <1>2, <1>3, <1>5, <1>6
<1>8. Kept(q, {i \in DOMAIN q : q[i].start_seq >= new}) = kept
  <2>1. {i \in DOMAIN q : q[i].start_seq >= new} = ((j - d.acked) + 1)..(d.sent - d.acked)
    <3> HIDE DEF new, old, q
    <3>1. ASSUME NEW i \in DOMAIN q, q[i].start_seq >= new
          PROVE  i \in ((j - d.acked) + 1)..(d.sent - d.acked)
      BY <1>1, <1>4, <1>5, <3>1
    <3>2. ASSUME NEW i \in ((j - d.acked) + 1)..(d.sent - d.acked)
          PROVE  i \in DOMAIN q /\ q[i].start_seq >= new
      <4>1. i \in DOMAIN q
        BY <1>1, <1>4
      <4>2. QED
        BY <1>1, <1>5, <4>1
    <3>3. QED
      BY <3>1, <3>2
  <2>2. Kept(q, ((j - d.acked) + 1)..(d.sent - d.acked)) =
            [i \in 1..((d.sent - d.acked) - (j - d.acked)) |-> q[(j - d.acked) + i]]
    <3>1. j - d.acked \in Nat /\ d.sent - d.acked \in Nat /\ j - d.acked <= d.sent - d.acked
      BY <1>1
    <3>2. \A h, n \in Nat : h <= n => Kept(q, (h+1)..n) = [i \in 1..(n-h) |-> q[h+i]]
      BY KeptSuffix
    <3> HIDE DEF q
    <3>3. QED
      BY <3>1, <3>2
  <2>3. (d.sent - d.acked) - (j - d.acked) = d.sent - j
    BY <1>1
  <2>4. ASSUME NEW i \in 1..(d.sent - j) PROVE q[(j - d.acked) + i] = Entry(d, j + i)
    <3>1. (j - d.acked) + i \in DOMAIN q /\ d.acked + ((j - d.acked) + i) = j + i
      BY <1>1, <1>4
    <3>2. QED
      BY <1>5, <3>1
  <2> HIDE DEF q
  <2>5. QED
    BY <2>1, <2>2, <2>3, <2>4
<1>9. c = [b EXCEPT !.waitq = kept]
  <2>1. c = removeAckedPacket(b, a.highest_ack, new)
    BY DEF newack
  <2> HIDE DEF b, new, q, kept, c
  <2>2. QED
    BY <1>6, <1>7, <1>8, <2>1 DEF removeAckedPacket
<1>10. kept \in Seq([data : Message, start_seq : Nat, length : Nat])
  <2>1. ASSUME NEW i \in 1..(d.sent - j)
        PROVE  Entry(d, j + i) \in [data : Message, start_seq : Nat, length : Nat]
    <3>1. j + i \in 1..k
      BY <1>1
    <3>2. QED
      BY <3>1, EntryType
  <2>2. d.sent - j \in Nat
    BY <1>1
  <2>3. QED
    BY <2>1, <2>2, SeqOf
<1>11. w \in Nat /\ j <= w /\ w <= d.sent /\ (IF a.t_seqno < new THEN new ELSE a.t_seqno) = At(d, w + 1)
  <2>1. w \in Nat /\ j <= w /\ w <= d.sent
    BY <1>1
  <2>2. d.next + 1 \in 1..(k + 1) /\ j + 1 \in 1..(k + 1)
    BY <1>1
  <2>3. a.t_seqno < new <=> d.next < j
    BY <1>1, <1>2, <2>2, AtInjective
  <2>4. QED
    BY <1>2, <2>1, <2>3
<1>12. /\ c \in Agent /\ SameReceiver(a, c) /\ c.ackNow = a.ackNow
       /\ c.waitq = kept /\ c.appq = a.appq /\ c.highest_ack = new
       /\ c.t_seqno = At(d, w + 1) /\ c.maxseq = a.maxseq /\ c.curseq = a.curseq
  <2>1. b = [a EXCEPT !.highest_ack = new, !.t_seqno = At(d, w + 1)]
    BY <1>11
  <2>2. c = [a EXCEPT !.highest_ack = new, !.t_seqno = At(d, w + 1), !.waitq = kept]
    <3> HIDE DEF new, kept, c, w
    <3>1. QED
      BY <1>9, <2>1 DEF Agent
  <2>3. At(d, w + 1) \in Nat
    <3>1. w + 1 \in 1..(k + 1)
      BY <1>1, <1>11
    <3>2. QED
      BY <3>1, AtFacts
  <2> HIDE DEF new, kept, c, w, b
  <2>4. QED
    BY <1>3, <1>10, <2>2, <2>3 DEF Agent, SameReceiver
<1>13. Sender(c, Moved(d, j, w, d.sent, d.got))
  <2> HIDE DEF c, w
  <2>1. QED
    BY <1>1, <1>2, <1>11, <1>12, MovedSender
<1>14. QED
  <2> HIDE DEF w
  <2>1. QED
    BY <1>11, <1>12, <1>13

(* The acknowledgement that a packet carries. *)
Acks(p, d) == p.ackno <= d.base \/ \E j \in 0..d.got : p.ackno = At(d, j + 1)

(* An acknowledgement of an edge removes whole messages from the front of  *)
(* the waiting queue, and one of everything that was got removes them all. *)
LEMMA AckedStep ==
    ASSUME NEW a \in Agent, NEW d \in Flow, Sender(a, d), NEW p, p.ackno \in Nat, Acks(p, d)
    PROVE  /\ p.ackno <= a.maxseq
           /\ \E u, w \in Nat :
                  /\ d.acked <= u /\ u <= d.got /\ u <= w /\ w <= d.sent
                  /\ p.ackno = At(d, d.got + 1) => u = d.got
                  /\ Sender(Acked(a, p), Moved(d, u, w, d.sent, d.got))
                  /\ Acked(a, p) \in Agent /\ SameReceiver(a, Acked(a, p))
                  /\ Acked(a, p).ackNow = a.ackNow
<1>1. /\ d.acked \in Nat /\ d.next \in Nat /\ d.sent \in Nat /\ d.got \in Nat
      /\ d.base \in Nat /\ Len(d.msgs) \in Nat
      /\ d.acked <= d.next /\ d.next <= d.sent /\ d.sent <= Len(d.msgs)
      /\ d.acked <= d.got /\ d.got <= d.sent
  BY FlowType
<1>2. /\ a.highest_ack = At(d, d.acked + 1) /\ a.maxseq = At(d, d.sent + 1)
      /\ a.highest_ack \in Nat /\ a.maxseq \in Nat
  BY DEF Sender, Agent
<1>3. d.base <= a.highest_ack /\ a.highest_ack <= a.maxseq
  <2>1. 1 \in 1..(Len(d.msgs) + 1) /\ d.acked + 1 \in 1..(Len(d.msgs) + 1) /\ d.sent + 1 \in 1..(Len(d.msgs) + 1)
    BY <1>1, SMTT(60)
  <2>2. At(d, 1) <= At(d, d.acked + 1) /\ At(d, d.acked + 1) <= At(d, d.sent + 1)
    BY <1>1, <2>1, AtInjective, SMTT(60)
  <2>3. QED
    BY <1>2, <2>2, AtFacts
<1>4. CASE ~(p.ackno > a.highest_ack)
  <2>1. Acked(a, p) = a
    BY <1>4 DEF Acked
  <2>2. p.ackno <= a.highest_ack /\ p.ackno <= a.maxseq
    BY <1>2, <1>3, <1>4
  <2>3. p.ackno = At(d, d.got + 1) => d.acked = d.got
    <3>1. d.got + 1 \in 1..(Len(d.msgs) + 1) /\ d.acked + 1 \in 1..(Len(d.msgs) + 1)
      BY <1>1, SMTT(60)
    <3>2. At(d, d.got + 1) <= At(d, d.acked + 1) => d.got + 1 <= d.acked + 1
      BY <3>1, AtInjective
    <3>3. QED
      BY <1>1, <1>2, <2>2, <3>2
  <2>4. Sender(a, Moved(d, d.acked, d.next, d.sent, d.got))
    <3>1. /\ a.waitq = [i \in 1..(d.sent - d.acked) |-> Entry(d, d.acked + i)]
          /\ a.appq = [i \in 1..(Len(d.msgs) - d.sent) |-> d.msgs[d.sent + i]]
          /\ a.highest_ack = At(d, d.acked + 1) /\ a.t_seqno = At(d, d.next + 1)
          /\ a.maxseq = At(d, d.sent + 1) /\ a.curseq = At(d, Len(d.msgs) + 1)
      BY DEF Sender
    <3>2. QED
      BY <1>1, <3>1, MovedSender
  <2>5. SameReceiver(a, a)
    BY DEF SameReceiver
  <2>6. QED
    BY <1>1, <2>1, <2>2, <2>3, <2>4, <2>5
<1>5. CASE p.ackno > a.highest_ack
  <2>1. PICK j \in 0..d.got : p.ackno = At(d, j + 1)
    BY <1>1, <1>2, <1>3, <1>5 DEF Acks
  <2>2. j + 1 \in 1..(Len(d.msgs) + 1) /\ d.acked + 1 \in 1..(Len(d.msgs) + 1)
        /\ d.sent + 1 \in 1..(Len(d.msgs) + 1) /\ d.got + 1 \in 1..(Len(d.msgs) + 1) /\ j \in Nat
    BY <1>1, SMTT(60)
  <2>3. d.acked < j
    <3>1. At(d, d.acked + 1) < At(d, j + 1)
      BY <1>2, <1>5, <2>1
    <3>2. d.acked + 1 < j + 1
      BY <2>2, <3>1, AtInjective
    <3>3. QED
      BY <1>1, <2>2, <3>2
  <2>4. p.ackno <= a.maxseq
    BY <1>1, <1>2, <2>1, <2>2, AtInjective, SMTT(60)
  <2>5. Acked(a, p) = newack(a, At(d, j + 1))
    BY <1>5, <2>1 DEF Acked
  <2>6. p.ackno = At(d, d.got + 1) => j = d.got
    <3>1. At(d, j + 1) = At(d, d.got + 1) => j + 1 = d.got + 1
      BY <2>2, AtInjective
    <3>2. QED
      BY <1>1, <2>1, <2>2, <3>1, SMTT(60)
  <2>7. PICK w \in Nat :
               /\ j <= w /\ w <= d.sent
               /\ Sender(newack(a, At(d, j + 1)), Moved(d, j, w, d.sent, d.got))
               /\ newack(a, At(d, j + 1)) \in Agent
               /\ SameReceiver(a, newack(a, At(d, j + 1)))
               /\ newack(a, At(d, j + 1)).ackNow = a.ackNow
    BY <1>1, <2>2, <2>3, NewackStep
  <2>8. d.acked <= j /\ j <= d.got
    BY <1>1, <2>2, <2>3
  <2>9. QED
    BY <2>2, <2>4, <2>5, <2>6, <2>7, <2>8
<1>6. QED
  BY <1>4, <1>5

-----------------------------------------------------------------------------
(* A new batch. *)

Fresh(b, m) == [base |-> b, msgs |-> m, acked |-> 0, next |-> 0, sent |-> 0, got |-> 0]

(* A batch nothing of which is sent yet is a flow.                         *)
LEMMA FreshFlow ==
    ASSUME NEW b \in Nat, NEW m \in Seq(Message), Batch(m)
    PROVE  /\ Fresh(b, m) \in Flow
           /\ Fresh(b, m).base = b /\ Fresh(b, m).msgs = m
           /\ Fresh(b, m).acked = 0 /\ Fresh(b, m).next = 0
           /\ Fresh(b, m).sent = 0 /\ Fresh(b, m).got = 0
<1>1. 0 \in Nat /\ Len(m) \in Nat /\ 0 <= Len(m)
  BY LenProperties
<1>2. QED
  BY <1>1 DEF Fresh, Flow

(* A sequence without indices is empty.                                    *)
LEMMA NoDomain ==
    ASSUME NEW S, NEW q \in Seq(S), DOMAIN q = {}
    PROVE  q = <<>>
<1>1. Len(q) \in Nat /\ DOMAIN q = 1..Len(q)
  BY LenProperties
<1>2. CASE Len(q) = 0
  BY <1>2, EmptySeq
<1>3. CASE Len(q) > 0
  <2>1. 1 \in 1..Len(q)
    BY <1>1, <1>3
  <2>2. QED
    BY <1>1, <2>1
<1>4. QED
  BY <1>1, <1>2, <1>3

(* When everything is acknowledged, a batch that is handed over becomes    *)
(* the flow of the agent.                                                  *)
LEMMA FreshSender ==
    ASSUME NEW a \in Agent, NEW d \in Flow, Sender(a, d), d.acked = Len(d.msgs),
           NEW m \in Seq(Message), Batch(m), NEW b,
           b.waitq = a.waitq, b.appq = a.appq \o m,
           b.highest_ack = a.highest_ack, b.t_seqno = a.t_seqno, b.maxseq = a.maxseq,
           b.curseq = Edge(a.curseq, m, Len(m) + 1)
    PROVE  Sender(b, Fresh(a.curseq, m)) /\ a.curseq = At(d, Len(d.msgs) + 1) /\ a.appq = <<>>
<1>1. /\ d.acked = Len(d.msgs) /\ d.next = Len(d.msgs) /\ d.sent = Len(d.msgs)
      /\ Len(d.msgs) \in Nat
  BY FlowType
<1>2. /\ a.highest_ack = At(d, Len(d.msgs) + 1) /\ a.t_seqno = At(d, Len(d.msgs) + 1)
      /\ a.maxseq = At(d, Len(d.msgs) + 1) /\ a.curseq = At(d, Len(d.msgs) + 1)
      /\ a.waitq = [i \in 1..(Len(d.msgs) - Len(d.msgs)) |-> Entry(d, Len(d.msgs) + i)]
      /\ a.appq = [i \in 1..(Len(d.msgs) - Len(d.msgs)) |-> d.msgs[Len(d.msgs) + i]]
  BY <1>1 DEF Sender
<1>3. a.waitq = <<>> /\ a.appq = <<>>
  <2>1. Len(d.msgs) - Len(d.msgs) = 0
    BY <1>1
  <2>2. 1..0 = {}
    OBVIOUS
  <2>3. DOMAIN a.waitq = {} /\ DOMAIN a.appq = {}
    BY <1>2, <2>1, <2>2
  <2>4. a.waitq \in Seq([data : Message, start_seq : Nat, length : Nat]) /\ a.appq \in Seq(Message)
    BY DEF Agent
  <2>5. QED
    BY <2>3, <2>4, NoDomain
<1>4. b.appq = m
  BY <1>3, ConcatEmptySeq
<1>5. m = [i \in 1..Len(m) |-> m[i]] /\ Len(m) \in Nat
  BY LenProperties
<1>6. a.curseq \in Nat
  BY DEF Agent
<1>7. PICK f : f = Fresh(a.curseq, m)
  OBVIOUS
<1>8. f.base = a.curseq /\ f.msgs = m /\ f.acked = 0 /\ f.next = 0 /\ f.sent = 0
  BY <1>6, <1>7, FreshFlow
<1>9. At(f, 1) = a.curseq /\ At(f, Len(m) + 1) = Edge(a.curseq, m, Len(m) + 1)
  BY <1>6, <1>8, EdgeFirst DEF At
<1>10. b.waitq = [i \in 1..(f.sent - f.acked) |-> Entry(f, f.acked + i)]
  <2>1. f.sent - f.acked = 0 /\ 1..0 = {}
    BY <1>8
  <2>2. [i \in {} |-> Entry(f, f.acked + i)] = <<>>
    OBVIOUS
  <2>3. QED
    BY <1>3, <2>1, <2>2
<1>11. b.appq = [i \in 1..(Len(f.msgs) - f.sent) |-> f.msgs[f.sent + i]]
  <2>1. f.msgs = m /\ Len(m) - 0 = Len(m) /\ \A i \in 1..Len(m) : 0 + i = i
    BY <1>5, <1>8
  <2>2. QED
    BY <1>4, <1>5, <1>8, <2>1
<1>12. Sender(b, f)
  <2>1. 0 + 1 = 1
    OBVIOUS
  <2>2. QED
    BY <1>2, <1>8, <1>9, <1>10, <1>11, <2>1, ZenonT(100) DEF Sender
<1>13. QED
  BY <1>2, <1>3, <1>7, <1>12

(* The client's request. *)
LEMMA AskSender ==
    ASSUME NEW a \in Agent, NEW d \in Flow, Sender(a, d), d.acked = Len(d.msgs),
           NEW n \in 1..MaxExchanges
    PROVE  /\ <<Request(n)>> \in Seq(Message) /\ Batch(<<Request(n)>>)
           /\ Request(n) \in Message
           /\ Sender(sendmsg(a, Request(n)), Fresh(a.curseq, <<Request(n)>>))
           /\ sendmsg(a, Request(n)) \in Agent
           /\ SameReceiver(a, sendmsg(a, Request(n)))
           /\ a.curseq = At(d, Len(d.msgs) + 1) /\ a.curseq \in Nat
<1> DEFINE x == Request(n)
           b == sendmsg(a, x)
<1>1. x \in Message
  BY DEF Message
<1>2. <<x>> \in Seq(Message) /\ Len(<<x>>) = 1 /\ <<x>>[1] = x /\ <<x>> # <<>>
  BY <1>1
<1>3. x.size \in 1..MaxSeg /\ x.size = RequestSize
  BY <1>1, MessageType DEF Request
<1> HIDE DEF x
<1>4. Batch(<<x>>)
  BY <1>2, <1>3 DEF Batch
<1>5. a.curseq \in Nat /\ a.appq \in Seq(Message)
  BY DEF Agent
<1>6. Edge(a.curseq, <<x>>, Len(<<x>>) + 1) = a.curseq + x.size
  <2>1. PICK q : q = <<x>>
    OBVIOUS
  <2>2. q \in Seq(Message) /\ Len(q) = 1 /\ q[1] = x /\ Batch(q) /\ 1 \in 1..Len(q)
    BY <1>2, <1>4, <2>1
  <2>3. Edge(a.curseq, q, 1 + 1) = Edge(a.curseq, q, 1) + q[1].size
    BY <1>5, <2>2, EdgeNext
  <2>4. Edge(a.curseq, q, 1) = a.curseq
    BY <1>5, <2>2, EdgeFirst
  <2>5. QED
    BY <2>1, <2>2, <2>3, <2>4
<1>7. Append(a.appq, x) = a.appq \o <<x>> /\ Append(a.appq, x) \in Seq(Message)
  BY <1>1, <1>5, AppendIsConcat
<1> DEFINE queue == Append(a.appq, x)
           cur == a.curseq + x.size
<1>8. cur \in Nat
  BY <1>3, <1>5
<1>9. b = [a EXCEPT !.appq = queue, !.curseq = cur]
  BY DEF sendmsg
<1> HIDE DEF queue, cur, b
<1>10. /\ b.waitq = a.waitq /\ b.appq = queue
       /\ b.highest_ack = a.highest_ack /\ b.t_seqno = a.t_seqno /\ b.maxseq = a.maxseq
       /\ b.curseq = cur
       /\ b \in Agent /\ SameReceiver(a, b)
  BY <1>7, <1>8, <1>9 DEF Agent, SameReceiver, queue
<1>11. /\ b.waitq = a.waitq /\ b.appq = a.appq \o <<x>>
       /\ b.highest_ack = a.highest_ack /\ b.t_seqno = a.t_seqno /\ b.maxseq = a.maxseq
       /\ b.curseq = a.curseq + x.size
       /\ b \in Agent /\ SameReceiver(a, b)
  BY <1>7, <1>10 DEF queue, cur
<1>12. Sender(b, Fresh(a.curseq, <<x>>)) /\ a.curseq = At(d, Len(d.msgs) + 1)
  <2>1. PICK q : q = <<x>>
    OBVIOUS
  <2>2. /\ q \in Seq(Message) /\ Batch(q) /\ b.appq = a.appq \o q
        /\ b.curseq = Edge(a.curseq, q, Len(q) + 1)
    BY <1>2, <1>4, <1>6, <1>11, <2>1
  <2>3. Sender(b, Fresh(a.curseq, q)) /\ a.curseq = At(d, Len(d.msgs) + 1)
    BY <1>11, <2>2, FreshSender
  <2>4. QED
    BY <2>1, <2>3
<1>13. QED
  BY <1>1, <1>2, <1>4, <1>5, <1>11, <1>12 DEF x, b

(* The server's response. *)
Pieces(n, r) == [i \in 1..Len(r.sizes) |-> Piece(n, r, i)]

(* The response to a request is a batch.                                   *)
LEMMA PiecesBatch ==
    ASSUME NEW n \in 1..MaxExchanges, NEW r \in Responses
    PROVE  /\ Pieces(n, r) \in Seq(Message) /\ Batch(Pieces(n, r))
           /\ Len(Pieces(n, r)) = Len(r.sizes) /\ Len(r.sizes) \in Nat \ {0}
           /\ \A i \in 1..Len(r.sizes) : /\ Pieces(n, r)[i].exchange = n
                                         /\ Pieces(n, r)[i].piece = i
                                         /\ Pieces(n, r)[i].size = r.sizes[i]
<1> DEFINE k == Len(r.sizes)
           m == Pieces(n, r)
<1>1. r.media \in BOOLEAN /\ r.sizes \in Seq(1..MaxSeg) /\ r.sizes # <<>>
  BY ConnectionAssumption
<1>2. k \in Nat \ {0} /\ DOMAIN r.sizes = 1..k /\ \A i \in 1..k : r.sizes[i] \in 1..MaxSeg
  BY <1>1, LenProperties, EmptySeq
<1>3. ASSUME NEW i \in 1..k PROVE Piece(n, r, i) \in Message
  BY <1>2 DEF Message
<1>4. m \in Seq(Message) /\ Len(m) = k
  BY <1>2, <1>3, SeqOf DEF Pieces
<1>5. ASSUME NEW i \in 1..k
      PROVE  /\ m[i].exchange = n /\ m[i].piece = i /\ m[i].size = r.sizes[i]
             /\ m[i].media = r.media /\ (m[i].final => i = k)
  BY DEF Pieces, Piece
<1>6. /\ \A i \in 1..(k - 1) : r.sizes[i] = MaxSeg
      /\ ~r.media => k = 1
  BY ConnectionAssumption
<1>7. Batch(m)
  <2> HIDE DEF m, k
  <2>1. ASSUME NEW i \in 1..k
        PROVE  /\ m[i].size \in 1..MaxSeg
               /\ i < k => m[i].size = MaxSeg
               /\ m[i].final => i = k
    BY <1>2, <1>5, <1>6
  <2>2. k > 1 => \A i \in 1..k : m[i].media
    BY <1>1, <1>2, <1>5, <1>6
  <2>3. QED
    BY <1>4, <2>1, <2>2 DEF Batch
<1>8. QED
  BY <1>2, <1>4, <1>5, <1>7

(* The server answers when everything before is acknowledged: its agent    *)
(* then sends the flow of the response.                                    *)
LEMMA AnswerSender ==
    ASSUME NEW a \in Agent, NEW d \in Flow, Sender(a, d), d.acked = Len(d.msgs),
           NEW n \in 1..MaxExchanges, NEW r \in Responses
    PROVE  /\ Sender(Answer(a, n, r), Fresh(a.curseq, Pieces(n, r)))
           /\ Answer(a, n, r) \in Agent
           /\ SameReceiver(a, Answer(a, n, r))
           /\ a.curseq = At(d, Len(d.msgs) + 1) /\ a.curseq \in Nat
<1> DEFINE k == Len(r.sizes)
           m == Pieces(n, r)
           b == Answer(a, n, r)
           y == (k - 1) * MaxSeg
<1>1. /\ m \in Seq(Message) /\ Batch(m) /\ Len(m) = k /\ k \in Nat \ {0}
      /\ m[k].size = r.sizes[k]
  BY PiecesBatch
<1>2. a.curseq \in Nat /\ a.appq \in Seq(Message)
  BY DEF Agent
<1>3. y \in Nat /\ r.sizes[k] \in Nat
  <2>1. k - 1 \in Nat
    BY <1>1
  <2>2. y \in Int /\ y >= 0
    BY <2>1, SegmentMultiples
  <2>3. m[k].size \in 1..MaxSeg
    BY <1>1 DEF Batch
  <2>4. QED
    BY <1>1, <2>2, <2>3
<1>4. Edge(a.curseq, m, Len(m) + 1) = a.curseq + y + r.sizes[k]
  <2>1. m # <<>> /\ ~(k + 1 <= k)
    BY <1>1
  <2> HIDE DEF m
  <2>2. QED
    BY <1>1, <2>1 DEF Edge
<1> HIDE DEF y
<1>5. b = [a EXCEPT !.appq = @ \o m, !.curseq = @ + y + r.sizes[k]]
  BY DEF Answer, Pieces, y
<1>6. a.appq \o m \in Seq(Message)
  BY <1>1, <1>2, ConcatProperties
<1> DEFINE queue == a.appq \o m
           cur == a.curseq + y + r.sizes[k]
<1>7. cur \in Nat /\ b = [a EXCEPT !.appq = queue, !.curseq = cur]
  BY <1>2, <1>3, <1>5, SMTT(60)
<1> HIDE DEF m, b, queue, cur
<1>8. /\ b.waitq = a.waitq /\ b.appq = queue
      /\ b.highest_ack = a.highest_ack /\ b.t_seqno = a.t_seqno /\ b.maxseq = a.maxseq
      /\ b.curseq = cur /\ b \in Agent /\ SameReceiver(a, b)
  BY <1>6, <1>7 DEF Agent, SameReceiver, queue
<1>9. /\ b.waitq = a.waitq /\ b.appq = a.appq \o m
      /\ b.highest_ack = a.highest_ack /\ b.t_seqno = a.t_seqno /\ b.maxseq = a.maxseq
      /\ b.curseq = a.curseq + y + r.sizes[k]
      /\ b \in Agent /\ SameReceiver(a, b)
  BY <1>8 DEF queue, cur
<1>10. Sender(b, Fresh(a.curseq, m)) /\ a.curseq = At(d, Len(d.msgs) + 1)
  BY <1>1, <1>4, <1>9, FreshSender
<1>11. QED
  BY <1>2, <1>9, <1>10 DEF m, b

(* The retransmission timer. *)
LEMMA TimeoutSender ==
    ASSUME NEW a \in Agent, NEW d \in Flow, Sender(a, d)
    PROVE  /\ Sender(timeout_action(a), Moved(d, d.acked, d.acked, d.sent, d.got))
           /\ timeout_action(a) \in Agent
           /\ SameReceiver(a, timeout_action(a))
<1> DEFINE b == timeout_action(a)
<1>1. /\ a.waitq = [i \in 1..(d.sent - d.acked) |-> Entry(d, d.acked + i)]
      /\ a.appq = [i \in 1..(Len(d.msgs) - d.sent) |-> d.msgs[d.sent + i]]
      /\ a.highest_ack = At(d, d.acked + 1)
      /\ a.maxseq = At(d, d.sent + 1) /\ a.curseq = At(d, Len(d.msgs) + 1)
  BY DEF Sender
<1>2. /\ b \in Agent /\ SameReceiver(a, b)
      /\ b.waitq = a.waitq /\ b.appq = a.appq /\ b.highest_ack = a.highest_ack
      /\ b.t_seqno = a.highest_ack /\ b.maxseq = a.maxseq /\ b.curseq = a.curseq
  BY DEF timeout_action, Agent, SameReceiver
<1> HIDE DEF b
<1>3. Sender(b, Moved(d, d.acked, d.acked, d.sent, d.got))
  <2>1. /\ d.acked \in Nat /\ d.sent \in Nat /\ d.got \in Nat
        /\ d.acked <= d.sent /\ d.sent <= Len(d.msgs) /\ d.acked <= d.got /\ d.got <= d.sent
    BY FlowType
  <2>2. d.acked <= d.acked
    BY <2>1
  <2>3. QED
    BY <1>1, <1>2, <2>1, <2>2, MovedSender
<1>4. QED
  BY <1>2, <1>3 DEF b

-----------------------------------------------------------------------------
(* Receiving. *)

(* Of a segment that was received before, and of a bare ACK, nothing is    *)
(* left.                                                                   *)
LEMMA TrimOld ==
    ASSUME NEW a \in Agent, NEW p \in Packet,
           p.datalen = 0 \/ p.seqno + p.datalen <= a.rcv_nxt
    PROVE  Trim(a, p).datalen = 0
<1>1. p.seqno \in Nat /\ p.datalen \in Nat /\ a.rcv_nxt \in Nat
  BY SegmentMultiples DEF Packet, Agent
<1>2. Overlap(a, p) = p.datalen
  BY <1>1 DEF Overlap, Lesser
<1>3. Trim(a, p).datalen = p.datalen - Overlap(a, p)
  BY DEF Trim, Packet
<1>4. QED
  BY <1>1, <1>2, <1>3

(* A segment that starts at or behind rcv_nxt_ keeps all its bytes.        *)
LEMMA TrimNew ==
    ASSUME NEW a \in Agent, NEW p \in Packet, p.seqno >= a.rcv_nxt
    PROVE  Trim(a, p) = p
<1>1. p.seqno \in Nat /\ p.datalen \in Nat /\ a.rcv_nxt \in Nat
  BY SegmentMultiples DEF Packet, Agent
<1>2. Overlap(a, p) = 0
  BY <1>1 DEF Overlap
<1>3. p.seqno + 0 = p.seqno /\ p.datalen - 0 = p.datalen
  BY <1>1
<1>4. QED
  BY <1>2, <1>3 DEF Trim, Packet

(* A queue with an entry inserted before the first later one. *)
Inserted(q, n, it, x) == SubSeq(q, 1, it - 1) \o <<x>> \o SubSeq(q, it, n)

Spliced(r, q, n, it, x) ==
    \A i \in 1..(n + 1) : r[i] = IF i < it THEN q[i] ELSE IF i = it THEN x ELSE q[i - 1]

(* Insertion into a sequence.                                              *)
LEMMA Splice ==
    ASSUME NEW S, NEW q \in Seq(S), NEW x \in S, NEW n \in Nat, n = Len(q), NEW it \in 1..(n + 1)
    PROVE  /\ Inserted(q, n, it, x) \in Seq(S) /\ Len(Inserted(q, n, it, x)) = n + 1
           /\ Spliced(Inserted(q, n, it, x), q, n, it, x)
<1> DEFINE u == SubSeq(q, 1, it - 1)
           v == SubSeq(q, it, n)
           s == <<x>>
           o == u \o s
           r == o \o v
<1>1. \A i \in 1..n : q[i] \in S
  BY LenProperties
<1>2. /\ u \in Seq(S) /\ Len(u) = it - 1
      /\ \A i \in 1..(it - 1) : u[i] = q[i]
  <2>1. 1 \in Int /\ it - 1 \in Int /\ \A i \in 1..(it - 1) : q[i] \in S
    BY <1>1
  <2>2. /\ u \in Seq(S) /\ Len(u) = (IF 1 <= it - 1 THEN (it - 1) - 1 + 1 ELSE 0)
        /\ \A i \in 1..((it - 1) - 1 + 1) : u[i] = q[1 + i - 1]
    BY <2>1, SubSeqProperties
  <2> HIDE DEF u
  <2>3. (it - 1) - 1 + 1 = it - 1 /\ \A i \in 1..(it - 1) : 1 + i - 1 = i
    OBVIOUS
  <2>4. QED
    BY <2>2, <2>3
<1>3. /\ v \in Seq(S) /\ Len(v) = n + 1 - it
      /\ \A i \in 1..(n + 1 - it) : v[i] = q[it + i - 1]
  <2>1. it \in Int /\ n \in Int /\ \A i \in it..n : q[i] \in S
    BY <1>1
  <2>2. /\ v \in Seq(S) /\ Len(v) = (IF it <= n THEN n - it + 1 ELSE 0)
        /\ \A i \in 1..(n - it + 1) : v[i] = q[it + i - 1]
    BY <2>1, SubSeqProperties
  <2> HIDE DEF v
  <2>3. n - it + 1 = n + 1 - it
    OBVIOUS
  <2>4. QED
    BY <2>2, <2>3
<1>4. s \in Seq(S) /\ Len(s) = 1 /\ s[1] = x
  OBVIOUS
<1> HIDE DEF u, v, s
<1>5. /\ o \in Seq(S) /\ Len(o) = it
      /\ \A i \in 1..(it - 1) : o[i] = q[i]
      /\ o[it] = x
  <2>1. /\ o \in Seq(S) /\ Len(o) = Len(u) + Len(s)
        /\ \A i \in 1..(Len(u) + Len(s)) : o[i] = IF i <= Len(u) THEN u[i] ELSE s[i - Len(u)]
    BY <1>2, <1>4, ConcatProperties
  <2> HIDE DEF o
  <2>2. Len(u) + Len(s) = it
    BY <1>2, <1>4
  <2>3. ASSUME NEW i \in 1..(it - 1) PROVE o[i] = q[i]
    BY <1>2, <2>1, <2>2
  <2>4. o[it] = s[it - (it - 1)]
    <3>1. it \in 1..it /\ ~(it <= it - 1)
      OBVIOUS
    <3>2. QED
      BY <1>2, <2>1, <2>2, <3>1
  <2>5. it - (it - 1) = 1
    OBVIOUS
  <2>6. QED
    BY <1>4, <2>1, <2>2, <2>3, <2>4, <2>5
<1> HIDE DEF o
<1>6. /\ r \in Seq(S) /\ Len(r) = Len(o) + Len(v)
      /\ \A i \in 1..(Len(o) + Len(v)) : r[i] = IF i <= Len(o) THEN o[i] ELSE v[i - Len(o)]
  BY <1>3, <1>5, ConcatProperties
<1>7. r = Inserted(q, n, it, x)
  BY DEF o, u, v, s, Inserted
<1> HIDE DEF r
<1>8. Len(o) + Len(v) = n + 1
  BY <1>3, <1>5
<1>9. ASSUME NEW i \in 1..(n + 1)
      PROVE  r[i] = IF i < it THEN q[i] ELSE IF i = it THEN x ELSE q[i - 1]
  <2>1. CASE i <= it
    BY <1>5, <1>6, <1>8, <2>1
  <2>2. CASE i > it
    <3>1. i - it \in 1..(n + 1 - it) /\ it + (i - it) - 1 = i - 1
      BY <2>2
    <3>2. v[i - it] = q[it + (i - it) - 1]
      BY <1>3, <3>1
    <3>3. r[i] = v[i - it]
      BY <1>5, <1>6, <1>8, <2>2
    <3>4. QED
      BY <2>2, <3>1, <3>2, <3>3
  <2>3. QED
    BY <2>1, <2>2
<1>10. r \in Seq(S) /\ Len(r) = n + 1 /\ Spliced(r, q, n, it, x)
  BY <1>6, <1>8, <1>9 DEF Spliced
<1>11. QED
  BY <1>7, <1>10

(* Insertion behind all entries that are not larger keeps the order and    *)
(* all entries.                                                            *)
LEMMA SpliceSorted ==
    ASSUME NEW n \in Nat, NEW it \in 1..(n + 1), NEW q, NEW r, NEW x,
           Spliced(r, q, n, it, x),
           x.start_seq \in Nat, \A i \in 1..n : q[i].start_seq \in Nat,
           \A i, j \in 1..n : i <= j => q[i].start_seq <= q[j].start_seq,
           \A i \in 1..n : i < it => q[i].start_seq <= x.start_seq,
           \A i \in 1..n : it <= i => q[i].start_seq > x.start_seq
    PROVE  /\ \A i, j \in 1..(n + 1) : i <= j => r[i].start_seq <= r[j].start_seq
           /\ \A i \in 1..(n + 1) : r[i] = x \/ \E j \in 1..n : r[i] = q[j]
           /\ \A j \in 1..n : \E i \in 1..(n + 1) : r[i] = q[j]
           /\ \E i \in 1..(n + 1) : r[i] = x
           /\ (\A j \in 1..n : q[j].start_seq > x.start_seq) => r[1] = x
<1>1. \A i \in 1..(n + 1) : i < it => i \in 1..n /\ r[i] = q[i]
  BY DEF Spliced
<1>2. r[it] = x
  BY DEF Spliced
<1>3. \A i \in 1..(n + 1) : it < i => i - 1 \in 1..n /\ it <= i - 1 /\ r[i] = q[i - 1]
  BY DEF Spliced
<1>4. ASSUME NEW i \in 1..(n + 1), NEW j \in 1..(n + 1), i <= j
      PROVE  r[i].start_seq <= r[j].start_seq
  <2>1. CASE j < it
    <3>1. i < it
      BY <1>4, <2>1
    <3>2. QED
      BY <1>1, <1>4, <2>1, <3>1
  <2>2. CASE j = it
    <3>1. CASE i < it
      BY <1>1, <1>2, <2>2, <3>1
    <3>2. CASE i = it
      BY <1>2, <2>2, <3>2
    <3>3. QED
      BY <1>4, <2>2, <3>1, <3>2
  <2>3. CASE it < j
    <3>1. j - 1 \in 1..n /\ r[j] = q[j - 1] /\ it <= j - 1
      BY <1>3, <2>3
    <3>2. CASE i < it
      <4>1. i \in 1..n /\ r[i] = q[i] /\ i <= j - 1
        BY <1>1, <3>1, <3>2
      <4>2. QED
        BY <3>1, <4>1
    <3>3. CASE i = it
      <4>1. q[j - 1].start_seq > x.start_seq /\ q[j - 1].start_seq \in Nat
        BY <3>1
      <4>2. QED
        BY <1>2, <3>1, <3>3, <4>1
    <3>4. CASE it < i
      <4>1. i - 1 \in 1..n /\ r[i] = q[i - 1] /\ i - 1 <= j - 1
        BY <1>3, <1>4, <3>4
      <4>2. QED
        BY <3>1, <4>1
    <3>5. QED
      BY <3>2, <3>3, <3>4
  <2>4. QED
    BY <2>1, <2>2, <2>3
<1>5. ASSUME NEW i \in 1..(n + 1) PROVE r[i] = x \/ \E j \in 1..n : r[i] = q[j]
  <2>1. CASE i < it
    BY <1>1, <2>1
  <2>2. CASE i = it
    BY <1>2, <2>2
  <2>3. CASE it < i
    BY <1>3, <2>3
  <2>4. QED
    BY <2>1, <2>2, <2>3
<1>6. ASSUME NEW j \in 1..n PROVE \E i \in 1..(n + 1) : r[i] = q[j]
  <2>1. CASE j < it
    <3>1. j \in 1..(n + 1) /\ r[j] = q[j]
      BY <1>1, <2>1
    <3>2. QED
      BY <3>1
  <2>2. CASE it <= j
    <3>1. j + 1 \in 1..(n + 1) /\ (j + 1) - 1 = j /\ it < j + 1
      BY <2>2
    <3>2. r[j + 1] = q[(j + 1) - 1]
      BY <1>3, <3>1
    <3>3. r[j + 1] = q[j]
      BY <3>1, <3>2
    <3>4. QED
      BY <3>1, <3>3
  <2>3. QED
    BY <2>1, <2>2
<1>7. ASSUME \A j \in 1..n : q[j].start_seq > x.start_seq PROVE r[1] = x
  <2>1. CASE it = 1
    BY <1>2, <2>1
  <2>2. CASE it > 1
    <3>1. 1 \in 1..n /\ 1 < it
      BY <2>2
    <3>2. q[1].start_seq <= x.start_seq /\ q[1].start_seq > x.start_seq /\ q[1].start_seq \in Nat
      BY <1>7, <3>1
    <3>3. QED
      BY <3>2
  <2>3. QED
    BY <2>1, <2>2
<1>8. QED
  BY <1>2, <1>4, <1>5, <1>6, <1>7

(* addtoReceiveQueue keeps the receive queue sorted by start_seq, adds the *)
(* message and loses none.                                                 *)
LEMMA Insert ==
    ASSUME NEW a \in Agent, NEW p \in Packet, p.data \in Message, Sorted(a.recvq)
    PROVE  LET q == a.recvq
               r == addtoReceiveQueue(a, p).recvq
               x == [data |-> p.data, start_seq |-> p.seqno]
           IN  /\ r \in Seq([data : Message, start_seq : Nat]) /\ Len(r) = Len(q) + 1
               /\ Sorted(r)
               /\ \A i \in 1..Len(r) : r[i] = x \/ \E j \in 1..Len(q) : r[i] = q[j]
               /\ \A j \in 1..Len(q) : \E i \in 1..Len(r) : r[i] = q[j]
               /\ \E i \in 1..Len(r) : r[i] = x
               /\ (\A j \in 1..Len(q) : q[j].start_seq > p.seqno) => r[1] = x
               /\ addtoReceiveQueue(a, p) = [a EXCEPT !.recvq = r]
<1> DEFINE S == [data : Message, start_seq : Nat]
           q == a.recvq
           n == Len(q)
           x == [data |-> p.data, start_seq |-> p.seqno]
           later == {i \in 1..n : q[i].start_seq > p.seqno}
           it == Min(later \cup {n + 1})
           r == SubSeq(q, 1, it - 1) \o <<x>> \o SubSeq(q, it, n)
<1>1. x \in S /\ x.start_seq = p.seqno /\ p.seqno \in Nat /\ q \in Seq(S)
  BY DEF Agent, Packet
<1>2. n \in Nat /\ \A i \in 1..n : q[i] \in S /\ q[i].start_seq \in Nat
  <2>1. \A y \in S : y.start_seq \in Nat
    OBVIOUS
  <2> HIDE DEF S, q
  <2>2. n \in Nat /\ \A i \in 1..n : q[i] \in S
    BY <1>1, LenProperties
  <2>3. QED
    BY <2>1, <2>2
<1>3. \A i, j \in 1..n : i <= j => q[i].start_seq <= q[j].start_seq
  BY DEF Sorted
<1>4. (n + 1) - 1 = n
  BY <1>2
<1>5. addtoReceiveQueue(a, p) = [a EXCEPT !.recvq = r]
  <2>1. addtoReceiveQueue(a, p) =
            [a EXCEPT !.recvq = SubSeq(q, 1, Min({i \in 1..((n + 1) - 1) : q[i].start_seq > p.seqno}
                                                    \cup {n + 1}) - 1)
                                \o <<x>>
                                \o SubSeq(q, Min({i \in 1..((n + 1) - 1) : q[i].start_seq > p.seqno}
                                                    \cup {n + 1}), (n + 1) - 1)]
    BY DEF addtoReceiveQueue
  <2> HIDE DEF n, x, q
  <2>2. QED
    BY <1>4, <2>1
<1>6. addtoReceiveQueue(a, p).recvq = r
  <2> HIDE DEF r
  <2>1. QED
    BY <1>5 DEF Agent
<1> HIDE DEF S, q, n, x
<1>7. later \cup {n + 1} \subseteq Nat /\ later \cup {n + 1} # {}
  BY <1>2
<1>8. PICK m \in later \cup {n + 1} : \A y \in later \cup {n + 1} : m <= y
  BY <1>7, SmallestExists
<1>9. it = m
  <2> HIDE DEF later
  <2>1. QED
    BY <1>7, <1>8, MinOf
<1> HIDE DEF it
<1>10. it \in 1..(n + 1)
  BY <1>2, <1>8, <1>9
<1>11. \A i \in 1..n : i < it => q[i].start_seq <= p.seqno
  <2> SUFFICES ASSUME NEW i \in 1..n, i < it PROVE q[i].start_seq <= p.seqno
    OBVIOUS
  <2>1. i \notin later
    <3> HIDE DEF later
    <3>1. QED
      BY <1>2, <1>8, <1>9, <1>10
  <2>2. QED
    BY <1>1, <1>2, <2>1
<1>12. \A i \in 1..n : it <= i => q[i].start_seq > p.seqno
  <2> SUFFICES ASSUME NEW i \in 1..n, it <= i PROVE q[i].start_seq > p.seqno
    OBVIOUS
  <2>1. it # n + 1
    BY <1>2, <1>10
  <2>2. it \in later
    BY <1>8, <1>9, <2>1
  <2>3. it \in 1..n /\ q[it].start_seq > p.seqno
    BY <2>2
  <2>4. q[it].start_seq <= q[i].start_seq
    BY <1>3, <2>3
  <2>5. QED
    BY <1>1, <1>2, <2>3, <2>4
<1> HIDE DEF later
<1>13. r \in Seq(S) /\ Len(r) = n + 1 /\ Spliced(r, q, n, it, x)
  <2>1. n = Len(q) /\ r = Inserted(q, n, it, x)
    BY DEF n, Inserted
  <2> HIDE DEF r
  <2>2. QED
    BY <1>1, <1>2, <1>10, <2>1, Splice
<1> HIDE DEF r
<1>14. /\ x.start_seq \in Nat
       /\ \A i \in 1..n : i < it => q[i].start_seq <= x.start_seq
       /\ \A i \in 1..n : it <= i => q[i].start_seq > x.start_seq
       /\ \A i \in 1..n : q[i].start_seq \in Nat
       /\ Spliced(r, q, n, it, x)
  BY <1>1, <1>2, <1>11, <1>12, <1>13
<1>15. /\ \A i, j \in 1..(n + 1) : i <= j => r[i].start_seq <= r[j].start_seq
       /\ \A i \in 1..(n + 1) : r[i] = x \/ \E j \in 1..n : r[i] = q[j]
       /\ \A j \in 1..n : \E i \in 1..(n + 1) : r[i] = q[j]
       /\ \E i \in 1..(n + 1) : r[i] = x
       /\ (\A j \in 1..n : q[j].start_seq > x.start_seq) => r[1] = x
  BY <1>2, <1>3, <1>10, <1>14, SpliceSorted, SMTT(60)
<1>16. Sorted(r)
  BY <1>13, <1>15 DEF Sorted
<1>17. QED
  BY <1>1, <1>5, <1>6, <1>13, <1>15, <1>16, SMTT(60) DEF S, q, n, x

(* The bytes of the messages in H. *)
Bytes(d, H) == {y \in Nat : \E j \in H : At(d, j) <= y /\ y < At(d, j + 1)}

UpTo(a, b, d, H, g) ==
    /\ g + 1 \notin H /\ \A j \in (d.got + 1)..g : j \in H
    /\ b = [a EXCEPT !.rq = Bytes(d, {j \in H : j > g + 1}), !.rcv_nxt = At(d, g + 1)]

(* TCP's reassembly: rcv_nxt_ moves to the first message that is missing,  *)
(* and the reassembly queue keeps those behind it.                         *)
LEMMA Reass ==
    ASSUME NEW a \in Agent, NEW d \in Flow, a.rcv_nxt = At(d, d.got + 1),
           NEW H, H \subseteq (d.got + 1)..d.sent,
           NEW p \in Packet, a.rq \cup (p.seqno .. (p.seqno + p.datalen - 1)) = Bytes(d, H)
    PROVE  \E g \in d.got..d.sent : UpTo(a, reass(a, p), d, H, g)
<1> DEFINE bytes == Bytes(d, H)
           nxt == At(d, d.got + 1)
           M == {j \in (d.got + 1)..(d.sent + 1) : j \notin H}
           top == nxt + Cardinality(bytes)
<1>1. /\ d.sent \in Nat /\ d.got \in Nat /\ Len(d.msgs) \in Nat
      /\ d.sent <= Len(d.msgs) /\ d.got <= d.sent
  BY FlowType
<1>2. \A j \in (d.got + 1)..(d.sent + 1) : j \in 1..(Len(d.msgs) + 1)
  BY <1>1
<1>3. \A j \in H : j \in Nat /\ j \in (d.got + 1)..(d.sent + 1) /\ j + 1 \in (d.got + 1)..(d.sent + 1)
  BY <1>1
<1>4. M \subseteq Nat /\ d.sent + 1 \in M
  BY <1>1
<1>5. PICK m \in M : \A j \in M : m <= j
  BY <1>4, SmallestExists
<1>6. PICK g \in Nat : m = g + 1 /\ g \in d.got..d.sent
  <2>1. m - 1 \in Nat /\ m = (m - 1) + 1 /\ m - 1 \in d.got..d.sent
    BY <1>1, <1>5
  <2>2. QED
    BY <2>1
<1>7. g + 1 \notin H /\ g + 1 \in (d.got + 1)..(d.sent + 1) /\ d.got + 1 \in (d.got + 1)..(d.sent + 1)
  BY <1>1, <1>5, <1>6
<1>8. ASSUME NEW j \in (d.got + 1)..g PROVE j \in H
  BY <1>1, <1>5, <1>6
<1>9. \A j \in (d.got + 1)..(d.sent + 1) : At(d, j) \in Nat
  BY <1>2, AtFacts
<1>10. \A i, j \in (d.got + 1)..(d.sent + 1) : At(d, i) < At(d, j) <=> i < j
  BY <1>2, AtInjective
<1>11. nxt \in Nat /\ At(d, g + 1) \in Nat /\ nxt <= At(d, g + 1)
  <2>1. nxt \in Nat /\ At(d, g + 1) \in Nat
    BY <1>7, <1>9
  <2>2. ~(At(d, g + 1) < nxt)
    BY <1>1, <1>6, <1>7, <1>10
  <2>3. QED
    BY <2>1, <2>2
<1>12. At(d, g + 1) \notin bytes
  <2> SUFFICES ASSUME NEW j \in H, At(d, j) <= At(d, g + 1), At(d, g + 1) < At(d, j + 1) PROVE FALSE
    BY DEF Bytes
  <2>1. j \in Nat /\ j \in (d.got + 1)..(d.sent + 1) /\ j + 1 \in (d.got + 1)..(d.sent + 1)
    BY <1>3
  <2>2. g + 1 < j + 1
    BY <1>7, <1>10, <2>1
  <2>3. ~(At(d, g + 1) < At(d, j))
    BY <1>11, <1>9, <2>1
  <2>4. ~(g + 1 < j)
    BY <1>7, <1>10, <2>1, <2>3
  <2>5. j = g + 1
    BY <2>1, <2>2, <2>4
  <2>6. QED
    BY <1>7, <2>5
<1>13. ASSUME NEW y \in Nat, nxt <= y, y < At(d, g + 1) PROVE y \in bytes
  <2>1. PICK j \in (d.got + 1)..((g + 1) - 1) : At(d, j) <= y /\ y < At(d, j + 1)
    BY <1>2, <1>7, <1>13, Locate
  <2>2. j \in H
    BY <1>1, <1>6, <1>8
  <2>3. QED
    BY <2>1, <2>2 DEF Bytes
<1>14. ASSUME NEW y \in bytes PROVE y \in Nat /\ nxt <= y /\ y < At(d, d.sent + 1)
  <2>1. PICK j \in H : At(d, j) <= y /\ y < At(d, j + 1)
    BY DEF Bytes
  <2>2. y \in Nat
    BY DEF Bytes
  <2>3. j \in Nat /\ j \in (d.got + 1)..(d.sent + 1) /\ j + 1 \in (d.got + 1)..(d.sent + 1)
        /\ d.sent + 1 \in (d.got + 1)..(d.sent + 1)
    BY <1>1, <1>3
  <2>4. ~(At(d, j) < nxt) /\ ~(At(d, d.sent + 1) < At(d, j + 1))
    BY <1>1, <1>7, <1>10, <2>3
  <2>5. At(d, j) \in Nat /\ At(d, j + 1) \in Nat /\ At(d, d.sent + 1) \in Nat
    BY <1>9, <2>3
  <2>6. QED
    BY <1>11, <2>1, <2>2, <2>4, <2>5
<1> HIDE DEF bytes, nxt
<1>15. IsFiniteSet(bytes) /\ Cardinality(bytes) \in Nat
  <2>1. At(d, d.sent + 1) \in Nat
    <3>1. d.sent + 1 \in (d.got + 1)..(d.sent + 1)
      BY <1>1
    <3>2. QED
      BY <1>9, <3>1
  <2>2. bytes \in SUBSET (0..At(d, d.sent + 1))
    BY <1>14, <2>1
  <2>3. IsFiniteSet(0..At(d, d.sent + 1))
    BY <2>1, FS_Interval
  <2>4. IsFiniteSet(bytes)
    BY <2>2, <2>3, FS_Subset
  <2>5. QED
    BY <2>4, FS_CardinalityType
<1>16. At(d, g + 1) <= top
  <2> DEFINE span == nxt..(At(d, g + 1) - 1)
  <2>1. span \in SUBSET bytes
    BY <1>11, <1>13
  <2>2. Cardinality(span) <= Cardinality(bytes)
    <3> HIDE DEF span
    <3>1. QED
      BY <1>15, <2>1, FS_Subset
  <2>3. Cardinality(span) = IF nxt > At(d, g + 1) - 1 THEN 0 ELSE (At(d, g + 1) - 1) - nxt + 1
    <3>1. nxt \in Int /\ At(d, g + 1) - 1 \in Int
      BY <1>11
    <3>2. QED
      BY <3>1, FS_Interval
  <2> HIDE DEF span
  <2>4. QED
    BY <1>11, <1>15, <2>2, <2>3
<1>17. Min((nxt..top) \ bytes) = At(d, g + 1)
  <2>1. top \in Nat
    BY <1>11, <1>15
  <2> HIDE DEF top
  <2>2. (nxt..top) \ bytes \subseteq Nat /\ At(d, g + 1) \in (nxt..top) \ bytes
    BY <1>11, <1>12, <1>16, <2>1
  <2>3. ASSUME NEW y \in (nxt..top) \ bytes PROVE At(d, g + 1) <= y
    <3>1. y \in Nat /\ nxt <= y
      BY <1>11, <2>1
    <3>2. ~(y < At(d, g + 1))
      BY <1>13, <3>1
    <3>3. QED
      BY <1>11, <3>1, <3>2
  <2>4. QED
    BY <2>2, <2>3, MinOf
<1>18. bytes \ (nxt..At(d, g + 1)) = Bytes(d, {j \in H : j > g + 1})
  <2>1. ASSUME NEW y \in bytes, y \notin nxt..At(d, g + 1)
        PROVE  y \in Bytes(d, {j \in H : j > g + 1})
    <3>1. y \in Nat /\ nxt <= y
      BY <1>14
    <3>2. y > At(d, g + 1)
      BY <1>11, <2>1, <3>1
    <3>3. PICK j \in H : At(d, j) <= y /\ y < At(d, j + 1)
      BY DEF bytes, Bytes
    <3>4. j \in Nat /\ j + 1 \in (d.got + 1)..(d.sent + 1)
      BY <1>3
    <3>5. At(d, g + 1) < At(d, j + 1)
      <4>1. At(d, j + 1) \in Nat
        BY <1>9, <3>4
      <4>2. QED
        BY <1>11, <3>1, <3>2, <3>3, <4>1
    <3>6. g + 1 < j + 1
      BY <1>7, <1>10, <3>4, <3>5
    <3>7. j > g + 1
      BY <1>6, <1>7, <3>4, <3>6
    <3>8. QED
      BY <3>1, <3>3, <3>7 DEF Bytes
  <2>2. ASSUME NEW y \in Bytes(d, {j \in H : j > g + 1})
        PROVE  y \in bytes /\ y \notin nxt..At(d, g + 1)
    <3>1. PICK j \in H : j > g + 1 /\ At(d, j) <= y /\ y < At(d, j + 1)
      BY DEF Bytes
    <3>2. y \in Nat /\ y \in bytes
      BY <3>1 DEF bytes, Bytes
    <3>3. At(d, g + 1) < At(d, j) /\ At(d, j) \in Nat
      BY <1>3, <1>7, <1>9, <1>10, <3>1
    <3>4. y > At(d, g + 1)
      BY <1>11, <3>1, <3>2, <3>3
    <3>5. QED
      BY <1>11, <3>2, <3>4
  <2>3. QED
    BY <2>1, <2>2
<1>19. reass(a, p) = [a EXCEPT !.rq = Bytes(d, {j \in H : j > g + 1}), !.rcv_nxt = At(d, g + 1)]
  <2>1. a.rq \cup (p.seqno .. (p.seqno + p.datalen - 1)) = bytes /\ a.rcv_nxt = nxt
    BY DEF bytes, nxt
  <2>2. reass(a, p) = [a EXCEPT !.rq = bytes \ (nxt .. Min((nxt..top) \ bytes)),
                                !.rcv_nxt = Min((nxt..top) \ bytes)]
    BY <2>1 DEF reass
  <2> HIDE DEF top
  <2>3. QED
    BY <1>17, <1>18, <2>2
<1>20. QED
  BY <1>6, <1>7, <1>8, <1>19 DEF UpTo

(* While nothing is being handed over, the queued messages are behind the  *)
(* hole.                                                                   *)
LEMMA BehindHole ==
    ASSUME NEW a \in Agent, NEW d \in Flow, Queued(a, d), a.rcv_nxt = At(d, d.got + 1),
           ~Delivering(a)
    PROVE  \A i \in 1..Len(a.recvq) :
               \E j \in (d.got + 2)..d.sent : a.recvq[i] = Tile(d, j) /\ d.msgs[j].media
<1> SUFFICES ASSUME NEW i \in 1..Len(a.recvq)
             PROVE  \E j \in (d.got + 2)..d.sent : a.recvq[i] = Tile(d, j) /\ d.msgs[j].media
  OBVIOUS
<1> DEFINE q == a.recvq
<1>1. q \in Seq([data : Message, start_seq : Nat]) /\ Len(q) \in Nat
  BY LenProperties DEF Agent
<1>2. /\ d.sent \in Nat /\ d.got \in Nat /\ Len(d.msgs) \in Nat
      /\ d.sent <= Len(d.msgs) /\ d.got <= d.sent
  BY FlowType
<1>3. PICK j \in 1..d.sent : j # d.got + 1 /\ q[i] = Tile(d, j) /\ d.msgs[j].media
  BY DEF Queued
<1>4. 1 \in 1..Len(q) /\ q[1].start_seq \in Nat /\ q # <<>>
  <2>1. 1 \in 1..Len(q) /\ q # <<>>
    BY <1>1
  <2>2. q[1] \in [data : Message, start_seq : Nat]
    BY <1>1, <2>1, LenProperties
  <2>3. QED
    BY <2>1, <2>2
<1>5. q[1].start_seq <= q[i].start_seq
  <2>1. 1 <= i
    OBVIOUS
  <2>2. QED
    BY <1>4, <2>1 DEF Queued, Sorted
<1>6. q[i].start_seq = At(d, j)
  BY <1>3 DEF Tile
<1>7. j \in 1..(Len(d.msgs) + 1) /\ d.got + 1 \in 1..(Len(d.msgs) + 1)
  BY <1>2
<1>8. At(d, d.got + 1) <= At(d, j)
  <2>1. At(d, d.got + 1) \in Nat /\ At(d, j) \in Nat
    BY <1>7, AtFacts
  <2>2. ~(q[1].start_seq < At(d, d.got + 1))
    BY <1>4 DEF Delivering
  <2>3. QED
    BY <1>4, <1>5, <1>6, <2>1, <2>2
<1>9. d.got + 1 <= j
  BY <1>7, <1>8, AtInjective
<1>10. j \in (d.got + 2)..d.sent
  BY <1>2, <1>3, <1>9
<1>11. QED
  BY <1>3, <1>10

(* With nothing to hand over and nothing in TCP's reassembly queue the     *)
(* receive queue is empty, so a segment that recv hands over at once       *)
(* overtakes nothing.                                                      *)
LEMMA InOrderEmpty ==
    ASSUME NEW a \in Agent, NEW d \in Flow, Queued(a, d), a.rcv_nxt = At(d, d.got + 1),
           ~Delivering(a), a.rq = {}
    PROVE  a.recvq = <<>>
<1> SUFFICES ASSUME a.recvq # <<>> PROVE FALSE
  OBVIOUS
<1>1. 1 \in 1..Len(a.recvq)
  <2>1. a.recvq \in Seq([data : Message, start_seq : Nat])
    BY DEF Agent
  <2>2. Len(a.recvq) \in Nat /\ Len(a.recvq) # 0
    BY <2>1, LenProperties, EmptySeq
  <2>3. QED
    BY <2>2
<1>2. PICK j \in (d.got + 2)..d.sent : a.recvq[1] = Tile(d, j)
  BY <1>1, BehindHole
<1>3. Has(a, d, j)
  BY <1>1, <1>2 DEF Has
<1>4. d.sent \in Nat /\ d.got \in Nat /\ Len(d.msgs) \in Nat /\ d.sent <= Len(d.msgs)
  BY FlowType
<1>5. j \in (d.got + 1)..d.sent /\ j \in 1..(Len(d.msgs) + 1) /\ j + 1 \in 1..(Len(d.msgs) + 1) /\ j < j + 1
  BY <1>4
<1>6. At(d, j) \in Nat /\ At(d, j) <= At(d, j) /\ At(d, j) < At(d, j + 1)
  BY <1>5, AtFacts
<1>7. At(d, j) \in a.rq
  BY <1>3, <1>5, <1>6 DEF Queued
<1>8. QED
  BY <1>7

(* The receiver's queue and the positions of its peer. *)
LEMMA QueuedSame ==
    ASSUME NEW a, NEW b, NEW d, b.recvq = a.recvq, b.rq = a.rq
    PROVE  /\ Queued(a, d) => Queued(b, d)
           /\ OnlyLast(a, d) => OnlyLast(b, d)
           /\ Delivering(a) /\ b.rcv_nxt = a.rcv_nxt => Delivering(b)
           /\ Delivering(b) /\ b.rcv_nxt = a.rcv_nxt => Delivering(a)
BY DEF Queued, Has, OnlyLast, Delivering

(* Different messages of a flow make different entries.                    *)
LEMMA TileInjective ==
    ASSUME NEW d \in Flow, NEW i \in 1..Len(d.msgs), NEW j \in 1..Len(d.msgs), Tile(d, i) = Tile(d, j)
    PROVE  i = j
<1>1. i \in 1..(Len(d.msgs) + 1) /\ j \in 1..(Len(d.msgs) + 1)
  BY FlowType
<1>2. At(d, i) = At(d, j)
  BY DEF Tile
<1>3. QED
  BY <1>1, <1>2, AtInjective

(* The receive queue does not depend on what is sent further on.           *)
LEMMA QueuedMoved ==
    ASSUME NEW a, NEW d \in Flow, NEW e \in Flow, Queued(a, d),
           e.base = d.base, e.msgs = d.msgs, e.got = d.got, d.sent <= e.sent
    PROVE  Queued(a, e)
<1>1. /\ d.sent \in Nat /\ d.got \in Nat /\ Len(d.msgs) \in Nat /\ e.sent \in Nat
      /\ d.sent <= Len(d.msgs) /\ e.sent <= Len(d.msgs) /\ d.got <= d.sent
  BY FlowType
<1>2. \A j : At(e, j) = At(d, j) /\ Tile(e, j) = Tile(d, j)
  BY SameEdges
<1>3. \A j : Has(a, e, j) <=> Has(a, d, j)
  BY <1>2 DEF Has
<1>4. ASSUME NEW i \in 1..Len(a.recvq)
      PROVE  \E j \in 1..e.sent : /\ j # e.got + 1
                                  /\ a.recvq[i] = Tile(e, j)
                                  /\ e.msgs[j].media
  <2>1. PICK j \in 1..d.sent : j # d.got + 1 /\ a.recvq[i] = Tile(d, j) /\ d.msgs[j].media
    BY DEF Queued
  <2>2. j \in 1..e.sent
    BY <1>1
  <2>3. QED
    BY <1>2, <2>1, <2>2
<1>5. ASSUME NEW j \in (d.got + 1)..e.sent, Has(a, d, j) PROVE j \in (d.got + 1)..d.sent
  <2>1. PICK i \in 1..Len(a.recvq) : a.recvq[i] = Tile(d, j)
    BY <1>5 DEF Has
  <2>2. PICK l \in 1..d.sent : a.recvq[i] = Tile(d, l)
    BY DEF Queued
  <2>3. j \in 1..Len(d.msgs) /\ l \in 1..Len(d.msgs)
    BY <1>1
  <2>4. j = l
    BY <2>1, <2>2, <2>3, TileInjective
  <2>5. QED
    BY <1>1, <2>4
<1>6. a.rq = {y \in Nat : \E j \in (d.got + 1)..d.sent :
                              Has(a, d, j) /\ At(d, j) <= y /\ y < At(d, j + 1)}
  BY DEF Queued
<1>7. a.rq = {y \in Nat : \E j \in (e.got + 1)..e.sent :
                              Has(a, e, j) /\ At(e, j) <= y /\ y < At(e, j + 1)}
  <2>1. ASSUME NEW y \in Nat,
               \E j \in (d.got + 1)..d.sent : Has(a, d, j) /\ At(d, j) <= y /\ y < At(d, j + 1)
        PROVE  \E j \in (e.got + 1)..e.sent : Has(a, e, j) /\ At(e, j) <= y /\ y < At(e, j + 1)
    <3>1. PICK j \in (d.got + 1)..d.sent : Has(a, d, j) /\ At(d, j) <= y /\ y < At(d, j + 1)
      BY <2>1
    <3>2. j \in (e.got + 1)..e.sent
      BY <1>1
    <3>3. QED
      BY <1>2, <1>3, <3>1, <3>2
  <2>2. ASSUME NEW y \in Nat,
               \E j \in (e.got + 1)..e.sent : Has(a, e, j) /\ At(e, j) <= y /\ y < At(e, j + 1)
        PROVE  \E j \in (d.got + 1)..d.sent : Has(a, d, j) /\ At(d, j) <= y /\ y < At(d, j + 1)
    <3>1. PICK j \in (e.got + 1)..e.sent : Has(a, e, j) /\ At(e, j) <= y /\ y < At(e, j + 1)
      BY <2>2
    <3>2. Has(a, d, j) /\ j \in (d.got + 1)..d.sent
      BY <1>3, <1>5, <3>1
    <3>3. QED
      BY <1>2, <3>1, <3>2
  <2>3. QED
    BY <1>6, <2>1, <2>2
<1>8. \A j \in 1..e.got : a.recvq # <<>> /\ a.recvq[1].start_seq <= At(e, j) => Has(a, e, j)
  BY <1>2, <1>3 DEF Queued
<1>9. QED
  BY <1>4, <1>7, <1>8 DEF Queued

(* A segment that is not handed over at once is queued, and TCP's queue    *)
(* follows.                                                                *)
SameSender(a, b) == /\ b.waitq = a.waitq /\ b.appq = a.appq /\ b.curseq = a.curseq
                    /\ b.t_seqno = a.t_seqno /\ b.maxseq = a.maxseq
                    /\ b.highest_ack = a.highest_ack

QueuedUpTo(a, b, d, g) ==
    /\ b \in Agent /\ b.fatal = a.fatal /\ b.ackNow = a.ackNow /\ SameSender(a, b)
    /\ b.rcv_nxt = At(d, g + 1)
    /\ Queued(b, Moved(d, d.acked, d.next, d.sent, g))
    /\ g > d.got => b.recvq # <<>> /\ b.recvq[1] = Tile(d, d.got + 1)
    /\ g = d.got => ~Delivering(b)

(* A segment that is not handed over at once is queued, and rcv_nxt_ moves *)
(* over all messages that are now without a hole.                          *)
LEMMA QueueStep ==
    ASSUME NEW a \in Agent, NEW d \in Flow, Queued(a, d), a.rcv_nxt = At(d, d.got + 1),
           ~Delivering(a), NEW p \in Packet,
           NEW i \in (d.got + 1)..d.sent, Carries(p, d, i), ~(i = d.got + 1 /\ a.rq = {})
    PROVE  \E g \in d.got..d.sent : QueuedUpTo(a, Queue(a, p), d, g)
<1> DEFINE H == {j \in (d.got + 1)..d.sent : Has(a, d, j) \/ j = i}
           q == a.recvq
           n == Len(q)
           x == Tile(d, i)
<1>1. /\ d.sent \in Nat /\ d.got \in Nat /\ d.acked \in Nat /\ d.next \in Nat
      /\ Len(d.msgs) \in Nat /\ i \in Nat
      /\ d.sent <= Len(d.msgs) /\ d.got <= d.sent /\ d.acked <= d.next /\ d.next <= d.sent
      /\ d.acked <= d.got
  BY FlowType
<1>2. i \in 1..Len(d.msgs) /\ \A j \in (d.got + 1)..(d.sent + 1) : j \in 1..(Len(d.msgs) + 1)
  BY <1>1
<1>3. /\ p.seqno = At(d, i) /\ p.data = d.msgs[i] /\ p.datalen = d.msgs[i].size
      /\ p.data \in Message /\ At(d, i) \in Nat /\ At(d, i + 1) \in Nat
      /\ At(d, i + 1) = At(d, i) + p.datalen /\ p.datalen \in Nat
  <2>1. p.seqno = At(d, i) /\ p.data = d.msgs[i] /\ p.datalen = d.msgs[i].size
    BY DEF Carries
  <2>2. At(d, i) \in Nat /\ At(d, i + 1) = At(d, i) + d.msgs[i].size /\ d.msgs[i].size \in 1..MaxSeg
    BY <1>1, <1>2, AtFacts
  <2>3. d.msgs[i] \in Message
    BY <1>2, EntryType
  <2>4. MaxSeg \in Nat
    BY SegmentMultiples
  <2>5. QED
    BY <2>1, <2>2, <2>3, <2>4
<1>4. x = [data |-> p.data, start_seq |-> p.seqno] /\ x.start_seq = At(d, i)
  BY <1>3 DEF Tile
<1>5. \A l \in 1..n : \E j \in (d.got + 2)..d.sent : q[l] = Tile(d, j) /\ d.msgs[j].media
  BY BehindHole
<1>6. a.rq \cup (p.seqno .. (p.seqno + p.datalen - 1)) = Bytes(d, H)
  <2>1. a.rq = {y \in Nat : \E j \in (d.got + 1)..d.sent :
                                Has(a, d, j) /\ At(d, j) <= y /\ y < At(d, j + 1)}
    BY DEF Queued
  <2>2. \A y : y \in p.seqno .. (p.seqno + p.datalen - 1)
               <=> y \in Nat /\ At(d, i) <= y /\ y < At(d, i + 1)
    BY <1>3
  <2>3. ASSUME NEW y \in a.rq PROVE y \in Bytes(d, H)
    <3>1. PICK j \in (d.got + 1)..d.sent : Has(a, d, j) /\ At(d, j) <= y /\ y < At(d, j + 1)
      BY <2>1
    <3>2. y \in Nat /\ j \in H
      BY <2>1, <3>1
    <3>3. QED
      BY <3>1, <3>2 DEF Bytes
  <2>4. ASSUME NEW y, y \in p.seqno .. (p.seqno + p.datalen - 1) PROVE y \in Bytes(d, H)
    <3>1. i \in H /\ y \in Nat /\ At(d, i) <= y /\ y < At(d, i + 1)
      BY <2>2, <2>4
    <3>2. QED
      BY <3>1 DEF Bytes
  <2>5. ASSUME NEW y \in Bytes(d, H) PROVE y \in a.rq \/ y \in p.seqno .. (p.seqno + p.datalen - 1)
    <3>1. PICK j \in H : At(d, j) <= y /\ y < At(d, j + 1)
      BY DEF Bytes
    <3>2. y \in Nat
      BY DEF Bytes
    <3>3. CASE j = i
      BY <2>2, <3>1, <3>2, <3>3
    <3>4. CASE Has(a, d, j)
      BY <2>1, <3>1, <3>2, <3>4
    <3>5. QED
      BY <3>3, <3>4
  <2>6. QED
    BY <2>3, <2>4, <2>5
<1>7. H \subseteq (d.got + 1)..d.sent
  OBVIOUS
<1>8. PICK g \in d.got..d.sent :
          /\ g + 1 \notin H /\ \A j \in (d.got + 1)..g : j \in H
          /\ reass(a, p) = [a EXCEPT !.rq = Bytes(d, {j \in H : j > g + 1}),
                                     !.rcv_nxt = At(d, g + 1)]
  <2> HIDE DEF H
  <2>1. PICK g \in d.got..d.sent : UpTo(a, reass(a, p), d, H, g)
    BY <1>6, <1>7, Reass
  <2>2. QED
    BY <2>1 DEF UpTo
<1> DEFINE b == reass(a, p)
           c == addtoReceiveQueue(b, p)
           r == c.recvq
           e == Moved(d, d.acked, d.next, d.sent, g)
<1>9. g \in Nat /\ g + 1 \in 1..(Len(d.msgs) + 1) /\ d.got + 1 \in 1..(Len(d.msgs) + 1)
  BY <1>1, SMTT(60)
<1>10. /\ b \in Agent /\ SameSender(a, b) /\ b.fatal = a.fatal /\ b.ackNow = a.ackNow
       /\ b.recvq = q /\ b.rcv_nxt = At(d, g + 1) /\ b.rq = Bytes(d, {j \in H : j > g + 1})
  <2>1. At(d, g + 1) \in Nat
    BY <1>9, AtFacts
  <2>2. Bytes(d, {j \in H : j > g + 1}) \in SUBSET Nat
    BY DEF Bytes
  <2> HIDE DEF H
  <2>3. QED
    BY <1>8, <2>1, <2>2 DEF Agent, SameSender
<1> HIDE DEF b
<1>11. /\ r \in Seq([data : Message, start_seq : Nat]) /\ Len(r) = n + 1
       /\ Sorted(r)
       /\ \A k \in 1..Len(r) : r[k] = x \/ \E l \in 1..n : r[k] = q[l]
       /\ \A l \in 1..n : \E k \in 1..Len(r) : r[k] = q[l]
       /\ \E k \in 1..Len(r) : r[k] = x
       /\ (\A l \in 1..n : q[l].start_seq > p.seqno) => r[1] = x
       /\ c = [b EXCEPT !.recvq = r]
  <2>1. Sorted(b.recvq)
    BY <1>10 DEF Queued
  <2> HIDE DEF x, c, n, q
  <2>2. /\ r \in Seq([data : Message, start_seq : Nat]) /\ Len(r) = Len(b.recvq) + 1
        /\ Sorted(r)
        /\ \A k \in 1..Len(r) : r[k] = [data |-> p.data, start_seq |-> p.seqno]
                                \/ \E l \in 1..Len(b.recvq) : r[k] = b.recvq[l]
        /\ \A l \in 1..Len(b.recvq) : \E k \in 1..Len(r) : r[k] = b.recvq[l]
        /\ \E k \in 1..Len(r) : r[k] = [data |-> p.data, start_seq |-> p.seqno]
        /\ (\A l \in 1..Len(b.recvq) : b.recvq[l].start_seq > p.seqno)
               => r[1] = [data |-> p.data, start_seq |-> p.seqno]
        /\ c = [b EXCEPT !.recvq = r]
    BY <1>3, <1>10, <2>1, Insert DEF c
  <2>3. b.recvq = q /\ Len(b.recvq) = n
    BY <1>10 DEF n
  <2>4. QED
    BY <1>4, <2>2, <2>3
<1> HIDE DEF r
<1>12. /\ c \in Agent /\ SameSender(a, c) /\ c.fatal = a.fatal /\ c.ackNow = a.ackNow
       /\ c.recvq = r /\ c.rcv_nxt = At(d, g + 1) /\ c.rq = Bytes(d, {j \in H : j > g + 1})
  <2> HIDE DEF c, H
  <2>1. QED
    BY <1>10, <1>11 DEF Agent, SameSender
<1> HIDE DEF c
<1>13. n \in Nat
  <2>1. q \in Seq([data : Message, start_seq : Nat])
    BY DEF Agent
  <2>2. QED
    BY <2>1, LenProperties
<1> HIDE DEF n, q
<1>14. ASSUME NEW j \in 1..d.sent PROVE Has(c, d, j) <=> j = i \/ Has(a, d, j)
  <2>1. ASSUME Has(c, d, j) PROVE j = i \/ Has(a, d, j)
    <3>1. PICK k \in 1..Len(r) : r[k] = Tile(d, j)
      BY <1>12, <2>1 DEF Has
    <3>2. CASE r[k] = x
      <4>1. j \in 1..Len(d.msgs) /\ Tile(d, i) = Tile(d, j)
        BY <1>1, <3>1, <3>2
      <4>2. QED
        BY <1>2, <4>1, TileInjective
    <3>3. CASE \E l \in 1..n : r[k] = q[l]
      BY <3>1, <3>3 DEF Has, n, q
    <3>4. QED
      BY <1>11, <3>2, <3>3
  <2>2. ASSUME j = i PROVE Has(c, d, j)
    BY <1>11, <1>12, <2>2 DEF Has
  <2>3. ASSUME Has(a, d, j) PROVE Has(c, d, j)
    <3>1. PICK l \in 1..n : q[l] = Tile(d, j)
      BY <2>3 DEF Has, n, q
    <3>2. PICK k \in 1..Len(r) : r[k] = q[l]
      BY <1>11
    <3>3. QED
      BY <1>12, <3>1, <3>2 DEF Has
  <2>4. QED
    BY <2>1, <2>2, <2>3
<1>15. ASSUME NEW k \in 1..Len(r)
       PROVE  \E j \in (d.got + 1)..d.sent : j \in H /\ r[k] = Tile(d, j) /\ d.msgs[j].media
  <2>1. CASE r[k] = x
    <3>1. Len(d.msgs) > 1
      <4>1. CASE i > 1
        BY <1>1, <1>2, <4>1
      <4>2. CASE i = 1
        <5>1. d.got = 0 /\ a.rq # {}
          BY <1>1, <4>2
        <5>2. PICK y \in a.rq : TRUE
          BY <5>1
        <5>3. PICK j \in (d.got + 1)..d.sent : Has(a, d, j)
          BY <5>2 DEF Queued
        <5>4. PICK l \in 1..n : q[l] = Tile(d, j)
          BY <5>3 DEF Has, n, q
        <5>5. PICK m \in (d.got + 2)..d.sent : TRUE
          BY <1>5 DEF n, q
        <5>6. QED
          BY <1>1, <5>5, SMTT(60)
      <4>3. QED
        BY <1>2, <4>1, <4>2
    <3>2. d.msgs[i].media
      <4>1. Batch(d.msgs)
        BY FlowType
      <4>2. QED
        BY <1>2, <3>1, <4>1 DEF Batch
    <3>3. i \in H
      OBVIOUS
    <3>4. QED
      BY <2>1, <3>2, <3>3
  <2>2. CASE \E l \in 1..n : r[k] = q[l]
    <3>1. PICK l \in 1..n : r[k] = q[l]
      BY <2>2
    <3>2. PICK j \in (d.got + 2)..d.sent : q[l] = Tile(d, j) /\ d.msgs[j].media
      BY <1>5 DEF n, q
    <3>3. j \in (d.got + 1)..d.sent /\ Has(a, d, j)
      BY <1>1, <3>2, SMTT(60) DEF Has, n, q
    <3>4. QED
      BY <3>1, <3>2, <3>3
  <2>3. QED
    BY <1>11, <2>1, <2>2
<1>16. 1 \in 1..Len(r) /\ r # <<>>
  <2>1. 1 \in 1..Len(r)
    BY <1>11, <1>13
  <2>2. r # <<>>
    BY <1>11, <1>13
  <2>3. QED
    BY <2>1, <2>2
<1>17. PICK front \in (d.got + 1)..d.sent : front \in H /\ r[1] = Tile(d, front)
  BY <1>15, <1>16
<1>18. r[1].start_seq = At(d, front) /\ front \in 1..(Len(d.msgs) + 1) /\ At(d, front) \in Nat
  <2>1. front \in 1..(Len(d.msgs) + 1)
    BY <1>1
  <2>2. QED
    BY <1>17, <2>1, AtFacts DEF Tile
<1>19. e.base = d.base /\ e.msgs = d.msgs /\ e.sent = d.sent /\ e.got = g
  BY MovedFields
<1> HIDE DEF e
<1>20. \A j : At(e, j) = At(d, j) /\ Tile(e, j) = Tile(d, j)
  BY <1>19, SameEdges
<1>21. Queued(c, e)
  <2>1. ASSUME NEW k \in 1..Len(c.recvq)
        PROVE  \E j \in 1..e.sent : j # e.got + 1 /\ c.recvq[k] = Tile(e, j) /\ e.msgs[j].media
    <3>1. PICK j \in (d.got + 1)..d.sent : j \in H /\ r[k] = Tile(d, j) /\ d.msgs[j].media
      BY <1>12, <1>15
    <3>2. j \in 1..d.sent /\ j # g + 1
      BY <1>1, <1>8, <3>1, SMTT(60)
    <3>3. QED
      BY <1>12, <1>19, <1>20, <3>1, <3>2
  <2>2. ASSUME NEW j \in 1..e.got, c.recvq[1].start_seq <= At(e, j) PROVE Has(c, e, j)
    <3>1. At(d, front) <= At(d, j)
      BY <1>12, <1>18, <1>20, <2>2
    <3>2. j \in 1..g /\ j \in 1..(Len(d.msgs) + 1) /\ j \in 1..d.sent
      BY <1>1, <1>9, <1>19
    <3>3. front <= j
      BY <1>18, <3>1, <3>2, AtInjective
    <3>4. j \in (d.got + 1)..g
      BY <1>1, <1>9, <3>2, <3>3
    <3>5. j \in H
      BY <1>8, <3>4
    <3>6. Has(c, d, j)
      BY <1>14, <3>2, <3>5
    <3>7. QED
      BY <1>20, <3>6 DEF Has
  <2>3. c.rq = {y \in Nat : \E j \in (e.got + 1)..e.sent :
                                Has(c, e, j) /\ At(e, j) <= y /\ y < At(e, j + 1)}
    <3>1. c.rq = {y \in Nat : \E j \in H : j > g + 1 /\ At(d, j) <= y /\ y < At(d, j + 1)}
      <4>1. c.rq = Bytes(d, {j \in H : j > g + 1})
        BY <1>12
      <4> HIDE DEF H
      <4>2. QED
        BY <4>1 DEF Bytes
    <3>2. \A j : Has(c, e, j) <=> Has(c, d, j)
      BY <1>20 DEF Has
    <3>3. ASSUME NEW j \in H, j > g + 1
          PROVE  j \in (e.got + 1)..e.sent /\ Has(c, e, j)
      <4>1. j \in (e.got + 1)..e.sent /\ j \in 1..d.sent
        BY <1>1, <1>9, <1>19, <3>3
      <4>2. QED
        BY <1>14, <3>2, <4>1
    <3>4. ASSUME NEW j \in (e.got + 1)..e.sent, Has(c, e, j)
          PROVE  j \in H /\ j > g + 1
      <4>1. j \in (g + 1)..d.sent /\ j \in 1..d.sent /\ j \in (d.got + 1)..d.sent
        BY <1>1, <1>9, <1>19
      <4>2. j \in H
        BY <1>14, <3>2, <3>4, <4>1
      <4>3. j # g + 1
        BY <1>8, <4>2
      <4>4. QED
        BY <1>9, <4>1, <4>2, <4>3
    <3> HIDE DEF H
    <3>5. QED
      BY <1>20, <3>1, <3>3, <3>4
  <2>4. Sorted(c.recvq)
    BY <1>11, <1>12
  <2>5. QED
    BY <2>1, <2>2, <2>3, <2>4 DEF Queued
<1>22. ASSUME g > d.got PROVE r[1] = Tile(d, d.got + 1) /\ d.got + 1 = i
  <2>1. d.got + 1 \in H /\ d.got + 1 \in 1..d.sent
    BY <1>1, <1>8, <1>9, <1>22
  <2>2. ~Has(a, d, d.got + 1)
    <3> SUFFICES ASSUME Has(a, d, d.got + 1) PROVE FALSE
      OBVIOUS
    <3>1. PICK l \in 1..n : q[l] = Tile(d, d.got + 1)
      BY DEF Has, n, q
    <3>2. PICK j \in (d.got + 2)..d.sent : q[l] = Tile(d, j)
      BY <1>5 DEF n, q
    <3>3. j \in 1..Len(d.msgs) /\ d.got + 1 \in 1..Len(d.msgs)
      BY <1>1, <2>1, SMTT(60)
    <3>4. j = d.got + 1
      BY <3>1, <3>2, <3>3, TileInjective
    <3>5. QED
      BY <1>1, <3>4
  <2>3. d.got + 1 = i
    BY <2>1, <2>2
  <2>4. ASSUME NEW l \in 1..n PROVE q[l].start_seq > p.seqno
    <3>1. PICK j \in (d.got + 2)..d.sent : q[l] = Tile(d, j)
      BY <1>5 DEF n, q
    <3>2. j \in 1..(Len(d.msgs) + 1) /\ i \in 1..(Len(d.msgs) + 1) /\ i < j
      BY <1>1, <2>3, SMTT(60)
    <3>3. At(d, i) < At(d, j) /\ At(d, j) \in Nat
      BY <3>2, AtFacts
    <3>4. q[l].start_seq = At(d, j)
      BY <3>1 DEF Tile
    <3>5. QED
      BY <1>3, <3>3, <3>4
  <2>5. QED
    BY <1>11, <2>3, <2>4
<1>23. c.rcv_nxt > a.rcv_nxt <=> g > d.got
  <2>1. At(d, d.got + 1) < At(d, g + 1) <=> d.got + 1 < g + 1
    BY <1>9, AtInjective
  <2>2. At(d, d.got + 1) \in Nat /\ At(d, g + 1) \in Nat
    BY <1>9, AtFacts
  <2>3. QED
    BY <1>1, <1>9, <1>12, <2>1, <2>2
<1>24. Queue(a, p) = c
  <2>1. CASE g > d.got
    <3>1. c.recvq[1].start_seq = a.rcv_nxt
      BY <1>12, <1>22, <2>1 DEF Tile
    <3>2. QED
      BY <1>23, <2>1, <3>1 DEF Queue, findReceivedData, b, c
  <2>2. CASE ~(g > d.got)
    BY <1>23, <2>2 DEF Queue, b, c
  <2>3. QED
    BY <2>1, <2>2
<1>25. ASSUME g = d.got PROVE ~Delivering(c)
  <2>1. front # d.got + 1
    BY <1>8, <1>17, <1>25
  <2>2. d.got + 1 < front
    BY <1>1, <1>17, <2>1
  <2>3. At(d, d.got + 1) < At(d, front) /\ At(d, d.got + 1) \in Nat
    BY <1>9, <1>18, <2>2, AtFacts
  <2>4. ~(r[1].start_seq < c.rcv_nxt)
    BY <1>12, <1>18, <1>25, <2>3
  <2>5. QED
    BY <1>12, <2>4 DEF Delivering
<1>26. QED
  BY <1>12, <1>16, <1>21, <1>22, <1>24, <1>25 DEF QueuedUpTo, e

-----------------------------------------------------------------------------
(* Packets on their way while the flows move. *)

SameBatch(e, d) == /\ e.base = d.base /\ e.msgs = d.msgs
                   /\ d.got <= e.got /\ d.sent <= e.sent

NewBatch(e, d) == e.base = At(d, Len(d.msgs) + 1)

(* The receiver's position never moves back.                               *)
LEMMA OldEnd ==
    ASSUME NEW d \in Flow, NEW e \in Flow, SameBatch(e, d) \/ NewBatch(e, d)
    PROVE  /\ At(d, d.got + 1) \in Nat /\ At(e, e.got + 1) \in Nat
           /\ At(d, d.got + 1) <= At(e, e.got + 1)
<1>1. /\ d.got \in Nat /\ Len(d.msgs) \in Nat /\ d.got <= Len(d.msgs)
      /\ e.got \in Nat /\ Len(e.msgs) \in Nat /\ e.got <= Len(e.msgs)
  BY FlowType
<1>2. /\ d.got + 1 \in 1..(Len(d.msgs) + 1) /\ Len(d.msgs) + 1 \in 1..(Len(d.msgs) + 1)
      /\ e.got + 1 \in 1..(Len(e.msgs) + 1) /\ 1 \in 1..(Len(e.msgs) + 1)
  BY <1>1, SMTT(60)
<1>3. At(d, d.got + 1) \in Nat /\ At(e, e.got + 1) \in Nat
  BY <1>2, AtFacts
<1>4. CASE SameBatch(e, d)
  <2>1. At(e, d.got + 1) = At(d, d.got + 1) /\ d.got + 1 <= e.got + 1
    BY <1>1, <1>4, SameEdges DEF SameBatch
  <2>2. d.got + 1 \in 1..(Len(e.msgs) + 1)
    BY <1>2, <1>4 DEF SameBatch
  <2>3. QED
    BY <1>2, <1>3, <2>1, <2>2, AtInjective
<1>5. CASE NewBatch(e, d)
  <2>1. At(d, d.got + 1) <= At(d, Len(d.msgs) + 1)
    BY <1>1, <1>2, AtInjective
  <2>2. At(e, 1) <= At(e, e.got + 1)
    BY <1>1, <1>2, AtInjective
  <2>3. At(e, 1) = At(d, Len(d.msgs) + 1) /\ At(e, 1) \in Nat
    BY <1>2, <1>5, AtFacts DEF NewBatch
  <2>4. QED
    BY <1>3, <2>1, <2>2, <2>3
<1>6. QED
  BY <1>3, <1>4, <1>5

(* An acknowledgement stays a valid one while the flow goes on.            *)
LEMMA AcksOn ==
    ASSUME NEW d \in Flow, NEW e \in Flow, SameBatch(e, d) \/ NewBatch(e, d),
           NEW p \in Packet, Acks(p, d)
    PROVE  Acks(p, e)
<1>1. /\ d.got \in Nat /\ Len(d.msgs) \in Nat /\ d.got <= Len(d.msgs) /\ d.base \in Nat
      /\ e.got \in Nat
  BY FlowType
<1>2. CASE SameBatch(e, d)
  <2>1. e.base = d.base /\ \A j : At(e, j) = At(d, j)
    BY <1>2, SameEdges DEF SameBatch
  <2>2. 0..d.got \subseteq 0..e.got
    BY <1>1, <1>2 DEF SameBatch
  <2>3. QED
    BY <2>1, <2>2 DEF Acks
<1>3. CASE NewBatch(e, d)
  <2>1. \A j \in 0..Len(d.msgs) : j + 1 \in 1..(Len(d.msgs) + 1)
    BY <1>1
  <2>2. \A j \in 0..d.got : At(d, j + 1) <= At(d, Len(d.msgs) + 1)
    <3> SUFFICES ASSUME NEW j \in 0..d.got PROVE At(d, j + 1) <= At(d, Len(d.msgs) + 1)
      OBVIOUS
    <3>1. j + 1 \in 1..(Len(d.msgs) + 1) /\ Len(d.msgs) + 1 \in 1..(Len(d.msgs) + 1)
          /\ j + 1 <= Len(d.msgs) + 1
      BY <1>1
    <3>2. QED
      BY <3>1, AtInjective
  <2>3. d.base <= At(d, Len(d.msgs) + 1)
    <3>1. d.base = At(d, 0 + 1)
      BY AtFacts
    <3>2. 0 \in 0..d.got
      BY <1>1
    <3>3. QED
      BY <2>2, <3>1, <3>2
  <2>4. p.ackno \in Nat /\ e.base = At(d, Len(d.msgs) + 1) /\ e.base \in Nat
    BY <1>3, FlowType DEF Packet, NewBatch
  <2>5. p.ackno <= e.base
    BY <1>1, <2>2, <2>3, <2>4 DEF Acks
  <2>6. QED
    BY <2>5 DEF Acks
<1>4. QED
  BY <1>2, <1>3

(* A packet stays a valid one while the two flows go on: a segment with    *)
(* fresh bytes acknowledges all that its sender has got, as long as it can *)
(* still arrive.                                                           *)
LEMMA WayOn ==
    ASSUME NEW d \in Flow, NEW e \in Flow, SameBatch(e, d) \/ NewBatch(e, d),
           NEW r \in Flow, NEW t \in Flow, SameBatch(t, r) \/ NewBatch(t, r),
           \/ SameBatch(t, r) /\ t.got = r.got
           \/ NewBatch(e, d)
           \/ SameBatch(e, d) /\ d.sent <= e.got,
           NEW p \in Packet, OnTheWay(p, d, r)
    PROVE  OnTheWay(p, e, t)
<1>1. Acks(p, t)
  <2>1. Acks(p, r)
    BY DEF OnTheWay, Acks
  <2>2. QED
    BY <2>1, AcksOn
<1>2. p.seqno \in Nat /\ p.datalen \in Nat
  BY SegmentMultiples DEF Packet
<1>3. CASE p.datalen = 0 /\ p.data = NoData
  BY <1>1, <1>3 DEF OnTheWay, Acks
<1>4. ASSUME p.datalen > 0, p.datalen = p.data.size, p.seqno + p.datalen <= At(d, d.got + 1)
      PROVE  OnTheWay(p, e, t)
  <2>1. p.seqno + p.datalen <= At(e, e.got + 1)
    BY <1>2, <1>4, OldEnd
  <2>2. QED
    BY <1>1, <1>4, <2>1 DEF OnTheWay, Acks
<1>5. ASSUME NEW i \in (d.got + 1)..d.sent, Carries(p, d, i), p.ackno = At(r, r.got + 1)
      PROVE  OnTheWay(p, e, t)
  <2>1. /\ d.got \in Nat /\ d.sent \in Nat /\ Len(d.msgs) \in Nat /\ d.sent <= Len(d.msgs)
        /\ e.got \in Nat /\ e.sent \in Nat /\ Len(e.msgs) \in Nat /\ e.got <= Len(e.msgs)
    BY FlowType
  <2>2. i \in 1..Len(d.msgs) /\ i \in 1..(Len(d.msgs) + 1) /\ i + 1 \in 1..(Len(d.msgs) + 1)
        /\ Len(d.msgs) + 1 \in 1..(Len(d.msgs) + 1)
    BY <2>1
  <2>3. /\ p.datalen > 0 /\ p.datalen = p.data.size /\ p.seqno + p.datalen = At(d, i + 1)
        /\ At(d, i + 1) \in Nat
    <3>1. d.msgs[i].size \in 1..MaxSeg /\ At(d, i + 1) = At(d, i) + d.msgs[i].size /\ At(d, i + 1) \in Nat
      BY <2>2, AtFacts
    <3>2. QED
      BY <1>5, <3>1 DEF Carries
  <2>4. CASE NewBatch(e, d)
    <3>1. At(d, i + 1) <= At(d, Len(d.msgs) + 1)
      BY <2>1, <2>2, AtInjective
    <3>2. 1 \in 1..(Len(e.msgs) + 1) /\ e.got + 1 \in 1..(Len(e.msgs) + 1) /\ 1 <= e.got + 1
      BY <2>1
    <3>3. At(e, 1) <= At(e, e.got + 1) /\ At(e, 1) \in Nat /\ At(e, e.got + 1) \in Nat
      BY <3>2, AtInjective, AtFacts
    <3>4. At(e, 1) = At(d, Len(d.msgs) + 1)
      BY <2>4, AtFacts DEF NewBatch
    <3>5. p.seqno + p.datalen <= At(e, e.got + 1)
      BY <2>3, <3>1, <3>3, <3>4
    <3>6. QED
      BY <1>1, <2>3, <3>5 DEF OnTheWay, Acks
  <2>5. CASE SameBatch(e, d)
    <3>1. e.msgs = d.msgs /\ e.base = d.base /\ d.sent <= e.sent /\ \A j : At(e, j) = At(d, j)
      BY <2>5, SameEdges DEF SameBatch
    <3>2. CASE i <= e.got
      <4>1. i + 1 \in 1..(Len(e.msgs) + 1) /\ e.got + 1 \in 1..(Len(e.msgs) + 1) /\ i + 1 <= e.got + 1
        BY <2>1, <3>1, <3>2
      <4>2. At(e, i + 1) <= At(e, e.got + 1)
        BY <4>1, AtInjective
      <4>3. p.seqno + p.datalen <= At(e, e.got + 1)
        BY <2>3, <3>1, <4>2
      <4>4. QED
        BY <1>1, <2>3, <4>3 DEF OnTheWay, Acks
    <3>3. CASE i > e.got
      <4>1. i \in (e.got + 1)..e.sent
        BY <2>1, <3>1, <3>3
      <4>2. Carries(p, e, i)
        BY <1>5, <3>1 DEF Carries
      <4>3. CASE SameBatch(t, r) /\ t.got = r.got
        <5>1. p.ackno = At(t, t.got + 1)
          BY <1>5, <4>3, SameEdges DEF SameBatch
        <5>2. QED
          BY <1>1, <4>1, <4>2, <5>1 DEF OnTheWay, Acks
      <4>4. CASE SameBatch(e, d) /\ d.sent <= e.got
        BY <2>1, <3>3, <4>4
      <4>5. QED
        BY <2>4, <4>3, <4>4
    <3>4. QED
      BY <2>1, <3>2, <3>3
  <2>6. QED
    BY <2>4, <2>5
<1>6. QED
  BY <1>3, <1>4, <1>5 DEF OnTheWay

(* The same for all packets under way.                                     *)
LEMMA PathOn ==
    ASSUME NEW d \in Flow, NEW e \in Flow, SameBatch(e, d) \/ NewBatch(e, d),
           NEW r \in Flow, NEW t \in Flow, SameBatch(t, r) \/ NewBatch(t, r),
           \/ SameBatch(t, r) /\ t.got = r.got
           \/ NewBatch(e, d)
           \/ SameBatch(e, d) /\ d.sent <= e.got,
           NEW q \in Seq(Packet), Path(q, d, r)
    PROVE  Path(q, e, t)
<1>1. ASSUME NEW i \in 1..Len(q) PROVE OnTheWay(q[i], e, t)
  <2>1. q[i] \in Packet
    BY LenProperties
  <2>2. OnTheWay(q[i], d, r)
    BY DEF Path
  <2>3. QED
    BY <2>1, <2>2, WayOn
<1>2. QED
  BY <1>1 DEF Path

(* Taking a packet from the path, or losing it, leaves valid packets.      *)
LEMMA PathTail ==
    ASSUME NEW d, NEW r, NEW q \in Seq(Packet), q # <<>>, Path(q, d, r)
    PROVE  /\ Tail(q) \in Seq(Packet) /\ Path(Tail(q), d, r)
           /\ Head(q) \in Packet /\ OnTheWay(Head(q), d, r)
<1>1. /\ Tail(q) = [j \in 1..(Len(q) - 1) |-> q[j + 1]]
      /\ Tail(q) \in Seq(Packet) /\ Len(Tail(q)) = Len(q) - 1 /\ Len(q) \in Nat \ {0}
  BY TailFunction
<1>2. 1 \in 1..Len(q) /\ q[1] \in Packet /\ Head(q) = q[1]
  <2>1. 1 \in 1..Len(q)
    BY <1>1
  <2>2. q[1] \in Packet
    BY <2>1, LenProperties
  <2>3. QED
    BY <2>1, <2>2
<1>3. ASSUME NEW i \in 1..(Len(q) - 1) PROVE OnTheWay(Tail(q)[i], d, r)
  <2>1. i + 1 \in 1..Len(q) /\ Tail(q)[i] = q[i + 1]
    BY <1>1
  <2>2. QED
    BY <2>1 DEF Path
<1>4. QED
  BY <1>1, <1>2, <1>3 DEF Path

(* A valid packet can join the path.                                       *)
LEMMA PathAppend ==
    ASSUME NEW d, NEW r, NEW q \in Seq(Packet), Path(q, d, r), NEW p \in Packet, OnTheWay(p, d, r)
    PROVE  Append(q, p) \in Seq(Packet) /\ Path(Append(q, p), d, r)
<1>1. Len(q) \in Nat /\ Append(q, p) \in Seq(Packet) /\ Len(Append(q, p)) = Len(q) + 1
      /\ \A i \in 1..Len(q) : Append(q, p)[i] = q[i]
      /\ Append(q, p)[Len(q) + 1] = p
  BY AppendProperties
<1>2. ASSUME NEW i \in 1..(Len(q) + 1) PROVE OnTheWay(Append(q, p)[i], d, r)
  <2>1. CASE i = Len(q) + 1
    BY <1>1, <2>1
  <2>2. CASE i # Len(q) + 1
    <3>1. i \in 1..Len(q)
      BY <1>1, <2>2
    <3>2. QED
      BY <1>1, <3>1 DEF Path
  <2>3. QED
    BY <2>1, <2>2
<1>3. QED
  BY <1>1, <1>2 DEF Path

(* A packet that is sent. *)
LEMMA SendsOnTheWay ==
    ASSUME NEW a, NEW d \in Flow, NEW r \in Flow, a.rcv_nxt = At(r, r.got + 1),
           NEW out, NEW n1 \in Nat, NEW s1 \in Nat, Sends(a, d, out, n1, s1)
    PROVE  OnTheWay(out.packet, Moved(d, d.acked, n1, s1, d.got), r)
<1> DEFINE p == out.packet
           e == Moved(d, d.acked, n1, s1, d.got)
<1>1. e.base = d.base /\ e.msgs = d.msgs /\ e.got = d.got /\ e.sent = s1
  BY MovedFields
<1>2. \A j : At(e, j) = At(d, j)
  BY <1>1, SameEdges
<1>3. /\ d.got \in Nat /\ d.acked \in Nat /\ Len(d.msgs) \in Nat /\ r.got \in Nat
      /\ d.got <= Len(d.msgs) /\ s1 <= Len(d.msgs)
      /\ p \in Packet /\ p.ackno = At(r, r.got + 1)
  BY FlowType DEF Sends
<1> HIDE DEF e
<1>4. r.got \in 0..r.got
  BY <1>3
<1>5. Acks(p, r)
  BY <1>3, <1>4 DEF Acks
<1>6. CASE p.datalen = 0 /\ p.data = NoData
  BY <1>5, <1>6 DEF OnTheWay, Acks
<1>7. ASSUME NEW j \in (d.acked + 1)..s1, Carries(p, d, j) PROVE OnTheWay(p, e, r)
  <2>1. Carries(p, e, j)
    BY <1>1, <1>2, <1>7 DEF Carries
  <2>2. CASE j <= d.got
    <3>1. j \in 1..Len(d.msgs) /\ j + 1 \in 1..(Len(d.msgs) + 1) /\ d.got + 1 \in 1..(Len(d.msgs) + 1)
          /\ j + 1 <= d.got + 1
      BY <1>3, <2>2, SMTT(60)
    <3>2. d.msgs[j].size \in 1..MaxSeg /\ At(d, j + 1) = At(d, j) + d.msgs[j].size
      BY <3>1, AtFacts
    <3>3. At(d, j + 1) <= At(d, d.got + 1)
      BY <3>1, AtInjective
    <3>4. p.datalen > 0 /\ p.datalen = p.data.size /\ p.seqno + p.datalen <= At(e, e.got + 1)
      BY <1>1, <1>2, <1>7, <3>2, <3>3 DEF Carries
    <3>5. QED
      BY <1>5, <3>4 DEF OnTheWay, Acks
  <2>3. CASE j > d.got
    <3>1. j \in (e.got + 1)..e.sent
      BY <1>1, <1>3, <2>3
    <3>2. QED
      BY <1>3, <1>5, <2>1, <3>1 DEF OnTheWay, Acks
  <2>4. QED
    BY <1>3, <2>2, <2>3
<1>8. QED
  BY <1>6, <1>7 DEF Sends, e

-----------------------------------------------------------------------------
(* The client's queue while messages are handed over. *)

(* An empty receive queue satisfies everything that is asked of one.       *)
LEMMA EmptyQueue ==
    ASSUME NEW a, NEW d, a.recvq = <<>>
    PROVE  /\ OnlyLast(a, d)
           /\ ~Delivering(a)
           /\ a.rq = {} => Queued(a, d)
           /\ \A n : d.got = 0 /\ a.rq = {} => OldCopies(a, d, n)
<1>1. Len(a.recvq) = 0 /\ 1..0 = {}
  OBVIOUS
<1>2. 1..Len(a.recvq) = {}
  BY <1>1
<1>3. \A j : ~Has(a, d, j)
  BY <1>2 DEF Has
<1>4. Sorted(a.recvq)
  BY <1>2 DEF Sorted
<1>5. {y \in Nat : \E j \in (d.got + 1)..d.sent :
                       Has(a, d, j) /\ At(d, j) <= y /\ y < At(d, j + 1)} = {}
  BY <1>3
<1>6. a.rq = {} => Queued(a, d)
  BY <1>2, <1>4, <1>5 DEF Queued
<1>7. ASSUME NEW n, d.got = 0, a.rq = {} PROVE OldCopies(a, d, n)
  BY <1>2, <1>7 DEF OldCopies
<1>8. OnlyLast(a, d) /\ ~Delivering(a)
  BY <1>2 DEF OnlyLast, Delivering
<1>9. QED
  BY <1>6, <1>7, <1>8

(* The entries of a receive queue.                                         *)
LEMMA EntriesType ==
    ASSUME NEW a \in Agent, a.recvq # <<>>
    PROVE  /\ Len(a.recvq) \in Nat \ {0} /\ 1 \in 1..Len(a.recvq)
           /\ \A i \in 1..Len(a.recvq) : a.recvq[i].start_seq \in Nat /\ a.recvq[i].data \in Message
<1> DEFINE S == [data : Message, start_seq : Nat]
           q == a.recvq
<1>1. q \in Seq(S)
  BY DEF Agent
<1>2. \A x \in S : x.start_seq \in Nat /\ x.data \in Message
  OBVIOUS
<1> HIDE DEF S, q
<1>3. q # <<>>
  BY DEF q
<1>4. Len(q) \in Nat /\ Len(q) # 0 /\ \A i \in 1..Len(q) : q[i] \in S
  BY <1>1, <1>3, LenProperties, EmptySeq
<1>5. 1 \in 1..Len(q)
  BY <1>4
<1>6. QED
  BY <1>2, <1>4, <1>5 DEF q

(* Copies of the last batch's last message are handed over before anything *)
(* of the new batch is received.                                           *)
LEMMA OldCopiesGone ==
    ASSUME NEW a \in Agent, NEW d \in Flow, NEW n, OldCopies(a, d, n),
           a.rcv_nxt = At(d, d.got + 1), ~Delivering(a)
    PROVE  a.recvq = <<>> /\ a.rq = {} /\ Queued(a, d)
<1>1. a.recvq = <<>>
  <2> SUFFICES ASSUME a.recvq # <<>> PROVE FALSE
    OBVIOUS
  <2>1. 1 \in 1..Len(a.recvq)
    BY EntriesType
  <2>2. a.recvq[1].start_seq < d.base
    BY <2>1 DEF OldCopies
  <2>3. a.rcv_nxt = d.base
    <3>1. d.got + 1 = 1
      BY DEF OldCopies
    <3>2. QED
      BY <3>1, AtFacts
  <2>4. QED
    BY <2>2, <2>3 DEF Delivering
<1>2. QED
  BY <1>1, EmptyQueue DEF OldCopies

(* Handing over one of the old copies leaves old copies.                   *)
LEMMA OldCopiesTail ==
    ASSUME NEW a \in Agent, NEW d \in Flow, NEW n, OldCopies(a, d, n), a.recvq # <<>>,
           NEW b, b.recvq = Tail(a.recvq), b.rq = a.rq
    PROVE  /\ OldCopies(b, d, n)
           /\ a.recvq[1].data.exchange < n /\ a.recvq[1].data.media
           /\ a.recvq[1].start_seq < d.base
           /\ b.recvq # <<>> => b.recvq[1] = a.recvq[1]
<1> DEFINE q == a.recvq
           t == b.recvq
<1>1. q \in Seq([data : Message, start_seq : Nat])
  BY DEF Agent
<1>2. t = [j \in 1..(Len(q) - 1) |-> q[j + 1]] /\ Len(t) = Len(q) - 1 /\ Len(q) \in Nat \ {0}
      /\ t \in Seq([data : Message, start_seq : Nat])
  BY <1>1, TailFunction
<1>3. \A i \in 1..Len(q) : /\ q[i] = q[1] /\ q[i].data.media
                           /\ q[i].data.exchange < n /\ q[i].start_seq < d.base
  BY DEF OldCopies
<1>4. 1 \in 1..Len(q)
  BY <1>2
<1> HIDE DEF q, t
<1>5. ASSUME NEW i \in 1..Len(t) PROVE t[i] = q[1]
  <2>1. i + 1 \in 1..Len(q) /\ t[i] = q[i + 1]
    BY <1>2
  <2>2. QED
    BY <1>3, <2>1
<1>6. t # <<>> => 1 \in 1..Len(t)
  <2>1. Len(t) \in Nat /\ (t # <<>> => Len(t) # 0)
    BY <1>2, EmptySeq
  <2>2. QED
    BY <2>1
<1>7. ASSUME NEW i \in 1..Len(t)
      PROVE  t[i] = t[1] /\ t[i].data.media /\ t[i].data.exchange < n /\ t[i].start_seq < d.base
  <2>1. 1 \in 1..Len(t)
    BY <1>2
  <2>2. t[i] = q[1] /\ t[1] = q[1]
    BY <1>5, <2>1
  <2>3. QED
    BY <1>3, <1>4, <2>2
<1>8. OldCopies(b, d, n)
  BY <1>7 DEF OldCopies, t
<1>9. QED
  BY <1>3, <1>4, <1>5, <1>6, <1>8 DEF q, t

(* One iteration of findReceivedData: message h is handed over, and the    *)
(* next one in front is a copy, message h + 1, or behind the hole.         *)
LEMMA QueuedTail ==
    ASSUME NEW a \in Agent, NEW d \in Flow, Queued(a, d), a.rcv_nxt = At(d, d.got + 1),
           Delivering(a),
           NEW b, b.recvq = Tail(a.recvq), b.rq = a.rq, b.rcv_nxt = a.rcv_nxt
    PROVE  /\ Queued(b, d)
           /\ OnlyLast(a, d) => OnlyLast(b, d)
           /\ \E h \in 1..d.got :
                  /\ a.recvq[1] = Tile(d, h) /\ d.msgs[h].media
                  /\ h = Len(d.msgs) => OnlyLast(b, d)
                  /\ Delivering(b) => b.recvq[1] = Tile(d, h) \/ b.recvq[1] = Tile(d, h + 1)
                  /\ ~Delivering(b) => h = d.got
<1> DEFINE q == a.recvq
           t == b.recvq
<1>1. /\ d.sent \in Nat /\ d.got \in Nat /\ Len(d.msgs) \in Nat
      /\ d.sent <= Len(d.msgs) /\ d.got <= d.sent
  BY FlowType
<1>2. q \in Seq([data : Message, start_seq : Nat]) /\ q # <<>>
      /\ q[1].start_seq < At(d, d.got + 1)
  BY DEF Agent, Delivering
<1>3. t = [j \in 1..(Len(q) - 1) |-> q[j + 1]] /\ Len(t) = Len(q) - 1 /\ Len(q) \in Nat \ {0}
      /\ t \in Seq([data : Message, start_seq : Nat])
  BY <1>2, TailFunction
<1>4. /\ \A i \in 1..Len(q) : \E j \in 1..d.sent : /\ j # d.got + 1
                                                   /\ q[i] = Tile(d, j)
                                                   /\ d.msgs[j].media
      /\ \A i, j \in 1..Len(q) : i <= j => q[i].start_seq <= q[j].start_seq
      /\ \A j \in 1..d.got : q[1].start_seq <= At(d, j) => Has(a, d, j)
      /\ a.rq = {y \in Nat : \E j \in (d.got + 1)..d.sent :
                                 Has(a, d, j) /\ At(d, j) <= y /\ y < At(d, j + 1)}
  BY <1>2 DEF Queued, Sorted
<1>5. \A j : Has(a, d, j) <=> \E i \in 1..Len(q) : q[i] = Tile(d, j)
  BY DEF Has
<1>6. \A j : Has(b, d, j) <=> \E i \in 1..Len(t) : t[i] = Tile(d, j)
  BY DEF Has
<1>7. \A j \in 1..(d.sent + 1) : j \in 1..(Len(d.msgs) + 1) /\ At(d, j) \in Nat
  BY <1>1, AtFacts
<1>8. \A i, j \in 1..(d.sent + 1) : (At(d, i) < At(d, j) <=> i < j) /\ (At(d, i) <= At(d, j) <=> i <= j)
  BY <1>7, AtInjective
<1>9. 1 \in 1..Len(q) /\ \A i \in 1..Len(t) : i + 1 \in 1..Len(q) /\ t[i] = q[i + 1]
  BY <1>3
<1>10. Delivering(b) <=> t # <<>> /\ t[1].start_seq < At(d, d.got + 1)
  BY DEF Delivering
<1>11. t # <<>> => 1 \in 1..Len(t)
  <2>1. Len(t) \in Nat /\ (t # <<>> => Len(t) # 0)
    BY <1>3, EmptySeq
  <2>2. QED
    BY <2>1
<1>12. \A j : Tile(d, j).start_seq = At(d, j)
  BY DEF Tile
<1> HIDE DEF q, t
<1>13. PICK h \in 1..d.sent : h # d.got + 1 /\ q[1] = Tile(d, h) /\ d.msgs[h].media
  BY <1>4, <1>9
<1>14. h \in 1..d.got
  <2>1. At(d, h) < At(d, d.got + 1)
    BY <1>2, <1>12, <1>13 DEF q
  <2>2. h \in 1..(d.sent + 1) /\ d.got + 1 \in 1..(d.sent + 1)
    BY <1>1
  <2>3. h < d.got + 1
    BY <1>8, <2>1, <2>2
  <2>4. QED
    BY <1>1, <2>3
<1>15. ASSUME NEW i \in 1..Len(t)
       PROVE  \E j \in h..d.sent : j # d.got + 1 /\ t[i] = Tile(d, j) /\ d.msgs[j].media
  <2>1. i + 1 \in 1..Len(q) /\ t[i] = q[i + 1] /\ 1 <= i + 1
    BY <1>9
  <2>2. PICK j \in 1..d.sent : j # d.got + 1 /\ q[i + 1] = Tile(d, j) /\ d.msgs[j].media
    BY <1>4, <2>1
  <2>3. q[1].start_seq <= q[i + 1].start_seq
    BY <1>4, <1>9, <2>1
  <2>4. At(d, h) <= At(d, j) /\ h \in 1..(d.sent + 1) /\ j \in 1..(d.sent + 1)
    BY <1>1, <1>12, <1>13, <2>2, <2>3
  <2>5. h <= j
    BY <1>8, <2>4
  <2>6. QED
    BY <2>1, <2>2, <2>5
<1>16. \A j : Has(b, d, j) => Has(a, d, j)
  BY <1>5, <1>6, <1>9
<1>17. ASSUME NEW j \in 1..d.sent, Has(a, d, j), j # h PROVE Has(b, d, j)
  <2>1. PICK i \in 1..Len(q) : q[i] = Tile(d, j)
    BY <1>5, <1>17
  <2>2. i # 1
    <3> SUFFICES ASSUME i = 1 PROVE FALSE
      OBVIOUS
    <3>1. j \in 1..Len(d.msgs) /\ h \in 1..Len(d.msgs) /\ Tile(d, j) = Tile(d, h)
      BY <1>1, <1>13, <2>1
    <3>2. QED
      BY <1>17, <3>1, TileInjective
  <2>3. i - 1 \in 1..Len(t) /\ (i - 1) + 1 = i
    BY <1>3, <2>2
  <2>4. t[i - 1] = q[i]
    BY <1>9, <2>3
  <2>5. QED
    BY <1>6, <2>1, <2>3, <2>4
<1>18. \A i, j \in 1..Len(t) : i <= j => t[i].start_seq <= t[j].start_seq
  <2> SUFFICES ASSUME NEW i \in 1..Len(t), NEW j \in 1..Len(t), i <= j
               PROVE  t[i].start_seq <= t[j].start_seq
    OBVIOUS
  <2>1. i + 1 \in 1..Len(q) /\ j + 1 \in 1..Len(q) /\ i + 1 <= j + 1 /\ t[i] = q[i + 1] /\ t[j] = q[j + 1]
    BY <1>9
  <2>2. QED
    BY <1>4, <2>1
<1>19. ASSUME NEW j \in 1..d.got, t # <<>>, t[1].start_seq <= At(d, j) PROVE Has(b, d, j)
  <2>1. PICK l \in h..d.sent : t[1] = Tile(d, l)
    BY <1>11, <1>15, <1>19
  <2>2. At(d, l) <= At(d, j) /\ l \in 1..(d.sent + 1) /\ j \in 1..(d.sent + 1) /\ h \in 1..(d.sent + 1)
    BY <1>1, <1>12, <1>19, <2>1
  <2>3. h <= l /\ l <= j
    BY <1>8, <2>2
  <2>4. CASE j = h
    <3>1. l = j
      BY <2>3, <2>4
    <3>2. QED
      BY <1>6, <1>11, <1>19, <2>1, <3>1
  <2>5. CASE j # h
    <3>1. At(d, h) <= At(d, j)
      BY <1>8, <2>2, <2>3
    <3>2. Has(a, d, j)
      BY <1>4, <1>12, <1>13, <3>1
    <3>3. QED
      BY <1>1, <1>17, <2>5, <3>2
  <2>6. QED
    BY <2>4, <2>5
<1>20. b.rq = {y \in Nat : \E j \in (d.got + 1)..d.sent :
                               Has(b, d, j) /\ At(d, j) <= y /\ y < At(d, j + 1)}
  <2>1. \A j \in (d.got + 1)..d.sent : Has(b, d, j) <=> Has(a, d, j)
    <3> SUFFICES ASSUME NEW j \in (d.got + 1)..d.sent PROVE Has(b, d, j) <=> Has(a, d, j)
      OBVIOUS
    <3>1. j \in 1..d.sent /\ j # h
      BY <1>1, <1>14
    <3>2. QED
      BY <1>16, <1>17, <3>1
  <2>2. b.rq = a.rq
    OBVIOUS
  <2>3. QED
    BY <1>4, <2>1, <2>2
<1>21. Queued(b, d)
  <2>1. \A i \in 1..Len(t) : \E j \in 1..d.sent : j # d.got + 1 /\ t[i] = Tile(d, j) /\ d.msgs[j].media
    <3>1. h..d.sent \subseteq 1..d.sent
      OBVIOUS
    <3>2. QED
      BY <1>15, <3>1
  <2>2. \A j \in 1..d.got : t # <<>> /\ t[1].start_seq <= At(d, j) => Has(b, d, j)
    BY <1>19
  <2>3. QED
    BY <1>18, <1>20, <2>1, <2>2 DEF Queued, Sorted, t
<1>22. OnlyLast(a, d) => OnlyLast(b, d)
  <2>1. (\A i \in 1..Len(q) : q[i] = Tile(d, Len(d.msgs)))
            => \A i \in 1..Len(t) : t[i] = Tile(d, Len(d.msgs))
    BY <1>9
  <2>2. QED
    BY <2>1 DEF OnlyLast, q, t
<1>23. h = Len(d.msgs) => OnlyLast(b, d)
  <2>1. ASSUME h = Len(d.msgs), NEW i \in 1..Len(t) PROVE t[i] = Tile(d, Len(d.msgs))
    <3>1. PICK j \in h..d.sent : t[i] = Tile(d, j)
      BY <1>15
    <3>2. j = Len(d.msgs)
      BY <1>1, <2>1
    <3>3. QED
      BY <3>1, <3>2
  <2>2. QED
    BY <2>1 DEF OnlyLast, t
<1>24. ASSUME h # d.got
       PROVE  t # <<>> /\ (t[1] = Tile(d, h) \/ t[1] = Tile(d, h + 1))
  <2>1. h + 1 \in 1..d.got /\ h + 1 \in 1..(d.sent + 1) /\ h \in 1..(d.sent + 1) /\ h + 1 \in 1..d.sent
    BY <1>1, <1>14, <1>24
  <2>2. Has(a, d, h + 1)
    <3>1. At(d, h) <= At(d, h + 1)
      <4>1. h <= h + 1
        BY <2>1
      <4>2. QED
        BY <1>8, <2>1, <4>1
    <3>2. QED
      BY <1>4, <1>12, <1>13, <2>1, <3>1
  <2>3. h + 1 # h
    BY <2>1
  <2>4. Has(b, d, h + 1)
    BY <1>17, <2>1, <2>2, <2>3
  <2>5. PICK i \in 1..Len(t) : t[i] = Tile(d, h + 1)
    BY <1>6, <2>4
  <2>6. 1 \in 1..Len(t) /\ 1 <= i
    BY <1>3
  <2>7. t[1].start_seq <= At(d, h + 1)
    BY <1>12, <1>18, <2>5, <2>6
  <2>8. PICK l \in h..d.sent : t[1] = Tile(d, l)
    BY <1>15, <2>6
  <2>9. l \in 1..(d.sent + 1)
    BY <1>1
  <2>10. l <= h + 1
    BY <1>8, <1>12, <2>1, <2>7, <2>8, <2>9
  <2>11. l = h \/ l = h + 1
    BY <2>9, <2>10
  <2>12. t # <<>>
    BY <2>6
  <2>13. QED
    BY <2>8, <2>11, <2>12
<1>25. Delivering(b) => t[1] = Tile(d, h) \/ t[1] = Tile(d, h + 1)
  <2> SUFFICES ASSUME Delivering(b), h = d.got PROVE t[1] = Tile(d, h)
    BY <1>24
  <2>1. t # <<>> /\ t[1].start_seq < At(d, d.got + 1)
    BY <1>10
  <2>2. PICK l \in h..d.sent : t[1] = Tile(d, l)
    BY <1>11, <1>15, <2>1
  <2>3. l \in 1..(d.sent + 1) /\ d.got + 1 \in 1..(d.sent + 1)
    BY <1>1
  <2>4. l < d.got + 1
    BY <1>8, <1>12, <2>1, <2>2, <2>3
  <2>5. l = h
    BY <1>1, <2>3, <2>4
  <2>6. QED
    BY <2>2, <2>5
<1>26. ~Delivering(b) => h = d.got
  <2> SUFFICES ASSUME h # d.got PROVE Delivering(b)
    OBVIOUS
  <2>1. t # <<>> /\ (t[1].start_seq = At(d, h) \/ t[1].start_seq = At(d, h + 1))
    BY <1>12, <1>24
  <2>2. h \in 1..(d.sent + 1) /\ h + 1 \in 1..(d.sent + 1) /\ d.got + 1 \in 1..(d.sent + 1)
        /\ h < d.got + 1 /\ h + 1 < d.got + 1
    BY <1>1, <1>14
  <2>3. At(d, h) < At(d, d.got + 1) /\ At(d, h + 1) < At(d, d.got + 1)
    BY <1>8, <2>2
  <2>4. QED
    BY <1>10, <2>1, <2>3
<1>27. QED
  BY <1>13, <1>14, <1>21, <1>22, <1>23, <1>25, <1>26 DEF q, t

-----------------------------------------------------------------------------
(* Steps that neither receive nor hand over anything new: the senders'     *)
(* counters move, the flows stay.                                          *)

Own(e, c, s) == IF e = "client" THEN c ELSE s

Still(d2, d) == d2.base = d.base /\ d2.msgs = d.msgs /\ d2.got = d.got

Progress(d2, d) == Still(d2, d) /\ d.acked <= d2.acked /\ d.sent <= d2.sent

Quietly(c, s) ==
    /\ \E c2, s2 \in Flow : Connection(c2, s2)' /\ Still(c2, c) /\ Still(s2, s)
    /\ agent'["client"].recvq = agent["client"].recvq
    /\ agent'["client"].rcv_nxt = agent["client"].rcv_nxt
    /\ last' = last

(* Flows with the same batch have the same edges and entries.              *)
LEMMA StillEdges ==
    ASSUME NEW d \in Flow, NEW d2 \in Flow, Still(d2, d)
    PROVE  /\ \A i : At(d2, i) = At(d, i) /\ Tile(d2, i) = Tile(d, i)
           /\ At(d2, d2.got + 1) = At(d, d.got + 1)
BY SameEdges DEF Still

(* A step of the senders alone keeps the phase of the exchange.            *)
LEMMA PhaseQuiet ==
    ASSUME NEW c \in Flow, NEW s \in Flow, NEW c2 \in Flow, NEW s2 \in Flow, Phase(c, s),
           Progress(c2, c), Progress(s2, s),
           \A e \in Ends : agent'[e].recvq = agent[e].recvq /\ agent'[e].rq = agent[e].rq,
           asked' = asked, expected' = expected
    PROVE  Phase(c2, s2)'
<1> DEFINE a == agent["client"]
           b == agent'["client"]
<1>1. /\ c2.base = c.base /\ c2.msgs = c.msgs /\ c2.got = c.got
      /\ s2.base = s.base /\ s2.msgs = s.msgs /\ s2.got = s.got /\ s.sent <= s2.sent
      /\ c.acked \in Nat /\ c2.acked \in Nat /\ Len(c.msgs) \in Nat
      /\ c.acked <= c2.acked /\ c2.acked <= c2.got /\ c2.acked <= Len(c.msgs) /\ c.got \in Nat
  BY FlowType, SMTT(60) DEF Progress, Still
<1>2. /\ b.recvq = a.recvq /\ b.rq = a.rq
      /\ agent'["server"].recvq = agent["server"].recvq /\ agent'["server"].rq = agent["server"].rq
  BY DEF Ends
<1> HIDE DEF a, b
<1>3. Queued(a, s) => Queued(b, s2)
  <2>1. Queued(a, s) => Queued(a, s2)
    BY <1>1, QueuedMoved
  <2>2. Queued(a, s2) => Queued(b, s2)
    BY <1>2, QueuedSame
  <2>3. QED
    BY <2>1, <2>2
<1>4. OnlyLast(a, s) => OnlyLast(b, s2)
  <2>1. \A i : Tile(s2, i) = Tile(s, i)
    BY <1>1, SameEdges
  <2>2. QED
    BY <1>1, <1>2, <2>1 DEF OnlyLast
<1>5. OldCopies(a, s, asked) => OldCopies(b, s2, asked)
  BY <1>1, <1>2 DEF OldCopies
<1>6. Idle(c, s) => Idle(c2, s2)'
  <2> SUFFICES ASSUME Idle(c, s) PROVE Idle(c2, s2)'
    OBVIOUS
  <2>1. c2.acked = Len(c.msgs)
    BY <1>1 DEF Idle
  <2>2. QED
    BY <1>1, <1>3, <1>4, <2>1 DEF Idle, a, b
<1>7. Asking(c, s) => Asking(c2, s2)'
  BY <1>1, <1>3, <1>4 DEF Asking, a, b
<1>8. Answering(c, s) => Answering(c2, s2)'
  <2> SUFFICES ASSUME Answering(c, s) PROVE Answering(c2, s2)'
    OBVIOUS
  <2>1. c.got = 1 /\ (c.acked = 1 => c2.acked = 1)
    BY <1>1 DEF Answering
  <2>2. c2.acked = 1 \/ (s2.got = 0 /\ b.rq = {})
    BY <1>1, <1>2, <2>1 DEF Answering, a
  <2>3. Queued(b, s2) \/ OldCopies(b, s2, asked)
    BY <1>3, <1>5 DEF Answering, a
  <2>4. QED
    BY <1>1, <2>1, <2>2, <2>3 DEF Answering, b
<1>9. QED
  BY <1>1, <1>2, <1>6, <1>7, <1>8 DEF Phase

(* A step that changes only what an end sends keeps the connection.        *)
LEMMA QuietStep ==
    ASSUME TypeOK, Running, NEW c \in Flow, NEW s \in Flow, Connection(c, s),
           NEW e \in Ends, NEW b \in Agent, SameReceiver(agent[e], b),
           agent' = [agent EXCEPT ![e] = b],
           NEW d2 \in Flow, Progress(d2, Own(e, c, s)), Sender(b, d2),
           net' \in [Ends -> Seq(Packet)],
           Path(net'[Peer(e)], d2, Own(Peer(e), c, s)),
           Path(net'[e], Own(Peer(e), c, s), d2),
           UNCHANGED appVars
    PROVE  agent' \in [Ends -> Agent] /\ Running' /\ Quietly(c, s)
<1>1. agent \in [Ends -> Agent] /\ \A f \in Ends : ~agent[f].fatal
  BY DEF TypeOK, Running
<1>2. "client" \in Ends /\ "server" \in Ends /\ Ends = {"client", "server"} /\ "client" # "server"
  BY DEF Ends
<1>3. /\ agent' \in [Ends -> Agent] /\ agent'[e] = b
      /\ \A f \in Ends \ {e} : agent'[f] = agent[f]
  BY <1>1
<1>4. \A f \in Ends : /\ agent'[f].recvq = agent[f].recvq /\ agent'[f].rq = agent[f].rq
                      /\ agent'[f].rcv_nxt = agent[f].rcv_nxt /\ ~agent'[f].fatal
  BY <1>1, <1>3 DEF SameReceiver
<1>5. Running'
  BY <1>4 DEF Running
<1>6. asked' = asked /\ expected' = expected /\ last' = last
  BY DEF appVars
<1>7. \A d \in Flow : Progress(d, d)
  <2>1. \A d \in Flow : d.acked \in Nat /\ d.sent \in Nat
    BY FlowType
  <2>2. QED
    BY <2>1 DEF Progress, Still
<1>8. CASE e = "client"
  <2>1. Peer(e) = "server" /\ Own(e, c, s) = c /\ Own(Peer(e), c, s) = s /\ agent'["server"] = agent["server"]
    BY <1>2, <1>3, <1>8 DEF Peer, Own
  <2>2. Phase(d2, s)'
    <3>1. Progress(d2, c) /\ Progress(s, s) /\ Phase(c, s)
      BY <1>7, <2>1 DEF Connection
    <3>2. \A f \in Ends : agent'[f].recvq = agent[f].recvq /\ agent'[f].rq = agent[f].rq
      BY <1>4
    <3>3. QED
      BY <1>6, <3>1, <3>2, PhaseQuiet
  <2>3. At(d2, d2.got + 1) = At(c, c.got + 1) /\ Still(d2, c) /\ Still(s, s)
    BY <2>1, StillEdges DEF Progress, Still
  <2>4. Link("client", d2, s)'
    BY <1>2, <1>3, <1>4, <1>8, <2>1 DEF Link, Connection
  <2>5. Link("server", s, d2)'
    BY <1>2, <1>8, <2>1, <2>3 DEF Link, Connection
  <2>6. Connection(d2, s)'
    BY <2>2, <2>4, <2>5 DEF Connection
  <2>7. Quietly(c, s)
    BY <1>2, <1>4, <1>6, <2>3, <2>6 DEF Quietly
  <2>8. QED
    BY <1>3, <1>5, <2>7
<1>9. CASE e = "server"
  <2>1. Peer(e) = "client" /\ Own(e, c, s) = s /\ Own(Peer(e), c, s) = c /\ agent'["client"] = agent["client"]
    BY <1>2, <1>3, <1>9 DEF Peer, Own
  <2>2. Phase(c, d2)'
    <3>1. Progress(d2, s) /\ Progress(c, c) /\ Phase(c, s)
      BY <1>7, <2>1 DEF Connection
    <3>2. \A f \in Ends : agent'[f].recvq = agent[f].recvq /\ agent'[f].rq = agent[f].rq
      BY <1>4
    <3>3. QED
      BY <1>6, <3>1, <3>2, PhaseQuiet
  <2>3. At(d2, d2.got + 1) = At(s, s.got + 1) /\ Still(d2, s) /\ Still(c, c)
    BY <2>1, StillEdges DEF Progress, Still
  <2>4. Link("server", d2, c)'
    BY <1>2, <1>3, <1>4, <1>9, <2>1 DEF Link, Connection
  <2>5. Link("client", c, d2)'
    BY <1>2, <1>9, <2>1, <2>3 DEF Link, Connection
  <2>6. Connection(c, d2)'
    BY <2>2, <2>4, <2>5 DEF Connection
  <2>7. Quietly(c, s)
    BY <1>2, <1>4, <1>6, <2>3, <2>6 DEF Quietly
  <2>8. QED
    BY <1>3, <1>5, <2>7
<1>10. QED
  BY <1>2, <1>8, <1>9

(* The view of the connection from one end.                                *)
LEMMA EndFacts ==
    ASSUME TypeOK, NEW c \in Flow, NEW s \in Flow, Connection(c, s), NEW e \in Ends
    PROVE  /\ Peer(e) \in Ends /\ Peer(e) # e /\ Peer(Peer(e)) = e
           /\ Own(e, c, s) \in Flow /\ Own(Peer(e), c, s) \in Flow
           /\ Link(e, Own(e, c, s), Own(Peer(e), c, s))
           /\ Link(Peer(e), Own(Peer(e), c, s), Own(e, c, s))
           /\ agent[e] \in Agent /\ net[e] \in Seq(Packet) /\ net[Peer(e)] \in Seq(Packet)
<1>1. Peer(e) \in Ends /\ Peer(e) # e /\ Peer(Peer(e)) = e
  BY DEF Ends, Peer
<1>2. agent[e] \in Agent /\ net[e] \in Seq(Packet) /\ net[Peer(e)] \in Seq(Packet)
  BY <1>1 DEF TypeOK
<1>3. Own(e, c, s) \in Flow /\ Own(Peer(e), c, s) \in Flow
  BY DEF Own
<1>4. /\ Link(e, Own(e, c, s), Own(Peer(e), c, s))
      /\ Link(Peer(e), Own(Peer(e), c, s), Own(e, c, s))
  BY DEF Ends, Peer, Own, Connection
<1>5. QED
  BY <1>1, <1>2, <1>3, <1>4

(* Moving the sender's positions. *)
LEMMA MovedProgress ==
    ASSUME NEW d \in Flow, NEW r \in Flow, NEW u \in Nat, NEW w \in Nat, NEW v \in Nat,
           d.acked <= u, u <= w, w <= v, d.sent <= v, v <= Len(d.msgs), u <= d.got,
           NEW q \in Seq(Packet), NEW z \in Seq(Packet), Path(q, d, r), Path(z, r, d)
    PROVE  /\ Moved(d, u, w, v, d.got) \in Flow
           /\ Progress(Moved(d, u, w, v, d.got), d)
           /\ Path(q, Moved(d, u, w, v, d.got), r) /\ Path(z, r, Moved(d, u, w, v, d.got))
<1>1. PICK e : e = Moved(d, u, w, v, d.got)
  OBVIOUS
<1>2. d.got \in Nat /\ d.sent \in Nat /\ d.got <= d.sent /\ d.got <= v /\ r.got \in Nat /\ r.sent \in Nat
  BY FlowType
<1>3. e \in Flow
  BY <1>1, <1>2, MovedFlow
<1>4. e.base = d.base /\ e.msgs = d.msgs /\ e.acked = u /\ e.sent = v /\ e.got = d.got
  BY <1>1, MovedFields
<1>5. Progress(e, d)
  BY <1>4 DEF Progress, Still
<1>6. SameBatch(e, d) /\ SameBatch(r, r)
  BY <1>2, <1>4 DEF SameBatch
<1>7. Path(q, e, r)
  BY <1>3, <1>6, PathOn
<1>8. Path(z, r, e)
  BY <1>3, <1>4, <1>6, PathOn
<1>9. QED
  BY <1>1, <1>3, <1>5, <1>7, <1>8

(* One segment sent from an edge that has been sent before or is next. *)
Sent(e, d2, c, s, out) ==
    /\ d2 \in Flow /\ Progress(d2, Own(e, c, s))
    /\ Sender(out.agent, d2) /\ out.agent \in Agent /\ SameReceiver(agent[e], out.agent)
    /\ out.packet \in Packet /\ OnTheWay(out.packet, d2, Own(Peer(e), c, s))
    /\ Path(net[Peer(e)], d2, Own(Peer(e), c, s)) /\ Path(net[e], Own(Peer(e), c, s), d2)

(* foutput of either end puts a valid packet on the path.                  *)
LEMMA SentStep ==
    ASSUME TypeOK, NEW c \in Flow, NEW s \in Flow, Connection(c, s), NEW e \in Ends,
           NEW i \in Nat, Own(e, c, s).acked <= i, i <= Own(e, c, s).sent,
           NEW w \in 1..MaxWindow, NEW moves \in BOOLEAN, moves => i = Own(e, c, s).next
    PROVE  \E d2 : Sent(e, d2, c, s, foutput(agent[e], At(Own(e, c, s), i + 1), w, moves))
<1> DEFINE d == Own(e, c, s)
           r == Own(Peer(e), c, s)
           a == agent[e]
           out == foutput(a, At(d, i + 1), w, moves)
<1>1. /\ d \in Flow /\ r \in Flow /\ Link(e, d, r) /\ Link(Peer(e), r, d) /\ a \in Agent
      /\ net[e] \in Seq(Packet) /\ net[Peer(e)] \in Seq(Packet)
  BY EndFacts
<1>2. Sender(a, d) /\ a.rcv_nxt = At(r, r.got + 1) /\ Path(net[e], r, d) /\ Path(net[Peer(e)], d, r)
  BY <1>1 DEF Link
<1>3. w \in Nat \ {0}
  BY ConnectionAssumption
<1> HIDE DEF d, r, a
<1>4. PICK n1 \in Nat, s1 \in Nat : Sends(a, d, out, n1, s1)
  <2>1. d.acked <= i /\ i <= d.sent /\ (moves => i = d.next)
    BY DEF d
  <2>2. QED
    BY <1>1, <1>2, <1>3, <2>1, FoutputStep
<1> HIDE DEF out
<1>5. PICK d2 : d2 = Moved(d, d.acked, n1, s1, d.got)
  OBVIOUS
<1>6. /\ d.acked <= n1 /\ n1 <= s1 /\ s1 <= Len(d.msgs) /\ d.sent <= s1
      /\ Sender(out.agent, d2)
      /\ out.agent \in Agent /\ SameReceiver(a, out.agent)
      /\ out.packet \in Packet
  BY <1>4, <1>5 DEF Sends
<1>7. d.acked \in Nat /\ d.acked <= d.got /\ d.acked <= d.acked
  BY <1>1, FlowType
<1>8. d2 \in Flow /\ Progress(d2, d) /\ Path(net[Peer(e)], d2, r) /\ Path(net[e], r, d2)
  BY <1>1, <1>2, <1>5, <1>6, <1>7, MovedProgress
<1>9. OnTheWay(out.packet, d2, r)
  BY <1>1, <1>2, <1>4, <1>5, SendsOnTheWay
<1>10. QED
  BY <1>6, <1>8, <1>9 DEF Sent, d, r, a, out

(* send_much sends a segment or the ACK that is owed.                      *)
LEMMA OutputStep ==
    ASSUME TypeOK, Running, NEW c \in Flow, NEW s \in Flow, Connection(c, s),
           NEW e \in Ends, Output(e)
    PROVE  TypeOK' /\ Running' /\ Quietly(c, s)
<1> DEFINE d == Own(e, c, s)
           a == agent[e]
<1>1. PICK w \in 1..MaxWindow :
          LET out == foutput(a, a.t_seqno, w, TRUE)
          IN  /\ agent' = [agent EXCEPT ![e] = out.agent]
              /\ net' = [net EXCEPT ![Peer(e)] = Append(@, out.packet)]
  BY DEF Output
<1>2. d \in Flow /\ Sender(a, d) /\ Peer(e) \in Ends /\ Peer(e) # e /\ net[Peer(e)] \in Seq(Packet)
  BY EndFacts DEF Link
<1>3. a.t_seqno = At(d, d.next + 1) /\ d.next \in Nat /\ d.acked <= d.next /\ d.next <= d.sent
  BY <1>2, FlowType DEF Sender
<1>4. PICK d2 : Sent(e, d2, c, s, foutput(a, At(d, d.next + 1), w, TRUE))
  BY <1>3, SentStep
<1>5. PICK out : out = foutput(a, a.t_seqno, w, TRUE)
  OBVIOUS
<1>6. /\ d2 \in Flow /\ Progress(d2, d)
      /\ Sender(out.agent, d2) /\ out.agent \in Agent /\ SameReceiver(a, out.agent)
      /\ out.packet \in Packet /\ OnTheWay(out.packet, d2, Own(Peer(e), c, s))
      /\ Path(net[Peer(e)], d2, Own(Peer(e), c, s)) /\ Path(net[e], Own(Peer(e), c, s), d2)
  BY <1>3, <1>4, <1>5 DEF Sent
<1>7. /\ agent' = [agent EXCEPT ![e] = out.agent]
      /\ net' = [net EXCEPT ![Peer(e)] = Append(net[Peer(e)], out.packet)]
  BY <1>1, <1>5
<1>8. /\ Append(net[Peer(e)], out.packet) \in Seq(Packet)
      /\ Path(Append(net[Peer(e)], out.packet), d2, Own(Peer(e), c, s))
  BY <1>2, <1>6, PathAppend
<1>9. net \in [Ends -> Seq(Packet)]
  BY DEF TypeOK
<1>10. /\ net' \in [Ends -> Seq(Packet)] /\ net'[e] = net[e]
       /\ net'[Peer(e)] = Append(net[Peer(e)], out.packet)
  BY <1>2, <1>7, <1>8, <1>9
<1>11. UNCHANGED appVars /\ losses' = losses /\ early' = early
  BY DEF Output
<1>12. agent' \in [Ends -> Agent] /\ Running' /\ Quietly(c, s)
  BY <1>6, <1>7, <1>8, <1>10, <1>11, QuietStep
<1>13. TypeOK'
  BY <1>10, <1>11, <1>12 DEF TypeOK, appVars
<1>14. QED
  BY <1>12, <1>13

(* Fast retransmit sends the first waiting message again.                  *)
LEMMA FastRetransmitStep ==
    ASSUME TypeOK, Running, NEW c \in Flow, NEW s \in Flow, Connection(c, s),
           NEW e \in Ends, FastRetransmit(e)
    PROVE  TypeOK' /\ Running' /\ Quietly(c, s)
<1> DEFINE d == Own(e, c, s)
           a == agent[e]
           r == Own(Peer(e), c, s)
<1>1. PICK w \in 1..MaxWindow :
          LET out == foutput(a, a.highest_ack, w, FALSE)
          IN  /\ agent' = [agent EXCEPT ![e] = out.agent]
              /\ net' = [net EXCEPT ![e] = Tail(@), ![Peer(e)] = Append(@, out.packet)]
  BY DEF FastRetransmit
<1>2. /\ d \in Flow /\ Sender(a, d) /\ Peer(e) \in Ends /\ Peer(e) # e /\ net[Peer(e)] \in Seq(Packet)
      /\ net[e] \in Seq(Packet) /\ net[e] # <<>>
  BY EndFacts DEF Link, FastRetransmit
<1>3. a.highest_ack = At(d, d.acked + 1) /\ d.acked \in Nat /\ d.acked <= d.acked /\ d.acked <= d.sent
  BY <1>2, FlowType DEF Sender
<1>4. PICK d2 : Sent(e, d2, c, s, foutput(a, At(d, d.acked + 1), w, FALSE))
  BY <1>3, SentStep
<1>5. PICK out : out = foutput(a, a.highest_ack, w, FALSE)
  OBVIOUS
<1>6. /\ d2 \in Flow /\ Progress(d2, d)
      /\ Sender(out.agent, d2) /\ out.agent \in Agent /\ SameReceiver(a, out.agent)
      /\ out.packet \in Packet /\ OnTheWay(out.packet, d2, r)
      /\ Path(net[Peer(e)], d2, r) /\ Path(net[e], r, d2)
  BY <1>3, <1>4, <1>5 DEF Sent
<1>7. /\ agent' = [agent EXCEPT ![e] = out.agent]
      /\ net' = [net EXCEPT ![e] = Tail(net[e]), ![Peer(e)] = Append(net[Peer(e)], out.packet)]
  BY <1>1, <1>2, <1>5
<1>8. /\ Append(net[Peer(e)], out.packet) \in Seq(Packet)
      /\ Path(Append(net[Peer(e)], out.packet), d2, r)
      /\ Tail(net[e]) \in Seq(Packet) /\ Path(Tail(net[e]), r, d2)
  BY <1>2, <1>6, PathAppend, PathTail
<1>9. net \in [Ends -> Seq(Packet)]
  BY DEF TypeOK
<1>10. /\ net' \in [Ends -> Seq(Packet)] /\ net'[e] = Tail(net[e])
       /\ net'[Peer(e)] = Append(net[Peer(e)], out.packet)
  BY <1>2, <1>7, <1>8, <1>9
<1>11. UNCHANGED appVars /\ losses' = losses /\ early' \in 0..MaxEarly
  <2>1. early \in 0..MaxEarly /\ early < MaxEarly /\ early' = early + 1 /\ MaxEarly \in Nat
    BY ConnectionAssumption DEF FastRetransmit, TypeOK
  <2>2. QED
    BY <2>1 DEF FastRetransmit
<1>12. agent' \in [Ends -> Agent] /\ Running' /\ Quietly(c, s)
  BY <1>6, <1>7, <1>8, <1>10, <1>11, QuietStep
<1>13. TypeOK'
  BY <1>10, <1>11, <1>12 DEF TypeOK, appVars
<1>14. QED
  BY <1>12, <1>13

(* The retransmission timer sets t_seqno_ back to highest_ack_.            *)
LEMMA TimeoutStep ==
    ASSUME TypeOK, Running, NEW c \in Flow, NEW s \in Flow, Connection(c, s),
           NEW e \in Ends, agent' = [agent EXCEPT ![e] = timeout_action(@)],
           UNCHANGED <<net, appVars, losses>>, early' \in 0..MaxEarly
    PROVE  TypeOK' /\ Running' /\ Quietly(c, s)
<1> DEFINE d == Own(e, c, s)
           a == agent[e]
           r == Own(Peer(e), c, s)
           b == timeout_action(a)
           d2 == Moved(d, d.acked, d.acked, d.sent, d.got)
<1>1. /\ d \in Flow /\ r \in Flow /\ Sender(a, d) /\ Peer(e) \in Ends /\ a \in Agent
      /\ net[Peer(e)] \in Seq(Packet) /\ net[e] \in Seq(Packet)
      /\ Path(net[e], r, d) /\ Path(net[Peer(e)], d, r)
  BY EndFacts DEF Link
<1> HIDE DEF d, r
<1>2. Sender(b, d2) /\ b \in Agent /\ SameReceiver(a, b)
  BY <1>1, TimeoutSender
<1>3. d2 \in Flow /\ Progress(d2, d) /\ Path(net[Peer(e)], d2, r) /\ Path(net[e], r, d2)
  <2>1. d.acked \in Nat /\ d.sent \in Nat /\ d.acked <= d.acked /\ d.acked <= d.sent
        /\ d.sent <= d.sent /\ d.sent <= Len(d.msgs) /\ d.acked <= d.got
    BY <1>1, FlowType
  <2>2. QED
    BY <1>1, <2>1, MovedProgress
<1>4. agent' = [agent EXCEPT ![e] = b] /\ net' = net /\ UNCHANGED appVars /\ losses' = losses
  OBVIOUS
<1>5. net' \in [Ends -> Seq(Packet)]
  BY <1>4 DEF TypeOK
<1> HIDE DEF b, d2
<1>6. Path(net'[Peer(e)], d2, r) /\ Path(net'[e], r, d2)
  BY <1>3, <1>4
<1>7. agent' \in [Ends -> Agent] /\ Running' /\ Quietly(c, s)
  BY <1>2, <1>3, <1>4, <1>5, <1>6, QuietStep DEF d, r
<1>8. TypeOK'
  BY <1>4, <1>5, <1>7 DEF TypeOK, appVars
<1>9. QED
  BY <1>7, <1>8

(* A packet is lost.                                                       *)
LEMMA LoseStep ==
    ASSUME TypeOK, Running, NEW c \in Flow, NEW s \in Flow, Connection(c, s),
           NEW e \in Ends, Lose(e)
    PROVE  TypeOK' /\ Running' /\ Quietly(c, s)
<1> DEFINE d == Own(e, c, s)
           a == agent[e]
           r == Own(Peer(e), c, s)
<1>1. /\ d \in Flow /\ r \in Flow /\ Sender(a, d) /\ Peer(e) \in Ends /\ Peer(e) # e /\ a \in Agent
      /\ net[Peer(e)] \in Seq(Packet) /\ net[e] \in Seq(Packet)
      /\ Path(net[e], r, d) /\ Path(net[Peer(e)], d, r)
  BY EndFacts DEF Link
<1>2. /\ net[e] # <<>> /\ net' = [net EXCEPT ![e] = Tail(net[e])]
      /\ agent' = agent /\ UNCHANGED appVars /\ early' = early /\ losses' \in 0..MaxLosses
  <2>1. losses \in 0..MaxLosses /\ losses < MaxLosses /\ losses' = losses + 1 /\ MaxLosses \in Nat
    BY ConnectionAssumption DEF Lose, TypeOK
  <2>2. QED
    BY <2>1 DEF Lose, appVars
<1>3. agent \in [Ends -> Agent] /\ net \in [Ends -> Seq(Packet)]
  BY DEF TypeOK
<1>4. agent' = [agent EXCEPT ![e] = a]
  BY <1>2, <1>3
<1>5. Tail(net[e]) \in Seq(Packet) /\ Path(Tail(net[e]), r, d)
  BY <1>1, <1>2, PathTail
<1>6. net' \in [Ends -> Seq(Packet)] /\ net'[e] = Tail(net[e]) /\ net'[Peer(e)] = net[Peer(e)]
  BY <1>1, <1>2, <1>3, <1>5
<1>7. SameReceiver(a, a) /\ Progress(d, d)
  <2>1. d.acked \in Nat /\ d.sent \in Nat
    BY <1>1, FlowType
  <2>2. QED
    BY <2>1 DEF SameReceiver, Progress, Still
<1>8. Running' /\ Quietly(c, s)
  BY <1>1, <1>2, <1>4, <1>5, <1>6, <1>7, QuietStep
<1>9. TypeOK'
  BY <1>2, <1>6 DEF TypeOK, appVars
<1>10. QED
  BY <1>8, <1>9

-----------------------------------------------------------------------------
(* Receiving a packet. *)

(* The agent that has dealt with the acknowledgement of p. *)
AckedBy(a, b, d, d1, p) ==
    /\ p.ackno <= a.maxseq
    /\ d1 \in Flow /\ Progress(d1, d)
    /\ d1.acked <= d.got
    /\ p.ackno = At(d, d.got + 1) => d1.acked = d.got
    /\ Sender(b, d1) /\ b \in Agent /\ SameReceiver(a, b) /\ b.ackNow = a.ackNow

(* The acknowledgement part of recv, the same for every packet.            *)
LEMMA ReceiveAck ==
    ASSUME TypeOK, NEW c \in Flow, NEW s \in Flow, Connection(c, s), NEW e \in Ends,
           net[e] # <<>>
    PROVE  /\ Head(net[e]) \in Packet
           /\ OnTheWay(Head(net[e]), Own(Peer(e), c, s), Own(e, c, s))
           /\ \E d1 : /\ AckedBy(agent[e], Acked(agent[e], Head(net[e])), Own(e, c, s), d1, Head(net[e]))
                      /\ Path(net[Peer(e)], d1, Own(Peer(e), c, s))
                      /\ Path(Tail(net[e]), Own(Peer(e), c, s), d1)
                      /\ Tail(net[e]) \in Seq(Packet)
<1> DEFINE d == Own(e, c, s)
           r == Own(Peer(e), c, s)
           a == agent[e]
           p == Head(net[e])
<1>1. /\ d \in Flow /\ r \in Flow /\ Sender(a, d) /\ a \in Agent
      /\ net[Peer(e)] \in Seq(Packet) /\ net[e] \in Seq(Packet)
      /\ Path(net[e], r, d) /\ Path(net[Peer(e)], d, r)
  BY EndFacts DEF Link
<1> HIDE DEF d, r, a
<1>2. p \in Packet /\ OnTheWay(p, r, d) /\ Path(Tail(net[e]), r, d) /\ Tail(net[e]) \in Seq(Packet)
  BY <1>1, PathTail
<1>3. Acks(p, d) /\ p.ackno \in Nat
  BY <1>2 DEF OnTheWay, Acks, Packet
<1>4. /\ p.ackno <= a.maxseq
      /\ \E u, w \in Nat :
             /\ d.acked <= u /\ u <= d.got /\ u <= w /\ w <= d.sent
             /\ p.ackno = At(d, d.got + 1) => u = d.got
             /\ Sender(Acked(a, p), Moved(d, u, w, d.sent, d.got))
             /\ Acked(a, p) \in Agent /\ SameReceiver(a, Acked(a, p))
             /\ Acked(a, p).ackNow = a.ackNow
  <2> HIDE DEF p
  <2>1. QED
    BY <1>1, <1>3, AckedStep
<1>5. PICK u \in Nat, w \in Nat :
             /\ d.acked <= u /\ u <= d.got /\ u <= w /\ w <= d.sent
             /\ p.ackno = At(d, d.got + 1) => u = d.got
             /\ Sender(Acked(a, p), Moved(d, u, w, d.sent, d.got))
             /\ Acked(a, p) \in Agent /\ SameReceiver(a, Acked(a, p))
             /\ Acked(a, p).ackNow = a.ackNow
  BY <1>4
<1>6. PICK d1 : d1 = Moved(d, u, w, d.sent, d.got)
  OBVIOUS
<1>7. d.sent \in Nat /\ d.sent <= d.sent /\ d.sent <= Len(d.msgs)
  BY <1>1, FlowType
<1>8. /\ d1 \in Flow /\ Progress(d1, d)
      /\ Path(net[Peer(e)], d1, r) /\ Path(Tail(net[e]), r, d1)
  BY <1>1, <1>2, <1>5, <1>6, <1>7, MovedProgress
<1>9. d1.acked = u
  BY <1>1, <1>6, MovedFields
<1>10. AckedBy(a, Acked(a, p), d, d1, p)
  BY <1>4, <1>5, <1>6, <1>8, <1>9 DEF AckedBy
<1>11. QED
  BY <1>2, <1>8, <1>10 DEF d, r, a

(* Owing an ACK changes nothing else.                                      *)
LEMMA OwesAck ==
    ASSUME NEW b \in Agent, NEW z, z = [b EXCEPT !.ackNow = TRUE]
    PROVE  /\ z \in Agent /\ SameReceiver(b, z)
           /\ \A d : Sender(b, d) => Sender(z, d)
<1>1. /\ z \in Agent /\ SameReceiver(b, z)
      /\ z.waitq = b.waitq /\ z.appq = b.appq /\ z.curseq = b.curseq
      /\ z.t_seqno = b.t_seqno /\ z.maxseq = b.maxseq /\ z.highest_ack = b.highest_ack
  BY DEF Agent, SameReceiver
<1>2. QED
  BY <1>1 DEF Sender

(* SameReceiver is transitive.                                             *)
LEMMA SameReceiverTransitive ==
    ASSUME NEW a, NEW b, NEW z, SameReceiver(a, b), SameReceiver(b, z)
    PROVE  SameReceiver(a, z)
BY DEF SameReceiver

(* A packet without data, or with data that has been received. *)
LEMMA ReceiveStale ==
    ASSUME TypeOK, Running, NEW c \in Flow, NEW s \in Flow, Connection(c, s),
           NEW e \in Ends, Receive(e),
           \/ Head(net[e]).datalen = 0
           \/ Head(net[e]).seqno + Head(net[e]).datalen <= agent[e].rcv_nxt
    PROVE  TypeOK' /\ Running' /\ Quietly(c, s)
<1> DEFINE d == Own(e, c, s)
           r == Own(Peer(e), c, s)
           a == agent[e]
           p == Head(net[e])
           b == Acked(a, p)
           z == recv(a, p)
<1>1. /\ Peer(e) \in Ends /\ Peer(e) # e /\ a \in Agent /\ r \in Flow /\ d \in Flow
      /\ net[Peer(e)] \in Seq(Packet) /\ net[e] \in Seq(Packet) /\ net[e] # <<>>
  BY EndFacts DEF Receive
<1>2. p \in Packet
  BY <1>1, ReceiveAck
<1>3. PICK d1 : /\ AckedBy(a, b, d, d1, p)
                /\ Path(net[Peer(e)], d1, r) /\ Path(Tail(net[e]), r, d1)
                /\ Tail(net[e]) \in Seq(Packet)
  BY <1>1, ReceiveAck
<1>4. Trim(a, p).datalen = 0
  BY <1>1, <1>2, TrimOld
<1>5. ~HandsOver(a, p)
  BY <1>4 DEF HandsOver
<1>6. /\ agent' = [agent EXCEPT ![e] = z] /\ UNCHANGED appVars
      /\ net' = [net EXCEPT ![e] = Tail(net[e])]
      /\ losses' = losses /\ early' = early
  <2> HIDE DEF z
  <2>1. QED
    BY <1>5 DEF Receive, z
<1>7. /\ p.ackno <= a.maxseq /\ d1 \in Flow /\ Progress(d1, d)
      /\ Sender(b, d1) /\ b \in Agent /\ SameReceiver(a, b)
  BY <1>3 DEF AckedBy
<1>8. z = b \/ z = [b EXCEPT !.ackNow = TRUE]
  <2>1. ~(p.ackno > a.maxseq)
    <3>1. p.ackno \in Nat /\ a.maxseq \in Nat
      BY <1>1, <1>2 DEF Packet, Agent
    <3> HIDE DEF p, a
    <3>2. QED
      BY <1>7, <3>1
  <2>2. z = IF p.ackno > a.maxseq THEN [a EXCEPT !.ackNow = TRUE]
            ELSE IF b.fatal \/ p.datalen = 0 THEN b
            ELSE IF Trim(a, p).datalen = 0 THEN [b EXCEPT !.ackNow = TRUE]
            ELSE IF InOrder(a, Trim(a, p))
            THEN [b EXCEPT !.rcv_nxt = @ + Trim(a, p).datalen, !.ackNow = TRUE]
            ELSE [Queue(b, Trim(a, p)) EXCEPT !.ackNow = TRUE]
    BY DEF recv
  <2> HIDE DEF z, b, p, a
  <2>3. QED
    BY <1>4, <2>1, <2>2
<1> HIDE DEF z, b, p, a, d, r
<1>9. Sender(z, d1) /\ z \in Agent /\ SameReceiver(a, z)
  <2>1. CASE z = b
    BY <1>7, <2>1
  <2>2. CASE z = [b EXCEPT !.ackNow = TRUE]
    BY <1>7, <2>2, OwesAck, SameReceiverTransitive
  <2>3. QED
    BY <1>8, <2>1, <2>2
<1>10. net \in [Ends -> Seq(Packet)]
  BY DEF TypeOK
<1>11. net' \in [Ends -> Seq(Packet)] /\ net'[e] = Tail(net[e]) /\ net'[Peer(e)] = net[Peer(e)]
  BY <1>1, <1>3, <1>6, <1>10
<1>12. agent' \in [Ends -> Agent] /\ Running' /\ Quietly(c, s)
  <2>1. Path(net'[Peer(e)], d1, r) /\ Path(net'[e], r, d1)
    BY <1>3, <1>11
  <2>2. QED
    BY <1>6, <1>7, <1>9, <1>11, <2>1, QuietStep DEF a, d, r
<1>13. TypeOK'
  BY <1>6, <1>11, <1>12 DEF TypeOK, appVars
<1>14. QED
  BY <1>12, <1>13

(* A fresh segment: what recv does with it. *)
LEMMA FreshSegment ==
    ASSUME NEW a \in Agent, ~a.fatal, NEW r \in Flow, a.rcv_nxt = At(r, r.got + 1),
           NEW p \in Packet, NEW i \in (r.got + 1)..r.sent, Carries(p, r, i),
           NEW d, NEW d1, AckedBy(a, Acked(a, p), d, d1, p)
    PROVE  /\ Trim(a, p) = p /\ p.datalen > 0
           /\ HandsOver(a, p) <=> InOrder(a, p)
           /\ InOrder(a, p) <=> i = r.got + 1 /\ a.rq = {}
           /\ recv(a, p) = IF InOrder(a, p)
                           THEN [Acked(a, p) EXCEPT !.rcv_nxt = At(r, i + 1), !.ackNow = TRUE]
                           ELSE [Queue(Acked(a, p), p) EXCEPT !.ackNow = TRUE]
<1> DEFINE b == Acked(a, p)
<1>1. /\ r.got \in Nat /\ r.sent \in Nat /\ Len(r.msgs) \in Nat /\ r.sent <= Len(r.msgs)
  BY FlowType
<1>2. i \in 1..Len(r.msgs) /\ i \in 1..(Len(r.msgs) + 1) /\ r.got + 1 \in 1..(Len(r.msgs) + 1)
      /\ r.got + 1 <= i
  BY <1>1
<1>3. /\ p.seqno = At(r, i) /\ p.datalen = r.msgs[i].size /\ p.datalen > 0
      /\ At(r, i + 1) = At(r, i) + p.datalen /\ At(r, i) \in Nat /\ p.datalen \in Nat
  <2>1. r.msgs[i].size \in 1..MaxSeg /\ At(r, i + 1) = At(r, i) + r.msgs[i].size /\ At(r, i) \in Nat
    BY <1>2, AtFacts
  <2>2. p.seqno = At(r, i) /\ p.datalen = r.msgs[i].size
    BY DEF Carries
  <2>3. QED
    BY <2>1, <2>2, SegmentMultiples
<1>4. a.rcv_nxt <= p.seqno /\ (a.rcv_nxt = p.seqno <=> i = r.got + 1)
  BY <1>2, <1>3, AtInjective
<1>5. Trim(a, p) = p
  <2>1. p.seqno >= a.rcv_nxt
    <3>1. a.rcv_nxt \in Nat
      BY DEF Agent
    <3>2. QED
      BY <1>3, <1>4, <3>1
  <2>2. QED
    BY <2>1, TrimNew
<1>6. p.ackno <= a.maxseq /\ SameReceiver(a, b) /\ b \in Agent
  BY DEF AckedBy
<1>7. ~(p.ackno > a.maxseq) /\ p.ackno <= a.maxseq
  <2>1. p.ackno \in Nat /\ a.maxseq \in Nat
    BY DEF Packet, Agent
  <2>2. QED
    BY <1>6, <2>1
<1>8. InOrder(a, p) <=> i = r.got + 1 /\ a.rq = {}
  BY <1>4 DEF InOrder
<1>9. HandsOver(a, p) <=> InOrder(a, p)
  BY <1>3, <1>5, <1>7 DEF HandsOver
<1>10. InOrder(a, p) => b.rcv_nxt + p.datalen = At(r, i + 1)
  <2>1. InOrder(a, p) => a.rcv_nxt = p.seqno
    BY DEF InOrder
  <2>2. b.rcv_nxt = a.rcv_nxt
    BY <1>6 DEF SameReceiver
  <2>3. QED
    BY <1>3, <2>1, <2>2
<1>11. recv(a, p) = IF p.ackno > a.maxseq THEN [a EXCEPT !.ackNow = TRUE]
                    ELSE IF b.fatal \/ p.datalen = 0 THEN b
                    ELSE IF Trim(a, p).datalen = 0 THEN [b EXCEPT !.ackNow = TRUE]
                    ELSE IF InOrder(a, Trim(a, p))
                    THEN [b EXCEPT !.rcv_nxt = b.rcv_nxt + Trim(a, p).datalen, !.ackNow = TRUE]
                    ELSE [Queue(b, Trim(a, p)) EXCEPT !.ackNow = TRUE]
  BY DEF recv
<1>12. ~b.fatal /\ p.datalen # 0
  BY <1>3, <1>6 DEF SameReceiver
<1> HIDE DEF b
<1>13. recv(a, p) = IF InOrder(a, p)
                    THEN [b EXCEPT !.rcv_nxt = At(r, i + 1), !.ackNow = TRUE]
                    ELSE [Queue(b, p) EXCEPT !.ackNow = TRUE]
  BY <1>5, <1>7, <1>10, <1>11, <1>12
<1>14. QED
  BY <1>3, <1>5, <1>8, <1>9, <1>13 DEF b

-----------------------------------------------------------------------------
(* The client's turn: its agent b has a message for the application, and   *)
(* the packets on their way are those after the step.                      *)
Ready(b, c, s) ==
    /\ b \in Agent /\ ~b.fatal
    /\ Sender(b, c) /\ b.rcv_nxt = At(s, s.got + 1) /\ Queued(b, s)
    /\ Sender(agent["server"], s) /\ agent["server"].rcv_nxt = At(c, c.got + 1)
    /\ agent["server"].recvq = <<>> /\ agent["server"].rq = {}
    /\ net' \in [Ends -> Seq(Packet)]
    /\ Path(net'["client"], s, c) /\ Path(net'["server"], c, s)
    /\ c.msgs = IF asked = 0 THEN <<>> ELSE <<Request(asked)>>
    /\ \A i \in 1..Len(s.msgs) : s.msgs[i].exchange <= asked /\ s.msgs[i].piece > 0

Turned(b, s) ==
    /\ agent' \in [Ends -> Agent] /\ Running' /\ agent'["server"] = agent["server"]
    /\ agent'["client"].recvq = b.recvq /\ agent'["client"].rcv_nxt = b.rcv_nxt
    /\ asked' \in 0..MaxExchanges /\ expected' \in Nat
    /\ \E c2 \in Flow : Connection(c2, s)'

ClientBecomes(z) == agent' = [agent EXCEPT !["client"] = z]

(* The client's agent becomes z, which receives what b does. *)
LEMMA TurnTo ==
    ASSUME TypeOK, Running, NEW c \in Flow, NEW s \in Flow, NEW b, Ready(b, c, s),
           NEW z \in Agent, SameReceiver(b, z), ClientBecomes(z)
    PROVE  /\ agent' \in [Ends -> Agent] /\ Running' /\ agent'["server"] = agent["server"]
           /\ agent'["client"] = z
           /\ z.recvq = b.recvq /\ z.rcv_nxt = b.rcv_nxt /\ z.rq = b.rq
           /\ Queued(z, s) /\ (OnlyLast(b, s) => OnlyLast(z, s))
<1>1. agent \in [Ends -> Agent] /\ \A e \in Ends : ~agent[e].fatal
  BY DEF TypeOK, Running
<1>2. "client" \in Ends /\ "server" \in Ends /\ Ends = {"client", "server"} /\ "client" # "server"
  BY DEF Ends
<1>3. /\ agent' \in [Ends -> Agent] /\ agent'["client"] = z
      /\ agent'["server"] = agent["server"]
  BY <1>1, <1>2 DEF ClientBecomes
<1>4. ~z.fatal /\ z.recvq = b.recvq /\ z.rcv_nxt = b.rcv_nxt /\ z.rq = b.rq
  BY DEF Ready, SameReceiver
<1>5. Running'
  BY <1>1, <1>2, <1>3, <1>4 DEF Running
<1>6. Queued(z, s) /\ (OnlyLast(b, s) => OnlyLast(z, s))
  BY <1>4, QueuedSame DEF Ready
<1>7. QED
  BY <1>3, <1>4, <1>5, <1>6

(* The next request leaves. *)
LEMMA NewRequest ==
    ASSUME TypeOK, Running, NEW c \in Flow, NEW s \in Flow, NEW b, Ready(b, c, s),
           c.acked = Len(c.msgs), s.got = Len(s.msgs), OnlyLast(b, s), asked < MaxExchanges,
           agent' = [agent EXCEPT !["client"] = sendmsg(b, Request(asked + 1))],
           asked' = asked + 1, expected' = 1
    PROVE  Turned(b, s)
<1> DEFINE z == sendmsg(b, Request(asked + 1))
           m == <<Request(asked + 1)>>
<1>1. asked \in Nat /\ MaxExchanges \in Nat /\ asked + 1 \in 1..MaxExchanges
      /\ asked' \in 0..MaxExchanges
  BY ConnectionAssumption DEF TypeOK
<1>2. b \in Agent /\ Sender(b, c)
  BY DEF Ready
<1>3. /\ m \in Seq(Message) /\ Batch(m)
      /\ Sender(z, Fresh(b.curseq, m)) /\ z \in Agent /\ SameReceiver(b, z)
      /\ b.curseq = At(c, Len(c.msgs) + 1) /\ b.curseq \in Nat
  BY <1>1, <1>2, AskSender
<1> PICK c2 : c2 = Fresh(b.curseq, m)
  OBVIOUS
<1>4. c2 \in Flow /\ c2.base = b.curseq /\ c2.msgs = m /\ c2.got = 0
  BY <1>3, FreshFlow
<1>5. ClientBecomes(z)
  BY DEF ClientBecomes
<1> HIDE DEF z
<1>6. /\ agent' \in [Ends -> Agent] /\ Running' /\ agent'["server"] = agent["server"]
      /\ agent'["client"] = z
      /\ z.recvq = b.recvq /\ z.rcv_nxt = b.rcv_nxt /\ z.rq = b.rq
      /\ Queued(z, s) /\ OnlyLast(z, s)
  BY <1>3, <1>5, TurnTo
<1>7. /\ c.got = Len(c.msgs) /\ c.got \in Nat /\ s.got \in Nat /\ s.sent \in Nat /\ s.sent <= s.got
  BY FlowType
<1>8. Path(net'["client"], s, c2) /\ Path(net'["server"], c2, s)
  <2>1. NewBatch(c2, c)
    BY <1>3, <1>4 DEF NewBatch
  <2>2. SameBatch(s, s)
    BY <1>7 DEF SameBatch
  <2>3. net'["client"] \in Seq(Packet) /\ net'["server"] \in Seq(Packet)
        /\ Path(net'["client"], s, c) /\ Path(net'["server"], c, s)
    BY DEF Ready, Ends
  <2>4. Path(net'["client"], s, c2)
    BY <1>4, <1>7, <2>1, <2>2, <2>3, PathOn
  <2>5. Path(net'["server"], c2, s)
    BY <1>4, <2>1, <2>2, <2>3, PathOn
  <2>6. QED
    BY <2>4, <2>5
<1>9. At(c2, c2.got + 1) = At(c, c.got + 1)
  <2>1. At(c2, 1) = c2.base
    BY <1>4, AtFacts
  <2>2. QED
    BY <1>3, <1>4, <1>7, <2>1
<1>10. Link("client", c2, s)'
  <2>1. Sender(z, c2)
    BY <1>3
  <2>2. z.rcv_nxt = At(s, s.got + 1)
    BY <1>6 DEF Ready
  <2>3. QED
    BY <1>6, <1>8, <2>1, <2>2 DEF Link
<1>11. Link("server", s, c2)'
  BY <1>6, <1>8, <1>9 DEF Link, Ready
<1>12. Phase(c2, s)'
  <2>1. asked' > 0 /\ asked' # 0 /\ expected' # 0 /\ asked' = asked + 1
    BY <1>1
  <2>2. /\ c2.msgs = IF asked' = 0 THEN <<>> ELSE <<Request(asked')>>
        /\ agent'["server"].recvq = <<>> /\ agent'["server"].rq = {}
    BY <1>4, <1>6, <2>1 DEF Ready
  <2>3. \A i \in 1..Len(s.msgs) : s.msgs[i].exchange < asked' /\ s.msgs[i].exchange <= asked'
                                  /\ s.msgs[i].piece > 0
    <3> SUFFICES ASSUME NEW i \in 1..Len(s.msgs)
                 PROVE  s.msgs[i].exchange < asked' /\ s.msgs[i].exchange <= asked'
                        /\ s.msgs[i].piece > 0
      OBVIOUS
    <3>1. s.msgs[i].exchange \in Nat
      BY FlowType, EntryType, MessageType
    <3>2. s.msgs[i].exchange <= asked /\ s.msgs[i].piece > 0
      BY DEF Ready
    <3>3. QED
      BY <1>1, <2>1, <3>1, <3>2
  <2>4. Asking(c2, s)'
    BY <1>4, <1>6, <2>1, <2>3 DEF Asking
  <2>5. QED
    BY <2>2, <2>3, <2>4 DEF Phase
<1>13. Connection(c2, s)'
  BY <1>10, <1>11, <1>12 DEF Connection
<1>14. QED
  BY <1>1, <1>4, <1>6, <1>13 DEF Turned

(* The client is given message h of the response it waits for. *)
LEMMA ClientTurn ==
    ASSUME TypeOK, Running, NEW c \in Flow, NEW s \in Flow, NEW b, Ready(b, c, s),
           asked > 0, expected # 0, c.acked = 1, c.got = 1,
           \A i \in 1..Len(s.msgs) : s.msgs[i].exchange = asked,
           NEW h \in 1..s.got, h = Len(s.msgs) => OnlyLast(b, s),
           ClientApp(b, s.msgs[h])
    PROVE  Turned(b, s)
<1> DEFINE m == s.msgs[h]
<1>1. s.got \in Nat /\ s.sent \in Nat /\ s.got <= s.sent /\ s.sent <= Len(s.msgs)
      /\ Len(s.msgs) \in Nat /\ Batch(s.msgs)
  BY FlowType
<1>2. h \in 1..Len(s.msgs) /\ (m.final => h = Len(s.msgs)) /\ (h = Len(s.msgs) => s.got = Len(s.msgs))
  BY <1>1 DEF Batch
<1>3. Len(c.msgs) = 1
  BY DEF Ready
<1>4. asked \in 0..MaxExchanges /\ expected \in Nat
  BY DEF TypeOK
<1>5. b \in Agent /\ SameReceiver(b, b)
  BY DEF Ready, SameReceiver
<1> HIDE DEF m
<1>6. ASSUME agent' = [agent EXCEPT !["client"] = b], asked' = asked,
             \/ expected' \in Nat /\ expected' # 0
             \/ expected' = 0 /\ h = Len(s.msgs)
      PROVE  Turned(b, s)
  <2> ClientBecomes(b)
    BY <1>6 DEF ClientBecomes
  <2>1. /\ agent' \in [Ends -> Agent] /\ Running' /\ agent'["server"] = agent["server"]
        /\ agent'["client"] = b
    BY <1>5, <1>6, TurnTo
  <2>2. Link("client", c, s)'
    BY <2>1 DEF Link, Ready
  <2>3. Link("server", s, c)'
    BY <2>1 DEF Link, Ready
  <2>4. Idle(c, s)' \/ Answering(c, s)'
    <3>1. CASE expected' = 0 /\ h = Len(s.msgs)
      <4>1. s.got = Len(s.msgs) /\ OnlyLast(b, s) /\ Queued(b, s)
        BY <1>2, <3>1 DEF Ready
      <4>2. QED
        BY <1>3, <2>1, <3>1, <4>1 DEF Idle
    <3>2. CASE expected' # 0
      <4>1. Queued(b, s)
        BY DEF Ready
      <4>2. QED
        BY <1>6, <2>1, <3>2, <4>1 DEF Answering
    <3>3. QED
      BY <1>6, <3>1, <3>2
  <2>5. Phase(c, s)'
    BY <1>6, <2>1, <2>4 DEF Phase, Ready
  <2>6. Connection(c, s)'
    BY <2>2, <2>3, <2>5 DEF Connection
  <2>7. expected' \in Nat /\ asked' \in 0..MaxExchanges
    BY <1>4, <1>6
  <2>8. QED
    BY <2>1, <2>6, <2>7 DEF Turned
<1>7. CASE /\ agent' = [agent EXCEPT !["client"] = b] /\ UNCHANGED <<asked, expected>>
  BY <1>4, <1>6, <1>7
<1>8. CASE /\ agent' = [agent EXCEPT !["client"] = b]
           /\ expected' = IF m.final THEN 0 ELSE expected + 1
           /\ UNCHANGED asked
  <2>1. \/ expected' \in Nat /\ expected' # 0
        \/ expected' = 0 /\ h = Len(s.msgs)
    BY <1>2, <1>4, <1>8
  <2>2. QED
    BY <1>6, <1>8, <2>1
<1>9. CASE /\ MayAsk(m)
           /\ agent' = [agent EXCEPT !["client"] = sendmsg(b, Request(asked + 1))]
           /\ asked' = asked + 1 /\ expected' = 1
  <2>1. s.got = Len(s.msgs) /\ OnlyLast(b, s) /\ asked < MaxExchanges
    BY <1>2, <1>9 DEF MayAsk
  <2>2. c.acked = Len(c.msgs)
    BY <1>3
  <2>3. QED
    BY <1>9, <2>1, <2>2, NewRequest
<1>10. QED
  BY <1>7, <1>8, <1>9 DEF ClientApp, m

-----------------------------------------------------------------------------
(* The server receives the request. *)

(* The receiver's position alone moves. *)
LEMMA GotFurther ==
    ASSUME NEW d \in Flow, NEW g \in Nat, d.got <= g, g <= d.sent, NEW d2,
           d2 = Moved(d, d.acked, d.next, d.sent, g)
    PROVE  /\ d2 \in Flow /\ SameBatch(d2, d)
           /\ d2.base = d.base /\ d2.msgs = d.msgs /\ d2.got = g /\ d2.sent = d.sent
           /\ d2.acked = d.acked
           /\ \A i : At(d2, i) = At(d, i) /\ Tile(d2, i) = Tile(d, i)
           /\ \A a : Sender(a, d) => Sender(a, d2)
<1>1. /\ d.acked \in Nat /\ d.next \in Nat /\ d.sent \in Nat /\ d.got \in Nat
      /\ d.acked <= d.next /\ d.next <= d.sent /\ d.sent <= Len(d.msgs) /\ d.acked <= g
  BY FlowType
<1>2. /\ d2.base = d.base /\ d2.msgs = d.msgs /\ d2.got = g /\ d2.sent = d.sent
      /\ d2.acked = d.acked
  BY MovedFields
<1>3. d2 \in Flow
  BY <1>1, MovedFlow
<1>4. \A i : At(d2, i) = At(d, i) /\ Tile(d2, i) = Tile(d, i)
  BY <1>2, SameEdges
<1>5. SameBatch(d2, d)
  BY <1>1, <1>2 DEF SameBatch
<1>6. ASSUME NEW a, Sender(a, d) PROVE Sender(a, d2)
  <2>1. /\ a.waitq = [i \in 1..(d.sent - d.acked) |-> Entry(d, d.acked + i)]
        /\ a.appq = [i \in 1..(Len(d.msgs) - d.sent) |-> d.msgs[d.sent + i]]
        /\ a.highest_ack = At(d, d.acked + 1) /\ a.t_seqno = At(d, d.next + 1)
        /\ a.maxseq = At(d, d.sent + 1) /\ a.curseq = At(d, Len(d.msgs) + 1)
    BY <1>6 DEF Sender
  <2>2. QED
    BY <1>1, <2>1, MovedSender
<1>7. QED
  BY <1>2, <1>3, <1>4, <1>5, <1>6

(* The copies of the last message of a batch, once the next one exists. *)
LEMMA LastBecomesOld ==
    ASSUME NEW a, NEW d \in Flow, NEW e, NEW n, Queued(a, d), OnlyLast(a, d),
           d.got = Len(d.msgs), \A i \in 1..Len(d.msgs) : d.msgs[i].exchange < n,
           NewBatch(e, d), e.got = 0
    PROVE  OldCopies(a, e, n) /\ a.rq = {}
<1>1. /\ d.got \in Nat /\ d.sent \in Nat /\ d.sent <= Len(d.msgs) /\ d.got <= d.sent
  BY FlowType
<1>2. a.rq = {}
  <2>1. ~\E j \in (d.got + 1)..d.sent : TRUE
    BY <1>1
  <2>2. QED
    BY <2>1 DEF Queued
<1>3. ASSUME NEW i \in 1..Len(a.recvq)
      PROVE  /\ a.recvq[i] = a.recvq[1]
             /\ a.recvq[i].data.media /\ a.recvq[i].data.exchange < n
             /\ a.recvq[i].start_seq < e.base
  <2>1. PICK j \in 1..d.sent : a.recvq[i] = Tile(d, j) /\ d.msgs[j].media
    BY DEF Queued
  <2>2. j \in 1..Len(d.msgs) /\ j \in 1..(Len(d.msgs) + 1) /\ Len(d.msgs) + 1 \in 1..(Len(d.msgs) + 1)
        /\ j < Len(d.msgs) + 1
    BY <1>1
  <2>3. At(d, j) < At(d, Len(d.msgs) + 1)
    BY <2>2, AtInjective
  <2>4. a.recvq[i].data = d.msgs[j] /\ a.recvq[i].start_seq = At(d, j)
    BY <2>1 DEF Tile
  <2>5. a.recvq[i] = a.recvq[1]
    <3>1. 1 \in 1..Len(a.recvq)
      OBVIOUS
    <3>2. QED
      BY <3>1 DEF OnlyLast
  <2>6. QED
    BY <2>1, <2>2, <2>3, <2>4, <2>5 DEF NewBatch
<1>4. QED
  BY <1>2, <1>3 DEF OldCopies

(* A segment that is handed over at once. *)
Takes(b, z, n) == z = [b EXCEPT !.rcv_nxt = n, !.ackNow = TRUE]

(* Handing over at once moves rcv_nxt_ and owes an ACK.                    *)
LEMMA TakesSegment ==
    ASSUME NEW b \in Agent, NEW n \in Nat, NEW z, Takes(b, z, n)
    PROVE  /\ z \in Agent /\ z.rcv_nxt = n
           /\ z.recvq = b.recvq /\ z.rq = b.rq /\ z.fatal = b.fatal
           /\ \A d : Sender(b, d) => Sender(z, d)
<1>1. /\ z \in Agent /\ z.rcv_nxt = n
      /\ z.recvq = b.recvq /\ z.rq = b.rq /\ z.fatal = b.fatal
      /\ z.waitq = b.waitq /\ z.appq = b.appq /\ z.curseq = b.curseq
      /\ z.t_seqno = b.t_seqno /\ z.maxseq = b.maxseq /\ z.highest_ack = b.highest_ack
  BY DEF Agent, Takes
<1>2. QED
  BY <1>1 DEF Sender

RequestTaken(c, s) ==
    /\ \E c2, s2 \in Flow : /\ Connection(c2, s2)'
                            /\ c2.msgs = c.msgs /\ c2.got = 1
                            /\ NewBatch(s2, s) /\ s2.got = 0
    /\ Len(c.msgs) = 1 /\ c.got = 0
    /\ s.got = Len(s.msgs) /\ OnlyLast(agent["client"], s) /\ Queued(agent["client"], s)
    /\ agent'["client"] = agent["client"]
    /\ last' = [last EXCEPT !["server"] = c.msgs[1]]

(* A request that has not arrived yet is the only one, and the response    *)
(* before it is complete.                                                  *)
LEMMA FreshRequest ==
    ASSUME TypeOK, NEW c \in Flow, NEW s \in Flow, Phase(c, s), NEW i \in (c.got + 1)..c.sent
    PROVE  /\ Asking(c, s) /\ i = 1 /\ c.got = 0 /\ c.sent = 1 /\ c.acked = 0
           /\ Len(c.msgs) = 1 /\ c.msgs[1] = Request(asked)
           /\ asked \in 1..MaxExchanges
           /\ s.got = Len(s.msgs)
<1>1. /\ c.acked \in Nat /\ c.got \in Nat /\ c.sent \in Nat /\ c.acked <= c.got
      /\ c.sent <= Len(c.msgs) /\ Len(c.msgs) \in Nat /\ c.got + 1 <= c.sent
  BY FlowType
<1>2. asked \in 0..MaxExchanges /\ MaxExchanges \in Nat
  BY ConnectionAssumption DEF TypeOK
<1>3. Len(c.msgs) = (IF asked = 0 THEN 0 ELSE 1) /\ (asked # 0 => c.msgs[1] = Request(asked))
  BY DEF Phase
<1>4. Len(c.msgs) = 1 /\ asked # 0 /\ c.got = 0 /\ c.sent = 1
  BY <1>1, <1>3
<1>5. ~Idle(c, s) /\ ~Answering(c, s)
  BY <1>1, <1>4 DEF Idle, Answering
<1>6. Asking(c, s)
  BY <1>5 DEF Phase
<1>7. QED
  BY <1>1, <1>2, <1>3, <1>4, <1>6 DEF Asking

(* The server receives the request and sends the whole response from       *)
(* inside recv. The packet has acknowledged all of the response before, so *)
(* the new batch starts behind it.                                         *)
LEMMA ReceiveRequest ==
    ASSUME TypeOK, Running, NEW c \in Flow, NEW s \in Flow, Connection(c, s),
           Receive("server"), NEW i \in (c.got + 1)..c.sent,
           Carries(Head(net["server"]), c, i), Head(net["server"]).ackno = At(s, s.got + 1)
    PROVE  TypeOK' /\ Running' /\ RequestTaken(c, s)
<1> DEFINE a == agent["server"]
           p == Head(net["server"])
           b == Acked(a, p)
           z == recv(a, p)
<1>1. /\ Asking(c, s) /\ i = 1 /\ c.got = 0 /\ c.sent = 1 /\ c.acked = 0
      /\ Len(c.msgs) = 1 /\ c.msgs[1] = Request(asked)
      /\ asked \in 1..MaxExchanges /\ s.got = Len(s.msgs)
  BY FreshRequest DEF Connection
<1>2. /\ "client" \in Ends /\ "server" \in Ends /\ "client" # "server"
      /\ Peer("server") = "client" /\ Own("server", c, s) = s /\ Own("client", c, s) = c
  BY DEF Ends, Peer, Own
<1>3. /\ a \in Agent /\ net["client"] \in Seq(Packet) /\ net["server"] \in Seq(Packet)
      /\ Link("server", s, c) /\ Link("client", c, s) /\ ~a.fatal
      /\ net["server"] # <<>>
  BY <1>2, EndFacts DEF Running, Receive
<1>4. PICK d1 : /\ AckedBy(a, b, s, d1, p)
                /\ Path(net["client"], d1, c) /\ Path(Tail(net["server"]), c, d1)
                /\ Tail(net["server"]) \in Seq(Packet)
  BY <1>2, <1>3, ReceiveAck
<1>5. p \in Packet
  BY <1>2, <1>3, ReceiveAck
<1>6. /\ d1 \in Flow /\ d1.base = s.base /\ d1.msgs = s.msgs /\ d1.acked = Len(s.msgs)
      /\ Sender(b, d1) /\ b \in Agent
      /\ b.recvq = a.recvq /\ b.rq = a.rq /\ b.fatal = a.fatal
  BY <1>1, <1>4 DEF AckedBy, Progress, Still, SameReceiver
<1>7. a.recvq = <<>> /\ a.rq = {} /\ a.rcv_nxt = At(c, c.got + 1)
  BY <1>3 DEF Connection, Phase, Link
<1>8. At(c, 2) \in Nat
  <2>1. 2 \in 1..(Len(c.msgs) + 1)
    BY <1>1
  <2>2. QED
    BY <2>1, AtFacts
<1>9. HandsOver(a, p) /\ z = [b EXCEPT !.rcv_nxt = At(c, 2), !.ackNow = TRUE]
  <2> HIDE DEF a, p
  <2>1. /\ HandsOver(a, p) <=> InOrder(a, p)
        /\ InOrder(a, p) <=> i = c.got + 1 /\ a.rq = {}
        /\ recv(a, p) = IF InOrder(a, p)
                        THEN [Acked(a, p) EXCEPT !.rcv_nxt = At(c, i + 1), !.ackNow = TRUE]
                        ELSE [Queue(Acked(a, p), p) EXCEPT !.ackNow = TRUE]
    BY <1>3, <1>4, <1>5, <1>7, FreshSegment DEF a, p
  <2>2. InOrder(a, p) /\ i + 1 = 2
    BY <1>1, <1>7, <2>1
  <2>3. QED
    BY <2>1, <2>2
<1>10. p.data = Request(asked) /\ p.data.exchange = asked
  BY <1>1 DEF Carries, Request
<1>11. PICK r \in Responses : agent' = [agent EXCEPT !["server"] = Answer(z, asked, r)]
  <2>1. recvBytes("server", z, p.data)
    BY <1>9 DEF Receive
  <2> HIDE DEF z, p
  <2>2. QED
    BY <1>10, <2>1 DEF recvBytes, ServerApp
<1>12. /\ last' = [last EXCEPT !["server"] = c.msgs[1]]
       /\ asked' = asked /\ expected' = expected
       /\ net' = [net EXCEPT !["server"] = Tail(net["server"])]
       /\ losses' = losses /\ early' = early
  <2>1. recvBytes("server", z, p.data)
    BY <1>9 DEF Receive
  <2>2. /\ last' = [last EXCEPT !["server"] = p.data]
        /\ asked' = asked /\ expected' = expected
    <3> HIDE DEF z, p
    <3>1. QED
      BY <2>1 DEF recvBytes, ServerApp
  <2>3. /\ net' = [net EXCEPT !["server"] = Tail(net["server"])]
        /\ losses' = losses /\ early' = early
    BY DEF Receive
  <2>4. QED
    BY <1>1, <1>10, <2>2, <2>3
<1> HIDE DEF a, p, b, z
<1>13. z \in Agent /\ z.rcv_nxt = At(c, 2) /\ z.recvq = <<>> /\ z.rq = {} /\ ~z.fatal /\ Sender(z, d1)
  <2>1. PICK n \in Nat : n = At(c, 2)
    BY <1>8
  <2>2. Takes(b, z, n)
    BY <1>9, <2>1 DEF Takes
  <2>3. /\ z \in Agent /\ z.rcv_nxt = n
        /\ z.recvq = b.recvq /\ z.rq = b.rq /\ z.fatal = b.fatal
        /\ \A d : Sender(b, d) => Sender(z, d)
    BY <1>6, <2>2, TakesSegment
  <2>4. QED
    BY <1>3, <1>6, <1>7, <2>1, <2>3
<1>14. PICK y : y = Answer(z, asked, r)
  OBVIOUS
<1>15. PICK m : m = Pieces(asked, r)
  OBVIOUS
<1>16. PICK s2 : s2 = Fresh(z.curseq, m)
  OBVIOUS
<1>17. /\ Sender(y, s2) /\ y \in Agent /\ SameReceiver(z, y)
       /\ z.curseq = At(d1, Len(d1.msgs) + 1) /\ z.curseq \in Nat
  BY <1>1, <1>6, <1>13, <1>14, <1>15, <1>16, AnswerSender
<1>18. /\ m \in Seq(Message) /\ Batch(m) /\ Len(m) = Len(r.sizes) /\ Len(r.sizes) \in Nat \ {0}
       /\ \A j \in 1..Len(m) : m[j].exchange = asked /\ m[j].piece = j
  BY <1>1, <1>15, PiecesBatch
<1>19. s2 \in Flow /\ s2.base = z.curseq /\ s2.msgs = m /\ s2.got = 0
  BY <1>16, <1>17, <1>18, FreshFlow
<1>20. NewBatch(s2, d1) /\ NewBatch(s2, s)
  <2>1. At(d1, Len(s.msgs) + 1) = At(s, Len(s.msgs) + 1)
    BY <1>6, SameEdges
  <2>2. QED
    BY <1>6, <1>17, <1>19, <2>1 DEF NewBatch
<1>21. PICK c2 : c2 = Moved(c, c.acked, c.next, c.sent, 1)
  OBVIOUS
<1>22. /\ c2 \in Flow /\ SameBatch(c2, c) /\ c2.msgs = c.msgs /\ c2.got = 1
       /\ \A j : At(c2, j) = At(c, j)
       /\ Sender(agent["client"], c2)
  <2>1. Sender(agent["client"], c)
    BY <1>3 DEF Link
  <2>2. QED
    BY <1>1, <1>21, <2>1, GotFurther
<1>23. Path(Tail(net["server"]), c2, s2) /\ Path(net["client"], s2, c2)
  <2>1. c.sent <= c2.got
    BY <1>1, <1>22
  <2>2. QED
    BY <1>3, <1>4, <1>6, <1>19, <1>20, <1>22, <2>1, PathOn
<1>24. agent \in [Ends -> Agent] /\ net \in [Ends -> Seq(Packet)] /\ ~agent["client"].fatal
  BY <1>2 DEF TypeOK, Running
<1>25. /\ agent' \in [Ends -> Agent] /\ agent'["server"] = y /\ agent'["client"] = agent["client"]
       /\ net' \in [Ends -> Seq(Packet)] /\ net'["server"] = Tail(net["server"])
       /\ net'["client"] = net["client"]
  <2>1. agent' = [agent EXCEPT !["server"] = y]
    BY <1>11, <1>14
  <2>2. QED
    BY <1>2, <1>4, <1>12, <1>17, <1>24, <2>1
<1>26. y.recvq = <<>> /\ y.rq = {} /\ ~y.fatal /\ y.rcv_nxt = At(c, 2)
  BY <1>13, <1>17 DEF SameReceiver
<1>27. Running'
  BY <1>24, <1>25, <1>26 DEF Running, Ends
<1>28. Link("client", c2, s2)'
  <2>1. agent["client"].rcv_nxt = At(s, Len(s.msgs) + 1)
    BY <1>1, <1>3 DEF Link
  <2>2. At(s2, s2.got + 1) = s2.base
    BY <1>19, AtFacts
  <2>3. agent["client"].rcv_nxt = At(s2, s2.got + 1)
    BY <1>20, <2>1, <2>2 DEF NewBatch
  <2>4. QED
    BY <1>22, <1>23, <1>25, <2>3 DEF Link
<1>29. Link("server", s2, c2)'
  <2>1. y.rcv_nxt = At(c2, c2.got + 1)
    BY <1>22, <1>26
  <2>2. QED
    BY <1>17, <1>23, <1>25, <2>1 DEF Link
<1>30. /\ OnlyLast(agent["client"], s) /\ Queued(agent["client"], s)
       /\ \A j \in 1..Len(s.msgs) : s.msgs[j].exchange < asked
       /\ expected # 0 /\ asked > 0
  BY <1>1 DEF Asking
<1>31. OldCopies(agent["client"], s2, asked) /\ agent["client"].rq = {}
  BY <1>1, <1>19, <1>20, <1>30, LastBecomesOld
<1>32. Phase(c2, s2)'
  <2>1. c2.msgs = IF asked' = 0 THEN <<>> ELSE <<Request(asked')>>
    BY <1>3, <1>12, <1>22 DEF Connection, Phase
  <2>2. \A j \in 1..Len(s2.msgs) : /\ s2.msgs[j].exchange = asked' /\ s2.msgs[j].piece > 0
                                   /\ s2.msgs[j].exchange <= asked'
    BY <1>1, <1>12, <1>18, <1>19
  <2>3. Answering(c2, s2)'
    BY <1>12, <1>19, <1>22, <1>25, <1>30, <1>31, <2>2 DEF Answering
  <2>4. QED
    BY <1>25, <1>26, <2>1, <2>2, <2>3 DEF Phase
<1>33. Connection(c2, s2)'
  BY <1>28, <1>29, <1>32 DEF Connection
<1>34. RequestTaken(c, s)
  BY <1>1, <1>12, <1>19, <1>20, <1>22, <1>25, <1>30, <1>33 DEF RequestTaken
<1>35. TypeOK'
  <2>1. last' \in [Ends -> Message \cup {None}]
    <3>1. last \in [Ends -> Message \cup {None}]
      BY DEF TypeOK
    <3>2. c.msgs[1] \in Message
      BY <1>1, EntryType
    <3>3. QED
      BY <1>12, <3>1, <3>2
  <2>2. QED
    BY <1>12, <1>25, <2>1 DEF TypeOK
<1>36. QED
  BY <1>27, <1>34, <1>35

-----------------------------------------------------------------------------
(* The client receives a segment of the response. *)

(* A piece that has not arrived yet belongs to the answer to the client's  *)
(* only request.                                                           *)
LEMMA FreshResponse ==
    ASSUME TypeOK, NEW c \in Flow, NEW s \in Flow, Phase(c, s), NEW i \in (s.got + 1)..s.sent
    PROVE  Answering(c, s) /\ Len(c.msgs) = 1
<1>1. /\ s.got \in Nat /\ s.sent \in Nat /\ s.sent <= Len(s.msgs) /\ Len(s.msgs) \in Nat
      /\ s.got + 1 <= s.sent
  BY FlowType
<1>2. ~Idle(c, s) /\ ~Asking(c, s)
  BY <1>1 DEF Idle, Asking
<1>3. Answering(c, s)
  BY <1>2 DEF Phase
<1>4. asked # 0
  BY <1>3 DEF Answering, TypeOK
<1>5. QED
  BY <1>3, <1>4 DEF Phase

(* The client has dealt with the acknowledgement: its request has arrived. *)
Arrived(a, b, p, c, s, d1) ==
    /\ AckedBy(a, b, c, d1, p) /\ Ready(b, d1, s)
    /\ Still(d1, c) /\ d1 \in Flow /\ d1.acked = 1 /\ d1.got = 1 /\ d1.sent = 1 /\ Len(d1.msgs) = 1
    /\ expected # 0 /\ asked > 0
    /\ \A j \in 1..Len(s.msgs) : s.msgs[j].exchange = asked
    /\ p \in Packet /\ a \in Agent /\ ~a.fatal /\ SameReceiver(a, b)
    /\ a.rcv_nxt = At(s, s.got + 1) /\ Queued(a, s) /\ ~Delivering(a)

(* A fresh piece also acknowledges the request: when the client may ask    *)
(* again, nothing of its own is unacknowledged.                            *)
LEMMA ResponseArrives ==
    ASSUME TypeOK, Running, NEW c \in Flow, NEW s \in Flow, Connection(c, s),
           Receive("client"), NEW i \in (s.got + 1)..s.sent,
           Head(net["client"]).ackno = At(c, c.got + 1)
    PROVE  \E d1 : Arrived(agent["client"], Acked(agent["client"], Head(net["client"])),
                           Head(net["client"]), c, s, d1)
<1> DEFINE a == agent["client"]
           p == Head(net["client"])
           b == Acked(a, p)
<1>1. Answering(c, s) /\ Len(c.msgs) = 1
  BY FreshResponse DEF Connection
<1>2. /\ "client" \in Ends /\ "server" \in Ends /\ "client" # "server"
      /\ Peer("client") = "server" /\ Own("server", c, s) = s /\ Own("client", c, s) = c
  BY DEF Ends, Peer, Own
<1>3. /\ a \in Agent /\ net["client"] \in Seq(Packet) /\ net["server"] \in Seq(Packet)
      /\ Link("server", s, c) /\ Link("client", c, s) /\ ~a.fatal
      /\ net["client"] # <<>> /\ ~Delivering(a)
  BY <1>2, EndFacts DEF Running, Receive
<1>4. PICK d1 : /\ AckedBy(a, b, c, d1, p)
                /\ Path(net["server"], d1, s) /\ Path(Tail(net["client"]), s, d1)
                /\ Tail(net["client"]) \in Seq(Packet)
  BY <1>2, <1>3, ReceiveAck
<1>5. p \in Packet
  BY <1>2, <1>3, ReceiveAck
<1>6. /\ expected # 0 /\ asked > 0 /\ c.got = 1
      /\ \A j \in 1..Len(s.msgs) : s.msgs[j].exchange = asked
      /\ Queued(a, s) \/ OldCopies(a, s, asked)
  BY <1>1 DEF Answering
<1>7. a.rcv_nxt = At(s, s.got + 1)
  BY <1>3 DEF Link
<1>8. Queued(a, s)
  BY <1>3, <1>6, <1>7, OldCopiesGone
<1>9. net' = [net EXCEPT !["client"] = Tail(net["client"])]
  BY DEF Receive
<1>10. p.ackno = At(c, c.got + 1)
  OBVIOUS
<1> HIDE DEF a, p, b
<1>11. /\ d1 \in Flow /\ Still(d1, c) /\ d1.acked = 1 /\ d1.got = 1 /\ Len(d1.msgs) = 1
       /\ Sender(b, d1) /\ b \in Agent /\ SameReceiver(a, b) /\ ~b.fatal
       /\ d1.msgs = c.msgs /\ d1.base = c.base
  <2>1. /\ d1 \in Flow /\ Still(d1, c) /\ d1.acked = c.got
        /\ Sender(b, d1) /\ b \in Agent /\ SameReceiver(a, b)
    BY <1>4, <1>10 DEF AckedBy, Progress
  <2>2. d1.got = c.got /\ d1.msgs = c.msgs /\ d1.base = c.base /\ b.fatal = a.fatal
    BY <2>1 DEF Still, SameReceiver
  <2>3. ~b.fatal
    BY <1>3, <2>2
  <2>4. Len(d1.msgs) = 1 /\ d1.acked = 1 /\ d1.got = 1
    BY <1>1, <1>6, <2>1, <2>2
  <2>5. QED
    BY <2>1, <2>2, <2>3, <2>4
<1>12. d1.sent = 1
  <2>1. d1.sent \in Nat /\ d1.got <= d1.sent /\ d1.sent <= Len(d1.msgs)
    BY <1>11, FlowType
  <2>2. QED
    BY <1>11, <2>1
<1>13. At(d1, d1.got + 1) = At(c, c.got + 1)
  BY <1>11, StillEdges
<1>14. b.rcv_nxt = At(s, s.got + 1) /\ Queued(b, s)
  BY <1>7, <1>8, <1>11, QueuedSame DEF SameReceiver
<1>15. /\ net' \in [Ends -> Seq(Packet)] /\ net'["client"] = Tail(net["client"])
       /\ net'["server"] = net["server"]
  <2>1. net \in [Ends -> Seq(Packet)]
    BY DEF TypeOK
  <2>2. QED
    BY <1>2, <1>4, <1>9, <2>1
<1>16. /\ Sender(agent["server"], s) /\ agent["server"].rcv_nxt = At(d1, d1.got + 1)
  BY <1>3, <1>13 DEF Link
<1>17. Phase(c, s)
  BY DEF Connection
<1>18. Ready(b, d1, s)
  <2>1. /\ agent["server"].recvq = <<>> /\ agent["server"].rq = {}
        /\ d1.msgs = IF asked = 0 THEN <<>> ELSE <<Request(asked)>>
        /\ \A j \in 1..Len(s.msgs) : s.msgs[j].exchange <= asked /\ s.msgs[j].piece > 0
    BY <1>11, <1>17 DEF Phase
  <2>2. Path(net'["client"], s, d1) /\ Path(net'["server"], d1, s)
    BY <1>4, <1>15
  <2>3. QED
    BY <1>11, <1>14, <1>15, <1>16, <2>1, <2>2 DEF Ready
<1>19. Arrived(a, b, p, c, s, d1)
  BY <1>3, <1>4, <1>5, <1>6, <1>7, <1>8, <1>11, <1>12, <1>18 DEF Arrived, a, b, p
<1>20. QED
  BY <1>19 DEF a, b, p

(* The receiver's position moves to g. *)
LEMMA ReadyFurther ==
    ASSUME NEW c \in Flow, NEW s \in Flow, NEW b, Ready(b, c, s), c.sent = c.got,
           NEW g \in s.got..s.sent, NEW s1, s1 = Moved(s, s.acked, s.next, s.sent, g),
           NEW z \in Agent, ~z.fatal, Sender(z, c), z.rcv_nxt = At(s, g + 1), Queued(z, s1)
    PROVE  Ready(z, c, s1)
<1>1. g \in Nat /\ s.got <= g /\ g <= s.sent /\ s.got \in Nat /\ c.got \in Nat /\ c.sent \in Nat
      /\ c.sent <= c.got
  BY FlowType
<1>2. /\ s1 \in Flow /\ SameBatch(s1, s)
      /\ s1.base = s.base /\ s1.msgs = s.msgs /\ s1.got = g
      /\ \A i : At(s1, i) = At(s, i)
      /\ \A a : Sender(a, s) => Sender(a, s1)
  BY <1>1, GotFurther
<1>3. SameBatch(c, c)
  BY <1>1 DEF SameBatch
<1>4. /\ net' \in [Ends -> Seq(Packet)]
      /\ Path(net'["client"], s, c) /\ Path(net'["server"], c, s)
      /\ net'["client"] \in Seq(Packet) /\ net'["server"] \in Seq(Packet)
  BY DEF Ready, Ends
<1>5. Path(net'["client"], s1, c)
  BY <1>2, <1>3, <1>4, PathOn
<1>6. Path(net'["server"], c, s1)
  BY <1>1, <1>2, <1>3, <1>4, PathOn
<1>7. z.rcv_nxt = At(s1, s1.got + 1)
  BY <1>2
<1>8. /\ Sender(agent["server"], s1) /\ agent["server"].rcv_nxt = At(c, c.got + 1)
      /\ agent["server"].recvq = <<>> /\ agent["server"].rq = {}
      /\ c.msgs = IF asked = 0 THEN <<>> ELSE <<Request(asked)>>
      /\ \A i \in 1..Len(s1.msgs) : s1.msgs[i].exchange <= asked /\ s1.msgs[i].piece > 0
  BY <1>2 DEF Ready
<1>9. QED
  BY <1>4, <1>5, <1>6, <1>7, <1>8 DEF Ready

(* It is handed over at once. *)
InOrderTaken(c, s) ==
    /\ s.got < Len(s.msgs)
    /\ \E c2, s2 \in Flow : /\ Connection(c2, s2)'
                            /\ s2.base = s.base /\ s2.msgs = s.msgs /\ s2.got = s.got + 1
    /\ c.got = Len(c.msgs)
    /\ agent["client"].recvq = <<>> /\ agent'["client"].recvq = <<>>
    /\ last' = [last EXCEPT !["client"] = s.msgs[s.got + 1]]

(* recv hands the next piece over at once. The client may ask again from   *)
(* inside.                                                                 *)
LEMMA ReceiveInOrder ==
    ASSUME TypeOK, Running, NEW c \in Flow, NEW s \in Flow, Connection(c, s),
           Receive("client"), NEW i \in (s.got + 1)..s.sent,
           Carries(Head(net["client"]), s, i), Head(net["client"]).ackno = At(c, c.got + 1),
           InOrder(agent["client"], Head(net["client"]))
    PROVE  TypeOK' /\ Running' /\ InOrderTaken(c, s)
<1> DEFINE a == agent["client"]
           p == Head(net["client"])
           b == Acked(a, p)
           z == recv(a, p)
<1>1. PICK d1 : Arrived(a, b, p, c, s, d1)
  BY ResponseArrives
<1>2. /\ AckedBy(a, b, c, d1, p) /\ Ready(b, d1, s)
      /\ d1 \in Flow /\ d1.acked = 1 /\ d1.got = 1 /\ d1.sent = 1 /\ Len(d1.msgs) = 1
      /\ d1.msgs = c.msgs /\ c.got = 1
      /\ expected # 0 /\ asked > 0
      /\ \A j \in 1..Len(s.msgs) : s.msgs[j].exchange = asked
      /\ p \in Packet /\ a \in Agent /\ ~a.fatal
      /\ b.recvq = a.recvq /\ b.rq = a.rq /\ b.fatal = a.fatal
      /\ a.rcv_nxt = At(s, s.got + 1) /\ Queued(a, s) /\ ~Delivering(a)
  BY <1>1 DEF Arrived, Still, SameReceiver
<1>3. InOrder(a, p) /\ Carries(p, s, i)
  OBVIOUS
<1> HIDE DEF b
<1>4. HandsOver(a, p) /\ i = s.got + 1 /\ a.rq = {}
      /\ z = [b EXCEPT !.rcv_nxt = At(s, i + 1), !.ackNow = TRUE]
  <2> HIDE DEF a, p
  <2>1. /\ HandsOver(a, p) <=> InOrder(a, p)
        /\ InOrder(a, p) <=> i = s.got + 1 /\ a.rq = {}
        /\ recv(a, p) = IF InOrder(a, p)
                        THEN [Acked(a, p) EXCEPT !.rcv_nxt = At(s, i + 1), !.ackNow = TRUE]
                        ELSE [Queue(Acked(a, p), p) EXCEPT !.ackNow = TRUE]
    BY <1>2, <1>3, FreshSegment DEF b
  <2>2. QED
    BY <1>3, <2>1 DEF b
<1>5. a.recvq = <<>>
  BY <1>2, <1>4, InOrderEmpty
<1>6. /\ recvBytes("client", z, p.data)
      /\ net' = [net EXCEPT !["client"] = Tail(@)] /\ losses' = losses /\ early' = early
  BY <1>4 DEF Receive
<1>7. p.data = s.msgs[i]
  BY <1>3 DEF Carries
<1>8. /\ last' = [last EXCEPT !["client"] = s.msgs[i]]
      /\ ClientApp(z, s.msgs[i])
  <2> HIDE DEF z, p
  <2>1. QED
    BY <1>6, <1>7 DEF recvBytes
<1> HIDE DEF a, p, z
<1>9. /\ s.got \in Nat /\ s.sent \in Nat /\ s.sent <= Len(s.msgs) /\ Len(s.msgs) \in Nat
      /\ i \in 1..Len(s.msgs) /\ i \in s.got..s.sent /\ i \in Nat /\ i + 1 \in 1..(Len(s.msgs) + 1)
      /\ s.got <= i /\ i <= s.sent
  <2>1. /\ s.got \in Nat /\ s.sent \in Nat /\ s.sent <= Len(s.msgs) /\ Len(s.msgs) \in Nat
    BY FlowType
  <2>2. QED
    BY <2>1
<1>10. PICK n \in Nat : n = At(s, i + 1)
  BY <1>9, AtFacts
<1>11. /\ z \in Agent /\ z.rcv_nxt = At(s, i + 1) /\ z.recvq = <<>> /\ z.rq = {} /\ ~z.fatal
       /\ Sender(z, d1)
  <2>1. Takes(b, z, n)
    BY <1>4, <1>10 DEF Takes
  <2>2. b \in Agent /\ Sender(b, d1)
    BY <1>2 DEF Ready
  <2>3. QED
    BY <1>2, <1>4, <1>5, <1>10, <2>1, <2>2, TakesSegment
<1>12. PICK s1 : s1 = Moved(s, s.acked, s.next, s.sent, i)
  OBVIOUS
<1>13. s1 \in Flow /\ s1.base = s.base /\ s1.msgs = s.msgs /\ s1.got = i
  BY <1>9, <1>12, GotFurther
<1>14. Queued(z, s1) /\ OnlyLast(z, s1)
  BY <1>11, EmptyQueue
<1>15. Ready(z, d1, s1)
  BY <1>2, <1>9, <1>11, <1>12, <1>14, ReadyFurther
<1>16. Turned(z, s1)
  <2>1. i \in 1..s1.got /\ ClientApp(z, s1.msgs[i])
    BY <1>8, <1>9, <1>13
  <2>2. \A j \in 1..Len(s1.msgs) : s1.msgs[j].exchange = asked
    BY <1>2, <1>13
  <2>3. QED
    BY <1>2, <1>13, <1>14, <1>15, <2>1, <2>2, ClientTurn
<1>17. TypeOK'
  <2>1. last' \in [Ends -> Message \cup {None}]
    <3>1. last \in [Ends -> Message \cup {None}]
      BY DEF TypeOK
    <3>2. s.msgs[i] \in Message
      BY <1>9, EntryType
    <3>3. QED
      BY <1>8, <3>1, <3>2
  <2>2. net' \in [Ends -> Seq(Packet)]
    BY <1>15 DEF Ready
  <2>3. /\ agent' \in [Ends -> Agent] /\ asked' \in 0..MaxExchanges /\ expected' \in Nat
    BY <1>16 DEF Turned
  <2>4. QED
    BY <1>6, <2>1, <2>2, <2>3 DEF TypeOK
<1>18. Running'
  BY <1>16 DEF Turned
<1>19. InOrderTaken(c, s)
  <2>1. s.got < Len(s.msgs) /\ i = s.got + 1 /\ c.got = Len(c.msgs)
    BY <1>2, <1>4, <1>9
  <2>2. agent["client"].recvq = <<>>
    BY <1>5 DEF a
  <2>3. agent'["client"].recvq = <<>> /\ \E c2 \in Flow : Connection(c2, s1)'
    BY <1>11, <1>16 DEF Turned
  <2>4. QED
    BY <1>8, <1>13, <2>1, <2>2, <2>3 DEF InOrderTaken
<1>20. QED
  BY <1>17, <1>18, <1>19

(* It is queued, and may fill the hole. *)
QueuedTaken(c, s) ==
    /\ \E c2, s2 \in Flow :
           /\ Connection(c2, s2)' /\ Still(c2, c)
           /\ s2.base = s.base /\ s2.msgs = s.msgs /\ s2.got \in s.got..s.sent
           /\ s2.got > s.got => /\ agent'["client"].recvq # <<>>
                                /\ agent'["client"].recvq[1] = Tile(s, s.got + 1)
           /\ s2.got = s.got => ~Delivering(agent'["client"])
    /\ ~Delivering(agent["client"])
    /\ last' = last

(* recv queues a piece, and reass may fill the hole.                       *)
LEMMA ReceiveQueued ==
    ASSUME TypeOK, Running, NEW c \in Flow, NEW s \in Flow, Connection(c, s),
           Receive("client"), NEW i \in (s.got + 1)..s.sent,
           Carries(Head(net["client"]), s, i), Head(net["client"]).ackno = At(c, c.got + 1),
           ~InOrder(agent["client"], Head(net["client"]))
    PROVE  TypeOK' /\ Running' /\ QueuedTaken(c, s)
<1> DEFINE a == agent["client"]
           p == Head(net["client"])
           b == Acked(a, p)
           y == Queue(b, p)
           z == recv(a, p)
<1>1. PICK d1 : Arrived(a, b, p, c, s, d1)
  BY ResponseArrives
<1>2. /\ AckedBy(a, b, c, d1, p) /\ Ready(b, d1, s)
      /\ d1 \in Flow /\ d1.acked = 1 /\ d1.got = 1 /\ d1.sent = 1 /\ Len(d1.msgs) = 1
      /\ d1.msgs = c.msgs /\ Still(d1, c)
      /\ expected # 0 /\ asked > 0
      /\ \A j \in 1..Len(s.msgs) : s.msgs[j].exchange = asked
      /\ p \in Packet /\ a \in Agent /\ ~a.fatal
      /\ b.recvq = a.recvq /\ b.rq = a.rq /\ b.fatal = a.fatal /\ b.rcv_nxt = a.rcv_nxt
      /\ a.rcv_nxt = At(s, s.got + 1) /\ Queued(a, s) /\ ~Delivering(a)
  BY <1>1 DEF Arrived, Still, SameReceiver
<1>3. ~InOrder(a, p) /\ Carries(p, s, i)
  OBVIOUS
<1> HIDE DEF b
<1>4. ~HandsOver(a, p) /\ ~(i = s.got + 1 /\ a.rq = {})
      /\ z = [y EXCEPT !.ackNow = TRUE]
  <2> HIDE DEF a, p
  <2>1. /\ HandsOver(a, p) <=> InOrder(a, p)
        /\ InOrder(a, p) <=> i = s.got + 1 /\ a.rq = {}
        /\ recv(a, p) = IF InOrder(a, p)
                        THEN [Acked(a, p) EXCEPT !.rcv_nxt = At(s, i + 1), !.ackNow = TRUE]
                        ELSE [Queue(Acked(a, p), p) EXCEPT !.ackNow = TRUE]
    BY <1>2, <1>3, FreshSegment DEF b
  <2>2. QED
    BY <1>3, <2>1 DEF b
<1>5. b \in Agent /\ Sender(b, d1) /\ ~b.fatal
  BY <1>2 DEF Ready
<1>6. Queued(b, s) /\ ~Delivering(b)
  <2> HIDE DEF a
  <2>1. QED
    BY <1>2, QueuedSame DEF Delivering
<1>7. /\ agent' = [agent EXCEPT !["client"] = z] /\ last' = last
      /\ asked' = asked /\ expected' = expected
      /\ losses' = losses /\ early' = early
  <2> HIDE DEF z
  <2>1. QED
    BY <1>4 DEF Receive, appVars, z
<1> HIDE DEF a, p, y, z
<1>8. PICK g \in s.got..s.sent : QueuedUpTo(b, y, s, g)
  BY <1>2, <1>3, <1>4, <1>5, <1>6, QueueStep DEF y
<1>9. PICK s2 : s2 = Moved(s, s.acked, s.next, s.sent, g)
  OBVIOUS
<1>10. /\ y \in Agent /\ ~y.fatal /\ SameSender(b, y)
       /\ y.rcv_nxt = At(s, g + 1) /\ Queued(y, s2)
       /\ g > s.got => y.recvq # <<>> /\ y.recvq[1] = Tile(s, s.got + 1)
       /\ g = s.got => ~Delivering(y)
  BY <1>2, <1>8, <1>9 DEF QueuedUpTo
<1>11. Sender(y, d1)
  BY <1>5, <1>10 DEF SameSender, Sender
<1>12. s.got \in Nat /\ s.sent \in Nat /\ g \in Nat /\ s.got <= g /\ g <= s.sent
  BY FlowType
<1>13. /\ s2 \in Flow /\ s2.base = s.base /\ s2.msgs = s.msgs /\ s2.got = g
  BY <1>9, <1>12, GotFurther
<1>14. Ready(y, d1, s2)
  BY <1>2, <1>9, <1>10, <1>11, ReadyFurther
<1>15. z \in Agent /\ SameReceiver(y, z) /\ Sender(z, d1)
  BY <1>4, <1>10, <1>11, OwesAck
<1>16. /\ agent' \in [Ends -> Agent] /\ Running' /\ agent'["server"] = agent["server"]
       /\ agent'["client"] = z
       /\ z.recvq = y.recvq /\ z.rcv_nxt = y.rcv_nxt /\ Queued(z, s2)
  <2>1. ClientBecomes(z)
    BY <1>7 DEF ClientBecomes
  <2>2. QED
    BY <1>2, <1>13, <1>14, <1>15, <2>1, TurnTo
<1>17. Link("client", d1, s2)'
  <2>1. z.rcv_nxt = At(s2, s2.got + 1) /\ Path(net'["client"], s2, d1)
    BY <1>14, <1>16 DEF Ready
  <2>2. QED
    BY <1>15, <1>16, <2>1 DEF Link
<1>18. Link("server", s2, d1)'
  BY <1>14, <1>16 DEF Link, Ready
<1>19. Phase(d1, s2)'
  <2>1. Answering(d1, s2)'
    BY <1>2, <1>7, <1>13, <1>16 DEF Answering
  <2>2. QED
    BY <1>7, <1>14, <1>16, <2>1 DEF Phase, Ready
<1>20. Connection(d1, s2)'
  BY <1>17, <1>18, <1>19 DEF Connection
<1>21. /\ g > s.got => agent'["client"].recvq # <<>> /\ agent'["client"].recvq[1] = Tile(s, s.got + 1)
       /\ g = s.got => ~Delivering(agent'["client"])
  BY <1>10, <1>16 DEF Delivering
<1>22. QueuedTaken(c, s)
  BY <1>2, <1>7, <1>13, <1>20, <1>21 DEF QueuedTaken, a
<1>23. TypeOK'
  BY <1>7, <1>14, <1>16 DEF TypeOK, Ready
<1>24. QED
  BY <1>16, <1>22, <1>23

-----------------------------------------------------------------------------
(* One iteration of findReceivedData. *)

Iterates(a, b) == b = [a EXCEPT !.recvq = Tail(@)]

(* What an iteration leaves alone.                                         *)
LEMMA IteratesFields ==
    ASSUME NEW a \in Agent, a.recvq # <<>>, NEW b, Iterates(a, b)
    PROVE  /\ b \in Agent /\ b.recvq = Tail(a.recvq)
           /\ b.rq = a.rq /\ b.rcv_nxt = a.rcv_nxt /\ b.fatal = a.fatal /\ SameSender(a, b)
           /\ \A d : Sender(a, d) => Sender(b, d)
<1>1. PICK q : q = Tail(a.recvq)
  OBVIOUS
<1>2. q \in Seq([data : Message, start_seq : Nat])
  <2>1. a.recvq \in Seq([data : Message, start_seq : Nat])
    BY DEF Agent
  <2>2. QED
    BY <1>1, <2>1, TailFunction
<1>3. b = [a EXCEPT !.recvq = q]
  BY <1>1 DEF Iterates
<1>4. /\ b \in Agent /\ b.recvq = q
      /\ b.rq = a.rq /\ b.rcv_nxt = a.rcv_nxt /\ b.fatal = a.fatal /\ SameSender(a, b)
  BY <1>2, <1>3 DEF Agent, SameSender
<1>5. ASSUME NEW d, Sender(a, d) PROVE Sender(b, d)
  BY <1>4, <1>5 DEF Sender, SameSender
<1>6. QED
  BY <1>1, <1>4, <1>5

(* A message that the application does not wait for changes nothing. *)
Ignored(b) == ClientBecomes(b) /\ asked' = asked /\ expected' = expected /\ net' = net

(* A step in which the client ignores a message keeps the connection if it *)
(* keeps the phase.                                                        *)
LEMMA IgnoredStep ==
    ASSUME TypeOK, Running, NEW c \in Flow, NEW s \in Flow, Connection(c, s),
           NEW b \in Agent, ~b.fatal, Sender(b, c), b.rcv_nxt = agent["client"].rcv_nxt,
           Ignored(b)
    PROVE  /\ agent' \in [Ends -> Agent] /\ Running' /\ agent'["client"] = b
           /\ Idle(c, s)' \/ Asking(c, s)' \/ Answering(c, s)' => Connection(c, s)'
<1>1. agent \in [Ends -> Agent] /\ \A e \in Ends : ~agent[e].fatal
  BY DEF TypeOK, Running
<1>2. "client" \in Ends /\ "server" \in Ends /\ Ends = {"client", "server"} /\ "client" # "server"
  BY DEF Ends
<1>3. /\ agent' \in [Ends -> Agent] /\ agent'["client"] = b
      /\ agent'["server"] = agent["server"]
  BY <1>1, <1>2 DEF Ignored, ClientBecomes
<1>4. Running'
  BY <1>1, <1>2, <1>3 DEF Running
<1>5. asked' = asked /\ expected' = expected /\ net' = net
  BY DEF Ignored
<1>6. Link("client", c, s)'
  BY <1>3, <1>5 DEF Link, Connection
<1>7. Link("server", s, c)'
  BY <1>3, <1>5 DEF Link, Connection
<1>8. Idle(c, s)' \/ Asking(c, s)' \/ Answering(c, s)' => Phase(c, s)'
  BY <1>3, <1>5 DEF Connection, Phase
<1>9. QED
  BY <1>3, <1>4, <1>6, <1>7, <1>8 DEF Connection

HandedTaken(c, s) ==
    /\ Delivering(agent["client"])
    /\ Queued(agent["client"], s) \/ OldCopies(agent["client"], s, asked)
    /\ \E c2 \in Flow : Connection(c2, s)' /\ (c2 = c \/ c.got = Len(c.msgs))
    /\ agent'["client"].recvq = Tail(agent["client"].recvq)
    /\ agent'["client"].rcv_nxt = agent["client"].rcv_nxt
    /\ last' = [last EXCEPT !["client"] = agent["client"].recvq[1].data]

(* One message is handed over. Only the last of a response makes the       *)
(* client ask, and then all that is left in its queue are copies of this   *)
(* one.                                                                    *)
LEMMA HandOverStep ==
    ASSUME TypeOK, Running, NEW c \in Flow, NEW s \in Flow, Connection(c, s),
           NEW e \in Ends, HandOver(e)
    PROVE  TypeOK' /\ Running' /\ e = "client" /\ HandedTaken(c, s)
<1>1. Link("client", c, s) /\ Link("server", s, c) /\ Phase(c, s)
  BY DEF Connection
<1>2. e = "client"
  <2>1. Delivering(agent[e]) /\ agent["server"].recvq = <<>>
    BY <1>1 DEF HandOver, Phase
  <2>2. QED
    BY <2>1 DEF Delivering, Ends
<1> DEFINE a == agent["client"]
           m == a.recvq[1].data
<1>3. PICK b : Iterates(a, b)
  BY DEF Iterates
<1>4. /\ Delivering(a) /\ recvBytes("client", b, m)
      /\ net' = net /\ losses' = losses /\ early' = early
  BY <1>2, <1>3 DEF HandOver, Iterates
<1>5. a \in Agent /\ ~a.fatal /\ a.recvq # <<>> /\ net \in [Ends -> Seq(Packet)]
  BY <1>4 DEF TypeOK, Running, Ends, Delivering
<1>6. a.rcv_nxt = At(s, s.got + 1) /\ Sender(a, c)
  BY <1>1 DEF Link
<1>7. ClientApp(b, m) /\ last' = [last EXCEPT !["client"] = m]
  <2> HIDE DEF m
  <2>1. QED
    BY <1>4 DEF recvBytes
<1> HIDE DEF a, m
<1>8. /\ b \in Agent /\ b.recvq = Tail(a.recvq)
      /\ b.rq = a.rq /\ b.rcv_nxt = a.rcv_nxt /\ b.fatal = a.fatal /\ Sender(b, c)
  BY <1>3, <1>5, <1>6, IteratesFields
<1>9. m \in Message
  BY <1>5, EntriesType DEF m
<1>10. ASSUME agent' \in [Ends -> Agent], Running', agent'["client"].recvq = b.recvq,
              agent'["client"].rcv_nxt = b.rcv_nxt,
              asked' \in 0..MaxExchanges, expected' \in Nat,
              \E c2 \in Flow : Connection(c2, s)' /\ (c2 = c \/ c.got = Len(c.msgs)),
              Queued(a, s) \/ OldCopies(a, s, asked)
       PROVE  TypeOK' /\ Running' /\ HandedTaken(c, s)
  <2>1. last' \in [Ends -> Message \cup {None}]
    <3>1. last \in [Ends -> Message \cup {None}]
      BY DEF TypeOK
    <3>2. QED
      BY <1>7, <1>9, <3>1
  <2>2. TypeOK'
    BY <1>4, <1>5, <1>10, <2>1 DEF TypeOK
  <2>3. HandedTaken(c, s)
    BY <1>4, <1>7, <1>8, <1>10 DEF HandedTaken, a, m
  <2>4. QED
    BY <1>10, <2>2, <2>3
<1>11. ~b.fatal
  BY <1>5, <1>8
<1>12. ASSUME m.exchange # asked \/ m.piece # expected
       PROVE  Ignored(b)
  BY <1>4, <1>7, <1>12 DEF ClientApp, Unexpected, Ignored, ClientBecomes
<1>13. asked \in 0..MaxExchanges /\ expected \in Nat
  BY DEF TypeOK
<1>14. ASSUME Ignored(b), Idle(c, s)' \/ Asking(c, s)' \/ Answering(c, s)',
              Queued(a, s) \/ OldCopies(a, s, asked)
       PROVE  TypeOK' /\ Running' /\ HandedTaken(c, s)
  <2>1. /\ agent' \in [Ends -> Agent] /\ Running' /\ agent'["client"] = b
        /\ Connection(c, s)'
    BY <1>8, <1>11, <1>14, IgnoredStep DEF a
  <2>2. asked' = asked /\ expected' = expected
    BY <1>14 DEF Ignored
  <2>3. QED
    BY <1>10, <1>13, <1>14, <2>1, <2>2
<1>15. ASSUME Ignored(b) PROVE agent'["client"] = b /\ asked' = asked /\ expected' = expected
  <2>1. agent \in [Ends -> Agent]
    BY DEF TypeOK
  <2>2. QED
    BY <1>15, <2>1 DEF Ignored, ClientBecomes, Ends
<1>16. CASE Queued(a, s)
  <2>1. PICK h \in 1..s.got : /\ a.recvq[1] = Tile(s, h)
                              /\ h = Len(s.msgs) => OnlyLast(b, s)
    BY <1>4, <1>5, <1>6, <1>8, <1>16, QueuedTail
  <2>2. Queued(b, s) /\ (OnlyLast(a, s) => OnlyLast(b, s))
    BY <1>4, <1>5, <1>6, <1>8, <1>16, QueuedTail
  <2>3. m = s.msgs[h] /\ h \in 1..Len(s.msgs) /\ s.got # 0
    <3>1. s.got \in Nat /\ s.sent \in Nat /\ s.got <= s.sent /\ s.sent <= Len(s.msgs) /\ Len(s.msgs) \in Nat
      BY FlowType
    <3>2. QED
      BY <2>1, <3>1 DEF Tile, m
  <2>4. m.piece > 0
    BY <1>1, <2>3 DEF Phase
  <2>5. CASE Idle(c, s)
    <3>1. Ignored(b)
      <4>1. m.piece # expected
        BY <2>4, <2>5 DEF Idle
      <4>2. QED
        BY <1>12, <4>1
    <3>2. Idle(c, s)'
      BY <1>15, <2>2, <2>5, <3>1 DEF Idle, a
    <3>3. QED
      BY <1>2, <1>14, <1>16, <3>1, <3>2
  <2>6. CASE Asking(c, s)
    <3>1. Ignored(b)
      <4>1. m.exchange < asked /\ m.exchange \in Nat
        BY <1>9, <2>3, <2>6, MessageType DEF Asking
      <4>2. m.exchange # asked
        BY <1>13, <4>1
      <4>3. QED
        BY <1>12, <4>2
    <3>2. Asking(c, s)'
      BY <1>15, <2>2, <2>6, <3>1 DEF Asking, a
    <3>3. QED
      BY <1>2, <1>14, <1>16, <3>1, <3>2
  <2>7. CASE Answering(c, s)
    <3>1. /\ asked > 0 /\ expected # 0 /\ c.acked = 1 /\ c.got = 1
          /\ \A i \in 1..Len(s.msgs) : s.msgs[i].exchange = asked
      BY <2>3, <2>7 DEF Answering
    <3>2. c.got = Len(c.msgs)
      <4>1. asked # 0
        BY <1>13, <3>1
      <4>2. QED
        BY <1>1, <3>1, <4>1 DEF Phase
    <3>3. Ready(b, c, s)
      <4>1. Sender(agent["server"], s) /\ agent["server"].rcv_nxt = At(c, c.got + 1)
            /\ Path(net'["client"], s, c) /\ Path(net'["server"], c, s)
        BY <1>1, <1>4 DEF Link
      <4>2. net' \in [Ends -> Seq(Packet)]
        BY <1>4, <1>5
      <4>3. QED
        BY <1>1, <1>6, <1>8, <1>11, <2>2, <4>1, <4>2 DEF Ready, Phase
    <3>4. Turned(b, s)
      BY <1>7, <2>1, <2>3, <3>1, <3>3, ClientTurn
    <3>5. QED
      BY <1>2, <1>10, <1>16, <3>2, <3>4 DEF Turned
  <2>8. QED
    BY <1>1, <2>5, <2>6, <2>7 DEF Phase
<1>17. CASE ~Queued(a, s)
  <2>1. Answering(c, s) /\ OldCopies(a, s, asked)
    BY <1>1, <1>17 DEF Phase, Idle, Asking, Answering, a
  <2>2. OldCopies(b, s, asked) /\ m.exchange < asked
    BY <1>5, <1>8, <2>1, OldCopiesTail DEF m
  <2>3. Ignored(b)
    <3>1. m.exchange \in Nat
      BY <1>9, MessageType
    <3>2. m.exchange # asked
      BY <1>13, <2>2, <3>1
    <3>3. QED
      BY <1>12, <3>2
  <2>4. Answering(c, s)'
    <3>1. /\ expected # 0 /\ asked > 0 /\ c.got = 1
          /\ \A i \in 1..Len(s.msgs) : s.msgs[i].exchange = asked
          /\ c.acked = 1 \/ (s.got = 0 /\ b.rq = {})
      BY <1>8, <2>1 DEF Answering, a
    <3>2. QED
      BY <1>15, <2>2, <2>3, <3>1 DEF Answering
  <2>5. QED
    BY <1>2, <1>14, <2>1, <2>3, <2>4
<1>18. QED
  BY <1>2, <1>16, <1>17

(* The client's request from outside recv. *)
AskTaken(c, s) ==
    /\ \E c2 \in Flow : Connection(c2, s)'
    /\ c.got = Len(c.msgs)
    /\ agent'["client"].recvq = agent["client"].recvq
    /\ agent'["client"].rcv_nxt = agent["client"].rcv_nxt
    /\ last' = last

(* The client asks while it waits for nothing, so all it has sent is       *)
(* acknowledged.                                                           *)
LEMMA AskStep ==
    ASSUME TypeOK, Running, NEW c \in Flow, NEW s \in Flow, Connection(c, s), Ask
    PROVE  TypeOK' /\ Running' /\ AskTaken(c, s)
<1> DEFINE a == agent["client"]
<1>1. Link("client", c, s) /\ Link("server", s, c) /\ Phase(c, s)
  BY DEF Connection
<1>2. /\ expected = 0 /\ asked < MaxExchanges
      /\ agent' = [agent EXCEPT !["client"] = sendmsg(a, Request(asked + 1))]
      /\ asked' = asked + 1 /\ expected' = 1
      /\ net' = net /\ last' = last /\ losses' = losses /\ early' = early
  BY DEF Ask
<1>3. Idle(c, s)
  BY <1>1, <1>2 DEF Phase, Asking, Answering
<1>4. a \in Agent /\ ~a.fatal /\ net \in [Ends -> Seq(Packet)]
  BY DEF TypeOK, Running, Ends
<1>5. c.acked = Len(c.msgs) /\ s.got = Len(s.msgs) /\ OnlyLast(a, s) /\ Queued(a, s)
  BY <1>3 DEF Idle
<1>6. Ready(a, c, s)
  BY <1>1, <1>2, <1>4, <1>5 DEF Ready, Link, Phase
<1>7. PICK z : z = a
  OBVIOUS
<1>8. Turned(z, s)
  BY <1>2, <1>5, <1>6, <1>7, NewRequest
<1>9. c.got = Len(c.msgs)
  BY <1>5, FlowType
<1>10. TypeOK'
  BY <1>2, <1>4, <1>8 DEF TypeOK, Turned
<1>11. QED
  BY <1>2, <1>7, <1>8, <1>9, <1>10 DEF Turned, AskTaken

-----------------------------------------------------------------------------
(* Every step keeps the invariant. *)

(* recv of any packet at either end.                                       *)
LEMMA ReceiveStep ==
    ASSUME TypeOK, Running, NEW c \in Flow, NEW s \in Flow, Connection(c, s),
           NEW e \in Ends, Receive(e)
    PROVE  /\ TypeOK' /\ Running'
           /\ \/ Quietly(c, s)
              \/ e = "server" /\ RequestTaken(c, s)
              \/ e = "client" /\ (InOrderTaken(c, s) \/ QueuedTaken(c, s))
<1> DEFINE p == Head(net[e])
           d == Own(e, c, s)
           r == Own(Peer(e), c, s)
<1>1. net[e] # <<>>
  BY DEF Receive
<1>2. OnTheWay(p, r, d)
  BY <1>1, ReceiveAck
<1>3. agent[e].rcv_nxt = At(r, r.got + 1)
  BY EndFacts DEF Link
<1>4. CASE p.datalen = 0 \/ p.seqno + p.datalen <= agent[e].rcv_nxt
  BY <1>4, ReceiveStale
<1>5. CASE ~(p.datalen = 0 \/ p.seqno + p.datalen <= agent[e].rcv_nxt)
  <2>1. PICK i \in (r.got + 1)..r.sent : Carries(p, r, i) /\ p.ackno = At(d, d.got + 1)
    BY <1>2, <1>3, <1>5 DEF OnTheWay
  <2>2. CASE e = "server"
    <3>1. r = c /\ d = s /\ p = Head(net["server"])
      BY <2>2 DEF Own, Peer
    <3> HIDE DEF p, r, d
    <3>2. /\ i \in (c.got + 1)..c.sent /\ Carries(Head(net["server"]), c, i)
          /\ Head(net["server"]).ackno = At(s, s.got + 1) /\ Receive("server")
      BY <2>1, <2>2, <3>1
    <3>3. QED
      BY <2>2, <3>2, ReceiveRequest
  <2>3. CASE e = "client"
    <3>1. r = s /\ d = c /\ p = Head(net["client"])
      BY <2>3 DEF Own, Peer
    <3> HIDE DEF p, r, d
    <3>2. /\ i \in (s.got + 1)..s.sent /\ Carries(Head(net["client"]), s, i)
          /\ Head(net["client"]).ackno = At(c, c.got + 1) /\ Receive("client")
      BY <2>1, <2>3, <3>1
    <3>3. CASE InOrder(agent["client"], Head(net["client"]))
      BY <2>3, <3>2, <3>3, ReceiveInOrder
    <3>4. CASE ~InOrder(agent["client"], Head(net["client"]))
      BY <2>3, <3>2, <3>4, ReceiveQueued
    <3>5. QED
      BY <3>3, <3>4
  <2>4. QED
    BY <2>2, <2>3 DEF Ends
<1>6. QED
  BY <1>4, <1>5

(* What a step does to the flows c and s. *)
Effect(c, s) == \/ Quietly(c, s) \/ RequestTaken(c, s) \/ InOrderTaken(c, s)
                \/ QueuedTaken(c, s) \/ HandedTaken(c, s) \/ AskTaken(c, s)

(* Every step keeps the types, runs into no fatal error, and is one of the *)
(* cases above or changes nothing.                                         *)
LEMMA StepEffect ==
    ASSUME TypeOK, Running, NEW c \in Flow, NEW s \in Flow, Connection(c, s), Next
    PROVE  TypeOK' /\ Running' /\ (Effect(c, s) \/ UNCHANGED vars)
<1>1. CASE Ask
  BY <1>1, AskStep DEF Effect
<1>2. ASSUME NEW e \in Ends, Output(e)
      PROVE  TypeOK' /\ Running' /\ Quietly(c, s)
  BY <1>2, OutputStep
<1>3. ASSUME NEW e \in Ends, Receive(e)
      PROVE  TypeOK' /\ Running' /\ Effect(c, s)
  BY <1>3, ReceiveStep DEF Effect
<1>4. ASSUME NEW e \in Ends, HandOver(e)
      PROVE  TypeOK' /\ Running' /\ Effect(c, s)
  BY <1>4, HandOverStep DEF Effect
<1>5. ASSUME NEW e \in Ends, FastRetransmit(e)
      PROVE  TypeOK' /\ Running' /\ Quietly(c, s)
  BY <1>5, FastRetransmitStep
<1>6. ASSUME NEW e \in Ends, Timeout(e)
      PROVE  TypeOK' /\ Running' /\ Quietly(c, s)
  <2>1. /\ agent' = [agent EXCEPT ![e] = timeout_action(@)]
        /\ UNCHANGED <<net, appVars, losses>>
    BY <1>6 DEF Timeout
  <2>2. early' \in 0..MaxEarly
    <3>1. early \in 0..MaxEarly /\ MaxEarly \in Nat
      BY ConnectionAssumption DEF TypeOK
    <3>2. early' = early \/ (early < MaxEarly /\ early' = early + 1)
      BY <1>6 DEF Timeout
    <3>3. QED
      BY <3>1, <3>2
  <2>3. QED
    BY <2>1, <2>2, TimeoutStep
<1>7. ASSUME NEW e \in Ends, Lose(e)
      PROVE  TypeOK' /\ Running' /\ Quietly(c, s)
  BY <1>7, LoseStep
<1>8. CASE Terminated
  BY <1>8 DEF Terminated, vars, TypeOK, Running
<1>9. QED
  BY <1>1, <1>2, <1>3, <1>4, <1>5, <1>6, <1>7, <1>8 DEF Next, Effect

(* Before the first request nothing has been handed over. *)
LEMMA InitialConnection ==
    ASSUME Init
    PROVE  TypeOK /\ Running /\ Connection(Fresh(0, <<>>), Fresh(0, <<>>)) /\ Fresh(0, <<>>) \in Flow
<1> DEFINE d == Fresh(0, <<>>)
<1>1. <<>> \in Seq(Message) /\ Len(<<>>) = 0 /\ Batch(<<>>) /\ 0 \in Nat
  BY DEF Batch
<1>2. d \in Flow /\ d.base = 0 /\ d.msgs = <<>> /\ d.acked = 0 /\ d.next = 0 /\ d.sent = 0 /\ d.got = 0
  BY <1>1, FreshFlow
<1> HIDE DEF d
<1>3. At(d, 1) = 0
  BY <1>2, AtFacts
<1>4. /\ AgentInit.appq = <<>> /\ AgentInit.waitq = <<>> /\ AgentInit.recvq = <<>>
      /\ AgentInit.curseq = 0 /\ AgentInit.t_seqno = 0 /\ AgentInit.maxseq = 0
      /\ AgentInit.highest_ack = 0 /\ AgentInit.rcv_nxt = 0 /\ AgentInit.rq = {}
      /\ ~AgentInit.fatal
  BY DEF AgentInit
<1>5. AgentInit \in Agent
  BY DEF AgentInit, Agent
<1>6. \A e \in Ends : agent[e] = AgentInit /\ net[e] = <<>>
  BY DEF Init
<1>7. /\ agent = [e \in Ends |-> AgentInit] /\ net = [e \in Ends |-> <<>>]
      /\ last = [e \in Ends |-> None] /\ asked = 0 /\ expected = 0 /\ losses = 0 /\ early = 0
  BY DEF Init
<1>8. TypeOK
  <2>1. agent \in [Ends -> Agent] /\ net \in [Ends -> Seq(Packet)]
    BY <1>5, <1>7
  <2>2. last \in [Ends -> Message \cup {None}]
    BY <1>7
  <2>3. MaxExchanges \in Nat /\ MaxLosses \in Nat /\ MaxEarly \in Nat
    BY ConnectionAssumption
  <2>4. QED
    BY <1>7, <2>1, <2>2, <2>3 DEF TypeOK
<1>9. Running
  BY <1>4, <1>6 DEF Running
<1>10. Sender(AgentInit, d)
  <2>1. /\ [i \in 1..(d.sent - d.acked) |-> Entry(d, d.acked + i)] = <<>>
        /\ [i \in 1..(Len(d.msgs) - d.sent) |-> d.msgs[d.sent + i]] = <<>>
    <3>1. 1..(d.sent - d.acked) = {} /\ 1..(Len(d.msgs) - d.sent) = {}
      BY <1>1, <1>2
    <3>2. QED
      BY <3>1
  <2>2. At(d, d.acked + 1) = 0 /\ At(d, d.next + 1) = 0 /\ At(d, d.sent + 1) = 0
        /\ At(d, Len(d.msgs) + 1) = 0
    BY <1>1, <1>2, <1>3
  <2> HIDE DEF AgentInit
  <2>3. QED
    BY <1>4, <2>1, <2>2 DEF Sender
<1>11. "client" \in Ends /\ "server" \in Ends
  BY DEF Ends
<1>12. Link("client", d, d) /\ Link("server", d, d)
  <2>1. \A e \in Ends : Path(net[e], d, d)
    BY <1>6 DEF Path
  <2>2. AgentInit.rcv_nxt = At(d, d.got + 1)
    BY <1>2, <1>3, <1>4
  <2>3. QED
    BY <1>6, <1>10, <1>11, <2>1, <2>2 DEF Link
<1>13. Phase(d, d)
  <2>1. agent["client"] = AgentInit /\ agent["server"] = AgentInit
    BY <1>6, <1>11
  <2>2. OnlyLast(AgentInit, d) /\ Queued(AgentInit, d)
    BY <1>4, EmptyQueue
  <2>3. Idle(d, d)
    BY <1>1, <1>2, <1>7, <2>1, <2>2 DEF Idle
  <2>4. \A i \in 1..Len(d.msgs) : d.msgs[i].exchange <= asked /\ d.msgs[i].piece > 0
    BY <1>1, <1>2
  <2>5. QED
    BY <1>2, <1>4, <1>7, <2>1, <2>3, <2>4 DEF Phase
<1>14. QED
  BY <1>2, <1>8, <1>9, <1>12, <1>13 DEF Connection, d

(* The inductive invariant of the connection: in every reachable state,    *)
(* for any segment size, responses and bounds, there are two flows that    *)
(* agree with the counters, the queues and the packets of both agents.     *)
THEOREM ConnectionInvariant == Spec => []Inv
<1>1. Init => Inv
  BY InitialConnection DEF Inv
<1>2. Inv /\ [Next]_vars => Inv'
  <2> SUFFICES ASSUME Inv, [Next]_vars PROVE Inv'
    OBVIOUS
  <2>1. PICK c \in Flow, s \in Flow : Connection(c, s)
    BY DEF Inv
  <2>2. TypeOK /\ Running
    BY DEF Inv
  <2>3. CASE UNCHANGED vars
    <3>1. TypeOK' /\ Running'
      BY <2>2, <2>3 DEF vars, TypeOK, Running
    <3>2. Connection(c, s)'
      BY <2>1, <2>3 DEF vars, Connection, Link, Phase, Idle, Asking, Answering
    <3>3. QED
      BY <3>1, <3>2 DEF Inv
  <2>4. CASE Effect(c, s) /\ TypeOK' /\ Running'
    <3>1. \E c2, s2 \in Flow : Connection(c2, s2)'
      BY <2>4 DEF Effect, Quietly, RequestTaken, InOrderTaken, QueuedTaken, HandedTaken, AskTaken
    <3>2. QED
      BY <2>4, <3>1 DEF Inv
  <2>5. QED
    BY <2>1, <2>2, <2>3, <2>4, StepEffect
<1>3. QED
  BY <1>1, <1>2, PTL DEF Spec

-----------------------------------------------------------------------------
(* What the properties of the runs say, in every state of the invariant. *)

(* A packet of a flow carries a whole message or nothing.                  *)
LEMMA WholeInInv == Inv => WholeMessages
<1> SUFFICES ASSUME Inv, NEW e \in Ends, NEW i \in DOMAIN net[e]
             PROVE  net[e][i].datalen = net[e][i].data.size
  BY DEF WholeMessages
<1>1. PICK c \in Flow, s \in Flow : Connection(c, s)
  BY DEF Inv
<1>2. TypeOK
  BY DEF Inv
<1>3. /\ net[e] \in Seq(Packet)
      /\ Path(net[e], Own(Peer(e), c, s), Own(e, c, s))
  BY <1>1, <1>2, EndFacts DEF Link
<1> DEFINE p == net[e][i]
<1>4. OnTheWay(p, Own(Peer(e), c, s), Own(e, c, s))
  <2>1. i \in 1..Len(net[e])
    BY <1>3
  <2>2. QED
    BY <1>3, <2>1 DEF Path
<1> HIDE DEF p
<1>5. p.datalen = p.data.size
  BY <1>4 DEF OnTheWay, Carries, NoData
<1>6. QED
  BY <1>5 DEF p

(* The waiting queue of a flow tiles the bytes it has to.                  *)
LEMMA TiledInInv == Inv => WaitingTiled
<1> SUFFICES ASSUME Inv, NEW e \in Ends
             PROVE  LET a == agent[e]
                        n == Len(a.waitq)
                    IN  /\ n = 0 => a.highest_ack = a.maxseq
                        /\ n > 0 => /\ a.waitq[1].start_seq = a.highest_ack
                                    /\ a.waitq[n].start_seq + a.waitq[n].length = a.maxseq
                        /\ \A i \in 2..n :
                               a.waitq[i].start_seq = a.waitq[i-1].start_seq + a.waitq[i-1].length
                        /\ a.highest_ack <= agent[Peer(e)].rcv_nxt
  BY DEF WaitingTiled
<1> DEFINE a == agent[e]
           n == Len(a.waitq)
<1>1. PICK c \in Flow, s \in Flow : Connection(c, s)
  BY DEF Inv
<1>2. TypeOK
  BY DEF Inv
<1>3. PICK d \in Flow : d = Own(e, c, s)
  BY <1>1, <1>2, EndFacts
<1>4. Sender(a, d) /\ agent[Peer(e)].rcv_nxt = At(d, d.got + 1)
  BY <1>1, <1>2, <1>3, EndFacts DEF Link
<1> HIDE DEF a
<1>5. /\ d.acked \in Nat /\ d.sent \in Nat /\ d.got \in Nat /\ Len(d.msgs) \in Nat
      /\ d.acked <= d.sent /\ d.sent <= Len(d.msgs) /\ d.acked <= d.got /\ d.got <= d.sent
  BY FlowType
<1>6. /\ a.waitq = [i \in 1..(d.sent - d.acked) |-> Entry(d, d.acked + i)]
      /\ a.highest_ack = At(d, d.acked + 1) /\ a.maxseq = At(d, d.sent + 1)
  BY <1>4 DEF Sender
<1>7. n = d.sent - d.acked
  <2>1. \A i \in 1..(d.sent - d.acked) : Entry(d, d.acked + i) \in [data : Message, start_seq : Nat, length : Nat]
    BY <1>5, EntryType
  <2>2. d.sent - d.acked \in Nat
    BY <1>5
  <2>3. QED
    BY <1>6, <2>1, <2>2, SeqOf
<1>8. ASSUME NEW i \in 1..n
      PROVE  /\ a.waitq[i].start_seq = At(d, d.acked + i)
             /\ a.waitq[i].start_seq + a.waitq[i].length = At(d, d.acked + i + 1)
  <2>1. a.waitq[i] = Entry(d, d.acked + i)
    BY <1>6, <1>7
  <2>2. PICK k \in 1..Len(d.msgs) : k = d.acked + i
    BY <1>5, <1>7
  <2>3. a.waitq[i].start_seq = At(d, k) /\ a.waitq[i].length = d.msgs[k].size
    BY <2>1, <2>2, EntryType
  <2>4. At(d, k + 1) = At(d, k) + d.msgs[k].size
    BY AtFacts
  <2>5. QED
    BY <2>2, <2>3, <2>4
<1>9. n = 0 => a.highest_ack = a.maxseq
  BY <1>5, <1>6, <1>7
<1>10. n > 0 => /\ a.waitq[1].start_seq = a.highest_ack
                /\ a.waitq[n].start_seq + a.waitq[n].length = a.maxseq
  <2> SUFFICES ASSUME n > 0
               PROVE  /\ a.waitq[1].start_seq = a.highest_ack
                      /\ a.waitq[n].start_seq + a.waitq[n].length = a.maxseq
    OBVIOUS
  <2>1. 1 \in 1..n /\ n \in 1..n /\ d.acked + n + 1 = d.sent + 1
    BY <1>5, <1>7
  <2> HIDE DEF n
  <2>2. QED
    BY <1>6, <1>8, <2>1
<1>11. \A i \in 2..n : a.waitq[i].start_seq = a.waitq[i-1].start_seq + a.waitq[i-1].length
  <2> SUFFICES ASSUME NEW i \in 2..n
               PROVE  a.waitq[i].start_seq = a.waitq[i-1].start_seq + a.waitq[i-1].length
    OBVIOUS
  <2>1. i \in 1..n /\ i - 1 \in 1..n /\ d.acked + (i - 1) + 1 = d.acked + i
    BY <1>5, <1>7
  <2> HIDE DEF n
  <2>2. QED
    BY <1>8, <2>1
<1>12. a.highest_ack <= agent[Peer(e)].rcv_nxt
  <2>1. d.acked + 1 \in 1..(Len(d.msgs) + 1) /\ d.got + 1 \in 1..(Len(d.msgs) + 1) /\ d.acked + 1 <= d.got + 1
    BY <1>5, SMTT(60)
  <2>2. QED
    BY <1>4, <1>6, <2>1, AtInjective
<1>13. QED
  BY <1>9, <1>10, <1>11, <1>12 DEF a

(* The bytes of the queued messages behind the hole. *)
Span(x) == x.start_seq .. (x.start_seq + x.data.size - 1)

Behind(a) == {j \in DOMAIN a.recvq : a.recvq[j].start_seq >= a.rcv_nxt}

(* The bytes in TCP's reassembly queue are those of the queued messages    *)
(* behind the hole.                                                        *)
LEMMA SpansOfQueued ==
    ASSUME NEW a \in Agent, NEW d \in Flow, a.rcv_nxt = At(d, d.got + 1), Queued(a, d)
    PROVE  a.rq = UNION {Span(a.recvq[i]) : i \in Behind(a)}
<1>1. /\ d.sent \in Nat /\ d.got \in Nat /\ d.got <= d.sent /\ Len(d.msgs) \in Nat
      /\ d.sent <= Len(d.msgs)
  BY FlowType
<1>2. a.recvq \in Seq([data : Message, start_seq : Nat])
  BY DEF Agent
<1>3. ASSUME NEW i \in 1..Len(a.recvq), NEW j \in 1..d.sent, a.recvq[i] = Tile(d, j)
      PROVE  /\ Span(a.recvq[i]) = {y \in Nat : At(d, j) <= y /\ y < At(d, j + 1)}
             /\ i \in Behind(a) <=> j \in (d.got + 1)..d.sent
  <2>1. a.recvq[i].start_seq = At(d, j) /\ a.recvq[i].data = d.msgs[j]
    BY <1>3 DEF Tile
  <2>2. j \in 1..Len(d.msgs) /\ j \in 1..(Len(d.msgs) + 1) /\ d.got + 1 \in 1..(Len(d.msgs) + 1)
        /\ j + 1 \in 1..(Len(d.msgs) + 1)
    BY <1>1
  <2>3. /\ At(d, j) \in Nat /\ At(d, j + 1) = At(d, j) + d.msgs[j].size /\ d.msgs[j].size \in 1..MaxSeg
        /\ At(d, j + 1) \in Nat /\ At(d, d.got + 1) \in Nat
    BY <2>2, AtFacts
  <2>4. PICK x \in Nat, z \in Nat, n \in 1..MaxSeg : x = At(d, j) /\ z = At(d, j + 1) /\ n = d.msgs[j].size
    BY <2>3
  <2>5. n \in Nat /\ z = x + n
    BY <2>3, <2>4, SegmentMultiples
  <2>6. Span(a.recvq[i]) = {y \in Nat : At(d, j) <= y /\ y < At(d, j + 1)}
    <3>1. Span(a.recvq[i]) = x .. (x + n - 1)
      BY <2>1, <2>4 DEF Span
    <3>2. x .. (x + n - 1) = {y \in Nat : x <= y /\ y < z}
      BY <2>4, <2>5, SMTT(60)
    <3>3. QED
      BY <2>4, <3>1, <3>2
  <2>7. i \in Behind(a) <=> At(d, j) >= At(d, d.got + 1)
    BY <1>2, <2>1 DEF Behind
  <2>8. At(d, j) >= At(d, d.got + 1) <=> d.got + 1 <= j
    BY <2>2, <2>3, AtInjective
  <2>9. QED
    BY <1>1, <2>6, <2>7, <2>8
<1>4. ASSUME NEW y \in a.rq PROVE \E i \in Behind(a) : y \in Span(a.recvq[i])
  <2>1. PICK j \in (d.got + 1)..d.sent : Has(a, d, j) /\ At(d, j) <= y /\ y < At(d, j + 1) /\ y \in Nat
    BY DEF Queued
  <2>2. PICK i \in 1..Len(a.recvq) : a.recvq[i] = Tile(d, j)
    BY <2>1 DEF Has
  <2>3. j \in 1..d.sent
    BY <1>1
  <2>4. QED
    BY <1>3, <2>1, <2>2, <2>3
<1>5. ASSUME NEW i \in Behind(a), NEW y \in Span(a.recvq[i]) PROVE y \in a.rq
  <2>1. i \in 1..Len(a.recvq)
    BY <1>2 DEF Behind
  <2>2. PICK j \in 1..d.sent : a.recvq[i] = Tile(d, j)
    BY <2>1 DEF Queued
  <2>3. y \in Nat /\ At(d, j) <= y /\ y < At(d, j + 1) /\ j \in (d.got + 1)..d.sent
    BY <1>3, <2>1, <2>2
  <2>4. Has(a, d, j)
    BY <2>1, <2>2 DEF Has
  <2>5. QED
    BY <2>3, <2>4 DEF Queued
<1>6. QED
  BY <1>4, <1>5

(* The receive queue and TCP's reassembly queue agree.                     *)
LEMMA SpansInInv == Inv => RecvqMatchesTcp
<1> SUFFICES ASSUME Inv PROVE RecvqMatchesTcp
  OBVIOUS
<1>1. PICK c \in Flow, s \in Flow : Connection(c, s)
  BY DEF Inv
<1>2. TypeOK
  BY DEF Inv
<1>3. ASSUME NEW e \in Ends
      PROVE  agent[e].rq = UNION {Span(agent[e].recvq[i]) : i \in Behind(agent[e])}
  <2>1. CASE e = "server"
    <3>1. agent[e].recvq = <<>> /\ agent[e].rq = {}
      BY <1>1, <2>1 DEF Connection, Phase
    <3>2. Behind(agent[e]) = {}
      BY <3>1 DEF Behind
    <3>3. QED
      BY <3>1, <3>2
  <2>2. CASE e = "client"
    <3> DEFINE a == agent["client"]
    <3>1. a \in Agent /\ a.rcv_nxt = At(s, s.got + 1)
      BY <1>1, <1>2 DEF Connection, Link, TypeOK, Ends
    <3>2. Queued(a, s) \/ OldCopies(a, s, asked)
      BY <1>1 DEF Connection, Phase, Idle, Asking, Answering
    <3> HIDE DEF a
    <3>3. CASE OldCopies(a, s, asked)
      <4>1. a.rcv_nxt = s.base /\ s.base \in Nat
        <5>1. s.got + 1 = 1
          BY <3>3 DEF OldCopies
        <5>2. At(s, 1) = s.base /\ s.base \in Nat
          BY AtFacts, FlowType
        <5>3. QED
          BY <3>1, <5>1, <5>2
      <4>2. a.recvq \in Seq([data : Message, start_seq : Nat])
        BY <3>1 DEF Agent
      <4>3. \A j \in 1..Len(a.recvq) : a.recvq[j].start_seq < s.base /\ a.recvq[j].start_seq \in Nat
        <5> SUFFICES ASSUME NEW j \in 1..Len(a.recvq)
                     PROVE  a.recvq[j].start_seq < s.base /\ a.recvq[j].start_seq \in Nat
          OBVIOUS
        <5>1. a.recvq[j].start_seq < s.base
          BY <3>3 DEF OldCopies
        <5>2. a.recvq # <<>>
          OBVIOUS
        <5>3. a.recvq[j].start_seq \in Nat
          BY <3>1, <5>2, EntriesType
        <5>4. QED
          BY <5>1, <5>3
      <4>4. Behind(a) = {}
        BY <4>1, <4>2, <4>3, SMTT(60) DEF Behind
      <4>5. a.rq = {}
        BY <3>3 DEF OldCopies
      <4>6. QED
        BY <2>2, <4>4, <4>5 DEF a
    <3>4. CASE Queued(a, s)
      BY <2>2, <3>1, <3>4, SpansOfQueued DEF a
    <3>5. QED
      BY <3>2, <3>3, <3>4
  <2>3. QED
    BY <2>1, <2>2 DEF Ends
<1>4. QED
  BY <1>3 DEF RecvqMatchesTcp, Span, Behind

(* Every queue, counter and packet of the two agents keeps its type, for   *)
(* any bounds.                                                             *)
THEOREM TypeCorrect == Spec => []TypeOK
<1>1. Inv => TypeOK
  BY DEF Inv
<1>2. QED
  BY <1>1, ConnectionInvariant, PTL

(* The agents never meet one of the inconsistencies that end the           *)
(* simulation: getRetransmitData finds the message it needs, newly sent    *)
(* bytes have one, removeAckedPacket sees entries in order, and reass      *)
(* finds the message of a filled hole in front of the receive queue.       *)
THEOREM NeverFatal == Spec => []NoFatal
<1>1. Inv => NoFatal
  BY DEF Inv, NoFatal
<1>2. QED
  BY <1>1, ConnectionInvariant, PTL

(* Every segment on the network carries exactly one message of its own     *)
(* length, although foutput cuts segments from a byte count that knows no  *)
(* messages.                                                               *)
THEOREM MessagesStayWhole == Spec => []WholeMessages
BY WholeInInv, ConnectionInvariant, PTL

(* The messages that wait for an acknowledgement tile the bytes from       *)
(* highest_ack_ to maxseq_, and everything acknowledged has been received, *)
(* which getRetransmitData and removeAckedPacket rely on.                  *)
THEOREM WaitingQueueTiles == Spec => []WaitingTiled
BY TiledInInv, ConnectionInvariant, PTL

(* DHttpAgent's receive queue and FullTcp's reassembly queue, which recv   *)
(* updates separately, hold the same bytes.                                *)
THEOREM ReceiveQueueMatchesTcp == Spec => []RecvqMatchesTcp
BY SpansInInv, ConnectionInvariant, PTL

-----------------------------------------------------------------------------
(* The refinement: what the streams of the two agents contain.             *)

(* The messages of a set of queue entries, in the order of their bytes.    *)
OrderedData(R) ==
    LET starts == {x.start_seq : x \in R}
        at(n)  == CHOOSE x \in R : x.start_seq = n
    IN  [k \in 1..Cardinality(starts) |-> at(Nth(starts, k)).data]

Increasing(x, n) == \A i, j \in 1..n : i < j => x[i].start_seq < x[j].start_seq

(* x lists the entries of R in the order of their bytes.                   *)
Lists(x, n, R) == /\ R = {x[k] : k \in 1..n}
                  /\ \A k \in 1..n : x[k].start_seq \in Nat
                  /\ Increasing(x, n)

(* The messages of entries given in order.                                 *)
LEMMA OrderedDataOf ==
    ASSUME NEW n \in Nat, NEW x, NEW R, Lists(x, n, R)
    PROVE  OrderedData(R) = [k \in 1..n |-> x[k].data]
<1> DEFINE starts == {y.start_seq : y \in R}
           at(m) == CHOOSE y \in R : y.start_seq = m
           f == [k \in 1..n |-> x[k].start_seq]
<1>0. R = {x[k] : k \in 1..n} /\ (\A k \in 1..n : x[k].start_seq \in Nat) /\ Increasing(x, n)
  BY DEF Lists
<1>1. starts \subseteq Nat /\ f \in [1..n -> starts]
  BY <1>0
<1>2. \A i, j \in 1..n : i < j => f[i] < f[j]
  BY <1>0 DEF Increasing
<1>3. \A z \in starts : \E i \in 1..n : f[i] = z
  BY <1>0
<1> HIDE DEF starts
<1>4. Cardinality(starts) = n /\ \A k \in 1..n : Nth(starts, k) = f[k]
  <2> HIDE DEF f
  <2>1. QED
    BY <1>1, <1>2, <1>3, NthOf
<1>5. ASSUME NEW k \in 1..n PROVE at(Nth(starts, k)) = x[k]
  <2>1. Nth(starts, k) = x[k].start_seq
    BY <1>4
  <2>2. ASSUME NEW y \in R, y.start_seq = x[k].start_seq PROVE y = x[k]
    <3>1. PICK j \in 1..n : y = x[j]
      BY <1>0
    <3>2. ~(j < k) /\ ~(k < j)
      BY <1>0, <2>2, <3>1 DEF Increasing
    <3>3. QED
      BY <3>1, <3>2
  <2>3. x[k] \in R
    BY <1>0
  <2>4. QED
    BY <2>1, <2>2, <2>3
<1>6. OrderedData(R) = [k \in 1..Cardinality(starts) |-> at(Nth(starts, k)).data]
  BY DEF OrderedData, starts
<1>7. QED
  BY <1>4, <1>5, <1>6

(* What is behind the first k messages of m. *)
Rest(m, k) == [i \in 1..(Len(m) - k) |-> m[k + i]]

(* What Rest returns.                                                      *)
LEMMA RestFacts ==
    ASSUME NEW S, NEW m \in Seq(S), NEW k \in 0..Len(m)
    PROVE  /\ Rest(m, k) \in Seq(S) /\ Len(Rest(m, k)) = Len(m) - k
           /\ k = 0 => Rest(m, k) = m
           /\ k = Len(m) => Rest(m, k) = <<>>
           /\ k < Len(m) => /\ Rest(m, k) # <<>>
                            /\ Head(Rest(m, k)) = m[k + 1]
                            /\ Tail(Rest(m, k)) = Rest(m, k + 1)
<1>1. Len(m) \in Nat /\ Len(m) - k \in Nat /\ m = [i \in 1..Len(m) |-> m[i]]
  OBVIOUS
<1>2. \A i \in 1..(Len(m) - k) : m[k + i] \in S
  BY <1>1
<1>3. Rest(m, k) \in Seq(S) /\ Len(Rest(m, k)) = Len(m) - k
  BY <1>1, <1>2, SeqOf DEF Rest
<1>4. k = 0 => Rest(m, k) = m
  BY <1>1 DEF Rest
<1>5. k = Len(m) => Rest(m, k) = <<>>
  BY <1>1, <1>3
<1>6. ASSUME k < Len(m)
      PROVE  /\ Rest(m, k) # <<>>
             /\ Head(Rest(m, k)) = m[k + 1]
             /\ Tail(Rest(m, k)) = Rest(m, k + 1)
  <2>1. Len(m) - k > 0 /\ Rest(m, k) # <<>> /\ 1 \in 1..(Len(m) - k)
    BY <1>1, <1>3, <1>6
  <2>2. Head(Rest(m, k)) = m[k + 1]
    <3>1. Head(Rest(m, k)) = Rest(m, k)[1]
      BY <1>3, <2>1
    <3>2. QED
      BY <2>1, <3>1 DEF Rest
  <2>3. Tail(Rest(m, k)) = [j \in 1..(Len(m) - k - 1) |-> Rest(m, k)[j + 1]]
    BY <1>3, <2>1, TailFunction
  <2>4. \A j \in 1..(Len(m) - k - 1) : Rest(m, k)[j + 1] = m[(k + 1) + j]
    <3> SUFFICES ASSUME NEW j \in 1..(Len(m) - k - 1)
                 PROVE  Rest(m, k)[j + 1] = m[(k + 1) + j]
      OBVIOUS
    <3>1. j + 1 \in 1..(Len(m) - k) /\ k + (j + 1) = (k + 1) + j
      BY <1>1
    <3>2. QED
      BY <3>1 DEF Rest
  <2>5. Len(m) - k - 1 = Len(m) - (k + 1)
    BY <1>1
  <2>6. QED
    BY <2>1, <2>2, <2>3, <2>4, <2>5, SMTT(60) DEF Rest
<1>7. QED
  BY <1>3, <1>4, <1>5, <1>6

(* The stream from the agent b to the agent a. *)
ReadyOf(a) == {a.recvq[i] : i \in {j \in DOMAIN a.recvq : a.recvq[j].start_seq < a.rcv_nxt}}

AwayOf(a, b) == {b.waitq[i] : i \in {j \in DOMAIN b.waitq : b.waitq[j].start_seq >= a.rcv_nxt}}

Content(a, b) == OrderedData(ReadyOf(a) \cup AwayOf(a, b)) \o b.appq

(* The stream towards an end, in terms of its agent and the peer's.        *)
LEMMA StreamContent == \A e : Stream(e) = Content(agent[e], agent[Peer(e)])
BY DEF Stream, Content, OrderedData, ReadyOf, AwayOf

(* The messages sent and not received are those behind the receiver's      *)
(* position.                                                               *)
LEMMA AwayEntries ==
    ASSUME NEW a, NEW b \in Agent, NEW d \in Flow, Sender(b, d), a.rcv_nxt = At(d, d.got + 1)
    PROVE  AwayOf(a, b) = {Entry(d, j) : j \in (d.got + 1)..d.sent}
<1>1. /\ d.acked \in Nat /\ d.got \in Nat /\ d.sent \in Nat /\ Len(d.msgs) \in Nat
      /\ d.acked <= d.got /\ d.got <= d.sent /\ d.sent <= Len(d.msgs)
  BY FlowType
<1>2. b.waitq = [i \in 1..(d.sent - d.acked) |-> Entry(d, d.acked + i)]
  BY DEF Sender
<1>3. DOMAIN b.waitq = 1..(d.sent - d.acked)
  BY <1>2
<1>4. ASSUME NEW j \in 1..d.sent
      PROVE  Entry(d, j).start_seq >= a.rcv_nxt <=> j >= d.got + 1
  <2>1. j \in 1..Len(d.msgs) /\ j \in 1..(Len(d.msgs) + 1) /\ d.got + 1 \in 1..(Len(d.msgs) + 1)
    BY <1>1
  <2>2. At(d, j) \in Nat /\ At(d, d.got + 1) \in Nat /\ Entry(d, j).start_seq = At(d, j)
    BY <2>1, AtFacts, EntryType
  <2>3. At(d, d.got + 1) <= At(d, j) <=> d.got + 1 <= j
    BY <2>1, AtInjective
  <2>4. QED
    BY <1>1, <2>2, <2>3
<1>5. ASSUME NEW x \in AwayOf(a, b) PROVE x \in {Entry(d, j) : j \in (d.got + 1)..d.sent}
  <2>1. PICK i \in 1..(d.sent - d.acked) : x = b.waitq[i] /\ b.waitq[i].start_seq >= a.rcv_nxt
    BY <1>3 DEF AwayOf
  <2>2. PICK j \in 1..d.sent : j = d.acked + i
    BY <1>1
  <2>3. x = Entry(d, j) /\ j >= d.got + 1
    BY <1>2, <1>4, <2>1, <2>2
  <2>4. QED
    BY <1>1, <2>3
<1>6. ASSUME NEW j \in (d.got + 1)..d.sent PROVE Entry(d, j) \in AwayOf(a, b)
  <2>1. j \in 1..d.sent /\ j >= d.got + 1
    BY <1>1
  <2>2. PICK i \in 1..(d.sent - d.acked) : d.acked + i = j
    <3>1. j - d.acked \in 1..(d.sent - d.acked) /\ d.acked + (j - d.acked) = j
      BY <1>1
    <3>2. QED
      BY <3>1
  <2>3. b.waitq[i] = Entry(d, j) /\ b.waitq[i].start_seq >= a.rcv_nxt
    BY <1>2, <1>4, <2>1, <2>2
  <2>4. QED
    BY <1>3, <2>3 DEF AwayOf
<1>7. QED
  BY <1>5, <1>6

Slice(f, m, u, v) == f = [k \in 1..(v - u) |-> m[u + k]]

(* Adjacent parts of a batch.                                              *)
LEMMA SpliceRest ==
    ASSUME NEW S, NEW m \in Seq(S), NEW u \in Nat, NEW v \in Nat, u <= v, v <= Len(m),
           NEW f, Slice(f, m, u, v), NEW g, Slice(g, m, v, Len(m))
    PROVE  f \o g = Rest(m, u)
<1>1. Len(m) \in Nat /\ v - u \in Nat /\ Len(m) - v \in Nat /\ u \in 0..Len(m)
  OBVIOUS
<1>2. f \in Seq(S) /\ Len(f) = v - u /\ \A k \in 1..(v - u) : f[k] = m[u + k]
  <2>1. \A k \in 1..(v - u) : m[u + k] \in S
    BY <1>1
  <2>2. QED
    BY <1>1, <2>1, SeqOf DEF Slice
<1>3. g \in Seq(S) /\ Len(g) = Len(m) - v /\ \A k \in 1..(Len(m) - v) : g[k] = m[v + k]
  <2>1. \A i \in 1..(Len(m) - v) : m[v + i] \in S
    BY <1>1
  <2>2. QED
    BY <1>1, <2>1, SeqOf DEF Slice
<1>4. Rest(m, u) \in Seq(S) /\ Len(Rest(m, u)) = Len(m) - u
  BY <1>1, RestFacts
<1>5. f \o g \in Seq(S) /\ Len(f \o g) = Len(m) - u
  BY <1>1, <1>2, <1>3, ConcatProperties
<1>6. ASSUME NEW i \in 1..(Len(m) - u) PROVE (f \o g)[i] = Rest(m, u)[i]
  <2>1. Rest(m, u)[i] = m[u + i]
    BY DEF Rest
  <2>2. CASE i <= v - u
    <3>1. (f \o g)[i] = f[i] /\ i \in 1..(v - u)
      BY <1>1, <1>2, <1>3, <1>5, <2>2, ConcatProperties
    <3>2. QED
      BY <1>2, <2>1, <3>1
  <2>3. CASE ~(i <= v - u)
    <3>1. PICK j \in 1..(Len(m) - v) : j = i - (v - u)
      BY <1>1, <2>3
    <3>2. (f \o g)[i] = g[j]
      BY <1>1, <1>2, <1>3, <1>5, <2>3, <3>1, ConcatProperties
    <3>3. v + j = u + i
      BY <1>1, <3>1
    <3>4. g[j] = m[v + j]
      BY <1>3
    <3>5. QED
      BY <2>1, <3>2, <3>3, <3>4
  <2>4. QED
    BY <2>2, <2>3
<1>7. QED
  BY <1>4, <1>5, <1>6, SeqEqual

(* The same, with a message of the batch before in front.                  *)
LEMMA SplicePushed ==
    ASSUME NEW S, NEW m \in Seq(S), NEW z \in S, NEW v \in 0..Len(m),
           NEW f \in Seq(S), Len(f) = v + 1, f[1] = z, \A k \in 2..(v + 1) : f[k] = m[k - 1],
           NEW g, Slice(g, m, v, Len(m))
    PROVE  f \o g = <<z>> \o m
<1>1. Len(m) \in Nat /\ v \in Nat /\ v <= Len(m)
  OBVIOUS
<1>2. g \in Seq(S) /\ Len(g) = Len(m) - v /\ \A k \in 1..(Len(m) - v) : g[k] = m[v + k]
  <2>1. \A i \in 1..(Len(m) - v) : m[v + i] \in S
    BY <1>1
  <2>2. Len(m) - v \in Nat
    BY <1>1
  <2>3. QED
    BY <2>1, <2>2, SeqOf DEF Slice
<1>3. PICK q : q = <<z>>
  OBVIOUS
<1>4. q \in Seq(S) /\ Len(q) = 1 /\ q[1] = z
  BY <1>3
<1>5. /\ f \o g \in Seq(S) /\ Len(f \o g) = Len(m) + 1
      /\ q \o m \in Seq(S) /\ Len(q \o m) = Len(m) + 1
  <2>1. Len(f \o g) = Len(f) + Len(g) /\ f \o g \in Seq(S)
    BY <1>2, ConcatProperties
  <2>2. Len(q \o m) = Len(q) + Len(m) /\ q \o m \in Seq(S)
    BY <1>4, ConcatProperties
  <2>3. QED
    BY <1>1, <1>2, <1>4, <2>1, <2>2
<1>6. ASSUME NEW i \in 1..(Len(m) + 1) PROVE (f \o g)[i] = (q \o m)[i]
  <2>1. (q \o m)[i] = IF i <= 1 THEN q[i] ELSE m[i - 1]
    <3>1. i \in 1..(Len(q) + Len(m))
      BY <1>1, <1>4
    <3>2. (q \o m)[i] = IF i <= Len(q) THEN q[i] ELSE m[i - Len(q)]
      BY <1>4, <3>1, ConcatProperties
    <3>3. QED
      BY <1>4, <3>2
  <2>2. (f \o g)[i] = IF i <= v + 1 THEN f[i] ELSE g[i - (v + 1)]
    <3>1. i \in 1..(Len(f) + Len(g))
      BY <1>1, <1>2
    <3>2. (f \o g)[i] = IF i <= Len(f) THEN f[i] ELSE g[i - Len(f)]
      BY <1>2, <3>1, ConcatProperties
    <3>3. QED
      BY <3>2
  <2>3. CASE i = 1
    BY <1>1, <1>4, <2>1, <2>2, <2>3
  <2>4. CASE i # 1 /\ i <= v + 1
    <3>1. i \in 2..(v + 1) /\ ~(i <= 1)
      BY <1>1, <2>4
    <3>2. QED
      BY <2>1, <2>2, <2>4, <3>1
  <2>5. CASE i # 1 /\ ~(i <= v + 1)
    <3>1. PICK j \in 1..(Len(m) - v) : j = i - (v + 1)
      BY <1>1, <2>5
    <3>2. v + j = i - 1 /\ ~(i <= 1)
      BY <1>1, <2>5, <3>1
    <3>3. (f \o g)[i] = g[j]
      BY <2>2, <2>5, <3>1
    <3>4. g[j] = m[v + j]
      BY <1>2
    <3>5. QED
      BY <2>1, <3>2, <3>3, <3>4
  <2>6. QED
    BY <2>3, <2>4, <2>5
<1>7. QED
  BY <1>3, <1>5, <1>6, SeqEqual

(* The messages in a's queue that are being handed over are h .. d.got.    *)
LEMMA ContentTiles ==
    ASSUME NEW a, NEW b \in Agent, NEW d \in Flow, Sender(b, d), a.rcv_nxt = At(d, d.got + 1),
           NEW h \in 1..(d.got + 1), ReadyOf(a) = {Tile(d, j) : j \in h..d.got}
    PROVE  Content(a, b) = Rest(d.msgs, h - 1)
<1>1. /\ d.got \in Nat /\ d.sent \in Nat /\ Len(d.msgs) \in Nat
      /\ d.got <= d.sent /\ d.sent <= Len(d.msgs) /\ d.msgs \in Seq(Message)
  BY FlowType
<1>2. PICK u \in Nat : u = h - 1 /\ u <= d.got /\ u + 1 = h /\ u <= d.sent
  BY <1>1
<1>3. PICK n \in Nat : n = d.sent - u
  BY <1>1, <1>2
<1>4. PICK x : x = [k \in 1..n |-> IF u + k <= d.got THEN Tile(d, u + k) ELSE Entry(d, u + k)]
  OBVIOUS
<1>5. ASSUME NEW k \in 1..n
      PROVE  x[k].start_seq = At(d, u + k) /\ x[k].data = d.msgs[u + k]
  BY <1>4 DEF Tile, Entry
<1>6. PICK R : R = ReadyOf(a) \cup AwayOf(a, b)
  OBVIOUS
<1>7. R = {x[k] : k \in 1..n}
  <2>1. AwayOf(a, b) = {Entry(d, j) : j \in (d.got + 1)..d.sent}
    BY AwayEntries
  <2>2. ASSUME NEW y \in R PROVE \E k \in 1..n : y = x[k]
    <3>1. CASE y \in ReadyOf(a)
      <4>1. PICK j \in h..d.got : y = Tile(d, j)
        BY <3>1
      <4>2. PICK k \in 1..n : u + k = j
        <5>1. j - u \in 1..n /\ u + (j - u) = j
          BY <1>1, <1>2, <1>3
        <5>2. QED
          BY <5>1
      <4>3. x[k] = Tile(d, j)
        <5>1. j = u + k /\ j <= d.got
          BY <1>1, <4>2
        <5>2. QED
          BY <1>4, <5>1
      <4>4. QED
        BY <4>1, <4>3
    <3>2. CASE y \in AwayOf(a, b)
      <4>1. PICK j \in (d.got + 1)..d.sent : y = Entry(d, j)
        BY <2>1, <3>2
      <4>2. PICK k \in 1..n : u + k = j
        <5>1. j - u \in 1..n /\ u + (j - u) = j
          BY <1>1, <1>2, <1>3
        <5>2. QED
          BY <5>1
      <4>3. x[k] = Entry(d, j)
        <5>1. j = u + k /\ ~(j <= d.got)
          BY <1>1, <4>2
        <5>2. QED
          BY <1>4, <5>1
      <4>4. QED
        BY <4>1, <4>3
    <3>3. QED
      BY <1>6, <3>1, <3>2
  <2>3. ASSUME NEW k \in 1..n PROVE x[k] \in R
    <3>1. PICK j \in h..d.sent : j = u + k
      BY <1>1, <1>2, <1>3
    <3>2. CASE j <= d.got
      <4>1. x[k] = Tile(d, j) /\ j \in h..d.got
        BY <1>1, <1>4, <3>1, <3>2
      <4>2. QED
        BY <1>6, <4>1
    <3>3. CASE ~(j <= d.got)
      <4>1. x[k] = Entry(d, j) /\ j \in (d.got + 1)..d.sent
        BY <1>1, <1>4, <3>1, <3>3
      <4>2. QED
        BY <1>6, <2>1, <4>1
    <3>4. QED
      BY <3>2, <3>3
  <2>4. QED
    BY <2>2, <2>3
<1>8. \A k \in 1..n : u + k \in 1..(Len(d.msgs) + 1)
  BY <1>1, <1>2, <1>3
<1>9. \A k \in 1..n : x[k].start_seq \in Nat
  BY <1>5, <1>8, AtFacts
<1>10. Increasing(x, n)
  <2> SUFFICES ASSUME NEW i \in 1..n, NEW j \in 1..n, i < j
               PROVE  x[i].start_seq < x[j].start_seq
    BY DEF Increasing
  <2>1. u + i < u + j /\ u + i \in 1..(Len(d.msgs) + 1) /\ u + j \in 1..(Len(d.msgs) + 1)
    BY <1>2, <1>8
  <2>2. At(d, u + i) < At(d, u + j)
    BY <2>1, AtInjective
  <2>3. QED
    BY <1>5, <2>2
<1>11. OrderedData(R) = [k \in 1..(d.sent - u) |-> d.msgs[u + k]]
  <2>1. Lists(x, n, R)
    BY <1>7, <1>9, <1>10 DEF Lists
  <2>2. OrderedData(R) = [k \in 1..n |-> x[k].data]
    BY <2>1, OrderedDataOf
  <2>3. QED
    BY <1>3, <1>5, <2>2
<1>12. b.appq = [i \in 1..(Len(d.msgs) - d.sent) |-> d.msgs[d.sent + i]]
  BY DEF Sender
<1>13. OrderedData(R) \o b.appq = Rest(d.msgs, u)
  <2>1. Slice(OrderedData(R), d.msgs, u, d.sent) /\ Slice(b.appq, d.msgs, d.sent, Len(d.msgs))
    BY <1>11, <1>12 DEF Slice
  <2>2. QED
    BY <1>1, <1>2, <2>1, SpliceRest, SMTT(60)
<1>14. QED
  BY <1>2, <1>6, <1>13 DEF Content

(* A message of the batch before is still being handed over. *)
LEMMA ContentOld ==
    ASSUME NEW a, NEW b \in Agent, NEW d \in Flow, Sender(b, d), a.rcv_nxt = At(d, d.got + 1),
           d.got = 0, NEW x0, ReadyOf(a) = {x0}, x0.start_seq \in Nat, x0.start_seq < d.base,
           x0.data \in Message
    PROVE  Content(a, b) = <<x0.data>> \o d.msgs
<1>1. /\ d.sent \in Nat /\ Len(d.msgs) \in Nat /\ d.sent <= Len(d.msgs) /\ d.msgs \in Seq(Message)
  BY FlowType
<1>2. PICK n \in Nat : n = d.sent + 1
  BY <1>1
<1>3. PICK x : x = [k \in 1..n |-> IF k = 1 THEN x0 ELSE Entry(d, k - 1)]
  OBVIOUS
<1>4. PICK R : R = ReadyOf(a) \cup AwayOf(a, b)
  OBVIOUS
<1>5. x[1] = x0 /\ 1 \in 1..n
  BY <1>1, <1>2, <1>3
<1>6. ASSUME NEW k \in 2..n
      PROVE  /\ x[k] = Entry(d, k - 1) /\ x[k].start_seq = At(d, k - 1) /\ x[k].data = d.msgs[k - 1]
             /\ k - 1 \in 1..d.sent /\ k - 1 \in 1..(Len(d.msgs) + 1)
  BY <1>1, <1>2, <1>3 DEF Entry
<1>7. R = {x[k] : k \in 1..n}
  <2>1. AwayOf(a, b) = {Entry(d, j) : j \in 1..d.sent}
    <3>1. AwayOf(a, b) = {Entry(d, j) : j \in (d.got + 1)..d.sent}
      BY AwayEntries
    <3>2. QED
      BY <3>1
  <2>2. ASSUME NEW y \in R PROVE \E k \in 1..n : y = x[k]
    <3>1. CASE y \in ReadyOf(a)
      BY <1>5, <3>1
    <3>2. CASE y \in AwayOf(a, b)
      <4>1. PICK j \in 1..d.sent : y = Entry(d, j)
        BY <2>1, <3>2
      <4>2. PICK k \in 2..n : k - 1 = j
        <5>1. j + 1 \in 2..n /\ (j + 1) - 1 = j
          BY <1>1, <1>2
        <5>2. QED
          BY <5>1
      <4>3. x[k] = Entry(d, j) /\ k \in 1..n
        BY <1>6, <4>2
      <4>4. QED
        BY <4>1, <4>3
    <3>3. QED
      BY <1>4, <3>1, <3>2
  <2>3. ASSUME NEW k \in 1..n PROVE x[k] \in R
    <3>1. CASE k = 1
      BY <1>4, <1>5, <3>1
    <3>2. CASE k # 1
      <4>1. k \in 2..n
        BY <3>2
      <4>2. PICK j \in 1..d.sent : j = k - 1
        BY <1>6, <4>1
      <4>3. x[k] = Entry(d, j)
        BY <1>6, <4>1, <4>2
      <4>4. QED
        BY <1>4, <2>1, <4>3
    <3>3. QED
      BY <3>1, <3>2
  <2>4. QED
    BY <2>2, <2>3
<1>8. \A k \in 1..n : x[k].start_seq \in Nat
  <2> SUFFICES ASSUME NEW k \in 1..n PROVE x[k].start_seq \in Nat
    OBVIOUS
  <2>1. CASE k = 1
    BY <1>5, <2>1
  <2>2. CASE k # 1
    <3>1. k \in 2..n
      BY <2>2
    <3>2. PICK j \in 1..(Len(d.msgs) + 1) : j = k - 1
      BY <1>6, <3>1
    <3>3. At(d, j) \in Nat
      BY AtFacts
    <3>4. QED
      BY <1>6, <3>1, <3>2, <3>3
  <2>3. QED
    BY <2>1, <2>2
<1>9. Increasing(x, n)
  <2> SUFFICES ASSUME NEW i \in 1..n, NEW j \in 1..n, i < j
               PROVE  x[i].start_seq < x[j].start_seq
    BY DEF Increasing
  <2>1. j \in 2..n
    OBVIOUS
  <2>2. PICK l \in 1..(Len(d.msgs) + 1) : l = j - 1 /\ x[j].start_seq = At(d, l)
    BY <1>6, <2>1
  <2>3. CASE i = 1
    <3>1. At(d, 1) = d.base /\ 1 \in 1..(Len(d.msgs) + 1) /\ 1 <= l
      BY <1>1, AtFacts
    <3>2. d.base <= At(d, l)
      BY <3>1, AtInjective
    <3>3. At(d, l) \in Nat /\ d.base \in Nat
      BY AtFacts, FlowType
    <3>4. QED
      BY <1>5, <2>2, <2>3, <3>2, <3>3
  <2>4. CASE i # 1
    <3>1. i \in 2..n
      BY <2>4
    <3>2. PICK h \in 1..(Len(d.msgs) + 1) : h = i - 1 /\ x[i].start_seq = At(d, h)
      BY <1>6, <3>1
    <3>3. h < l
      BY <2>2, <3>2
    <3>4. QED
      BY <2>2, <3>2, <3>3, AtInjective
  <2>5. QED
    BY <2>3, <2>4
<1>10. PICK f : f = [k \in 1..n |-> x[k].data]
  OBVIOUS
<1>11. OrderedData(R) = f
  <2>1. Lists(x, n, R)
    BY <1>7, <1>8, <1>9 DEF Lists
  <2>2. OrderedData(R) = [k \in 1..n |-> x[k].data]
    BY <2>1, OrderedDataOf
  <2>3. QED
    BY <1>10, <2>2
<1>12. f[1] = x0.data /\ \A k \in 2..n : f[k] = d.msgs[k - 1]
  BY <1>2, <1>5, <1>6, <1>10
<1>13. PICK g : g = b.appq
  OBVIOUS
<1>14. g = [i \in 1..(Len(d.msgs) - d.sent) |-> d.msgs[d.sent + i]] /\ g \in Seq(Message)
  BY <1>13 DEF Sender, Agent
<1>15. Len(g) = Len(d.msgs) - d.sent
  BY <1>1, <1>14
<1>16. f \in Seq(Message) /\ Len(f) = n
  <2>1. \A k \in 1..n : x[k].data \in Message
    <3> SUFFICES ASSUME NEW k \in 1..n PROVE x[k].data \in Message
      OBVIOUS
    <3>1. CASE k = 1
      BY <1>5, <3>1
    <3>2. CASE k # 1
      <4>1. k \in 2..n
        BY <3>2
      <4>2. PICK j \in 1..Len(d.msgs) : j = k - 1
        BY <1>1, <1>6, <4>1
      <4>3. d.msgs[j] \in Message
        BY <1>1
      <4>4. QED
        BY <1>6, <4>1, <4>2, <4>3
    <3>3. QED
      BY <3>1, <3>2
  <2>2. QED
    BY <1>10, <2>1, SeqOf
<1>17. f \o g = <<x0.data>> \o d.msgs
  <2>1. /\ d.sent \in 0..Len(d.msgs) /\ Len(f) = d.sent + 1
        /\ \A k \in 2..(d.sent + 1) : f[k] = d.msgs[k - 1]
    BY <1>1, <1>2, <1>12, <1>16
  <2>2. Slice(g, d.msgs, d.sent, Len(d.msgs))
    BY <1>14 DEF Slice
  <2>3. PICK z \in Message : z = x0.data
    OBVIOUS
  <2>4. PICK m, v : m = d.msgs /\ v = d.sent
    OBVIOUS
  <2>5. /\ m \in Seq(Message) /\ v \in 0..Len(m) /\ f \in Seq(Message) /\ Len(f) = v + 1
        /\ f[1] = z /\ \A k \in 2..(v + 1) : f[k] = m[k - 1]
        /\ Slice(g, m, v, Len(m))
    BY <1>1, <1>12, <1>16, <2>1, <2>2, <2>3, <2>4
  <2>6. f \o g = <<z>> \o m
    BY <2>5, SplicePushed, SMTT(60)
  <2>7. QED
    BY <2>3, <2>4, <2>6
<1>18. QED
  BY <1>4, <1>11, <1>13, <1>17 DEF Content

(* The same stream, in terms of the flow d towards a: the messages it has  *)
(* not got, and in front of them those that are being handed over.         *)
Front(a, d) == CHOOSE h \in 1..d.got : a.recvq[1] = Tile(d, h)

View(a, d) ==
    IF ~Delivering(a) THEN Rest(d.msgs, d.got)
    ELSE IF a.recvq[1].start_seq < d.base THEN <<a.recvq[1].data>> \o d.msgs
    ELSE Rest(d.msgs, Front(a, d) - 1)

(* With message h in front of the queue the stream starts with message h.  *)
LEMMA ViewFront ==
    ASSUME NEW a, NEW d \in Flow, Delivering(a), NEW h \in 1..d.got, a.recvq[1] = Tile(d, h)
    PROVE  View(a, d) = Rest(d.msgs, h - 1)
<1>1. /\ d.got \in Nat /\ Len(d.msgs) \in Nat /\ d.got <= Len(d.msgs)
  <2>1. d.got \in Nat /\ d.sent \in Nat /\ Len(d.msgs) \in Nat /\ d.got <= d.sent /\ d.sent <= Len(d.msgs)
    BY FlowType
  <2>2. QED
    BY <2>1
<1>2. \A j \in 1..d.got : j \in 1..Len(d.msgs) /\ j \in 1..(Len(d.msgs) + 1)
  BY <1>1
<1>3. ~(a.recvq[1].start_seq < d.base)
  <2>1. a.recvq[1].start_seq = At(d, h)
    BY DEF Tile
  <2>2. At(d, 1) = d.base /\ At(d, h) \in Nat /\ At(d, 1) \in Nat /\ 1 \in 1..(Len(d.msgs) + 1) /\ 1 <= h
    BY <1>1, <1>2, AtFacts
  <2>3. At(d, 1) <= At(d, h)
    BY <1>2, <2>2, AtInjective
  <2>4. QED
    BY <2>1, <2>2, <2>3
<1>4. Front(a, d) = h
  <2>1. \A j \in 1..d.got : a.recvq[1] = Tile(d, j) => j = h
    BY <1>2, TileInjective
  <2>2. QED
    BY <2>1 DEF Front
<1>5. QED
  BY <1>3, <1>4 DEF View

(* While the client hands over a batch, a message it has got is in front.  *)
LEMMA FrontExists ==
    ASSUME NEW a \in Agent, NEW d \in Flow, a.rcv_nxt = At(d, d.got + 1), Queued(a, d), Delivering(a)
    PROVE  \E h \in 1..d.got : a.recvq[1] = Tile(d, h)
<1>1. PICK b : Iterates(a, b)
  BY DEF Iterates
<1>2. a.recvq # <<>>
  BY DEF Delivering
<1>3. b.recvq = Tail(a.recvq) /\ b.rq = a.rq /\ b.rcv_nxt = a.rcv_nxt
  BY <1>1, <1>2, IteratesFields
<1>4. QED
  BY <1>3, QueuedTail

(* Nothing is being handed over.                                           *)
LEMMA NothingReady ==
    ASSUME NEW a \in Agent, NEW d \in Flow, a.rcv_nxt = At(d, d.got + 1), ~Delivering(a),
           Queued(a, d) \/ \E n : OldCopies(a, d, n)
    PROVE  ReadyOf(a) = {}
<1>1. CASE \E n : OldCopies(a, d, n)
  <2>1. a.recvq = <<>>
    BY <1>1, OldCopiesGone
  <2>2. QED
    BY <2>1 DEF ReadyOf
<1>2. CASE Queued(a, d)
  <2>1. /\ d.got \in Nat /\ d.sent \in Nat /\ Len(d.msgs) \in Nat /\ d.sent <= Len(d.msgs)
        /\ d.got <= d.sent
    BY FlowType
  <2>2. ASSUME NEW i \in 1..Len(a.recvq) PROVE ~(a.recvq[i].start_seq < a.rcv_nxt)
    <3>1. PICK j \in (d.got + 2)..d.sent : a.recvq[i] = Tile(d, j)
      BY <1>2, BehindHole
    <3>2. j \in 1..(Len(d.msgs) + 1) /\ d.got + 1 \in 1..(Len(d.msgs) + 1) /\ d.got + 1 < j
      BY <2>1
    <3>3. At(d, d.got + 1) < At(d, j) /\ At(d, d.got + 1) \in Nat /\ At(d, j) \in Nat
      BY <3>2, AtInjective, AtFacts
    <3>4. a.recvq[i].start_seq = At(d, j)
      BY <3>1 DEF Tile
    <3>5. QED
      BY <3>3, <3>4
  <2>3. a.recvq \in Seq([data : Message, start_seq : Nat])
    BY DEF Agent
  <2>4. QED
    BY <2>2, <2>3 DEF ReadyOf
<1>3. QED
  BY <1>1, <1>2

(* The messages from the one in front to the last one received are being   *)
(* handed over.                                                            *)
LEMMA TilesReady ==
    ASSUME NEW a \in Agent, NEW d \in Flow, a.rcv_nxt = At(d, d.got + 1), Queued(a, d), Delivering(a),
           NEW h \in 1..d.got, a.recvq[1] = Tile(d, h)
    PROVE  ReadyOf(a) = {Tile(d, j) : j \in h..d.got}
<1>1. /\ d.got \in Nat /\ d.sent \in Nat /\ Len(d.msgs) \in Nat /\ d.sent <= Len(d.msgs)
      /\ d.got <= d.sent
  BY FlowType
<1>2. a.recvq \in Seq([data : Message, start_seq : Nat]) /\ 1 \in 1..Len(a.recvq)
      /\ DOMAIN a.recvq = 1..Len(a.recvq)
  BY EntriesType DEF Agent, Delivering
<1>3. a.recvq[1].start_seq = At(d, h) /\ h \in 1..(Len(d.msgs) + 1) /\ d.got + 1 \in 1..(Len(d.msgs) + 1)
  BY <1>1 DEF Tile
<1>4. ASSUME NEW x \in ReadyOf(a) PROVE x \in {Tile(d, j) : j \in h..d.got}
  <2>1. PICK i \in 1..Len(a.recvq) : x = a.recvq[i] /\ a.recvq[i].start_seq < a.rcv_nxt
    BY <1>2 DEF ReadyOf
  <2>2. PICK j \in 1..d.sent : a.recvq[i] = Tile(d, j)
    BY DEF Queued
  <2>3. a.recvq[i].start_seq = At(d, j) /\ j \in 1..(Len(d.msgs) + 1)
    BY <1>1, <2>2 DEF Tile
  <2>4. a.recvq[1].start_seq <= a.recvq[i].start_seq
    BY <1>2 DEF Queued, Sorted
  <2>5. h <= j
    BY <1>3, <2>3, <2>4, AtInjective
  <2>6. j < d.got + 1
    BY <1>3, <2>1, <2>3, AtInjective
  <2>7. j \in h..d.got
    BY <1>1, <2>5, <2>6
  <2>8. QED
    BY <2>1, <2>2, <2>7
<1>5. ASSUME NEW j \in h..d.got PROVE Tile(d, j) \in ReadyOf(a)
  <2>1. j \in 1..d.got /\ j \in 1..(Len(d.msgs) + 1) /\ h <= j /\ j < d.got + 1
    BY <1>1
  <2>2. At(d, h) <= At(d, j) /\ At(d, j) < At(d, d.got + 1)
    BY <1>3, <2>1, AtInjective
  <2>3. a.recvq # <<>>
    BY DEF Delivering
  <2>4. Has(a, d, j)
    BY <1>3, <2>1, <2>2, <2>3 DEF Queued
  <2>5. PICK i \in 1..Len(a.recvq) : a.recvq[i] = Tile(d, j)
    BY <2>4 DEF Has
  <2>6. a.recvq[i].start_seq < a.rcv_nxt
    BY <2>2, <2>5 DEF Tile
  <2>7. QED
    BY <1>2, <2>5, <2>6 DEF ReadyOf
<1>6. QED
  BY <1>4, <1>5

(* The copies of an old message count once.                                *)
LEMMA OldReady ==
    ASSUME NEW a \in Agent, NEW d \in Flow, a.rcv_nxt = At(d, d.got + 1), NEW n, OldCopies(a, d, n),
           a.recvq # <<>>
    PROVE  /\ ReadyOf(a) = {a.recvq[1]} /\ Delivering(a) /\ d.got = 0
           /\ a.recvq[1].start_seq < d.base /\ a.recvq[1].start_seq \in Nat
           /\ a.recvq[1].data \in Message /\ a.recvq[1].data.media
<1>1. /\ Len(a.recvq) \in Nat \ {0} /\ 1 \in 1..Len(a.recvq)
      /\ a.recvq[1].start_seq \in Nat /\ a.recvq[1].data \in Message
  BY EntriesType
<1>2. d.got = 0 /\ \A i \in 1..Len(a.recvq) : /\ a.recvq[i] = a.recvq[1]
                                              /\ a.recvq[i].data.media /\ a.recvq[i].start_seq < d.base
  BY DEF OldCopies
<1>3. a.rcv_nxt = d.base
  BY <1>2, AtFacts
<1>4. DOMAIN a.recvq = 1..Len(a.recvq)
  BY DEF Agent
<1>5. ReadyOf(a) = {a.recvq[1]}
  BY <1>1, <1>2, <1>3, <1>4 DEF ReadyOf
<1>6. Delivering(a)
  BY <1>1, <1>2, <1>3 DEF Delivering
<1>7. QED
  BY <1>1, <1>2, <1>5, <1>6

(* The stream towards an agent is its view of the flow.                    *)
LEMMA ViewOf ==
    ASSUME NEW a \in Agent, NEW b \in Agent, NEW d \in Flow, Sender(b, d),
           a.rcv_nxt = At(d, d.got + 1), Queued(a, d) \/ \E n : OldCopies(a, d, n)
    PROVE  Content(a, b) = View(a, d) /\ View(a, d) \in Seq(Message)
<1>1. /\ d.got \in Nat /\ d.sent \in Nat /\ Len(d.msgs) \in Nat /\ d.sent <= Len(d.msgs)
      /\ d.got <= d.sent /\ d.msgs \in Seq(Message) /\ d.got \in 0..Len(d.msgs)
  <2>1. /\ d.got \in Nat /\ d.sent \in Nat /\ Len(d.msgs) \in Nat /\ d.sent <= Len(d.msgs)
        /\ d.got <= d.sent /\ d.msgs \in Seq(Message)
    BY FlowType
  <2>2. QED
    BY <2>1
<1>2. CASE ~Delivering(a)
  <2>1. View(a, d) = Rest(d.msgs, d.got)
    BY <1>2 DEF View
  <2>2. PICK h \in 1..(d.got + 1) : h = d.got + 1 /\ h - 1 = d.got
    BY <1>1
  <2>3. ReadyOf(a) = {Tile(d, j) : j \in h..d.got}
    <3>1. h..d.got = {}
      BY <1>1, <2>2
    <3>2. QED
      BY <1>2, <3>1, NothingReady
  <2>4. Content(a, b) = Rest(d.msgs, d.got)
    BY <2>2, <2>3, ContentTiles
  <2>5. QED
    BY <1>1, <2>1, <2>4, RestFacts
<1>3. CASE Delivering(a) /\ Queued(a, d)
  <2>1. PICK h \in 1..d.got : a.recvq[1] = Tile(d, h)
    BY <1>3, FrontExists
  <2>2. View(a, d) = Rest(d.msgs, h - 1)
    BY <1>3, <2>1, ViewFront
  <2>3. ReadyOf(a) = {Tile(d, j) : j \in h..d.got}
    BY <1>3, <2>1, TilesReady
  <2>4. h \in 1..(d.got + 1) /\ h - 1 \in 0..Len(d.msgs)
    BY <1>1
  <2>5. Content(a, b) = Rest(d.msgs, h - 1)
    BY <2>3, <2>4, ContentTiles
  <2>6. QED
    BY <1>1, <2>2, <2>4, <2>5, RestFacts
<1>4. CASE Delivering(a) /\ \E n : OldCopies(a, d, n)
  <2>1. PICK n : OldCopies(a, d, n)
    BY <1>4
  <2>2. a.recvq # <<>>
    BY <1>4 DEF Delivering
  <2>3. /\ ReadyOf(a) = {a.recvq[1]} /\ d.got = 0
        /\ a.recvq[1].start_seq < d.base /\ a.recvq[1].start_seq \in Nat
        /\ a.recvq[1].data \in Message
    BY <2>1, <2>2, OldReady
  <2>4. Content(a, b) = <<a.recvq[1].data>> \o d.msgs
    BY <2>3, ContentOld
  <2>5. View(a, d) = <<a.recvq[1].data>> \o d.msgs
    BY <1>4, <2>3 DEF View
  <2>6. <<a.recvq[1].data>> \o d.msgs \in Seq(Message)
    BY <1>1, <2>3
  <2>7. QED
    BY <2>4, <2>5, <2>6
<1>5. QED
  BY <1>2, <1>3, <1>4

(* The two streams of a connection. *)
LEMMA ConnectionStreams ==
    ASSUME TypeOK, NEW c \in Flow, NEW s \in Flow, Connection(c, s)
    PROVE  /\ Content(agent["client"], agent["server"]) = View(agent["client"], s)
           /\ View(agent["client"], s) \in Seq(Message)
           /\ Content(agent["server"], agent["client"]) = Rest(c.msgs, c.got)
           /\ Rest(c.msgs, c.got) \in Seq(Message)
<1>1. Link("client", c, s) /\ Link("server", s, c) /\ Phase(c, s)
  BY DEF Connection
<1>2. agent["client"] \in Agent /\ agent["server"] \in Agent
  BY DEF TypeOK, Ends
<1>3. Queued(agent["client"], s) \/ \E n : OldCopies(agent["client"], s, n)
  BY <1>1 DEF Phase, Idle, Asking, Answering
<1>4. agent["server"].recvq = <<>> /\ agent["server"].rq = {}
  BY <1>1 DEF Phase
<1>5. Queued(agent["server"], c) /\ ~Delivering(agent["server"])
  BY <1>4, EmptyQueue
<1>6. View(agent["server"], c) = Rest(c.msgs, c.got)
  BY <1>5 DEF View
<1>7. QED
  BY <1>1, <1>2, <1>3, <1>5, <1>6, ViewOf DEF Link

(* The same, after a step. *)
LEMMA ConnectionStreamsNext ==
    ASSUME TypeOK', NEW c \in Flow, NEW s \in Flow, Connection(c, s)'
    PROVE  /\ Content(agent'["client"], agent'["server"]) = View(agent'["client"], s)
           /\ View(agent'["client"], s) \in Seq(Message)
           /\ Content(agent'["server"], agent'["client"]) = Rest(c.msgs, c.got)
           /\ Rest(c.msgs, c.got) \in Seq(Message)
<1>1. Link("client", c, s)' /\ Link("server", s, c)' /\ Phase(c, s)'
  BY DEF Connection
<1>2. agent'["client"] \in Agent /\ agent'["server"] \in Agent
  BY DEF TypeOK, Ends
<1>3. Queued(agent'["client"], s) \/ \E n : OldCopies(agent'["client"], s, n)
  BY <1>1 DEF Phase, Idle, Asking, Answering
<1>4. agent'["server"].recvq = <<>> /\ agent'["server"].rq = {}
  BY <1>1 DEF Phase
<1>5. Queued(agent'["server"], c) /\ ~Delivering(agent'["server"])
  BY <1>4, EmptyQueue
<1>6. View(agent'["server"], c) = Rest(c.msgs, c.got)
  BY <1>5 DEF View
<1>7. /\ Sender(agent'["client"], c) /\ Sender(agent'["server"], s)
      /\ agent'["client"].rcv_nxt = At(s, s.got + 1) /\ agent'["server"].rcv_nxt = At(c, c.got + 1)
  BY <1>1 DEF Link
<1>8. QED
  BY <1>2, <1>3, <1>5, <1>6, <1>7, ViewOf

-----------------------------------------------------------------------------
(* What a step does to the stream x towards the client and the stream y    *)
(* towards the server.                                                     *)
Prolongs(u, v) == Abstract!Extends(u, v)

Moves(x, y, x2, y2) ==
    \/ x2 = x /\ Prolongs(y, y2) /\ last' = last
    \/ /\ y # <<>> /\ y2 = Tail(y) /\ Prolongs(x, x2)
       /\ last' = [last EXCEPT !["server"] = Head(y)]
    \/ /\ x # <<>> /\ Prolongs(y, y2)
       /\ x2 = Tail(x) \/ (x2 = x /\ Head(x).media)
       /\ last' = [last EXCEPT !["client"] = Head(x)]

(* What prolongs a stream.                                                 *)
LEMMA ProlongsFacts ==
    ASSUME NEW S, NEW u \in Seq(S), NEW v \in Seq(S)
    PROVE  /\ Prolongs(u, u) /\ Prolongs(<<>>, v)
           /\ Prolongs(u, u \o v)
<1>1. \A w \in Seq(S) : Len(w) \in Nat /\ SubSeq(w, 1, Len(w)) = w /\ SubSeq(w, 1, 0) = <<>>
  OBVIOUS
<1>2. Prolongs(u, u)
  BY <1>1 DEF Prolongs, Abstract!Extends
<1>3. Prolongs(<<>>, v)
  BY <1>1 DEF Prolongs, Abstract!Extends
<1>4. Prolongs(u, u \o v)
  <2>1. Len(u \o v) = Len(u) + Len(v) /\ Len(u) \in Nat /\ Len(v) \in Nat /\ u \o v \in Seq(S)
    OBVIOUS
  <2>2. SubSeq(u \o v, 1, Len(u)) = [i \in 1..Len(u) |-> (u \o v)[i]]
    BY <2>1
  <2>3. \A i \in 1..Len(u) : (u \o v)[i] = u[i]
    BY <2>1
  <2>4. u = [i \in 1..Len(u) |-> u[i]]
    OBVIOUS
  <2>5. SubSeq(u \o v, 1, Len(u)) = u
    BY <2>2, <2>3, <2>4
  <2>6. QED
    BY <2>1, <2>5 DEF Prolongs, Abstract!Extends
<1>5. QED
  BY <1>2, <1>3, <1>4

(* Such a step is a step of the abstract specification. *)
LEMMA StreamsStep ==
    ASSUME NEW x, NEW y, NEW x2 \in Seq(Message), NEW y2 \in Seq(Message),
           Stream("client") = x, Stream("server") = y,
           Stream("client")' = x2, Stream("server")' = y2, Moves(x, y, x2, y2)
    PROVE  Abstract!Next
<1> DEFINE chan == [e \in Ends |-> Stream(e)]
<1>1. chan["client"] = x /\ chan["server"] = y /\ chan'["client"] = x2 /\ chan'["server"] = y2
  BY DEF Ends
<1>2. chan' \in [Ends -> Seq(Message)]
  BY DEF Ends
<1>3. CASE x2 = x /\ Prolongs(y, y2) /\ last' = last
  <2>1. Abstract!Send("server")
    BY <1>1, <1>3 DEF Abstract!Send, Prolongs, Ends
  <2>2. QED
    BY <1>2, <2>1 DEF Abstract!Next, Ends
<1>4. CASE /\ y # <<>> /\ y2 = Tail(y) /\ Prolongs(x, x2)
           /\ last' = [last EXCEPT !["server"] = Head(y)]
  <2>1. Abstract!Deliver("server")
    BY <1>1, <1>4 DEF Abstract!Deliver, Abstract!Handed, Prolongs, Ends
  <2>2. QED
    BY <1>2, <2>1 DEF Abstract!Next, Ends
<1>5. CASE /\ x # <<>> /\ Prolongs(y, y2)
           /\ x2 = Tail(x) \/ (x2 = x /\ Head(x).media)
           /\ last' = [last EXCEPT !["client"] = Head(x)]
  <2>1. Abstract!Deliver("client") \/ Abstract!DeliverDuplicate("client")
    BY <1>1, <1>5 DEF Abstract!Deliver, Abstract!DeliverDuplicate, Abstract!Handed, Prolongs, Ends
  <2>2. QED
    BY <1>2, <2>1 DEF Abstract!Next, Ends
<1>6. QED
  BY <1>3, <1>4, <1>5 DEF Moves

(* The view depends on the receive queue, rcv_nxt_ and the batch.          *)
LEMMA ViewSame ==
    ASSUME NEW a, NEW b, NEW d, NEW e, b.recvq = a.recvq, b.rcv_nxt = a.rcv_nxt,
           e.base = d.base, e.msgs = d.msgs, e.got = d.got
    PROVE  View(b, e) = View(a, d)
<1>1. \A i : At(e, i) = At(d, i)
  BY DEF At
<1>2. \A i : Tile(e, i) = Tile(d, i)
  BY <1>1 DEF Tile
<1>3. Front(b, e) = Front(a, d)
  BY <1>2 DEF Front
<1>4. Delivering(b) = Delivering(a)
  BY DEF Delivering
<1>5. QED
  BY <1>3, <1>4 DEF View

(* A connection's streams, in terms of its flows. *)
LEMMA ViewQuiet ==
    ASSUME NEW c \in Flow, NEW s \in Flow, NEW c2 \in Flow, NEW s2 \in Flow,
           Still(c2, c), Still(s2, s), NEW a, NEW b, b.recvq = a.recvq, b.rcv_nxt = a.rcv_nxt,
           Rest(c.msgs, c.got) \in Seq(Message), last' = last
    PROVE  Moves(View(a, s), Rest(c.msgs, c.got), View(b, s2), Rest(c2.msgs, c2.got))
<1>1. View(b, s2) = View(a, s) /\ Rest(c2.msgs, c2.got) = Rest(c.msgs, c.got)
  BY ViewSame DEF Still
<1>2. QED
  BY <1>1, ProlongsFacts DEF Moves

(* Nothing is on its way to the server: whatever follows prolongs that. *)
LEMMA NothingLeft ==
    ASSUME NEW c \in Flow, c.got = Len(c.msgs), NEW y2 \in Seq(Message)
    PROVE  Rest(c.msgs, c.got) = <<>> /\ Prolongs(Rest(c.msgs, c.got), y2)
<1>1. c.msgs \in Seq(Message) /\ c.got \in 0..Len(c.msgs)
  BY FlowType
<1>2. Rest(c.msgs, c.got) = <<>>
  BY <1>1, RestFacts
<1>3. QED
  BY <1>2, ProlongsFacts

(* The message of a flow in front of the receive queue. *)
LEMMA ViewHead ==
    ASSUME NEW a, NEW d \in Flow, Delivering(a), NEW h \in 1..d.got, a.recvq[1] = Tile(d, h)
    PROVE  /\ View(a, d) = Rest(d.msgs, h - 1) /\ View(a, d) \in Seq(Message)
           /\ View(a, d) # <<>> /\ Head(View(a, d)) = a.recvq[1].data
           /\ Tail(View(a, d)) = Rest(d.msgs, h)
<1>1. View(a, d) = Rest(d.msgs, h - 1)
  BY ViewFront
<1>2. d.msgs \in Seq(Message) /\ d.got \in Nat /\ Len(d.msgs) \in Nat /\ d.got <= Len(d.msgs)
  <2>1. d.msgs \in Seq(Message) /\ d.got \in Nat /\ d.sent \in Nat /\ Len(d.msgs) \in Nat
        /\ d.got <= d.sent /\ d.sent <= Len(d.msgs)
    BY FlowType
  <2>2. QED
    BY <2>1
<1>3. PICK k \in 0..Len(d.msgs) : k = h - 1 /\ k + 1 = h /\ k < Len(d.msgs)
  <2>1. h - 1 \in 0..Len(d.msgs) /\ (h - 1) + 1 = h /\ h - 1 < Len(d.msgs)
    BY <1>2
  <2>2. QED
    BY <2>1
<1>4. /\ Rest(d.msgs, k) \in Seq(Message) /\ Rest(d.msgs, k) # <<>>
      /\ Head(Rest(d.msgs, k)) = d.msgs[k + 1] /\ Tail(Rest(d.msgs, k)) = Rest(d.msgs, k + 1)
  BY <1>2, <1>3, RestFacts
<1>5. a.recvq[1].data = d.msgs[h]
  BY DEF Tile
<1>6. QED
  BY <1>1, <1>3, <1>4, <1>5

(* The client hands over the first message of its queue. *)
LEMMA ViewHanded ==
    ASSUME NEW a \in Agent, NEW b \in Agent, NEW d \in Flow, NEW n, Delivering(a),
           Queued(a, d) \/ OldCopies(a, d, n), a.rcv_nxt = At(d, d.got + 1),
           b.recvq = Tail(a.recvq), b.rcv_nxt = a.rcv_nxt
    PROVE  /\ View(a, d) # <<>> /\ Head(View(a, d)) = a.recvq[1].data
           /\ \/ View(b, d) = Tail(View(a, d))
              \/ View(b, d) = View(a, d) /\ Head(View(a, d)).media
<1>1. a.recvq # <<>> /\ a.recvq[1].start_seq < a.rcv_nxt
  BY DEF Delivering
<1>2. PICK z : Iterates(a, z)
  BY DEF Iterates
<1>3. /\ z.recvq = Tail(a.recvq) /\ z.rq = a.rq /\ z.rcv_nxt = a.rcv_nxt
  BY <1>1, <1>2, IteratesFields
<1>4. View(b, d) = View(z, d) /\ Delivering(b) = Delivering(z)
  <2>1. b.recvq = z.recvq /\ b.rcv_nxt = z.rcv_nxt
    BY <1>3
  <2>2. View(b, d) = View(z, d)
    BY <2>1, ViewSame
  <2>3. QED
    BY <2>1, <2>2 DEF Delivering
<1>5. CASE OldCopies(a, d, n)
  <2>1. /\ d.got = 0 /\ a.recvq[1].start_seq < d.base
        /\ a.recvq[1].data \in Message /\ a.recvq[1].data.media
    BY <1>1, <1>5, OldReady
  <2>2. d.msgs \in Seq(Message) /\ Rest(d.msgs, 0) = d.msgs
    <3>1. d.msgs \in Seq(Message) /\ 0 \in 0..Len(d.msgs)
      BY FlowType
    <3>2. QED
      BY <3>1, RestFacts
  <2>3. View(a, d) = <<a.recvq[1].data>> \o d.msgs
    BY <2>1 DEF View
  <2>4. /\ View(a, d) # <<>> /\ Head(View(a, d)) = a.recvq[1].data
        /\ Tail(View(a, d)) = d.msgs
    BY <2>1, <2>2, <2>3
  <2>5. CASE z.recvq = <<>>
    <3>1. ~Delivering(z)
      BY <2>5, EmptyQueue
    <3>2. View(z, d) = d.msgs
      BY <2>1, <2>2, <3>1 DEF View
    <3>3. QED
      BY <1>4, <2>4, <3>2
  <2>6. CASE z.recvq # <<>>
    <3>1. z.recvq[1] = a.recvq[1]
      BY <1>1, <1>3, <1>5, <2>6, OldCopiesTail, ZenonT(100)
    <3>2. Delivering(z)
      BY <1>1, <1>3, <2>6, <3>1 DEF Delivering
    <3>3. View(z, d) = <<a.recvq[1].data>> \o d.msgs
      BY <2>1, <3>1, <3>2 DEF View
    <3>4. QED
      BY <1>4, <2>1, <2>3, <2>4, <3>3
  <2>7. QED
    BY <2>5, <2>6
<1>6. CASE Queued(a, d)
  <2>1. PICK h \in 1..d.got :
            /\ a.recvq[1] = Tile(d, h) /\ d.msgs[h].media
            /\ Delivering(z) => z.recvq[1] = Tile(d, h) \/ z.recvq[1] = Tile(d, h + 1)
            /\ ~Delivering(z) => h = d.got
    BY <1>3, <1>6, QueuedTail, ZenonT(100)
  <2>2. /\ View(a, d) = Rest(d.msgs, h - 1)
        /\ View(a, d) # <<>> /\ Head(View(a, d)) = a.recvq[1].data
        /\ Tail(View(a, d)) = Rest(d.msgs, h)
    BY <2>1, ViewHead
  <2>3. Head(View(a, d)).media
    BY <2>1, <2>2 DEF Tile
  <2>4. CASE ~Delivering(z)
    BY <1>4, <2>1, <2>2, <2>4 DEF View
  <2>5. CASE Delivering(z) /\ z.recvq[1] = Tile(d, h)
    <3>1. View(z, d) = Rest(d.msgs, h - 1)
      BY <2>5, ViewFront
    <3>2. QED
      BY <1>4, <2>2, <2>3, <3>1
  <2>6. CASE Delivering(z) /\ z.recvq[1] = Tile(d, h + 1)
    <3>1. z.recvq[1].start_seq < z.rcv_nxt /\ z.recvq[1].start_seq = At(d, h + 1)
      BY <2>6 DEF Delivering, Tile
    <3>2. /\ h + 1 \in 1..(Len(d.msgs) + 1) /\ d.got + 1 \in 1..(Len(d.msgs) + 1)
          /\ d.got \in Nat
      <4>1. d.got \in Nat /\ d.sent \in Nat /\ Len(d.msgs) \in Nat
            /\ d.got <= d.sent /\ d.sent <= Len(d.msgs)
        BY FlowType
      <4>2. QED
        BY <4>1
    <3>3. At(d, h + 1) < At(d, d.got + 1)
      BY <1>3, <3>1
    <3>4. h + 1 < d.got + 1
      BY <3>2, <3>3, AtInjective
    <3>5. PICK k \in 1..d.got : k = h + 1 /\ k - 1 = h
      <4>1. h + 1 \in 1..d.got /\ (h + 1) - 1 = h
        BY <3>2, <3>4
      <4>2. QED
        BY <4>1
    <3>6. View(z, d) = Rest(d.msgs, k - 1)
      BY <2>6, <3>5, ViewFront
    <3>7. QED
      BY <1>4, <2>2, <3>5, <3>6
  <2>7. QED
    BY <2>1, <2>4, <2>5, <2>6
<1>7. QED
  BY <1>5, <1>6

(* A sequence without a tail.                                              *)
LEMMA OneElement ==
    ASSUME NEW S, NEW x \in Seq(S), x # <<>>, Tail(x) = <<>>
    PROVE  x = <<Head(x)>>
<1>1. Len(x) = 1
  <2>1. PICK t : t = Tail(x)
    OBVIOUS
  <2>2. Len(t) = Len(x) - 1 /\ Len(x) \in Nat \ {0}
    BY <2>1, TailFunction
  <2>3. t = <<>>
    BY <2>1
  <2>4. QED
    BY <2>2, <2>3
<1>2. x = [i \in 1..Len(x) |-> x[i]] /\ Head(x) = x[1]
  OBVIOUS
<1>3. QED
  BY <1>1, <1>2

(* The steps, one by one. x and y stand for the streams before the step.   *)
TheStreams(c, s, x, y) == /\ x = View(agent["client"], s) /\ x \in Seq(Message)
                          /\ y = Rest(c.msgs, c.got) /\ y \in Seq(Message)

(* The flows c2 and s2 after it, with the streams x2 and y2. *)
TheStreamsNext(c2, s2, x2, y2) ==
    /\ x2 = View(agent'["client"], s2) /\ x2 \in Seq(Message)
    /\ y2 = Rest(c2.msgs, c2.got) /\ y2 \in Seq(Message)

(* The server takes the request: its stream loses it, and the other one    *)
(* gains the response.                                                     *)
LEMMA RequestMoves ==
    ASSUME NEW c \in Flow, NEW s \in Flow, NEW c2 \in Flow, NEW s2 \in Flow,
           NEW x, NEW y, NEW x2, NEW y2, TheStreams(c, s, x, y), TheStreamsNext(c2, s2, x2, y2),
           agent["client"] \in Agent, agent["client"].rcv_nxt = At(s, s.got + 1),
           agent["client"].rcv_nxt = At(s2, s2.got + 1),
           c2.msgs = c.msgs, c2.got = 1, NewBatch(s2, s), s2.got = 0,
           Len(c.msgs) = 1, c.got = 0,
           s.got = Len(s.msgs), OnlyLast(agent["client"], s), Queued(agent["client"], s),
           agent'["client"] = agent["client"],
           last' = [last EXCEPT !["server"] = c.msgs[1]]
    PROVE  Moves(x, y, x2, y2)
<1> DEFINE a == agent["client"]
<1>1. c.msgs \in Seq(Message) /\ s.msgs \in Seq(Message) /\ s2.msgs \in Seq(Message)
      /\ Len(s.msgs) \in Nat /\ Len(s2.msgs) \in Nat
  BY FlowType
<1>2. y # <<>> /\ Head(y) = c.msgs[1] /\ y2 = Tail(y)
  <2>1. /\ Rest(c.msgs, 0) # <<>> /\ Head(Rest(c.msgs, 0)) = c.msgs[0 + 1]
        /\ Tail(Rest(c.msgs, 0)) = Rest(c.msgs, 0 + 1)
    <3>1. 0 \in 0..Len(c.msgs) /\ 0 < Len(c.msgs)
      OBVIOUS
    <3>2. QED
      BY <1>1, <3>1, RestFacts
  <2>2. 0 + 1 = 1
    OBVIOUS
  <2>3. QED
    BY <2>1, <2>2 DEF TheStreams, TheStreamsNext
<1>3. Prolongs(x, x2)
  <2>1. CASE ~Delivering(a)
    <3>1. View(a, s) = Rest(s.msgs, s.got)
      BY <2>1 DEF View
    <3>2. Rest(s.msgs, s.got) = <<>>
      BY <1>1, RestFacts
    <3>3. x = <<>>
      BY <3>1, <3>2 DEF TheStreams
    <3>4. QED
      BY <3>3, ProlongsFacts DEF TheStreamsNext
  <2>2. CASE Delivering(a)
    <3>1. PICK h \in 1..s.got : a.recvq[1] = Tile(s, h)
      BY <2>2, FrontExists
    <3>2. a.recvq[1] = Tile(s, Len(s.msgs)) /\ Len(s.msgs) \in 1..s.got
      <4>1. 1 \in 1..Len(a.recvq)
        BY <2>2, EntriesType DEF Delivering
      <4>2. a.recvq[1] = Tile(s, Len(s.msgs))
        BY <4>1 DEF OnlyLast
      <4>3. QED
        BY <1>1, <3>1, <4>2
    <3>3. /\ View(a, s) # <<>> /\ Head(View(a, s)) = a.recvq[1].data
          /\ Tail(View(a, s)) = Rest(s.msgs, Len(s.msgs))
      BY <2>2, <3>2, ViewHead
    <3>4. Rest(s.msgs, Len(s.msgs)) = <<>>
      BY <1>1, RestFacts
    <3>5. x = <<a.recvq[1].data>>
      <4>1. x \in Seq(Message) /\ x # <<>> /\ Head(x) = a.recvq[1].data /\ Tail(x) = <<>>
        BY <3>3, <3>4 DEF TheStreams
      <4>2. QED
        BY <4>1, OneElement
    <3>6. a.recvq[1].start_seq < s2.base
      <4>1. a.recvq[1].start_seq < a.rcv_nxt
        BY <2>2 DEF Delivering
      <4>2. At(s2, s2.got + 1) = s2.base
        BY AtFacts
      <4>3. QED
        BY <4>1, <4>2
    <3>7. View(a, s2) = <<a.recvq[1].data>> \o s2.msgs
      BY <2>2, <3>6 DEF View
    <3>8. x2 = x \o s2.msgs
      BY <3>5, <3>7 DEF TheStreamsNext
    <3>9. QED
      BY <1>1, <3>8, ProlongsFacts DEF TheStreams
  <2>3. QED
    BY <2>1, <2>2
<1>4. QED
  BY <1>2, <1>3 DEF Moves

(* A piece handed over at once leaves the stream.                          *)
LEMMA InOrderMoves ==
    ASSUME NEW c \in Flow, NEW s \in Flow, NEW c2 \in Flow, NEW s2 \in Flow,
           NEW x, NEW y, NEW x2, NEW y2, TheStreams(c, s, x, y), TheStreamsNext(c2, s2, x2, y2),
           s.got < Len(s.msgs), s2.msgs = s.msgs, s2.got = s.got + 1, c.got = Len(c.msgs),
           agent["client"].recvq = <<>>, agent'["client"].recvq = <<>>,
           last' = [last EXCEPT !["client"] = s.msgs[s.got + 1]]
    PROVE  Moves(x, y, x2, y2)
<1>1. x = Rest(s.msgs, s.got) /\ x2 = Rest(s.msgs, s.got + 1)
  <2>1. ~Delivering(agent["client"]) /\ ~Delivering(agent'["client"])
    BY EmptyQueue
  <2>2. QED
    BY <2>1 DEF View, TheStreams, TheStreamsNext
<1>2. s.msgs \in Seq(Message) /\ s.got \in 0..Len(s.msgs)
  BY FlowType
<1>3. x # <<>> /\ Head(x) = s.msgs[s.got + 1] /\ x2 = Tail(x)
  BY <1>1, <1>2, RestFacts
<1>4. Prolongs(y, y2)
  BY NothingLeft DEF TheStreams, TheStreamsNext
<1>5. QED
  BY <1>3, <1>4 DEF Moves

(* A queued piece stays in the stream.                                     *)
LEMMA QueuedMoves ==
    ASSUME NEW c \in Flow, NEW s \in Flow, NEW c2 \in Flow, NEW s2 \in Flow,
           NEW x, NEW y, NEW x2, NEW y2, TheStreams(c, s, x, y), TheStreamsNext(c2, s2, x2, y2),
           Still(c2, c), s2.base = s.base, s2.msgs = s.msgs, s2.got \in s.got..s.sent,
           agent'["client"].rcv_nxt = At(s2, s2.got + 1),
           s2.got > s.got => /\ agent'["client"].recvq # <<>>
                             /\ agent'["client"].recvq[1] = Tile(s, s.got + 1),
           s2.got = s.got => ~Delivering(agent'["client"]),
           ~Delivering(agent["client"]), last' = last
    PROVE  Moves(x, y, x2, y2)
<1> DEFINE b == agent'["client"]
<1>1. x = Rest(s.msgs, s.got)
  BY DEF View, TheStreams
<1>2. ASSUME s2.got = s.got PROVE x2 = x
  BY <1>1, <1>2 DEF View, TheStreamsNext
<1>3. ASSUME s2.got # s.got PROVE x2 = x
  <2>1. /\ s.got \in Nat /\ s2.got \in Nat /\ Len(s2.msgs) \in Nat /\ s2.sent \in Nat
        /\ s2.got <= s2.sent /\ s2.sent <= Len(s2.msgs)
    BY FlowType
  <2>2. s2.got > s.got /\ s.got + 1 <= s2.got
    BY <1>3, <2>1
  <2>3. PICK h \in 1..s2.got : h = s.got + 1 /\ h - 1 = s.got
    <3>1. s.got + 1 \in 1..s2.got /\ (s.got + 1) - 1 = s.got
      BY <2>1, <2>2
    <3>2. QED
      BY <3>1
  <2>4. h \in 1..(Len(s2.msgs) + 1) /\ s2.got + 1 \in 1..(Len(s2.msgs) + 1) /\ h < s2.got + 1
    BY <2>1
  <2>5. \A i : Tile(s2, i) = Tile(s, i)
    BY SameEdges
  <2>6. b.recvq # <<>> /\ b.recvq[1] = Tile(s2, h)
    BY <2>2, <2>3, <2>5
  <2>7. Delivering(b)
    <3>1. b.recvq[1].start_seq = At(s2, h)
      BY <2>6 DEF Tile
    <3>2. At(s2, h) < At(s2, s2.got + 1)
      BY <2>4, AtInjective
    <3>3. QED
      BY <2>6, <3>1, <3>2 DEF Delivering
  <2>8. View(b, s2) = Rest(s2.msgs, h - 1)
    BY <2>6, <2>7, ViewFront
  <2>9. QED
    BY <1>1, <2>3, <2>8 DEF TheStreamsNext
<1>4. x2 = x
  BY <1>2, <1>3
<1>5. y2 = y
  BY DEF Still, TheStreams, TheStreamsNext
<1>6. QED
  BY <1>4, <1>5, ProlongsFacts DEF Moves, TheStreams

(* Every step moves the streams as the abstract specification allows.      *)
LEMMA EffectMoves ==
    ASSUME TypeOK, TypeOK', NEW c \in Flow, NEW s \in Flow, Connection(c, s), Effect(c, s),
           NEW x, NEW y, TheStreams(c, s, x, y)
    PROVE  \E c2, s2 \in Flow, x2, y2 \in Seq(Message) :
               /\ Connection(c2, s2)'
               /\ TheStreamsNext(c2, s2, x2, y2) /\ Moves(x, y, x2, y2)
<1>1. agent["client"] \in Agent /\ agent["client"].rcv_nxt = At(s, s.got + 1)
  BY DEF Connection, Link, TypeOK, Ends
<1>2. ASSUME NEW c2 \in Flow, NEW s2 \in Flow, Connection(c2, s2)'
      PROVE  /\ \E x2, y2 \in Seq(Message) : TheStreamsNext(c2, s2, x2, y2)
             /\ agent'["client"] \in Agent /\ agent'["client"].rcv_nxt = At(s2, s2.got + 1)
  <2>1. TheStreamsNext(c2, s2, View(agent'["client"], s2), Rest(c2.msgs, c2.got))
    BY <1>2, ConnectionStreamsNext DEF TheStreamsNext
  <2>2. View(agent'["client"], s2) \in Seq(Message) /\ Rest(c2.msgs, c2.got) \in Seq(Message)
    BY <1>2, ConnectionStreamsNext
  <2>3. agent'["client"] \in Agent /\ agent'["client"].rcv_nxt = At(s2, s2.got + 1)
    BY <1>2 DEF Connection, Link, TypeOK, Ends
  <2>4. QED
    BY <2>1, <2>2, <2>3
<1>3. CASE Quietly(c, s)
  <2>1. PICK c2 \in Flow, s2 \in Flow : Connection(c2, s2)' /\ Still(c2, c) /\ Still(s2, s)
    BY <1>3 DEF Quietly
  <2>2. PICK x2 \in Seq(Message), y2 \in Seq(Message) : TheStreamsNext(c2, s2, x2, y2)
    BY <1>2, <2>1
  <2>3. /\ agent'["client"].recvq = agent["client"].recvq
        /\ agent'["client"].rcv_nxt = agent["client"].rcv_nxt /\ last' = last
    BY <1>3 DEF Quietly
  <2>4. Moves(x, y, x2, y2)
    BY <2>1, <2>2, <2>3, ViewQuiet DEF TheStreams, TheStreamsNext
  <2>5. QED
    BY <2>1, <2>2, <2>4
<1>4. CASE RequestTaken(c, s)
  <2>1. PICK c2 \in Flow, s2 \in Flow : /\ Connection(c2, s2)'
                                        /\ c2.msgs = c.msgs /\ c2.got = 1
                                        /\ NewBatch(s2, s) /\ s2.got = 0
    BY <1>4 DEF RequestTaken
  <2>2. PICK x2 \in Seq(Message), y2 \in Seq(Message) : TheStreamsNext(c2, s2, x2, y2)
    BY <1>2, <2>1
  <2>3. /\ Len(c.msgs) = 1 /\ c.got = 0
        /\ s.got = Len(s.msgs) /\ OnlyLast(agent["client"], s) /\ Queued(agent["client"], s)
        /\ agent'["client"] = agent["client"]
        /\ last' = [last EXCEPT !["server"] = c.msgs[1]]
    BY <1>4 DEF RequestTaken
  <2>4. agent["client"].rcv_nxt = At(s2, s2.got + 1)
    BY <1>2, <2>1, <2>3
  <2>5. Moves(x, y, x2, y2)
    BY <1>1, <2>1, <2>2, <2>3, <2>4, RequestMoves
  <2>6. QED
    BY <2>1, <2>2, <2>5
<1>5. CASE InOrderTaken(c, s)
  <2>1. PICK c2 \in Flow, s2 \in Flow : /\ Connection(c2, s2)'
                                        /\ s2.base = s.base /\ s2.msgs = s.msgs
                                        /\ s2.got = s.got + 1
    BY <1>5 DEF InOrderTaken
  <2>2. PICK x2 \in Seq(Message), y2 \in Seq(Message) : TheStreamsNext(c2, s2, x2, y2)
    BY <1>2, <2>1
  <2>3. /\ s.got < Len(s.msgs) /\ c.got = Len(c.msgs)
        /\ agent["client"].recvq = <<>> /\ agent'["client"].recvq = <<>>
        /\ last' = [last EXCEPT !["client"] = s.msgs[s.got + 1]]
    BY <1>5 DEF InOrderTaken
  <2>4. Moves(x, y, x2, y2)
    BY <2>1, <2>2, <2>3, InOrderMoves
  <2>5. QED
    BY <2>1, <2>2, <2>4
<1>6. CASE QueuedTaken(c, s)
  <2>1. PICK c2 \in Flow, s2 \in Flow :
            /\ Connection(c2, s2)' /\ Still(c2, c)
            /\ s2.base = s.base /\ s2.msgs = s.msgs /\ s2.got \in s.got..s.sent
            /\ s2.got > s.got => /\ agent'["client"].recvq # <<>>
                                 /\ agent'["client"].recvq[1] = Tile(s, s.got + 1)
            /\ s2.got = s.got => ~Delivering(agent'["client"])
    BY <1>6 DEF QueuedTaken
  <2>2. PICK x2 \in Seq(Message), y2 \in Seq(Message) : TheStreamsNext(c2, s2, x2, y2)
    BY <1>2, <2>1
  <2>3. ~Delivering(agent["client"]) /\ last' = last
    BY <1>6 DEF QueuedTaken
  <2>4. agent'["client"].rcv_nxt = At(s2, s2.got + 1)
    BY <1>2, <2>1
  <2>5. Moves(x, y, x2, y2)
    BY <2>1, <2>2, <2>3, <2>4, QueuedMoves
  <2>6. QED
    BY <2>1, <2>2, <2>5
<1>7. CASE HandedTaken(c, s)
  <2>1. PICK c2 \in Flow : Connection(c2, s)' /\ (c2 = c \/ c.got = Len(c.msgs))
    BY <1>7 DEF HandedTaken
  <2>2. PICK x2 \in Seq(Message), y2 \in Seq(Message) : TheStreamsNext(c2, s, x2, y2)
    BY <1>2, <2>1
  <2>3. /\ Delivering(agent["client"])
        /\ Queued(agent["client"], s) \/ OldCopies(agent["client"], s, asked)
        /\ agent'["client"].recvq = Tail(agent["client"].recvq)
        /\ agent'["client"].rcv_nxt = agent["client"].rcv_nxt
        /\ last' = [last EXCEPT !["client"] = agent["client"].recvq[1].data]
    BY <1>7 DEF HandedTaken
  <2>4. /\ x # <<>> /\ Head(x) = agent["client"].recvq[1].data
        /\ x2 = Tail(x) \/ (x2 = x /\ Head(x).media)
    <3>1. agent'["client"] \in Agent
      BY <1>2, <2>1
    <3>2. /\ View(agent["client"], s) # <<>>
          /\ Head(View(agent["client"], s)) = agent["client"].recvq[1].data
          /\ \/ View(agent'["client"], s) = Tail(View(agent["client"], s))
             \/ /\ View(agent'["client"], s) = View(agent["client"], s)
                /\ Head(View(agent["client"], s)).media
      BY <1>1, <2>3, <3>1, ViewHanded
    <3>3. QED
      BY <2>2, <3>2 DEF TheStreams, TheStreamsNext
  <2>5. Prolongs(y, y2)
    <3>1. CASE c2 = c
      BY <2>2, <3>1, ProlongsFacts DEF TheStreams, TheStreamsNext
    <3>2. CASE c.got = Len(c.msgs)
      BY <3>2, NothingLeft DEF TheStreams
    <3>3. QED
      BY <2>1, <3>1, <3>2
  <2>6. Moves(x, y, x2, y2)
    BY <2>3, <2>4, <2>5 DEF Moves
  <2>7. QED
    BY <2>1, <2>2, <2>6
<1>8. CASE AskTaken(c, s)
  <2>1. PICK c2 \in Flow : Connection(c2, s)'
    BY <1>8 DEF AskTaken
  <2>2. PICK x2 \in Seq(Message), y2 \in Seq(Message) : TheStreamsNext(c2, s, x2, y2)
    BY <1>2, <2>1
  <2>3. /\ c.got = Len(c.msgs)
        /\ agent'["client"].recvq = agent["client"].recvq
        /\ agent'["client"].rcv_nxt = agent["client"].rcv_nxt /\ last' = last
    BY <1>8 DEF AskTaken
  <2>4. View(agent'["client"], s) = View(agent["client"], s)
    BY <2>3, ViewSame
  <2>5. Prolongs(y, y2)
    BY <2>3, NothingLeft DEF TheStreams
  <2>6. Moves(x, y, x2, y2)
    BY <2>2, <2>3, <2>4, <2>5 DEF Moves, TheStreams, TheStreamsNext
  <2>7. QED
    BY <2>1, <2>2, <2>6
<1>9. QED
  BY <1>3, <1>4, <1>5, <1>6, <1>7, <1>8 DEF Effect

(* What the streams are before and after a step.                           *)
LEMMA TwoStreams ==
    /\ Stream("client") = Content(agent["client"], agent["server"])
    /\ Stream("server") = Content(agent["server"], agent["client"])
BY StreamContent DEF Peer

(* The streams in a state of the connection.                               *)
LEMMA StreamsNow ==
    ASSUME TypeOK, NEW c \in Flow, NEW s \in Flow, Connection(c, s)
    PROVE  TheStreams(c, s, Stream("client"), Stream("server"))
BY TwoStreams, ConnectionStreams DEF TheStreams

(* The streams after a step.                                               *)
LEMMA StreamsAfter ==
    ASSUME TypeOK', NEW c2 \in Flow, NEW s2 \in Flow, Connection(c2, s2)',
           NEW x2, NEW y2, TheStreamsNext(c2, s2, x2, y2)
    PROVE  Stream("client")' = x2 /\ Stream("server")' = y2
<1>1. (/\ Stream("client") = Content(agent["client"], agent["server"])
       /\ Stream("server") = Content(agent["server"], agent["client"]))'
  BY TwoStreams, PTL
<1>2. /\ Stream("client")' = Content(agent'["client"], agent'["server"])
      /\ Stream("server")' = Content(agent'["server"], agent'["client"])
  BY <1>1
<1>3. QED
  BY <1>2, ConnectionStreamsNext DEF TheStreamsNext

(* Two agents over a lossy path give the applications the streams of       *)
(* module Streams: in order, without loss, and only media twice. This is   *)
(* what DashSession assumes of its two streams.                            *)
THEOREM ConnectionImplementsStreams == Spec => ImplementsStreams
<1>1. Init => Abstract!Init
  <2> SUFFICES ASSUME Init PROVE Abstract!Init
    OBVIOUS
  <2>1. PICK d \in Flow : Connection(d, d) /\ d = Fresh(0, <<>>) /\ TypeOK
    BY InitialConnection
  <2>2. d.msgs = <<>> /\ d.got = 0
    BY <2>1 DEF Fresh
  <2>3. Rest(d.msgs, d.got) = <<>>
    <3>1. d.msgs \in Seq(Message) /\ d.got \in 0..Len(d.msgs) /\ d.got = Len(d.msgs)
      BY <2>2
    <3>2. QED
      BY <3>1, RestFacts
  <2>4. ~Delivering(agent["client"])
    BY EmptyQueue DEF Init, AgentInit, Ends
  <2>5. Stream("client") = <<>> /\ Stream("server") = <<>>
    BY <2>1, <2>3, <2>4, StreamsNow DEF TheStreams, View
  <2>6. QED
    BY <2>5 DEF Init, Abstract!Init, Ends
<1>2. Inv /\ [Next]_vars => [Abstract!Next]_(Abstract!streamVars)
  <2> SUFFICES ASSUME Inv, [Next]_vars PROVE [Abstract!Next]_(Abstract!streamVars)
    OBVIOUS
  <2>1. PICK c \in Flow, s \in Flow : Connection(c, s)
    BY DEF Inv
  <2>2. TypeOK /\ Running
    BY DEF Inv
  <2>3. CASE UNCHANGED vars
    BY <2>3 DEF vars, Abstract!streamVars, Stream
  <2>4. CASE Effect(c, s) /\ TypeOK'
    <3>1. PICK x, y : x = Stream("client") /\ y = Stream("server")
      OBVIOUS
    <3>2. TheStreams(c, s, x, y)
      BY <2>1, <2>2, <3>1, StreamsNow
    <3>3. PICK c2 \in Flow, s2 \in Flow, x2 \in Seq(Message), y2 \in Seq(Message) :
              /\ Connection(c2, s2)'
              /\ TheStreamsNext(c2, s2, x2, y2) /\ Moves(x, y, x2, y2)
      BY <2>1, <2>2, <2>4, <3>2, EffectMoves
    <3>4. Stream("client")' = x2 /\ Stream("server")' = y2
      BY <2>4, <3>3, StreamsAfter
    <3>5. QED
      BY <3>1, <3>3, <3>4, StreamsStep
  <2>5. QED
    BY <2>1, <2>2, <2>3, <2>4, StepEffect
<1>3. QED
  BY <1>1, <1>2, ConnectionInvariant, PTL DEF Spec, ImplementsStreams, Abstract!Spec

=============================================================================
