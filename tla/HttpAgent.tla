------------------------------ MODULE HttpAgent ------------------------------
(***************************************************************************)
(* DHttpAgent (ns-2.35/dash/httpagent.cc): a FullTcp endpoint that carries *)
(* application messages beside its byte stream. TCP counts bytes only; the *)
(* agent finds the message of a segment in one of three queues:            *)
(*   appq    messages not sent yet                  (_send_applicationq)   *)
(*   waitq   messages sent and not acknowledged     (_send_waitingq)       *)
(*   recvq   messages received behind a hole        (_recvq)               *)
(* It is correct as long as segment and message boundaries coincide.       *)
(*                                                                         *)
(* The connection is established and sequence numbers are relative to its  *)
(* first data byte. Congestion control is an arbitrary window.             *)
(***************************************************************************)
EXTENDS Integers, Sequences, FiniteSets, FiniteSetsExt

CONSTANTS MaxSeg,       \* maxseg_, the payload of a TCP segment
          ChunkHeader   \* sizeof(DashMediaChunk), part of the size of a piece

ASSUME AgentAssumption ==
    MaxSeg \in Nat /\ ChunkHeader \in Nat /\ 0 < ChunkHeader /\ ChunkHeader < MaxSeg

NoData == [size |-> 0]

AgentInit ==
    [appq |-> <<>>, waitq |-> <<>>, recvq |-> <<>>,
     curseq |-> 0,          \* bytes given by the application
     t_seqno |-> 0,         \* next byte to send
     maxseq |-> 0,          \* one past the highest byte sent
     highest_ack |-> 0,
     rcv_nxt |-> 0,         \* next byte expected
     rq |-> {},             \* bytes received behind a hole
     ackNow |-> FALSE,      \* TF_ACKNOW or TF_DELACK
     fatal |-> FALSE]       \* Log(DASH_LOG_FATAL) has ended the process

Fatal(a) == [a EXCEPT !.fatal = TRUE]

Lesser(x, y) == IF x < y THEN x ELSE y

(* The member of a set of numbers that has k - 1 smaller ones, and the     *)
(* entries of a queue with the given indices, in their order.              *)
Nth(S, k) == CHOOSE x \in S : Cardinality({y \in S : y < x}) = k - 1

Kept(q, indices) == [k \in 1..Cardinality(indices) |-> q[Nth(indices, k)]]

-----------------------------------------------------------------------------
(* Sending *)

sendmsg(a, m) == [a EXCEPT !.appq = Append(@, m), !.curseq = @ + m.size]

(* The payload foutput gives to a segment that starts at seqno when        *)
(* window() is w: what is buffered, cut at the window and at maxseg_.      *)
Datalen(a, seqno, w) ==
    LET left == Lesser(a.curseq - a.highest_ack, w * MaxSeg) - (seqno - a.highest_ack)
    IN  IF left < 0 THEN 0 ELSE Lesser(left, MaxSeg)

(* The first entry of the waiting queue that getRetransmitData accepts, as *)
(* a set with at most one index.                                           *)
(* Mutant: the segment is taken to be the oldest one that waits. *)
getRetransmitData_Oldest(a, seqno, datalen) ==
    {i \in DOMAIN a.waitq : i = 1}

getRetransmitData(a, seqno, datalen) ==
    LET fits(i) == a.waitq[i].start_seq = seqno /\ a.waitq[i].length <= datalen
    IN  {i \in DOMAIN a.waitq : fits(i) /\ \A j \in 1..(i-1) : ~fits(j)}

(* sendpacket's choice of the message for datalen > 0 bytes at seqno: the  *)
(* agent afterwards and the message. A message larger than the segment is  *)
(* cut if it is a media piece; part and rest have a header of their own.   *)
Cut(m, n) == [m EXCEPT !.size = IF n < ChunkHeader THEN ChunkHeader ELSE n]

TakeNew(a, seqno, datalen) ==
    LET m      == Head(a.appq)
        part   == IF m.size > datalen THEN Cut(m, datalen) ELSE m
        behind == IF m.size > datalen
                  THEN <<Cut(m, m.size - (datalen - ChunkHeader))>> ELSE <<>>
    IN  [agent |-> [a EXCEPT !.appq = behind \o Tail(@),
                             !.waitq = Append(@, [data |-> part, start_seq |-> seqno,
                                                  length |-> part.size])],
         data |-> part]

sendpacket(a, seqno, datalen) ==
    IF datalen = 0 THEN [agent |-> a, data |-> NoData]
    ELSE IF seqno < a.maxseq
    THEN LET found == getRetransmitData(a, seqno, datalen)
         IN  IF found = {} THEN [agent |-> Fatal(a), data |-> NoData]
             ELSE [agent |-> a, data |-> a.waitq[CHOOSE i \in found : TRUE].data]
    ELSE IF a.appq = <<>> \/ (Head(a.appq).size > datalen /\ ~Head(a.appq).media)
    THEN [agent |-> Fatal(a), data |-> NoData]
    ELSE TakeNew(a, seqno, datalen)

(* One call of foutput: the agent afterwards and the packet it puts on the *)
(* network. moves tells send_much, which advances t_seqno_ (sent), from    *)
(* fast_retransmit, which does not.                                        *)
foutput(a, seqno, w, moves) ==
    LET n == Datalen(a, seqno, w)
        p == sendpacket(a, seqno, n)
        b == p.agent
    IN  [agent  |-> [b EXCEPT !.ackNow = FALSE,
                              !.maxseq = IF seqno + n > @ THEN seqno + n ELSE @,
                              !.t_seqno = IF moves THEN @ + n ELSE @],
         packet |-> [seqno |-> seqno, datalen |-> n, ackno |-> a.rcv_nxt,
                     data |-> p.data]]

(* timeout_action: go back to the first unacknowledged byte. *)
(* Mutant: send_much goes on behind what was sent last. *)
timeout_action_KeepsSeq(a) == a

(* Mutant: highest_ack_ taken for the last byte acknowledged, as in ns's   *)
(* one-way TCP, where it is not the first byte missing.                    *)
timeout_action_LastAcked(a) == [a EXCEPT !.t_seqno = a.highest_ack - 1]

timeout_action(a) == [a EXCEPT !.t_seqno = a.highest_ack]

-----------------------------------------------------------------------------
(* Acknowledgements *)

(* Mutant: an entry stays until the acknowledgement after its own. *)
removeAckedPacket_Late(a, old, new) ==
    [a EXCEPT !.waitq = Kept(@, {i \in DOMAIN a.waitq : a.waitq[i].start_seq >= old})]

removeAckedPacket(a, old, new) ==
    IF \E i \in DOMAIN a.waitq : a.waitq[i].start_seq < old THEN Fatal(a)
    ELSE [a EXCEPT !.waitq = Kept(@, {i \in DOMAIN a.waitq : a.waitq[i].start_seq >= new})]

newack(a, ackno) ==
    removeAckedPacket([a EXCEPT !.highest_ack = ackno,
                                !.t_seqno = IF @ < ackno THEN ackno ELSE @],
                      a.highest_ack, ackno)

-----------------------------------------------------------------------------
(* Receiving *)

(* Trimming of what was received before. A complete duplicate is answered  *)
(* by an ACK and carries no data any more.                                 *)
Overlap(a, p) == IF p.seqno < a.rcv_nxt THEN Lesser(a.rcv_nxt - p.seqno, p.datalen) ELSE 0

Trim(a, p) == [p EXCEPT !.seqno = @ + Overlap(a, p), !.datalen = @ - Overlap(a, p)]

(* reass: the bytes of the segment join the reassembly queue, and rcv_nxt_ *)
(* moves to the first byte that is still missing.                          *)
reass(a, p) ==
    LET bytes == a.rq \cup (p.seqno .. (p.seqno + p.datalen - 1))
        next  == Min((a.rcv_nxt .. (a.rcv_nxt + Cardinality(bytes))) \ bytes)
    IN  [a EXCEPT !.rq = bytes \ (a.rcv_nxt .. next), !.rcv_nxt = next]

(* Mutant: the queue is in the order of arrival. *)
addtoReceiveQueue_Append(a, p) ==
    [a EXCEPT !.recvq = Append(@, [data |-> p.data, start_seq |-> p.seqno])]

(* The segment is inserted before the first one that starts behind it. So  *)
(* the queue is in the order of start_seq, and a segment that is already   *)
(* queued is queued again, behind its first copy.                          *)
addtoReceiveQueue(a, p) ==
    LET end   == Len(a.recvq) + 1
        later == {i \in 1..(end - 1) : a.recvq[i].start_seq > p.seqno}
        it    == Min(later \cup {end})
    IN  [a EXCEPT !.recvq = SubSeq(@, 1, it - 1)
                            \o <<[data |-> p.data, start_seq |-> p.seqno]>>
                            \o SubSeq(@, it, end - 1)]

(* findReceivedData(start_seq, end_seq), called when the hole at start_seq *)
(* has been filled and rcv_nxt_ = end_seq: the check before its loop. The  *)
(* loop then hands over the front of the queue as long as it starts below  *)
(* end_seq, one iteration after the other.                                 *)
findReceivedData(a, start_seq) ==
    IF a.recvq[1].start_seq # start_seq THEN Fatal(a) ELSE a

Delivering(a) == a.recvq # <<>> /\ a.recvq[1].start_seq < a.rcv_nxt

(* A segment with data, trimmed: either it is handed over at once (and the *)
(* reassembly queue is empty), or it is queued, and the queued messages    *)
(* whose hole it fills are handed over.                                    *)
(* Mutant: the reassembly queue is not looked at. *)
InOrder_AnyQueue(a, p) == p.seqno = a.rcv_nxt

InOrder(a, p) == p.seqno = a.rcv_nxt /\ a.rq = {}

Queue(a, p) ==
    LET b == addtoReceiveQueue(reass(a, p), p)
    IN  IF b.rcv_nxt > a.rcv_nxt THEN findReceivedData(b, a.rcv_nxt) ELSE b

(* recv, up to the application: trimming, then the acknowledgement, then   *)
(* the data. An acknowledgement of bytes never sent drops the packet.      *)
Acked(a, p) ==
    IF p.ackno > a.highest_ack THEN newack(a, p.ackno) ELSE a

recv(a, p) ==
    LET t == Trim(a, p)
        b == Acked(a, p)
    IN  IF p.ackno > a.maxseq THEN [a EXCEPT !.ackNow = TRUE]
        ELSE IF b.fatal \/ p.datalen = 0 THEN b
        ELSE IF t.datalen = 0 THEN [b EXCEPT !.ackNow = TRUE]
        ELSE IF InOrder(a, t)
        THEN [b EXCEPT !.rcv_nxt = @ + t.datalen, !.ackNow = TRUE]
        ELSE [Queue(b, t) EXCEPT !.ackNow = TRUE]

(* The message that recv hands over itself, if any. *)
HandsOver(a, p) ==
    /\ p.ackno <= a.maxseq
    /\ Trim(a, p).datalen > 0
    /\ InOrder(a, Trim(a, p))

=============================================================================
