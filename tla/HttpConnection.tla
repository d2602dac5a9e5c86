--------------------------- MODULE HttpConnection ---------------------------
(***************************************************************************)
(* Two connected DHttpAgents, the path between them, and the applications  *)
(* that use them. The path keeps packets in order and may lose any of them *)
(* (the queue and the MAC of the access point both drop). Reordering at    *)
(* the receiver comes from losses and retransmissions.                     *)
(*                                                                         *)
(* The applications are abstracted to what DashSession's                   *)
(* OneExchangeAtATime shows of them: the client sends one request and      *)
(* waits for the whole response, which the server sends at once, as full   *)
(* segments and one for the rest; the next request leaves from inside recv *)
(* or later, from a timer.                                                 *)
(***************************************************************************)
EXTENDS HttpAgent

CONSTANTS RequestSize,    \* sizeof(DashAppData)
          Responses,      \* [media, sizes] of the responses
          MaxExchanges,   \* bound: requests of the client
          MaxWindow,      \* bound: largest window, in segments
          MaxInFlight,    \* bound: packets on the way, per direction
          MaxLosses,      \* bound: packets lost
          MaxEarly        \* bound: retransmissions before they are needed

ASSUME ConnectionAssumption ==
    /\ RequestSize \in 1..MaxSeg
    /\ Responses \subseteq [media : BOOLEAN, sizes : Seq(1..MaxSeg)]
    /\ \A r \in Responses :
           /\ r.sizes # <<>>
           /\ \A i \in 1..(Len(r.sizes) - 1) : r.sizes[i] = MaxSeg
           /\ ~r.media => Len(r.sizes) = 1
    /\ {MaxExchanges, MaxLosses, MaxEarly} \subseteq Nat
    /\ {MaxWindow, MaxInFlight} \subseteq Nat \ {0}

Ends == {"client", "server"}
Peer(e) == IF e = "client" THEN "server" ELSE "client"

VARIABLES agent,      \* agent[e]: the DHttpAgent of e
          net,        \* net[e]: packets on their way to e
          last,       \* last[e]: the message e was given last
          asked,      \* requests the client has sent
          expected,   \* the piece it expects next; 0: it waits for nothing
          losses, early

vars == <<agent, net, last, asked, expected, losses, early>>
appVars == <<last, asked, expected>>

Request(n) == [exchange |-> n, piece |-> 0, size |-> RequestSize, media |-> FALSE,
               final |-> TRUE]

Piece(n, r, i) == [exchange |-> n, piece |-> i, size |-> r.sizes[i], media |-> r.media,
                   final |-> i = Len(r.sizes)]

None == [exchange |-> 0]

Init == /\ agent = [e \in Ends |-> AgentInit]
        /\ net = [e \in Ends |-> <<>>]
        /\ last = [e \in Ends |-> None]
        /\ asked = 0 /\ expected = 0
        /\ losses = 0 /\ early = 0

-----------------------------------------------------------------------------
(* The applications. b is the agent of e after the step that calls         *)
(* app_->recv. Everything an application sends is queued by sendmsg.       *)

Answer(b, n, r) ==
    LET k == Len(r.sizes)
    IN  [b EXCEPT !.appq = @ \o [i \in 1..k |-> Piece(n, r, i)],
                  !.curseq = @ + (k - 1) * MaxSeg + r.sizes[k]]

ServerApp(b, m) ==
    /\ \E r \in Responses : agent' = [agent EXCEPT !["server"] = Answer(b, m.exchange, r)]
    /\ UNCHANGED <<asked, expected>>

(* Mutant: the next request leaves before the response is complete. *)
MayAsk_Pipelined(m) == asked < MaxExchanges

MayAsk(m) == m.final /\ asked < MaxExchanges

Unexpected(m) == m.exchange # asked \/ m.piece # expected

ClientApp(b, m) ==
    \/ /\ Unexpected(m)
       /\ agent' = [agent EXCEPT !["client"] = b]
       /\ UNCHANGED <<asked, expected>>
    \/ /\ ~Unexpected(m)
       /\ agent' = [agent EXCEPT !["client"] = b]
       /\ expected' = IF m.final THEN 0 ELSE expected + 1
       /\ UNCHANGED asked
    \/ /\ ~Unexpected(m)
       /\ MayAsk(m)
       /\ agent' = [agent EXCEPT !["client"] = sendmsg(b, Request(asked + 1))]
       /\ asked' = asked + 1
       /\ expected' = 1

recvBytes(e, b, m) ==
    /\ last' = [last EXCEPT ![e] = m]
    /\ IF e = "server" THEN ServerApp(b, m) ELSE ClientApp(b, m)

-----------------------------------------------------------------------------
Running == \A e \in Ends : ~agent[e].fatal

(* The client's first request, or one from its download timer. *)
Ask == /\ expected = 0 /\ asked < MaxExchanges
       /\ ~Delivering(agent["client"])
       /\ agent' = [agent EXCEPT !["client"] = sendmsg(@, Request(asked + 1))]
       /\ asked' = asked + 1 /\ expected' = 1
       /\ UNCHANGED <<net, last, losses, early>>

(* One foutput of send_much. It is called at the end of every handler; how *)
(* many segments it lets out then depends on the window, on Nagle's rule   *)
(* and on the burst limit, so each of them is a step of its own. With      *)
(* nothing to send it sends the ACK that is owed.                          *)
Output(e) ==
    LET a == agent[e]
    IN  \E w \in 1..MaxWindow :
            /\ Len(net[Peer(e)]) < MaxInFlight
            /\ a.ackNow \/ Datalen(a, a.t_seqno, w) > 0
            /\ LET out == foutput(a, a.t_seqno, w, TRUE)
               IN  /\ agent' = [agent EXCEPT ![e] = out.agent]
                   /\ net' = [net EXCEPT ![Peer(e)] = Append(@, out.packet)]
            /\ UNCHANGED <<appVars, losses, early>>

(* recv of a packet. *)
Receive(e) ==
    LET a == agent[e]
        p == Head(net[e])
    IN  /\ net[e] # <<>> /\ ~Delivering(a)
        /\ net' = [net EXCEPT ![e] = Tail(@)]
        /\ IF HandsOver(a, p) THEN recvBytes(e, recv(a, p), p.data)
           ELSE agent' = [agent EXCEPT ![e] = recv(a, p)] /\ UNCHANGED appVars
        /\ UNCHANGED <<losses, early>>

(* recv of one duplicate ACK too many: fast retransmit, and the packet is  *)
(* dropped. The threshold is abstracted: any duplicate ACK may be the one. *)
FastRetransmit(e) ==
    LET a == agent[e]
        p == Head(net[e])
    IN  /\ net[e] # <<>> /\ ~Delivering(a)
        /\ p.datalen = 0 /\ p.ackno = a.highest_ack /\ a.highest_ack < a.maxseq
        /\ early < MaxEarly /\ Len(net[Peer(e)]) < MaxInFlight
        /\ \E w \in 1..MaxWindow :
               LET out == foutput(a, a.highest_ack, w, FALSE)
               IN  /\ agent' = [agent EXCEPT ![e] = out.agent]
                   /\ net' = [net EXCEPT ![e] = Tail(@), ![Peer(e)] = Append(@, out.packet)]
        /\ early' = early + 1
        /\ UNCHANGED <<appVars, losses>>

(* One iteration of the loop of findReceivedData. *)
HandOver(e) ==
    LET a == agent[e]
    IN  /\ Delivering(a)
        /\ recvBytes(e, [a EXCEPT !.recvq = Tail(@)], a.recvq[1].data)
        /\ UNCHANGED <<net, losses, early>>

(* The retransmission timer, which is pending while bytes are not          *)
(* acknowledged: when nothing is under way any more, or too early.         *)
Silent == \A e \in Ends : net[e] = <<>> /\ ~agent[e].ackNow

TimerPending(e) == /\ agent[e].highest_ack < agent[e].t_seqno
                   /\ ~Delivering(agent[e])

Timeout(e) == /\ TimerPending(e)
              /\ \/ Silent /\ UNCHANGED early
                 \/ ~Silent /\ early < MaxEarly /\ early' = early + 1
              /\ agent' = [agent EXCEPT ![e] = timeout_action(@)]
              /\ UNCHANGED <<net, appVars, losses>>

(* The environment: the path discards a packet. *)
Lose(e) == /\ net[e] # <<>>
           /\ losses < MaxLosses /\ losses' = losses + 1
           /\ net' = [net EXCEPT ![e] = Tail(@)]
           /\ UNCHANGED <<agent, appVars, early>>

(* All requests are answered and everything is acknowledged. *)
Done == /\ asked = MaxExchanges /\ expected = 0 /\ Silent
        /\ \A e \in Ends : /\ agent[e].highest_ack = agent[e].curseq
                           /\ agent[e].recvq = <<>>

Terminated == (Done \/ ~Running) /\ UNCHANGED vars

Next ==
    \/ /\ Running
       /\ \/ Ask
          \/ \E e \in Ends :
                 \/ Output(e) \/ Receive(e) \/ HandOver(e) \/ FastRetransmit(e)
                 \/ Timeout(e) \/ Lose(e)
    \/ Terminated

Spec == Init /\ [][Next]_vars

(* The scheduler dispatches every event: send_much is called again and     *)
(* again, packets that are not lost arrive, loops end, and a timer expires *)
(* when nothing is under way; it need not expire early.                    *)
Step(A) == Running /\ A

Fairness == \A e \in Ends : /\ WF_vars(Step(Output(e)))
                            /\ WF_vars(Step(Receive(e)))
                            /\ WF_vars(Step(HandOver(e)))
                            /\ WF_vars(Step(Silent /\ Timeout(e)))

FairSpec == Spec /\ Fairness

-----------------------------------------------------------------------------
Message == {Request(n) : n \in 1..MaxExchanges}
           \cup UNION {{Piece(n, r, i) : n \in 1..MaxExchanges, i \in DOMAIN r.sizes} :
                          r \in Responses}

Agent == [appq : Seq(Message), waitq : Seq([data : Message, start_seq : Nat, length : Nat]),
          recvq : Seq([data : Message, start_seq : Nat]),
          curseq : Nat, t_seqno : Nat, maxseq : Nat, highest_ack : Nat, rcv_nxt : Nat,
          rq : SUBSET Nat, ackNow : BOOLEAN, fatal : BOOLEAN]

Packet == [seqno : Nat, datalen : 0..MaxSeg, ackno : Nat, data : Message \cup {NoData}]

TypeOK ==
    /\ agent \in [Ends -> Agent]
    /\ net \in [Ends -> Seq(Packet)]
    /\ last \in [Ends -> Message \cup {None}]
    /\ asked \in 0..MaxExchanges /\ expected \in Nat
    /\ losses \in 0..MaxLosses /\ early \in 0..MaxEarly

(* None of the inconsistencies that the agent treats as fatal occurs: a    *)
(* retransmission finds its message, new bytes have one, acknowledged      *)
(* entries are in order, a filled hole has its message in front.           *)
NoFatal == Running

(* Segments and messages coincide: a segment on the network carries one    *)
(* whole message of its own length, although foutput cuts segments from a  *)
(* byte count that knows no messages. So no message is ever cut, and none  *)
(* is swallowed by the segment of its predecessor.                         *)
WholeMessages ==
    \A e \in Ends : \A i \in DOMAIN net[e] :
        net[e][i].datalen = net[e][i].data.size

(* The messages that wait for an acknowledgement tile the bytes between    *)
(* highest_ack_ and maxseq_, and everything acknowledged has been received *)
(* by the peer: getRetransmitData and removeAckedPacket rely on both.      *)
WaitingTiled ==
    \A e \in Ends :
        LET a == agent[e]
            n == Len(a.waitq)
        IN  /\ n = 0 => a.highest_ack = a.maxseq
            /\ n > 0 => /\ a.waitq[1].start_seq = a.highest_ack
                        /\ a.waitq[n].start_seq + a.waitq[n].length = a.maxseq
            /\ \A i \in 2..n :
                   a.waitq[i].start_seq = a.waitq[i-1].start_seq + a.waitq[i-1].length
            /\ a.highest_ack <= agent[Peer(e)].rcv_nxt

(* The receive queue holds the messages of exactly the bytes in TCP's      *)
(* reassembly queue, apart from those being handed over. So "receiving     *)
(* reassembled queue should be empty!" (recv) is never logged.             *)
RecvqMatchesTcp ==
    \A e \in Ends :
        LET a == agent[e]
            span(x) == x.start_seq .. (x.start_seq + x.data.size - 1)
        IN  a.rq = UNION {span(a.recvq[i]) :
                             i \in {j \in DOMAIN a.recvq : a.recvq[j].start_seq >= a.rcv_nxt}}

-----------------------------------------------------------------------------
(* Refinement: the stream towards e consists of the messages in e's queue  *)
(* that are being handed over (copies in a row count once), then those the *)
(* peer has sent and e has not received, then those the peer has yet to    *)
(* send.                                                                   *)
Stream(e) ==
    LET a == agent[e]
        b == agent[Peer(e)]
        ready  == {a.recvq[i] : i \in {j \in DOMAIN a.recvq : a.recvq[j].start_seq < a.rcv_nxt}}
        away   == {b.waitq[i] : i \in {j \in DOMAIN b.waitq : b.waitq[j].start_seq >= a.rcv_nxt}}
        starts == {x.start_seq : x \in ready \cup away}
        at(n)  == CHOOSE x \in ready \cup away : x.start_seq = n
    IN  [k \in 1..Cardinality(starts) |-> at(Nth(starts, k)).data] \o b.appq

Abstract == INSTANCE Streams WITH chan <- [e \in Ends |-> Stream(e)]

(* A pair of agents over a lossy path gives the applications the streams   *)
(* that DashSession assumes.                                               *)
ImplementsStreams == Abstract!Spec

(* Whatever is sent arrives, although packets are lost: retransmission     *)
(* always makes progress.                                                  *)
EventuallyDelivered ==
    \A e \in Ends : (Stream(e) # <<>>) ~> (Stream(e) = <<>>)

=============================================================================
