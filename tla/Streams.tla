------------------------------- MODULE Streams -------------------------------
(***************************************************************************)
(* What a connected pair of DHttpAgents promises the two applications, and *)
(* what DashSession assumes of its streams c2s and s2c: in each direction  *)
(* messages arrive in the order they were sent, none is lost, and only a   *)
(* media piece may be handed over more than once, the copies in a row.     *)
(* An application may send from inside its recv, so a delivery may extend  *)
(* the opposite stream.                                                    *)
(***************************************************************************)
EXTENDS Integers, Sequences

CONSTANTS Ends,        \* the two applications
          Message, None

VARIABLES chan,        \* chan[e]: sent to e and not yet finally delivered
          last         \* last[e]: the message e was given last

streamVars == <<chan, last>>

Extends(s, t) == Len(s) <= Len(t) /\ SubSeq(t, 1, Len(s)) = s

Init == /\ chan = [e \in Ends |-> <<>>]
        /\ last = [e \in Ends |-> None]

Send(e) == /\ Extends(chan[e], chan'[e])
           /\ \A f \in Ends \ {e} : chan'[f] = chan[f]
           /\ UNCHANGED last

Handed(e) == /\ chan[e] # <<>>
             /\ last' = [last EXCEPT ![e] = Head(chan[e])]
             /\ \A f \in Ends \ {e} : Extends(chan[f], chan'[f])

Deliver(e) == Handed(e) /\ chan'[e] = Tail(chan[e])

DeliverDuplicate(e) ==
    /\ Handed(e)
    /\ Head(chan[e]).media
    /\ chan'[e] = chan[e]

Next == /\ chan' \in [Ends -> Seq(Message)]
        /\ \E e \in Ends : Send(e) \/ Deliver(e) \/ DeliverDuplicate(e)

Spec == Init /\ [][Next]_streamVars

=============================================================================
