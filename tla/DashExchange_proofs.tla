------------------------- MODULE DashExchange_proofs -------------------------
(***************************************************************************)
(* What is in the two streams. First the bandwidths: requests and pieces   *)
(* stay within a set of offered bandwidths that the selection functions do *)
(* not leave, which gives the user's bit rate bounds. Then the order of    *)
(* the messages: the three phases of a session, from which it follows that *)
(* nothing fatal happens, and the exact content of the streams while one   *)
(* segment after the other is downloaded.                                  *)
(***************************************************************************)
EXTENDS DashSession_proofs

(* A set of offered bandwidths that a client keeps to, whatever it         *)
(* measures.                                                               *)
ClosedLadder(A) ==
    /\ A \subseteq Offered(BwList)
    /\ initial_bandwidth(BwList, LowerBound) \in A
    /\ \A r \in Int : best_matching_bandwidth(BwList, LowerBound, UpperBound, r) \in A

RequestWithin(A) ==
    {MetaRequest, ItemRequest} \cup
    {r \in [type : {"media"}, bandwidth : Int, segment_id : Int] : r.bandwidth \in A}

ResponseWithin(A) == {m \in Response : m.type = "media" => m.bandwidth \in A}

LadderInv(A) == /\ c2s \in Seq(RequestWithin(A))
                /\ s2c \in Seq(ResponseWithin(A))
                /\ Streaming => reqBw \in A

(* The offered bandwidths within the user's bounds. *)
Allowed == {b \in Offered(BwList) : InBounds(b)}

LEMMA OfferedPositive == Offered(BwList) \subseteq Nat \ {0}
BY MediaAssumption, LenProperties DEF Offered

(* The whole ladder is such a set. *)
LEMMA OfferedClosed == ClosedLadder(Offered(BwList))
<1>1. BwList \in Seq(Int) /\ BwList # <<>>
  BY MediaAssumption, SeqMonotonic
<1>2. QED
  BY <1>1, InitialOffered, BestMatchOffered, ClientAssumption DEF ClosedLadder

(* So are the bandwidths within the bounds, on an ascending ladder. *)
LEMMA AllowedClosed ==
    ASSUME Ascending(BwList), Allowed # {}
    PROVE  ClosedLadder(Allowed)
<1>1. BwList \in Seq(Int) /\ BwList # <<>>
  BY MediaAssumption, SeqMonotonic
<1>2. LowerBound \in Int /\ UpperBound \in Int
  BY ClientAssumption
<1>3. PICK b \in Offered(BwList) : Within(b, LowerBound, UpperBound)
  BY DEF Allowed, InBounds, Within
<1>4. /\ initial_bandwidth(BwList, LowerBound) \in Offered(BwList)
      /\ Within(initial_bandwidth(BwList, LowerBound), LowerBound, UpperBound)
  BY <1>1, <1>2, <1>3, InitialOffered, InitialWithin
<1>5. ASSUME NEW r \in Int
      PROVE  /\ best_matching_bandwidth(BwList, LowerBound, UpperBound, r) \in Offered(BwList)
             /\ Within(best_matching_bandwidth(BwList, LowerBound, UpperBound, r),
                       LowerBound, UpperBound)
  BY <1>1, <1>2, <1>3, BestMatchOffered, BestMatchWithin
<1>6. QED
  BY <1>4, <1>5 DEF ClosedLadder, Allowed, InBounds, Within

-----------------------------------------------------------------------------
LEMMA RecvLadder ==
    ASSUME NEW A, ClosedLadder(A), ClientInv,
           NEW m \in GoodResponse(reqSeg, reqSent), m \in ResponseWithin(A),
           Streaming => reqBw \in A, ClientRecv(m)
    PROVE  /\ Streaming' => reqBw' \in A
           /\ c2s' = c2s \/ c2s' = Append(c2s, ItemRequest)
<1> USE DEF sessionVars, downloadVars
<1>1. CASE Fatal
  BY <1>1 DEF Fatal, Streaming
<1>2. CASE process_m3u8meta_data(m) /\ ~Fatal
  <2>1. ~Streaming'
    BY <1>2 DEF process_m3u8meta_data, Streaming, DASH_M3U8ITEM_REQUEST_RECEIVED,
                DASH_M3U8META_REQUEST_SENT, DASH_M3U8ITEM_REQUEST_SENT
  <2>2. QED
    BY <1>2, <2>1 DEF process_m3u8meta_data
<1>3. CASE process_m3u8item_data(m) /\ ~Fatal
  <2>1. /\ state = DASH_M3U8ITEM_REQUEST_SENT /\ c2s' = c2s
        /\ reqBw' = initial_bandwidth(bwqueue, LowerBound)
    BY <1>3 DEF process_m3u8item_data
  <2>2. bwqueue = BwList
    BY <2>1 DEF ClientInv, LadderKnown, DASH_M3U8ITEM_REQUEST_SENT
  <2>3. QED
    BY <2>1, <2>2 DEF ClosedLadder
<1>4. CASE process_media_data(m)
  <2>1. /\ m.bandwidth \in A /\ m.bandwidth \in Int
        /\ Streaming /\ c2s' = c2s
    BY <1>4, MediaOnlyStreaming DEF ResponseWithin, process_media_data
  <2>2. CASE reqBw' = reqBw \/ reqBw' = m.bandwidth
    BY <2>1, <2>2
  <2>3. CASE change_requested_bandwidth(m.bandwidth)
    <3>1. bwqueue = BwList
      BY <2>1 DEF ClientInv, LadderKnown, Streaming, DASH_M3U8ITEM_REQUEST_RECEIVED
    <3>2. EstimatedBitrates(m.bandwidth) \subseteq Int
      BY <2>1, LadderTyped, NextHigherInt, ClientAssumption DEF EstimatedBitrates
    <3>3. QED
      BY <2>1, <2>3, <3>1, <3>2 DEF change_requested_bandwidth, ClosedLadder
  <2>4. QED
    BY <1>4, <2>2, <2>3 DEF process_media_data, SegmentComplete
<1>5. QED
  BY <1>1, <1>2, <1>3, <1>4 DEF ClientRecv

LEMMA ServeLadder ==
    ASSUME NEW A, ClosedLadder(A), SessionInv, LadderInv(A), ServerRecv
    PROVE  c2s' \in Seq(RequestWithin(A)) /\ s2c' \in Seq(ResponseWithin(A))
<1>1. /\ c2s # <<>> /\ c2s' = Tail(c2s)
      /\ c2s \in Seq(RequestWithin(A)) /\ s2c \in Seq(ResponseWithin(A))
      /\ c2s \in Seq(GoodRequest(reqSeg, reqSent))
      /\ reqSeg \in Int /\ reqSent \in BOOLEAN
  BY DEF ServerRecv, LadderInv, SessionInv, GoodChannels, ClientInv, ClientTypeOK
<1> DEFINE r == Head(c2s)
<1>2. r \in RequestWithin(A) /\ c2s' \in Seq(RequestWithin(A))
  BY <1>1, HeadTailProperties
<1>3. r \in GoodRequest(reqSeg, reqSent)
  BY <1>1, HeadTailProperties
<1>4. CASE \E program \in ProgramIds : s2c' = s2c \o send_m3u8meta_response(program)
  <2>1. PICK program \in ProgramIds : s2c' = s2c \o send_m3u8meta_response(program)
    BY <1>4
  <2>2. M3U8Meta(program, IF MediaPresent THEN BwList ELSE <<>>) \in Response
    BY <1>1, GoodMessages DEF GoodResponse
  <2>3. M3U8Meta(program, IF MediaPresent THEN BwList ELSE <<>>) \in ResponseWithin(A)
    BY <2>2 DEF ResponseWithin, M3U8Meta
  <2>4. send_m3u8meta_response(program) \in Seq(ResponseWithin(A))
    BY <2>3 DEF send_m3u8meta_response
  <2>5. QED
    BY <1>1, <1>2, <2>1, <2>4, ConcatProperties
<1>5. CASE s2c' = Append(s2c, M3U8Item)
  <2>1. M3U8Item \in Response
    BY <1>1, GoodMessages DEF GoodResponse
  <2>2. M3U8Item \in ResponseWithin(A)
    BY <2>1 DEF ResponseWithin, M3U8Item
  <2>3. QED
    BY <1>1, <1>2, <1>5, <2>2, AppendProperties
<1>6. CASE /\ r.type = "media"
           /\ s2c' = IF r.bandwidth > 0 /\ r.segment_id >= 0
                     THEN s2c \o send_media_data_response(r.bandwidth, r.segment_id)
                     ELSE s2c
  <2>1. /\ r.bandwidth \in A /\ r.bandwidth \in Int /\ r.segment_id \in Int
        /\ MediaPresent /\ NotAhead(r.segment_id, reqSeg, reqSent)
    BY <1>2, <1>3, <1>6 DEF RequestWithin, GoodRequest, MetaRequest, ItemRequest
  <2> DEFINE pieces == send_media_data_response(r.bandwidth, r.segment_id)
  <2>2. pieces \in Seq(Response)
    <3>1. pieces \in Seq(GoodResponse(reqSeg, reqSent))
      BY <1>1, <2>1, PiecesGood
    <3>2. GoodResponse(reqSeg, reqSent) \subseteq Response
      BY <1>1, GoodMessages
    <3> HIDE DEF pieces
    <3>3. QED
      BY <3>1, <3>2, SeqMonotonic
  <2>3. ServedBandwidth(r.bandwidth) = r.bandwidth
    BY <2>1 DEF ServedBandwidth, ClosedLadder, Offered
  <2>4. \A i \in DOMAIN pieces : pieces[i].bandwidth = r.bandwidth
    BY <2>3 DEF send_media_data_response, Chunk
  <2> HIDE DEF pieces
  <2>5. pieces \in Seq(ResponseWithin(A))
    BY <2>1, <2>2, <2>4, LenProperties DEF ResponseWithin
  <2>6. QED
    BY <1>1, <1>2, <1>6, <2>5, ConcatProperties DEF pieces
<1>7. QED
  BY <1>4, <1>5, <1>6 DEF ServerRecv

-----------------------------------------------------------------------------
LEMMA InitLadder == ASSUME NEW A PROVE Init => LadderInv(A)
BY EmptySeq DEF Init, ClientInit, LadderInv, Streaming, DASH_INITIAL,
                DASH_M3U8ITEM_REQUEST_RECEIVED

LEMMA NextLadder ==
    ASSUME NEW A, ClosedLadder(A)
    PROVE  SessionInv /\ LadderInv(A) /\ [Next]_vars => LadderInv(A)'
<1> SUFFICES ASSUME SessionInv, LadderInv(A), [Next]_vars PROVE LadderInv(A)'
  OBVIOUS
<1> USE DEF sessionVars, downloadVars
<1>1. MetaRequest \in RequestWithin(A) /\ ItemRequest \in RequestWithin(A)
  BY DEF RequestWithin
<1>2. CASE Start
  <2>1. ~Streaming' /\ c2s' = Append(c2s, MetaRequest) /\ s2c' = s2c
    BY <1>2 DEF Start, start, Streaming, DASH_M3U8META_REQUEST_SENT,
                DASH_M3U8ITEM_REQUEST_RECEIVED
  <2>2. QED
    BY <1>1, <2>1, AppendProperties DEF LadderInv
<1>3. CASE Serve
  <2>1. UNCHANGED <<sessionVars, downloadVars>> /\ ServerRecv
    BY <1>3 DEF Serve, clientVars
  <2>2. QED
    BY <2>1, ServeLadder DEF LadderInv, Streaming
<1>4. CASE Deliver \/ DeliverDuplicate
  <2>1. s2c # <<>> /\ ClientRecv(Head(s2c)) /\ (s2c' = s2c \/ s2c' = Tail(s2c))
    BY <1>4 DEF Deliver, DeliverDuplicate
  <2>2. /\ Head(s2c) \in GoodResponse(reqSeg, reqSent)
        /\ Head(s2c) \in ResponseWithin(A) /\ s2c' \in Seq(ResponseWithin(A))
    BY <2>1, HeadTailProperties DEF SessionInv, GoodChannels, LadderInv
  <2>3. /\ Streaming' => reqBw' \in A
        /\ c2s' = c2s \/ c2s' = Append(c2s, ItemRequest)
    BY <2>1, <2>2, RecvLadder DEF SessionInv, LadderInv
  <2>4. QED
    BY <1>1, <2>2, <2>3, AppendProperties DEF LadderInv
<1>5. CASE DownloadTimeout
  <2>1. Streaming /\ reqBw' = reqBw /\ s2c' = s2c
    BY <1>5 DEF DownloadTimeout, timeout_download, SessionInv, ClientInv, NotStarted
  <2>2. c2s' = c2s \/ c2s' = Append(c2s, MediaRequest(reqBw, reqSeg))
    BY <1>5 DEF DownloadTimeout, timeout_download
  <2>3. MediaRequest(reqBw, reqSeg) \in RequestWithin(A)
    BY <2>1, OfferedPositive DEF ClosedLadder, LadderInv, MediaRequest, RequestWithin, SessionInv,
                            ClientInv, ClientTypeOK
  <2>4. QED
    BY <2>1, <2>2, <2>3, AppendProperties DEF LadderInv
<1>6. CASE PlayTimeout
  BY <1>6 DEF PlayTimeout, timeout_play, LadderInv, Streaming
<1>7. CASE UNCHANGED vars
  BY <1>7 DEF vars, clientVars, chanVars, LadderInv, Streaming
<1>8. QED
  BY <1>2, <1>3, <1>4, <1>5, <1>6, <1>7 DEF Next, Terminated

(* On an ascending ladder the client requests a bandwidth within the       *)
(* user's bounds whenever one is offered: the corrections of               *)
(* best_matching_bandwidth do not undo each other.                         *)
THEOREM BoundsHonoured ==
    ASSUME Ascending(BwList) PROVE Spec => []BoundsRespected
<1>1. CASE Allowed = {}
  <2>1. BoundsRespected
    BY <1>1 DEF Allowed, BoundsRespected
  <2>2. QED
    BY <2>1, PTL
<1>2. CASE Allowed # {}
  <2>1. LadderInv(Allowed) => BoundsRespected
    BY DEF LadderInv, BoundsRespected, Allowed
  <2>2. SessionInv /\ LadderInv(Allowed) /\ [Next]_vars => LadderInv(Allowed)'
    BY <1>2, AllowedClosed, NextLadder
  <2>3. Init => LadderInv(Allowed)
    BY InitLadder
  <2>4. QED
    BY <2>1, <2>2, <2>3, SessionInvariant, PTL DEF Spec
<1>3. QED
  BY <1>1, <1>2

(* Every request and every piece is for an offered bandwidth. *)
LEMMA AlwaysOffered == Spec => []LadderInv(Offered(BwList))
<1>1. SessionInv /\ LadderInv(Offered(BwList)) /\ [Next]_vars => LadderInv(Offered(BwList))'
  BY OfferedClosed, NextLadder
<1>2. Init => LadderInv(Offered(BwList))
  BY InitLadder
<1>3. QED
  BY <1>1, <1>2, SessionInvariant, PTL DEF Spec

-----------------------------------------------------------------------------
(* The phases of a session whose medium can be streamed by a class that    *)
(* implements change_requested_bandwidth and measures positive rates.      *)
Streamable ==
    /\ MediaPresent /\ SegmentCount > 0 /\ ~BoundsClash
    /\ Kind # "DashClient" /\ Rates \subseteq Nat \ {0}

MediaOnly(q) == \A i \in 1..Len(q) : q[i].type = "media"

PhaseInv ==
    /\ proc = "running"
    /\ state = 0 => c2s = <<>> /\ s2c = <<>>
    /\ state = 1 => \/ c2s = <<MetaRequest>> /\ s2c = <<>>
                    \/ c2s = <<>> /\ s2c = <<M3U8Meta(0, BwList)>>
    /\ state = 3 => \/ c2s = <<ItemRequest>> /\ s2c = <<>>
                    \/ c2s = <<>> /\ s2c = <<M3U8Item>>
    /\ Streaming => MediaOnly(c2s) /\ MediaOnly(s2c)

LEMMA StateSplit ==
    ASSUME ClientInv PROVE \/ state = 0 \/ state = 1 \/ state = 3 \/ state \in {4, 5}
BY DEF ClientInv, LadderKnown

LEMMA StreamingStates ==
    ASSUME ClientInv PROVE Streaming <=> state \in {4, 5}
BY DEF ClientInv, LadderKnown, Streaming, DASH_M3U8ITEM_REQUEST_RECEIVED

LEMMA NextHigherPositive ==
    ASSUME NEW bw \in Offered(BwList)
    PROVE  next_higher_bandwidth(BwList, bw) \in Nat \ {0}
<1> DEFINE at == {i \in DOMAIN BwList : BwList[i] = bw}
           k  == CHOOSE i \in at : \A j \in at : i <= j
<1>1. BwList \in Seq(Nat \ {0}) /\ Len(BwList) \in Nat /\ DOMAIN BwList = 1..Len(BwList)
  BY MediaAssumption, LenProperties
<1>2. at # {} /\ at \subseteq Nat
  BY <1>1 DEF Offered
<1>3. k \in at
  <2>1. \E i \in at : \A j \in at : i <= j
    BY <1>2, SmallestExists
  <2> HIDE DEF at
  <2>2. QED
    BY <2>1
<1>4. next_higher_bandwidth(BwList, bw) = IF k = Len(BwList) THEN bw ELSE BwList[k+1]
  BY <1>2 DEF next_higher_bandwidth
<1>5. k \in 1..Len(BwList) /\ bw \in Nat \ {0}
  BY <1>1, <1>3, OfferedPositive
<1> HIDE DEF at, k
<1>6. k # Len(BwList) => k + 1 \in 1..Len(BwList)
  <2>1. k \in 1..Len(BwList) /\ Len(BwList) \in Nat
    BY <1>1, <1>5
  <2>2. QED
    BY <2>1
<1>7. k # Len(BwList) => BwList[k + 1] \in Nat \ {0}
  BY <1>1, <1>6, ElementOfSeq
<1>8. QED
  BY <1>4, <1>5, <1>7

(* No estimate is zero, so no rate ends the process. *)
LEMMA ChangeRuns ==
    ASSUME Streamable, ClientInv, Streaming, NEW bw \in Offered(BwList),
           change_requested_bandwidth(bw)
    PROVE  proc' = proc
<1>1. bwqueue = BwList
  BY DEF ClientInv, LadderKnown, Streaming, DASH_M3U8ITEM_REQUEST_RECEIVED
<1>2. bw \in Nat \ {0} /\ next_higher_bandwidth(BwList, bw) \in Nat \ {0}
  BY NextHigherPositive, OfferedPositive
<1>3. \A r \in EstimatedBitrates(bw) : r \in Nat \ {0}
  BY <1>1, <1>2, Zenon DEF EstimatedBitrates, Streamable
<1>4. QED
  BY <1>3 DEF change_requested_bandwidth, Streamable

LEMMA RecvPhase ==
    ASSUME Streamable, SessionInv, LadderInv(Offered(BwList)), PhaseInv, s2c # <<>>,
           ClientRecv(Head(s2c)),
           s2c' = Tail(s2c) \/ (s2c' = s2c /\ Head(s2c).type = "media")
    PROVE  PhaseInv'
<1> DEFINE m == Head(s2c)
<1> USE DEF sessionVars, downloadVars
<1>1. ClientInv
  BY DEF SessionInv
<1>2. CASE state = 0
  BY <1>2 DEF PhaseInv
<1>3. CASE state = 1
  <2>1. c2s = <<>> /\ s2c = <<M3U8Meta(0, BwList)>> /\ m = M3U8Meta(0, BwList)
    BY <1>3 DEF PhaseInv
  <2>2. m.type = "meta" /\ m.bwqueue = BwList /\ process_m3u8meta_data(m)
    BY <2>1 DEF M3U8Meta, ClientRecv, process_m3u8item_data, process_media_data
  <2>3. bwqueue \o BwList # <<>>
    <3>1. bwqueue = <<>> /\ BwList \in Seq(Nat \ {0}) /\ BwList # <<>>
      BY <1>1, <1>3, MediaAssumption DEF ClientInv, LadderKnown
    <3>2. QED
      BY <3>1, ConcatEmptySeq
  <2>4. c2s' = Append(c2s, ItemRequest) /\ state' = 3 /\ proc' = proc
    BY <1>3, <2>2, <2>3 DEF process_m3u8meta_data, DASH_M3U8META_REQUEST_SENT,
                            DASH_M3U8ITEM_REQUEST_SENT
  <2>5. c2s' = <<ItemRequest>> /\ s2c' = <<>>
    BY <2>1, <2>2, <2>4
  <2>6. QED
    BY <2>4, <2>5 DEF PhaseInv, Streaming, DASH_M3U8ITEM_REQUEST_RECEIVED
<1>4. CASE state = 3
  <2>1. c2s = <<>> /\ s2c = <<M3U8Item>> /\ m = M3U8Item
    BY <1>4 DEF PhaseInv
  <2>2. /\ m.type = "item" /\ process_m3u8item_data(m)
        /\ m.segment_duration = SegDuration /\ m.total_duration = TotalDuration
    BY <2>1 DEF M3U8Item, ClientRecv, process_m3u8meta_data, process_media_data
  <2>3. /\ SegDuration \in Nat /\ TotalDuration \div SegDuration \in Int
        /\ SegDuration > 0 /\ TotalDuration \div SegDuration > 0
    BY MediaAssumption DEF Streamable, SegmentCount
  <2>4. dlTimer = "idle"
    BY <1>1, <1>4 DEF ClientInv, NotStarted, Streaming, DASH_M3U8ITEM_REQUEST_RECEIVED
  <2>5. c2s' = c2s /\ state' = 4 /\ proc' = proc
    <3>1. ~(\/ state # DASH_M3U8ITEM_REQUEST_SENT
            \/ m.segment_duration <= 0
            \/ m.total_duration \div m.segment_duration <= 0
            \/ BoundsClash)
      BY <1>4, <2>2, <2>3 DEF Streamable, DASH_M3U8ITEM_REQUEST_SENT
    <3>2. QED
      BY <2>2, <2>4, <3>1 DEF process_m3u8item_data, DASH_M3U8ITEM_REQUEST_RECEIVED
  <2>6. s2c' = <<>> /\ c2s' = <<>>
    BY <2>1, <2>2, <2>5
  <2>7. QED
    BY <2>5, <2>6 DEF PhaseInv, MediaOnly
<1>5. CASE state \in {4, 5}
  <2>1. Streaming /\ MediaOnly(c2s) /\ MediaOnly(s2c)
    BY <1>1, <1>5, StreamingStates DEF PhaseInv
  <2>2. s2c \in Seq(ResponseWithin(Offered(BwList)))
    BY DEF LadderInv
  <2>3. m.type = "media" /\ m \in ResponseWithin(Offered(BwList))
    BY <2>1, <2>2, HeadTailProperties, EmptySeq, LenProperties DEF MediaOnly
  <2>4. process_media_data(m) /\ m.bandwidth \in Offered(BwList)
    BY <2>3 DEF ResponseWithin, ClientRecv, process_m3u8meta_data, process_m3u8item_data
  <2>5. UNCHANGED <<c2s, state>>
    BY <2>4 DEF process_media_data
  <2>6. proc' = proc
    BY <1>1, <2>1, <2>4, ChangeRuns DEF process_media_data, SegmentComplete
  <2>7. MediaOnly(s2c')
    BY <2>1, <2>2, HeadTailProperties, LenProperties DEF MediaOnly
  <2>8. QED
    BY <1>5, <2>1, <2>5, <2>6, <2>7 DEF PhaseInv, MediaOnly
<1>6. QED
  BY <1>1, <1>2, <1>3, <1>4, <1>5, StateSplit

LEMMA ServePhase ==
    ASSUME Streamable, SessionInv, PhaseInv, Serve PROVE PhaseInv'
<1>1. /\ UNCHANGED <<state, proc>> /\ ServerRecv /\ c2s # <<>> /\ c2s' = Tail(c2s)
  BY DEF Serve, clientVars, sessionVars, ServerRecv
<1>2. ClientInv /\ ClientInv' /\ MediaPresent
  BY ServeStep DEF SessionInv, Streamable
<1>3. CASE state = 0
  BY <1>1, <1>3 DEF PhaseInv
<1>4. CASE state = 1
  <2>1. c2s = <<MetaRequest>> /\ s2c = <<>>
    BY <1>1, <1>4 DEF PhaseInv
  <2>2. Head(c2s) = MetaRequest /\ c2s' = <<>>
    BY <1>1, <2>1
  <2>3. PICK program \in ProgramIds : s2c' = s2c \o send_m3u8meta_response(program)
    BY <1>1, <2>2 DEF ServerRecv, MetaRequest
  <2>4. program = 0 /\ send_m3u8meta_response(program) = <<M3U8Meta(0, BwList)>>
    BY <1>2 DEF ProgramIds, send_m3u8meta_response
  <2>5. s2c' = <<M3U8Meta(0, BwList)>>
    BY <2>1, <2>3, <2>4
  <2>6. QED
    BY <1>1, <1>4, <2>2, <2>5 DEF PhaseInv, Streaming, DASH_M3U8ITEM_REQUEST_RECEIVED
<1>5. CASE state = 3
  <2>1. c2s = <<ItemRequest>> /\ s2c = <<>>
    BY <1>1, <1>5 DEF PhaseInv
  <2>2. Head(c2s) = ItemRequest /\ c2s' = <<>>
    BY <1>1, <2>1
  <2>3. s2c' = <<M3U8Item>>
    BY <1>1, <2>1, <2>2 DEF ServerRecv, ItemRequest
  <2>4. QED
    BY <1>1, <1>5, <2>2, <2>3 DEF PhaseInv, Streaming, DASH_M3U8ITEM_REQUEST_RECEIVED
<1>6. CASE state \in {4, 5}
  <2>1. Streaming /\ MediaOnly(c2s) /\ MediaOnly(s2c)
    BY <1>2, <1>6, StreamingStates DEF PhaseInv
  <2>2. /\ c2s \in Seq(GoodRequest(reqSeg, reqSent)) /\ s2c \in Seq(GoodResponse(reqSeg, reqSent))
        /\ reqSeg \in Int /\ reqSent \in BOOLEAN
    BY DEF SessionInv, GoodChannels, ClientInv, ClientTypeOK
  <2> DEFINE r == Head(c2s)
  <2>3. r.type = "media" /\ r \in GoodRequest(reqSeg, reqSent)
    BY <1>1, <2>1, <2>2, HeadTailProperties, EmptySeq, LenProperties DEF MediaOnly
  <2>4. MediaOnly(c2s')
    BY <1>1, <2>1, <2>2, HeadTailProperties, LenProperties DEF MediaOnly
  <2>5. \/ s2c' = s2c
        \/ s2c' = s2c \o send_media_data_response(r.bandwidth, r.segment_id)
    BY <1>1, <2>3 DEF ServerRecv
  <2>6. MediaOnly(s2c')
    <3>1. CASE s2c' = s2c
      BY <2>1, <3>1
    <3>2. CASE s2c' = s2c \o send_media_data_response(r.bandwidth, r.segment_id)
      <4> DEFINE pieces == send_media_data_response(r.bandwidth, r.segment_id)
      <4>1. /\ r.bandwidth \in Int /\ r.segment_id \in Int
            /\ NotAhead(r.segment_id, reqSeg, reqSent)
        BY <2>3 DEF GoodRequest, MetaRequest, ItemRequest
      <4>2. pieces \in Seq(GoodResponse(reqSeg, reqSent))
        BY <1>2, <2>2, <4>1, PiecesGood
      <4>3. \A i \in DOMAIN pieces : pieces[i].type = "media"
        BY DEF send_media_data_response, Chunk
      <4> HIDE DEF pieces
      <4>4. MediaOnly(s2c \o pieces)
        BY <2>1, <2>2, <4>2, <4>3, ConcatProperties, LenProperties DEF MediaOnly
      <4>5. QED
        BY <3>2, <4>4 DEF pieces
    <3>3. QED
      BY <2>5, <3>1, <3>2
  <2>7. QED
    BY <1>1, <1>6, <2>4, <2>6 DEF PhaseInv
<1>7. QED
  BY <1>2, <1>3, <1>4, <1>5, <1>6, StateSplit

LEMMA NextPhase ==
    ASSUME Streamable
    PROVE  SessionInv /\ LadderInv(Offered(BwList)) /\ PhaseInv /\ [Next]_vars => PhaseInv'
<1> SUFFICES ASSUME SessionInv, LadderInv(Offered(BwList)), PhaseInv, [Next]_vars
             PROVE  PhaseInv'
  OBVIOUS
<1> USE DEF sessionVars, downloadVars
<1>1. ClientInv
  BY DEF SessionInv
<1>2. CASE Start
  <2>1. state = 0 /\ state' = 1 /\ c2s' = Append(c2s, MetaRequest) /\ s2c' = s2c /\ proc' = proc
    BY <1>2 DEF Start, start, DASH_INITIAL, DASH_M3U8META_REQUEST_SENT
  <2>2. c2s' = <<MetaRequest>> /\ s2c' = <<>>
    BY <2>1 DEF PhaseInv
  <2>3. QED
    BY <2>1, <2>2 DEF PhaseInv, Streaming, DASH_M3U8ITEM_REQUEST_RECEIVED
<1>3. CASE Serve
  BY <1>3, ServePhase
<1>4. CASE Deliver \/ DeliverDuplicate
  BY <1>4, RecvPhase DEF Deliver, DeliverDuplicate
<1>5. CASE DownloadTimeout
  <2>1. Streaming
    BY <1>1, <1>5 DEF DownloadTimeout, timeout_download, ClientInv, NotStarted
  <2>2. state \in {4, 5} /\ state' \in {4, 5} /\ UNCHANGED <<s2c, proc>>
    BY <1>1, <1>5, <2>1, StreamingStates
       DEF DownloadTimeout, timeout_download, DASH_STREAM_REQUEST_SENT
  <2>3. c2s' = c2s \/ c2s' = Append(c2s, MediaRequest(reqBw, reqSeg))
    BY <1>5 DEF DownloadTimeout, timeout_download
  <2>4. MediaOnly(c2s')
    <3>1. c2s \in Seq(Request) /\ MediaRequest(reqBw, reqSeg) \in Request
      <4>1. reqSeg \in Int /\ reqSent \in BOOLEAN /\ reqBw \in Int
        BY <1>1 DEF ClientInv, ClientTypeOK
      <4>2. c2s \in Seq(Request)
        BY <4>1, GoodMessages, SeqMonotonic DEF SessionInv, GoodChannels
      <4>3. QED
        BY <4>1, <4>2 DEF MediaRequest, Request
    <3>2. MediaRequest(reqBw, reqSeg).type = "media"
      BY DEF MediaRequest
    <3>3. QED
      BY <2>1, <2>3, <3>1, <3>2, AppendProperties, LenProperties DEF PhaseInv, MediaOnly
  <2>5. QED
    BY <2>1, <2>2, <2>4 DEF PhaseInv
<1>6. CASE PlayTimeout
  BY <1>6 DEF PlayTimeout, timeout_play, PhaseInv, Streaming
<1>7. CASE UNCHANGED vars
  BY <1>7 DEF vars, clientVars, chanVars, PhaseInv, Streaming
<1>8. QED
  BY <1>2, <1>3, <1>4, <1>5, <1>6, <1>7 DEF Next, Terminated

LEMMA InitPhase == Init => PhaseInv
BY DEF Init, ClientInit, DASH_INITIAL, PhaseInv, Streaming, DASH_M3U8ITEM_REQUEST_RECEIVED

(* The messages in flight are always those of the session's phase. *)
THEOREM PhaseInvariant == ASSUME Streamable PROVE Spec => []PhaseInv
BY InitPhase, NextPhase, AlwaysOffered, SessionInvariant, PTL DEF Spec

(* A client never meets a situation the code reports as fatal (a message   *)
(* in the wrong state, an empty ladder, a timer armed twice, a rate of     *)
(* zero), whatever the interleaving and the duplicated pieces, if its      *)
(* medium is on the server and has a segment, its bounds are legal, its    *)
(* class is not the abstract one, and it measures positive rates.          *)
THEOREM NothingFatal == ASSUME Streamable PROVE Spec => []NoFatal
<1>1. PhaseInv => NoFatal
  BY DEF PhaseInv, NoFatal
<1>2. QED
  BY <1>1, PhaseInvariant, PTL

-----------------------------------------------------------------------------
(* One exchange at a time. A segment without a byte would be answered by   *)
(* no piece at all, so the ladder and the duration must not give one.      *)
NoEmptySegment == \A b \in Offered(BwList) : SegmentSize(b, SegDuration) > 0

(* OneExchangeAtATime, and the bytes that count as received: those of the  *)
(* pieces before the next one.                                             *)
ExchangeInv ==
    /\ ~Streaming => recvSize = 0
    /\ reqSent => reqSeg >= 0
    /\ Streaming =>
           \/ ~reqSent /\ c2s = <<>> /\ Fresh = <<>> /\ expTs = 0 /\ recvSize = 0
           \/ /\ reqSent /\ c2s = <<MediaRequest(reqBw, reqSeg)>> /\ Fresh = <<>>
              /\ expTs = 0 /\ recvSize = 0
           \/ /\ reqSent /\ c2s = <<>> /\ recvSize = expTs * Payload
              /\ LET all == send_media_data_response(reqBw, reqSeg)
                 IN  /\ expTs \in 0..(Len(all) - 1)
                     /\ Fresh = SubSeq(all, expTs + 1, Len(all))

(* All pieces but the last are full and leave something to come; the last  *)
(* one completes the segment.                                              *)
LEMMA PieceArithmetic ==
    ASSUME NEW size \in Nat, size > 0, NEW k \in Nat, k < PieceCount(size)
    PROVE  /\ PieceCount(size) \in Nat /\ PieceSize(size, k) \in Nat
           /\ k + 1 < PieceCount(size) =>
                 /\ k * Payload + PieceSize(size, k) = (k + 1) * Payload
                 /\ (k + 1) * Payload < size
           /\ k + 1 = PieceCount(size) => k * Payload + PieceSize(size, k) >= size
<1> DEFINE d == size \div Payload
           e == size % Payload
<1>1. Payload \in Nat /\ Payload > 0
  BY MediaAssumption
<1>2. d \in Nat /\ e \in Nat /\ size = Payload * d + e /\ e < Payload
  <2>1. d = size \div Payload /\ e = size % Payload
    OBVIOUS
  <2> HIDE DEF d, e
  <2>2. QED
    BY <1>1, <2>1
<1>3. /\ PieceCount(size) = d + (IF e > 0 THEN 1 ELSE 0)
      /\ PieceSize(size, k) = IF k < d THEN Payload ELSE e
  BY DEF PieceCount, PieceSize
<1> HIDE DEF d, e
<1>4. PieceCount(size) \in Nat /\ PieceSize(size, k) \in Nat
  BY <1>1, <1>2, <1>3
<1>5. ASSUME k + 1 < PieceCount(size)
      PROVE  k * Payload + PieceSize(size, k) = (k + 1) * Payload /\ (k + 1) * Payload < size
  <2>1. k < d /\ (k + 1 < d \/ (k + 1 = d /\ e > 0))
    BY <1>2, <1>3, <1>5
  <2>2. (k + 1) * Payload = k * Payload + Payload
    BY <1>1
  <2>3. CASE k + 1 < d
    <3>1. (k + 2) * Payload <= d * Payload
      BY <1>1, <1>2, <2>3
    <3>2. QED
      BY <1>1, <1>2, <1>3, <2>1, <2>2, <3>1
  <2>4. CASE k + 1 = d /\ e > 0
    BY <1>1, <1>2, <1>3, <2>1, <2>2, <2>4
  <2>5. QED
    BY <2>1, <2>3, <2>4
<1>6. ASSUME k + 1 = PieceCount(size)
      PROVE  k * Payload + PieceSize(size, k) >= size
  <2>1. CASE e > 0
    <3>1. k = d
      BY <1>2, <1>3, <1>6, <2>1
    <3>2. QED
      BY <1>1, <1>2, <1>3, <3>1
  <2>2. CASE e = 0
    <3>1. k + 1 = d /\ k < d
      BY <1>2, <1>3, <1>6, <2>2
    <3>2. Payload * d = k * Payload + Payload
      BY <1>1, <1>2, <3>1
    <3>3. QED
      BY <1>1, <1>2, <1>3, <2>2, <3>1, <3>2
  <2>3. QED
    BY <1>2, <2>1, <2>2
<1>7. QED
  BY <1>4, <1>5, <1>6

(* The pieces of a segment. *)
LEMMA PiecesOf ==
    ASSUME MediaPresent, NoEmptySegment,
           NEW bw \in Offered(BwList), NEW seg \in 0..(SegmentCount - 1)
    PROVE  LET all == send_media_data_response(bw, seg)
               size == SegmentSize(bw, SegDuration)
           IN  /\ size \in Nat /\ size > 0
               /\ all \in Seq(Response) /\ Len(all) = PieceCount(size) /\ Len(all) > 0
               /\ \A i \in 1..Len(all) :
                      /\ all[i].type = "media" /\ all[i].bandwidth = bw
                      /\ all[i].segment_id = seg
                      /\ all[i].transport_stream_id = i - 1
                      /\ all[i].media_packet_size = PieceSize(size, i - 1)
<1> DEFINE all == send_media_data_response(bw, seg)
           size == SegmentSize(bw, SegDuration)
<1>1. bw \in Nat \ {0} /\ seg \in Int
  BY OfferedPositive, CountIsInt
<1>2. size \in Nat /\ size > 0
  BY <1>1, SizeIsNat DEF NoEmptySegment
<1>3. ServedBandwidth(bw) = bw /\ ServedSegment(seg) = seg
  BY <1>1, CountIsInt DEF ServedBandwidth, ServedSegment, Offered
<1>4. all = [i \in 1..PieceCount(size) |-> Chunk(bw, seg, i - 1, PieceSize(size, i - 1))]
  BY <1>3 DEF send_media_data_response
<1>5. all \in Seq(Response)
  <2>1. PICK sent : sent \in BOOLEAN
    BY Zenon
  <2>2. NotAhead(seg, -1, sent)
    BY <1>1, <2>1, CountIsInt DEF NotAhead
  <2>3. all \in Seq(GoodResponse(-1, sent)) /\ GoodResponse(-1, sent) \subseteq Response
    BY <1>1, <2>1, <2>2, PiecesGood, GoodMessages
  <2> HIDE DEF all
  <2>4. QED
    BY <2>3, SeqMonotonic
<1> HIDE DEF all, size
<1>6. Payload \in Nat /\ Payload > 0
  BY MediaAssumption
<1>7. PieceCount(size) \in Nat /\ PieceCount(size) > 0
  <2> DEFINE d == size \div Payload
             e == size % Payload
  <2>1. d = size \div Payload /\ e = size % Payload
    OBVIOUS
  <2> HIDE DEF d, e
  <2>2. d \in Nat /\ e \in Nat /\ size = Payload * d + e
    BY <1>2, <1>6, <2>1
  <2>3. d = 0 => e > 0
    BY <1>2, <1>6, <2>2
  <2>4. PieceCount(size) = d + (IF e > 0 THEN 1 ELSE 0)
    BY <2>1 DEF PieceCount
  <2>5. QED
    BY <2>2, <2>3, <2>4
<1>8. Len(all) = PieceCount(size)
  BY <1>4, <1>5, <1>7, LenProperties
<1>9. \A i \in 1..Len(all) : all[i] = Chunk(bw, seg, i - 1, PieceSize(size, i - 1))
  BY <1>4, <1>8
<1>10. QED
  BY <1>2, <1>5, <1>7, <1>8, <1>9 DEF Chunk, all, size

(* What is left of a sequence whose first k elements are gone. *)
LEMMA Remaining ==
    ASSUME NEW S, NEW q \in Seq(S), NEW k \in Nat, k < Len(q)
    PROVE  LET rest == SubSeq(q, k + 1, Len(q))
           IN  /\ rest # <<>> /\ Head(rest) = q[k + 1]
               /\ Tail(rest) = SubSeq(q, k + 2, Len(q))
               /\ k + 1 = Len(q) => Tail(rest) = <<>>
<1>1. Len(q) \in Nat /\ k + 1 \in 1..Len(q) /\ Len(q) \in (k + 1)..Len(q)
  BY LenProperties
<1>2. /\ Head(SubSeq(q, k + 1, Len(q))) = q[k + 1]
      /\ Tail(SubSeq(q, k + 1, Len(q))) = SubSeq(q, (k + 1) + 1, Len(q))
  BY <1>1, HeadTailOfSubSeq
<1>3. Len(SubSeq(q, k + 1, Len(q))) = Len(q) - (k + 1) + 1
  <2>1. \A i \in (k + 1)..Len(q) : q[i] \in S
    BY <1>1, ElementOfSeq
  <2>2. QED
    BY <1>1, <2>1, SubSeqProperties
<1>4. SubSeq(q, k + 1, Len(q)) # <<>>
  <2> DEFINE rest == SubSeq(q, k + 1, Len(q))
  <2>1. Len(rest) > 0
    BY <1>1, <1>3
  <2> HIDE DEF rest
  <2>2. rest # <<>>
    BY <2>1
  <2>3. QED
    BY <2>2 DEF rest
<1>5. k + 1 = Len(q) => SubSeq(q, k + 2, Len(q)) = <<>>
  BY <1>1, SubSeqEmpty
<1>6. (k + 1) + 1 = k + 2
  OBVIOUS
<1>7. QED
  BY <1>2, <1>4, <1>5, <1>6

(* The types of a streaming session, and its current segment. *)
LEMMA ExchangeTyped ==
    ASSUME SessionInv, LadderInv(Offered(BwList)), PhaseInv, ExchangeInv, Streaming
    PROVE  /\ s2c \in Seq(Response) /\ MediaOnly(s2c)
           /\ reqBw \in Offered(BwList) /\ reqSeg \in Int /\ reqSent \in BOOLEAN
           /\ reqSent => reqSeg \in 0..(SegmentCount - 1)
           /\ segDur = SegDuration /\ totalSegs = SegmentCount
<1>1. ClientInv /\ reqSeg \in Int /\ reqSent \in BOOLEAN
  BY DEF SessionInv, ClientInv, ClientTypeOK
<1>2. s2c \in Seq(Response)
  BY <1>1, GoodMessages, SeqMonotonic DEF SessionInv, GoodChannels
<1>3. reqSent => reqSeg \in 0..(SegmentCount - 1)
  BY <1>1, CountIsInt DEF ClientInv, Started, ExchangeInv
<1>4. QED
  BY <1>1, <1>2, <1>3 DEF PhaseInv, LadderInv, ClientInv, Started

(* The second copy of a piece, or its first copy if it stays in front. *)
LEMMA StaleDelivery ==
    ASSUME Streamable, NoEmptySegment, SessionInv, LadderInv(Offered(BwList)), PhaseInv,
           ExchangeInv, Streaming, s2c # <<>>,
           s2c' = Tail(s2c) \/ s2c' = s2c,
           Head(s2c).type = "media", ~Expected(Head(s2c)),
           UNCHANGED <<state, downloadVars, c2s>>
    PROVE  ExchangeInv'
<1> USE DEF downloadVars
<1>1. /\ s2c \in Seq(Response) /\ reqBw \in Offered(BwList) /\ MediaPresent
      /\ reqSent => reqSeg \in 0..(SegmentCount - 1)
  BY ExchangeTyped DEF Streamable
<1>2. Fresh = Tail(s2c) /\ Streaming'
  BY DEF Fresh, Streaming
<1>3. Fresh' = Fresh
  <2>1. CASE s2c' = s2c
    BY <2>1 DEF Fresh, Expected
  <2>2. CASE s2c' = Tail(s2c) /\ Tail(s2c) = <<>>
    BY <1>2, <2>2 DEF Fresh
  <2>3. CASE s2c' = Tail(s2c) /\ Tail(s2c) # <<>>
    <3> DEFINE all == send_media_data_response(reqBw, reqSeg)
    <3>1. /\ reqSent /\ expTs \in 0..(Len(all) - 1)
          /\ Fresh = SubSeq(all, expTs + 1, Len(all))
      BY <1>2, <2>3 DEF ExchangeInv
    <3>2. /\ all \in Seq(Response)
          /\ \A i \in 1..Len(all) : /\ all[i].segment_id = reqSeg
                                    /\ all[i].transport_stream_id = i - 1
      BY <1>1, <3>1, PiecesOf
    <3> HIDE DEF all
    <3>3. Len(all) \in Nat /\ expTs \in Nat /\ expTs < Len(all) /\ expTs + 1 \in 1..Len(all)
      BY <3>1, <3>2, LenProperties
    <3>4. Head(Fresh) = all[expTs + 1]
      BY <3>1, <3>2, <3>3, Remaining
    <3>5. Head(Fresh).segment_id = reqSeg /\ Head(Fresh).transport_stream_id = expTs
      BY <3>2, <3>3, <3>4
    <3>6. Expected(Head(s2c))'
      BY <1>2, <2>3, <3>5 DEF Expected
    <3>7. Fresh' = s2c'
      BY <3>6 DEF Fresh
    <3>8. QED
      BY <1>2, <2>3, <3>7
  <2>4. QED
    BY <2>1, <2>2, <2>3
<1>4. QED
  BY <1>2, <1>3 DEF ExchangeInv

(* A piece that is accepted is the next one of the current segment; the    *)
(* segment is complete exactly when it is the last.                        *)
LEMMA FreshDelivery ==
    ASSUME Streamable, NoEmptySegment, SessionInv, LadderInv(Offered(BwList)), PhaseInv,
           ExchangeInv, Streaming, s2c # <<>>,
           s2c' = Tail(s2c) \/ s2c' = s2c,
           Head(s2c).type = "media", Expected(Head(s2c)), process_media_data(Head(s2c))
    PROVE  ExchangeInv'
<1> USE DEF downloadVars, sessionVars
<1> DEFINE m == Head(s2c)
           all == send_media_data_response(reqBw, reqSeg)
           size == SegmentSize(reqBw, SegDuration)
<1>1. /\ s2c \in Seq(Response) /\ MediaOnly(s2c) /\ reqBw \in Offered(BwList) /\ MediaPresent
      /\ reqSent => reqSeg \in 0..(SegmentCount - 1)
      /\ segDur = SegDuration /\ totalSegs = SegmentCount /\ reqSeg \in Int
  BY ExchangeTyped DEF Streamable
<1>2. UNCHANGED <<c2s, state, segDur, totalSegs>> /\ Streaming'
  BY DEF process_media_data, Streaming
<1>3. Fresh = s2c
  BY DEF Fresh
<1>4. /\ reqSent /\ c2s = <<>> /\ recvSize = expTs * Payload /\ expTs \in 0..(Len(all) - 1)
      /\ s2c = SubSeq(all, expTs + 1, Len(all))
  BY <1>3 DEF ExchangeInv
<1>5. /\ size \in Nat /\ size > 0 /\ all \in Seq(Response) /\ Len(all) = PieceCount(size)
      /\ \A i \in 1..Len(all) : /\ all[i].type = "media" /\ all[i].bandwidth = reqBw
                                /\ all[i].segment_id = reqSeg
                                /\ all[i].transport_stream_id = i - 1
                                /\ all[i].media_packet_size = PieceSize(size, i - 1)
  BY <1>1, <1>4, PiecesOf
<1>6. reqSeg \in 0..(SegmentCount - 1)
  BY <1>1, <1>4
<1>7. SegmentSize(reqBw, segDur) = size
  BY <1>1
<1> HIDE DEF all, size
<1>8. Len(all) \in Nat /\ expTs \in Nat /\ expTs < Len(all) /\ expTs + 1 \in 1..Len(all)
  BY <1>4, <1>5, LenProperties
<1>9. /\ m = all[expTs + 1] /\ Tail(s2c) = SubSeq(all, expTs + 2, Len(all))
      /\ expTs + 1 = Len(all) => Tail(s2c) = <<>>
  BY <1>4, <1>5, <1>8, Remaining
<1>10. /\ m.bandwidth = reqBw /\ m.segment_id = reqSeg /\ m.transport_stream_id = expTs
       /\ m.media_packet_size = PieceSize(size, expTs)
  BY <1>5, <1>8, <1>9
<1>11. CASE expTs + 1 < Len(all)
  <2>1. /\ recvSize + m.media_packet_size = (expTs + 1) * Payload
        /\ recvSize + m.media_packet_size < size
    <3>1. /\ expTs * Payload + PieceSize(size, expTs) = (expTs + 1) * Payload
          /\ (expTs + 1) * Payload < size
      BY <1>5, <1>8, <1>11, PieceArithmetic
    <3>2. QED
      BY <1>4, <1>10, <3>1
  <2>2. (expTs + 1) * Payload \in Int
    BY <1>8, MediaAssumption
  <2>3. ~(recvSize + m.media_packet_size >= SegmentSize(m.bandwidth, segDur))
    BY <1>5, <1>7, <1>10, <2>1, <2>2
  <2>4. /\ reqBw' = m.bandwidth /\ recvSize' = recvSize + m.media_packet_size
        /\ expTs' = expTs + 1 /\ UNCHANGED <<reqSeg, reqSent>>
    BY <2>3 DEF process_media_data
  <2>5. /\ reqBw' = reqBw /\ recvSize' = expTs' * Payload
    BY <1>10, <2>1, <2>4
  <2>6. Fresh' = SubSeq(all, expTs' + 1, Len(all))
    <3>1. expTs + 1 \in Nat /\ (expTs + 1) + 1 = expTs + 2 /\ expTs + 2 \in 1..Len(all)
      BY <1>8, <1>11
    <3>2. /\ Tail(s2c) # <<>> /\ Head(Tail(s2c)) = all[expTs + 2]
      BY <1>5, <1>9, <1>11, <3>1, Remaining
    <3>3. CASE s2c' = Tail(s2c)
      <4>1. Head(s2c').segment_id = reqSeg /\ Head(s2c').transport_stream_id = expTs + 1
        BY <1>5, <1>8, <3>1, <3>2, <3>3
      <4>2. Expected(Head(s2c))'
        BY <2>4, <4>1 DEF Expected
      <4>3. Fresh' = s2c'
        BY <4>2 DEF Fresh
      <4>4. QED
        BY <1>9, <2>4, <3>1, <3>3, <4>3
    <3>4. CASE s2c' = s2c
      <4>1. ~Expected(Head(s2c))'
        BY <1>8, <1>10, <2>4, <3>4 DEF Expected
      <4>2. Fresh' = Tail(s2c)
        BY <3>4, <4>1 DEF Fresh
      <4>3. QED
        BY <1>9, <2>4, <3>1, <4>2
    <3>5. QED
      BY <3>3, <3>4
  <2>7. expTs' \in 0..(Len(all) - 1)
    BY <1>8, <1>11, <2>4
  <2>8. send_media_data_response(reqBw', reqSeg') = all
    BY <2>4, <2>5 DEF all
  <2>9. QED
    BY <1>2, <1>4, <1>6, <2>4, <2>5, <2>6, <2>7, <2>8 DEF ExchangeInv
<1>12. CASE expTs + 1 = Len(all)
  <2>1. recvSize + m.media_packet_size >= size /\ recvSize + m.media_packet_size \in Int
    <3>1. /\ expTs * Payload + PieceSize(size, expTs) >= size
          /\ PieceSize(size, expTs) \in Nat
      BY <1>5, <1>8, <1>12, PieceArithmetic
    <3>2. expTs * Payload \in Int
      BY <1>8, MediaAssumption
    <3>3. QED
      BY <1>4, <1>10, <3>1, <3>2
  <2>2. ~(recvSize + m.media_packet_size < SegmentSize(m.bandwidth, segDur))
    BY <1>5, <1>7, <1>10, <2>1
  <2>3. SegmentComplete(m)
    BY <2>2 DEF process_media_data
  <2>4. reqSent' = FALSE /\ recvSize' = 0 /\ expTs' = 0 /\ reqSeg' = NextRequest
    BY <2>3 DEF SegmentComplete
  <2>5. reqSeg' # reqSeg
    BY <1>6, <2>4, CountIsInt DEF NextRequest
  <2>6. Fresh' = <<>>
    <3>1. CASE s2c' = Tail(s2c)
      BY <1>9, <1>12, <3>1 DEF Fresh
    <3>2. CASE s2c' = s2c
      <4>1. ~Expected(Head(s2c))'
        BY <1>10, <2>5, <3>2 DEF Expected
      <4>2. QED
        BY <1>9, <1>12, <3>2, <4>1 DEF Fresh
    <3>3. QED
      BY <3>1, <3>2
  <2>7. QED
    BY <1>2, <1>4, <2>4, <2>6 DEF ExchangeInv
<1>13. QED
  BY <1>8, <1>11, <1>12

(* The request is answered: all pieces of the segment are in the stream,   *)
(* possibly behind the second copy of the previous segment's last piece.   *)
LEMMA ServeExchange ==
    ASSUME Streamable, NoEmptySegment, SessionInv, LadderInv(Offered(BwList)), PhaseInv,
           ExchangeInv, Streaming, Serve
    PROVE  ExchangeInv'
<1> USE DEF downloadVars, sessionVars
<1> DEFINE all == send_media_data_response(reqBw, reqSeg)
<1>1. /\ UNCHANGED <<state, reqBw, reqSeg, reqSent, expTs, recvSize>>
      /\ ServerRecv /\ c2s # <<>> /\ c2s' = Tail(c2s)
  BY DEF Serve, clientVars, ServerRecv
<1>2. /\ reqSent /\ c2s = <<MediaRequest(reqBw, reqSeg)>> /\ Fresh = <<>>
      /\ expTs = 0 /\ recvSize = 0
  BY <1>1 DEF ExchangeInv
<1>3. /\ s2c \in Seq(Response) /\ MediaOnly(s2c) /\ reqBw \in Offered(BwList)
      /\ reqSeg \in 0..(SegmentCount - 1) /\ MediaPresent
  BY <1>2, ExchangeTyped DEF Streamable
<1>4. /\ all \in Seq(Response) /\ Len(all) > 0
      /\ \A i \in 1..Len(all) : /\ all[i].type = "media" /\ all[i].segment_id = reqSeg
                                /\ all[i].transport_stream_id = i - 1
  BY <1>3, PiecesOf
<1>5. s2c' = s2c \o all /\ c2s' = <<>>
  <2>1. Head(c2s) = MediaRequest(reqBw, reqSeg) /\ c2s' = <<>>
    BY <1>1, <1>2
  <2>2. reqBw > 0 /\ reqSeg >= 0
    BY <1>3, OfferedPositive, CountIsInt
  <2>3. QED
    BY <1>1, <2>1, <2>2 DEF ServerRecv, MediaRequest
<1> HIDE DEF all
<1>6. Len(all) \in Nat /\ 1 \in 1..Len(all) /\ all # <<>> /\ Head(all) = all[1]
  BY <1>4, LenProperties, HeadTailProperties
<1>7. Fresh' = all
  <2>1. CASE s2c = <<>>
    <3>1. s2c' = all
      BY <1>4, <1>5, <2>1, ConcatEmptySeq
    <3>2. Head(s2c').segment_id = reqSeg /\ Head(s2c').transport_stream_id = 0
      BY <1>4, <1>6, <3>1
    <3>3. Expected(Head(s2c))'
      BY <1>1, <1>2, <3>2 DEF Expected
    <3>4. QED
      BY <3>1, <3>3 DEF Fresh
  <2>2. CASE s2c # <<>>
    <3>1. Head(s2c).type = "media" /\ ~Expected(Head(s2c)) /\ Tail(s2c) = <<>>
      BY <1>2, <2>2 DEF Fresh
    <3>2. Len(s2c) = 1 /\ Head(s2c) = s2c[1]
      <4>1. Len(Tail(s2c)) = Len(s2c) - 1 /\ Head(s2c) = s2c[1]
        BY <1>3, <2>2, HeadTailProperties
      <4>2. Len(Tail(s2c)) = 0 /\ Len(s2c) \in Nat
        BY <1>3, <3>1, LenProperties
      <4>3. QED
        BY <4>1, <4>2
    <3>3. s2c = <<Head(s2c)>>
      BY <1>3, <3>2
    <3>4. s2c' = <<Head(s2c)>> \o all
      BY <1>5, <3>3
    <3>5. Head(s2c) \in Response
      BY <1>3, <2>2, HeadTailProperties
    <3>6. Head(s2c') = Head(s2c) /\ Tail(s2c') = all /\ s2c' # <<>>
      <4> DEFINE p == Head(s2c)
      <4>1. p \in Response /\ s2c' = <<p>> \o all
        BY <3>4, <3>5
      <4> HIDE DEF p
      <4>2. Head(s2c') = p /\ Tail(s2c') = all /\ s2c' # <<>>
        BY <1>4, <1>6, <4>1
      <4>3. QED
        BY <4>2 DEF p
    <3>7. ~Expected(Head(s2c))'
      BY <1>1, <3>1, <3>6 DEF Expected
    <3>8. QED
      BY <3>1, <3>6, <3>7 DEF Fresh
  <2>3. QED
    BY <2>1, <2>2
<1>8. all = SubSeq(all, 1, Len(all))
  BY <1>4, SubSeqFull
<1>9. /\ recvSize' = expTs' * Payload /\ expTs' \in 0..(Len(all) - 1)
      /\ Fresh' = SubSeq(all, expTs' + 1, Len(all))
  <2>1. 0 * Payload = 0 /\ 0 + 1 = 1
    BY MediaAssumption
  <2>2. QED
    BY <1>1, <1>2, <1>4, <1>6, <1>7, <1>8, <2>1
<1>10. send_media_data_response(reqBw', reqSeg') = all
  BY <1>1 DEF all
<1>11. reqSeg' >= 0 /\ reqSent' /\ Streaming'
  BY <1>1, <1>2, <1>3, CountIsInt DEF Streaming
<1>12. QED
  BY <1>5, <1>9, <1>10, <1>11 DEF ExchangeInv

(* Streaming begins with empty streams. *)
LEMMA RecvBeforeStreaming ==
    ASSUME SessionInv, PhaseInv, ExchangeInv, ~Streaming, s2c # <<>>,
           ClientRecv(Head(s2c)),
           s2c' = Tail(s2c) \/ (s2c' = s2c /\ Head(s2c).type = "media")
    PROVE  ExchangeInv'
<1> USE DEF sessionVars, downloadVars
<1>1. ClientInv /\ ~reqSent /\ recvSize = 0
  BY DEF SessionInv, ClientInv, NotStarted, ExchangeInv
<1>2. state = 1 \/ state = 3
  BY <1>1, StateSplit, StreamingStates DEF PhaseInv
<1>3. CASE state = 1
  <2>1. Head(s2c) = M3U8Meta(0, BwList)
    BY <1>3 DEF PhaseInv
  <2>2. process_m3u8meta_data(Head(s2c))
    BY <2>1 DEF M3U8Meta, ClientRecv, process_m3u8item_data, process_media_data
  <2>3. UNCHANGED downloadVars /\ (state' = 1 \/ state' = 3)
    BY <1>3, <2>2 DEF process_m3u8meta_data, Fatal, DASH_M3U8ITEM_REQUEST_SENT
  <2>4. QED
    BY <1>1, <2>3 DEF ExchangeInv, Streaming, DASH_M3U8ITEM_REQUEST_RECEIVED
<1>4. CASE state = 3
  <2>1. Head(s2c) = M3U8Item /\ s2c = <<M3U8Item>> /\ c2s = <<>>
    BY <1>4 DEF PhaseInv
  <2>2. process_m3u8item_data(Head(s2c)) /\ s2c' = <<>>
    BY <2>1 DEF M3U8Item, ClientRecv, process_m3u8meta_data, process_media_data
  <2>3. CASE Fatal
    BY <1>1, <1>4, <2>3 DEF Fatal, ExchangeInv, Streaming, DASH_M3U8ITEM_REQUEST_RECEIVED
  <2>4. CASE ~Fatal
    <3>1. c2s' = c2s /\ reqSent' = FALSE /\ expTs' = 0 /\ recvSize' = recvSize /\ reqSeg' = 0
          /\ state' = 4
      BY <2>2, <2>4 DEF process_m3u8item_data, DASH_M3U8ITEM_REQUEST_RECEIVED
    <3>2. Fresh' = <<>>
      BY <2>2 DEF Fresh
    <3>3. QED
      BY <1>1, <2>1, <3>1, <3>2 DEF ExchangeInv, Streaming, DASH_M3U8ITEM_REQUEST_RECEIVED
  <2>5. QED
    BY <2>3, <2>4
<1>5. QED
  BY <1>2, <1>3, <1>4

LEMMA RecvExchange ==
    ASSUME Streamable, NoEmptySegment, SessionInv, LadderInv(Offered(BwList)), PhaseInv,
           ExchangeInv, s2c # <<>>, ClientRecv(Head(s2c)),
           s2c' = Tail(s2c) \/ (s2c' = s2c /\ Head(s2c).type = "media")
    PROVE  ExchangeInv'
<1>1. CASE ~Streaming
  BY <1>1, RecvBeforeStreaming
<1>2. CASE Streaming
  <2>1. s2c \in Seq(Response) /\ MediaOnly(s2c)
    BY <1>2, ExchangeTyped
  <2>2. Head(s2c).type = "media"
    BY <2>1, HeadTailProperties, EmptySeq, LenProperties DEF MediaOnly
  <2>3. process_media_data(Head(s2c))
    BY <2>2 DEF ClientRecv, process_m3u8meta_data, process_m3u8item_data
  <2>4. CASE Expected(Head(s2c))
    BY <1>2, <2>2, <2>3, <2>4, FreshDelivery
  <2>5. CASE ~Expected(Head(s2c))
    <3>1. UNCHANGED <<state, downloadVars, c2s>>
      BY <2>3, <2>5 DEF process_media_data, sessionVars
    <3>2. QED
      BY <1>2, <2>2, <2>5, <3>1, StaleDelivery
  <2>6. QED
    BY <2>4, <2>5
<1>3. QED
  BY <1>1, <1>2

LEMMA DownloadExchange ==
    ASSUME SessionInv, ExchangeInv, timeout_download, s2c' = s2c PROVE ExchangeInv'
<1>1. Streaming
  BY DEF timeout_download, SessionInv, ClientInv, NotStarted
<1>2. UNCHANGED <<reqBw, reqSeg, expTs, recvSize>> /\ (state' = state \/ state' = 5)
  BY DEF timeout_download, DASH_STREAM_REQUEST_SENT
<1>3. Fresh' = Fresh /\ Streaming'
  BY <1>1, <1>2 DEF Fresh, Expected, Streaming, DASH_M3U8ITEM_REQUEST_RECEIVED
<1>4. CASE reqSeg < 0 \/ reqSent
  <2>1. UNCHANGED <<c2s, reqSent>>
    BY <1>4 DEF timeout_download
  <2>2. QED
    BY <1>1, <1>2, <1>3, <2>1 DEF ExchangeInv
<1>5. CASE ~(reqSeg < 0 \/ reqSent)
  <2>1. c2s' = Append(c2s, MediaRequest(reqBw, reqSeg)) /\ reqSent'
    BY <1>5 DEF timeout_download
  <2>2. c2s = <<>> /\ Fresh = <<>> /\ expTs = 0 /\ recvSize = 0
    BY <1>1, <1>5 DEF ExchangeInv
  <2>3. c2s' = <<MediaRequest(reqBw, reqSeg)>>
    BY <2>1, <2>2
  <2>4. MediaRequest(reqBw, reqSeg)' = MediaRequest(reqBw, reqSeg)
    BY <1>2 DEF MediaRequest
  <2>5. reqSeg' >= 0
    BY <1>2, <1>5 DEF SessionInv, ClientInv, ClientTypeOK
  <2>6. QED
    BY <1>2, <1>3, <2>1, <2>2, <2>3, <2>4, <2>5 DEF ExchangeInv
<1>6. QED
  BY <1>4, <1>5

LEMMA NextExchange ==
    ASSUME Streamable, NoEmptySegment
    PROVE  SessionInv /\ LadderInv(Offered(BwList)) /\ PhaseInv /\ ExchangeInv /\ [Next]_vars
               => ExchangeInv'
<1> SUFFICES ASSUME SessionInv, LadderInv(Offered(BwList)), PhaseInv, ExchangeInv, [Next]_vars
             PROVE  ExchangeInv'
  OBVIOUS
<1> USE DEF sessionVars, downloadVars
<1>1. CASE Start
  <2>1. ~Streaming /\ ~Streaming' /\ UNCHANGED <<reqSent, recvSize, reqSeg>>
    BY <1>1 DEF Start, start, DASH_INITIAL, DASH_M3U8META_REQUEST_SENT, Streaming,
                DASH_M3U8ITEM_REQUEST_RECEIVED
  <2>2. QED
    BY <2>1 DEF ExchangeInv
<1>2. CASE Serve
  <2>1. CASE Streaming
    BY <1>2, <2>1, ServeExchange
  <2>2. CASE ~Streaming
    <3>1. UNCHANGED <<state, reqSent, recvSize, reqSeg>>
      BY <1>2 DEF Serve, clientVars
    <3>2. QED
      BY <2>2, <3>1 DEF ExchangeInv, Streaming
  <2>3. QED
    BY <2>1, <2>2
<1>3. CASE Deliver \/ DeliverDuplicate
  BY <1>3, RecvExchange DEF Deliver, DeliverDuplicate
<1>4. CASE DownloadTimeout
  BY <1>4, DownloadExchange DEF DownloadTimeout
<1>5. ASSUME UNCHANGED <<state, downloadVars, c2s, s2c>> PROVE ExchangeInv'
  BY <1>5 DEF ExchangeInv, Streaming, Fresh, Expected, MediaRequest
<1>6. CASE PlayTimeout
  BY <1>5, <1>6 DEF PlayTimeout, timeout_play
<1>7. CASE UNCHANGED vars
  BY <1>5, <1>7 DEF vars, clientVars, chanVars
<1>8. QED
  BY <1>1, <1>2, <1>3, <1>4, <1>6, <1>7 DEF Next, Terminated

LEMMA InitExchange == Init => ExchangeInv
BY DEF Init, ClientInit, DASH_INITIAL, ExchangeInv, Streaming, DASH_M3U8ITEM_REQUEST_RECEIVED

(* The streams hold what the client waits for, and the bytes it counts are *)
(* those of the pieces it has taken.                                       *)
THEOREM ExchangeInvariant ==
    ASSUME Streamable, NoEmptySegment PROVE Spec => []ExchangeInv
BY InitExchange, NextExchange, PhaseInvariant, AlwaysOffered, SessionInvariant, PTL DEF Spec

(* Downloads are never pipelined, and no piece but a second copy is        *)
(* rejected: for every ladder without an empty segment, every payload and  *)
(* number of duplicated pieces, the streams hold the one request or        *)
(* exactly the pieces that the client still expects.                       *)
THEOREM OneExchange ==
    ASSUME Streamable, NoEmptySegment PROVE Spec => []OneExchangeAtATime
<1>1. SessionInv /\ ExchangeInv => OneExchangeAtATime
  <2> SUFFICES ASSUME SessionInv, ExchangeInv, Streaming PROVE OneExchangeAtATime
    BY DEF OneExchangeAtATime
  <2> DEFINE all == send_media_data_response(reqBw, reqSeg)
  <2>1. expTs \in 0..(Len(all) - 1) /\ Len(all) \in Int => expTs < Len(all)
    OBVIOUS
  <2>2. QED
    BY <2>1 DEF ExchangeInv, OneExchangeAtATime
<1>2. QED
  BY <1>1, ExchangeInvariant, SessionInvariant, PTL

=============================================================================
