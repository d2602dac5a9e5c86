------------------------- MODULE DashSession_proofs -------------------------
(***************************************************************************)
(* Theorems about DashSession, for every ladder, duration, piece size,     *)
(* class of client, _play_after and number of duplicated pieces.           *)
(***************************************************************************)
EXTENDS DashSession, RateSelect_proofs

(* The messages that can be in the two streams while the client asks for   *)
(* segment seg (sent: it has sent the request): no request and no piece is *)
(* ahead of the client.                                                    *)
NotAhead(id, seg, sent) ==
    /\ id \in 0..(SegmentCount - 1)
    /\ seg >= 0 => id <= seg /\ (sent \/ id < seg)

GoodRequest(seg, sent) ==
    {MetaRequest, ItemRequest} \cup
    {r \in [type : {"media"}, bandwidth : Int, segment_id : Int] :
        MediaPresent /\ NotAhead(r.segment_id, seg, sent)}

GoodResponse(seg, sent) ==
    {M3U8Meta(p, IF MediaPresent THEN BwList ELSE <<>>) : p \in ProgramIds} \cup
    {M3U8Item} \cup
    {m \in [type : {"media"}, bandwidth : Int, segment_id : Int,
            transport_stream_id : Nat, media_packet_size : Nat] :
        NotAhead(m.segment_id, seg, sent)}

GoodChannels == /\ c2s \in Seq(GoodRequest(reqSeg, reqSent))
                /\ s2c \in Seq(GoodResponse(reqSeg, reqSent))

(* Before streaming begins nothing of the download or of the playback has  *)
(* moved; afterwards the client knows the ladder and the durations.        *)
LadderKnown ==
    /\ state \in {0, 1, 3, 4, 5}
    /\ state <= 1 => bwqueue = <<>>
    /\ state >= 3 => MediaPresent /\ bwqueue = BwList

NotStarted ==
    ~Streaming => /\ expTs = -1 /\ reqSeg = 0 /\ ~reqSent
                  /\ cache = <<>> /\ playHistory = <<>>
                  /\ playTimer = "idle" /\ dlTimer = "idle"

Started ==
    Streaming => /\ segDur = SegDuration /\ totalSegs = SegmentCount
                 /\ reqSeg < SegmentCount /\ SegmentCount > 0

ClientInv == ClientTypeOK /\ LadderKnown /\ NotStarted /\ Started /\ PlaybackContiguous

SessionInv == ClientInv /\ GoodChannels /\ dups \in Nat

-----------------------------------------------------------------------------
(* Messages.                                                               *)

LEMMA GoodMessages ==
    ASSUME NEW seg \in Int, NEW sent \in BOOLEAN
    PROVE  GoodRequest(seg, sent) \subseteq Request /\ GoodResponse(seg, sent) \subseteq Response
<1>1. BwList \in Seq(Int) /\ <<>> \in Seq(Int)
  BY MediaAssumption, SeqMonotonic, EmptySeq
<1>2. ProgramIds \subseteq Int
  BY DEF ProgramIds
<1>3. SegDuration \in Int /\ TotalDuration \in Int
  BY MediaAssumption
<1>4. GoodRequest(seg, sent) \subseteq Request
  BY DEF GoodRequest, Request
<1>5. \A p \in ProgramIds : M3U8Meta(p, IF MediaPresent THEN BwList ELSE <<>>) \in Response
  BY <1>1, <1>2 DEF M3U8Meta, Response
<1>6. M3U8Item \in Response
  BY <1>3 DEF M3U8Item, Response
<1>7. QED
  BY <1>4, <1>5, <1>6 DEF GoodResponse, Response

(* The streams stay good when the request goes on, the request is sent, or *)
(* the client has everything.                                              *)
LEMMA GoodGrows ==
    ASSUME NEW seg \in Int, NEW sent \in BOOLEAN, NEW seg2 \in Int, NEW sent2 \in BOOLEAN,
           \/ seg2 = seg /\ (sent => sent2)
           \/ seg >= 0 /\ seg2 = seg + 1
           \/ seg2 = -1
    PROVE  /\ GoodRequest(seg, sent) \subseteq GoodRequest(seg2, sent2)
           /\ GoodResponse(seg, sent) \subseteq GoodResponse(seg2, sent2)
<1>1. ASSUME NEW id \in Int, NotAhead(id, seg, sent)
      PROVE  NotAhead(id, seg2, sent2)
  <2>1. CASE seg2 = seg /\ (sent => sent2)
    BY <1>1, <2>1 DEF NotAhead
  <2>2. CASE seg >= 0 /\ seg2 = seg + 1
    BY <1>1, <2>2 DEF NotAhead
  <2>3. CASE seg2 = -1
    BY <1>1, <2>3 DEF NotAhead
  <2>4. QED
    BY <2>1, <2>2, <2>3
<1>2. QED
  BY <1>1 DEF GoodRequest, GoodResponse

LEMMA CountIsInt == SegmentCount \in Int
BY MediaAssumption DEF SegmentCount

LEMMA SizeIsNat ==
    ASSUME NEW bw \in Nat PROVE SegmentSize(bw, SegDuration) \in Nat
<1>1. bw * SegDuration \in Nat
  BY MediaAssumption
<1>2. QED
  BY <1>1 DEF SegmentSize

(* The server answers a good request with good pieces. *)
LEMMA PiecesGood ==
    ASSUME NEW seg \in Int, NEW sent \in BOOLEAN, NEW bw \in Int, NEW id \in Int,
           MediaPresent, NotAhead(id, seg, sent)
    PROVE  send_media_data_response(bw, id) \in Seq(GoodResponse(seg, sent))
<1> DEFINE b == ServedBandwidth(bw)
           size == SegmentSize(b, SegDuration)
<1>1. b \in Nat
  <2>1. CASE bw \in {BwList[i] : i \in DOMAIN BwList}
    BY <2>1, MediaAssumption DEF ServedBandwidth
  <2>2. CASE bw \notin {BwList[i] : i \in DOMAIN BwList}
    BY <2>2 DEF ServedBandwidth
  <2>3. QED
    BY <2>1, <2>2
<1> HIDE DEF b
<1>2. size \in Nat
  BY <1>1, SizeIsNat
<1> HIDE DEF size
<1>3. Payload \in Nat \ {0}
  BY MediaAssumption
<1>4. size \div Payload \in Nat /\ size % Payload \in Nat
  BY <1>2, <1>3
<1>5. PieceCount(size) \in Nat
  BY <1>4 DEF PieceCount
<1>6. \A ts \in Nat : PieceSize(size, ts) \in Nat
  BY <1>3, <1>4 DEF PieceSize
<1>7. ServedSegment(id) = id
  BY CountIsInt DEF ServedSegment, NotAhead
<1>8. ASSUME NEW i \in 1..PieceCount(size)
      PROVE  Chunk(b, id, i - 1, PieceSize(size, i - 1)) \in GoodResponse(seg, sent)
  <2>1. i - 1 \in Nat
    BY <1>5
  <2>2. PieceSize(size, i - 1) \in Nat
    BY <1>6, <2>1
  <2>3. QED
    BY <1>1, <2>1, <2>2 DEF Chunk, GoodResponse
<1>9. send_media_data_response(bw, id)
        = [i \in 1..PieceCount(size) |-> Chunk(b, id, i - 1, PieceSize(size, i - 1))]
  BY <1>7 DEF send_media_data_response, b, size
<1>10. QED
  BY <1>5, <1>8, <1>9

-----------------------------------------------------------------------------
(* The client.                                                             *)

LEMMA InitInv == Init => SessionInv
<1> SUFFICES ASSUME Init PROVE SessionInv
  OBVIOUS
<1> USE DEF Init, ClientInit, DASH_INITIAL
<1>1. ClientTypeOK
  <2>1. bwqueue \in Seq(Int) /\ cache \in Seq(PlaySegment) /\ playHistory \in Seq(PlaySegment)
    BY EmptySeq
  <2>2. reqSent \in BOOLEAN /\ freeze \in BOOLEAN
    BY Zenon
  <2>3. QED
    BY <2>1, <2>2 DEF ClientTypeOK
<1>2. LadderKnown /\ NotStarted
  BY DEF LadderKnown, NotStarted, Streaming, DASH_M3U8ITEM_REQUEST_RECEIVED
<1>3. ~Streaming
  BY DEF Streaming, DASH_M3U8ITEM_REQUEST_RECEIVED
<1>4. GoodChannels
  BY EmptySeq DEF GoodChannels
<1>5. QED
  BY <1>1, <1>2, <1>3, <1>4 DEF SessionInv, ClientInv, Started, PlaybackContiguous

(* A streaming client knows a non-empty ladder of numbers. *)
LEMMA LadderTyped ==
    ASSUME ClientInv, Streaming
    PROVE  bwqueue \in Seq(Int) /\ bwqueue # <<>>
BY MediaAssumption DEF ClientInv, ClientTypeOK, LadderKnown, Streaming,
                       DASH_M3U8ITEM_REQUEST_RECEIVED

(* Whatever the class and the measured rate, the next bandwidth is a       *)
(* number and the process is still running or has ended.                   *)
LEMMA ChangeTyped ==
    ASSUME ClientInv, Streaming, NEW bw \in Int, change_requested_bandwidth(bw)
    PROVE  reqBw' \in Int /\ proc' \in {"running", "exit", "abort"}
<1>1. bwqueue \in Seq(Int) /\ bwqueue # <<>>
  BY LadderTyped
<1>2. proc \in {"running", "exit", "abort"}
  BY DEF ClientInv, ClientTypeOK
<1>3. EstimatedBitrates(bw) \subseteq Int
  BY <1>1, NextHigherInt, ClientAssumption DEF EstimatedBitrates
<1>4. \A r \in Int : best_matching_bandwidth(bwqueue, LowerBound, UpperBound, r) \in Int
  <2>1. \A x \in Offered(bwqueue) : x \in Int
    BY <1>1, LenProperties DEF Offered
  <2>2. QED
    BY <1>1, <2>1, BestMatchOffered, ClientAssumption
<1>5. QED
  BY <1>2, <1>3, <1>4 DEF change_requested_bandwidth

(* No media message is in the streams before the client streams. *)
LEMMA MediaOnlyStreaming ==
    ASSUME ClientInv, NEW m \in GoodResponse(reqSeg, reqSent), m.type = "media"
    PROVE  /\ Streaming
           /\ m \in [type : {"media"}, bandwidth : Int, segment_id : Int,
                       transport_stream_id : Nat, media_packet_size : Nat]
           /\ NotAhead(m.segment_id, reqSeg, reqSent)
<1>1. /\ m \in [type : {"media"}, bandwidth : Int, segment_id : Int,
                  transport_stream_id : Nat, media_packet_size : Nat]
      /\ NotAhead(m.segment_id, reqSeg, reqSent)
  BY DEF GoodResponse, M3U8Meta, M3U8Item
<1>2. Streaming
  <2> SUFFICES ASSUME ~Streaming PROVE FALSE
    OBVIOUS
  <2>1. reqSeg = 0 /\ ~reqSent
    BY DEF ClientInv, NotStarted
  <2>2. m.segment_id >= 0 /\ m.segment_id < 0 /\ m.segment_id \in Int
    BY <1>1, <2>1, CountIsInt DEF NotAhead
  <2>3. QED
    BY <2>2
<1>3. QED
  BY <1>1, <1>2

(* How a handler of the client moves the request and uses the connection:  *)
(* at most one message is sent, and it fits the new request.               *)
Advances ==
    /\ \/ reqSeg' = reqSeg /\ (reqSent => reqSent')
       \/ reqSeg >= 0 /\ reqSeg' = reqSeg + 1
       \/ reqSeg' = -1
    /\ \/ c2s' = c2s
       \/ \E r \in GoodRequest(reqSeg', reqSent') : c2s' = Append(c2s, r)

LEMMA SameClientInv ==
    ASSUME ClientInv, UNCHANGED <<sessionVars, downloadVars, cache, playVars, timerVars>>,
           stops' \in Nat, proc' \in {"running", "exit", "abort"}
    PROVE  ClientInv'
<1> USE DEF sessionVars, downloadVars, playVars, timerVars
<1>1. ClientTypeOK'
  BY DEF ClientInv, ClientTypeOK
<1>2. LadderKnown' /\ NotStarted' /\ Started'
  BY DEF ClientInv, LadderKnown, NotStarted, Started, Streaming
<1>3. PlaybackContiguous'
  BY DEF ClientInv, PlaybackContiguous, Streaming
<1>4. QED
  BY <1>1, <1>2, <1>3 DEF ClientInv

LEMMA FatalStep ==
    ASSUME ClientInv, Fatal PROVE ClientInv' /\ Advances
<1>1. ClientInv'
  BY SameClientInv DEF Fatal, ClientInv, ClientTypeOK
<1>2. Advances
  BY DEF Fatal, Advances, downloadVars
<1>3. QED
  BY <1>1, <1>2

LEMMA StartStep ==
    ASSUME ClientInv, start PROVE ClientInv' /\ Advances
<1> USE DEF start, downloadVars, playVars, timerVars, DASH_INITIAL, DASH_M3U8META_REQUEST_SENT
<1>1. ClientTypeOK'
  BY DEF ClientInv, ClientTypeOK
<1>2. ~Streaming /\ ~Streaming'
  BY DEF Streaming, DASH_M3U8ITEM_REQUEST_RECEIVED
<1>3. LadderKnown' /\ NotStarted'
  BY <1>2 DEF ClientInv, LadderKnown, NotStarted
<1>4. Advances
  BY DEF Advances, GoodRequest
<1>5. QED
  BY <1>1, <1>2, <1>3, <1>4 DEF ClientInv, Started, PlaybackContiguous

LEMMA MetaStep ==
    ASSUME ClientInv, NEW m \in GoodResponse(reqSeg, reqSent), process_m3u8meta_data(m)
    PROVE  ClientInv' /\ Advances
<1>1. CASE state # DASH_M3U8META_REQUEST_SENT
  BY <1>1, FatalStep DEF process_m3u8meta_data
<1>2. CASE state = DASH_M3U8META_REQUEST_SENT
  <2> USE DEF downloadVars, playVars, timerVars
  <2>1. /\ stops' = IF m.program_id < 0 THEN stops + 1 ELSE stops
        /\ bwqueue' = bwqueue \o m.bwqueue
        /\ UNCHANGED <<segDur, totalSegs, downloadVars, cache, playVars, timerVars>>
        /\ \/ bwqueue' = <<>> /\ proc' = "exit" /\ UNCHANGED <<c2s, state>>
           \/ /\ bwqueue' # <<>> /\ c2s' = Append(c2s, ItemRequest)
              /\ state' = DASH_M3U8ITEM_REQUEST_SENT /\ proc' = proc
    BY <1>2 DEF process_m3u8meta_data
  <2>2. m.bwqueue = IF MediaPresent THEN BwList ELSE <<>>
    BY DEF process_m3u8meta_data, GoodResponse, M3U8Meta, M3U8Item
  <2>3. bwqueue = <<>> /\ BwList \in Seq(Int)
    BY <1>2, MediaAssumption, SeqMonotonic
       DEF ClientInv, LadderKnown, DASH_M3U8META_REQUEST_SENT
  <2>4. bwqueue' = m.bwqueue /\ bwqueue' \in Seq(Int)
    BY <2>1, <2>2, <2>3, ConcatEmptySeq, EmptySeq
  <2>5. stops' \in Nat
    BY <2>1 DEF ClientInv, ClientTypeOK
  <2>6. ClientTypeOK'
    BY <2>1, <2>4, <2>5, <1>2 DEF ClientInv, ClientTypeOK, DASH_M3U8ITEM_REQUEST_SENT
  <2>7. ~Streaming /\ ~Streaming'
    BY <1>2, <2>1 DEF Streaming, DASH_M3U8ITEM_REQUEST_RECEIVED, DASH_M3U8META_REQUEST_SENT,
                      DASH_M3U8ITEM_REQUEST_SENT
  <2>8. LadderKnown'
    BY <1>2, <2>1, <2>2, <2>4 DEF LadderKnown, DASH_M3U8META_REQUEST_SENT,
                                  DASH_M3U8ITEM_REQUEST_SENT
  <2>9. NotStarted'
    BY <2>1, <2>7 DEF ClientInv, NotStarted
  <2>10. Advances
    BY <2>1 DEF Advances, GoodRequest
  <2>11. QED
    BY <2>6, <2>7, <2>8, <2>9, <2>10 DEF ClientInv, Started, PlaybackContiguous
<1>3. QED
  BY <1>1, <1>2

LEMMA ItemStep ==
    ASSUME ClientInv, NEW m \in GoodResponse(reqSeg, reqSent), process_m3u8item_data(m)
    PROVE  ClientInv' /\ Advances
<1> DEFINE bad == \/ state # DASH_M3U8ITEM_REQUEST_SENT
                  \/ m.segment_duration <= 0
                  \/ m.total_duration \div m.segment_duration <= 0
                  \/ BoundsClash
<1>1. CASE bad
  BY <1>1, FatalStep DEF process_m3u8item_data
<1>2. CASE ~bad
  <2>1. m.segment_duration = SegDuration /\ m.total_duration = TotalDuration
    BY DEF process_m3u8item_data, GoodResponse, M3U8Meta, M3U8Item
  <2>2. /\ SegDuration > 0 /\ TotalDuration \div SegDuration > 0
        /\ TotalDuration \div SegDuration \in Int /\ SegDuration \in Nat
    BY <1>2, <2>1, MediaAssumption
  <2>3. SegmentCount = TotalDuration \div SegDuration
    BY <2>2 DEF SegmentCount
  <2>4. /\ segDur' = SegDuration /\ totalSegs' = SegmentCount
        /\ state = 3 /\ state' = 4
        /\ reqBw' = initial_bandwidth(bwqueue, LowerBound)
        /\ reqSeg' = 0 /\ reqSent' = FALSE /\ expTs' = 0 /\ expPlay' = 0
        /\ dlTimer' = "pending"
        /\ proc' = IF dlTimer = "idle" THEN proc ELSE "abort"
        /\ UNCHANGED <<c2s, bwqueue, recvSize, cache, prevBw, freeze, totalFreeze,
                       qualityChange, playHistory, playTimer, stops>>
    BY <1>2, <2>1, <2>3 DEF process_m3u8item_data, DASH_M3U8ITEM_REQUEST_SENT,
                            DASH_M3U8ITEM_REQUEST_RECEIVED
  <2>5. ~Streaming /\ Streaming'
    BY <2>4 DEF Streaming, DASH_M3U8ITEM_REQUEST_RECEIVED
  <2>6. MediaPresent /\ bwqueue = BwList /\ bwqueue \in Seq(Int) /\ bwqueue # <<>>
    BY <2>4, MediaAssumption DEF ClientInv, LadderKnown, ClientTypeOK
  <2>7. reqBw' \in Int
    <3>1. initial_bandwidth(bwqueue, LowerBound) \in Offered(bwqueue)
      BY <2>6, InitialOffered, ClientAssumption
    <3>2. QED
      BY <2>4, <2>6, <3>1, LenProperties DEF Offered
  <2>8. reqSent' \in BOOLEAN
    BY <2>4, Zenon
  <2>9. ClientTypeOK'
    BY <2>2, <2>3, <2>4, <2>7, <2>8 DEF ClientInv, ClientTypeOK
  <2>10. LadderKnown' /\ NotStarted' /\ Started'
    BY <2>2, <2>3, <2>4, <2>5, <2>6 DEF LadderKnown, NotStarted, Started
  <2>11. PlaybackContiguous'
    <3>1. cache = <<>> /\ playHistory = <<>>
      BY <2>5 DEF ClientInv, NotStarted
    <3>2. QED
      BY <2>2, <2>3, <2>4, <3>1 DEF PlaybackContiguous
  <2>12. Advances
    BY <2>4, <2>5 DEF ClientInv, NotStarted, Advances
  <2>13. QED
    BY <2>9, <2>10, <2>11, <2>12 DEF ClientInv
<1>3. QED
  BY <1>1, <1>2

(* A piece: ignored, taken into the current segment, or completing it. *)
LEMMA MediaStep ==
    ASSUME ClientInv, NEW m \in GoodResponse(reqSeg, reqSent), process_media_data(m)
    PROVE  ClientInv' /\ Advances
<1> USE DEF sessionVars, downloadVars, playVars, timerVars
<1>1. /\ Streaming
      /\ m \in [type : {"media"}, bandwidth : Int, segment_id : Int,
                  transport_stream_id : Nat, media_packet_size : Nat]
      /\ NotAhead(m.segment_id, reqSeg, reqSent)
  BY MediaOnlyStreaming DEF process_media_data
<1>2. UNCHANGED <<c2s, sessionVars, playVars, stops>>
  BY DEF process_media_data
<1>3. Streaming'
  BY <1>1, <1>2 DEF Streaming
<1>4. /\ LadderKnown' /\ NotStarted'
      /\ totalSegs' = SegmentCount /\ segDur' = SegDuration /\ SegmentCount > 0
      /\ reqSeg < SegmentCount
  BY <1>1, <1>2, <1>3 DEF ClientInv, LadderKnown, NotStarted, Started
<1>5. CASE ~Expected(m) /\ UNCHANGED <<downloadVars, cache, timerVars, proc>>
  <2>1. ClientInv'
    BY <1>2, <1>5, SameClientInv DEF ClientInv, ClientTypeOK
  <2>2. Advances
    BY <1>2, <1>5 DEF Advances
  <2>3. QED
    BY <2>1, <2>2
<1>6. CASE /\ Expected(m)
           /\ reqBw' = m.bandwidth
           /\ recvSize' = recvSize + m.media_packet_size
           /\ expTs' = expTs + 1
           /\ UNCHANGED <<reqSeg, reqSent, cache, timerVars, proc>>
  <2>1. ClientTypeOK'
    BY <1>1, <1>2, <1>6 DEF ClientInv, ClientTypeOK
  <2>2. PlaybackContiguous'
    BY <1>1, <1>2, <1>3, <1>6 DEF ClientInv, PlaybackContiguous
  <2>3. Advances
    BY <1>2, <1>6 DEF Advances
  <2>4. QED
    BY <1>4, <1>6, <2>1, <2>2, <2>3 DEF ClientInv, Started
<1>7. CASE Expected(m) /\ SegmentComplete(m)
  <2>1. /\ cache' = Append(cache, [segment_id |-> reqSeg, bandwidth |-> m.bandwidth])
        /\ reqSeg' = NextRequest
        /\ reqSent' = FALSE /\ recvSize' = 0 /\ expTs' = 0
        /\ playTimer' \in {"idle", "pending"} /\ dlTimer' \in {"idle", "pending"}
    BY <1>7 DEF SegmentComplete, ClientInv, ClientTypeOK
  <2>2. reqBw' \in Int /\ proc' \in {"running", "exit", "abort"}
    BY <1>1, <1>7, ChangeTyped DEF SegmentComplete
  <2>3. /\ reqSeg \in 0..(SegmentCount - 1)
        /\ totalSegs = SegmentCount /\ SegmentCount \in Int
    BY <1>1, <1>7, CountIsInt DEF Expected, NotAhead, ClientInv, Started
  <2>4. \/ reqSeg + 1 = totalSegs /\ reqSeg' = -1
        \/ reqSeg + 1 < totalSegs /\ reqSeg' = reqSeg + 1
    BY <2>1, <2>3 DEF NextRequest
  <2>5. reqSeg = expPlay + Len(cache) /\ expPlay \in Nat /\ cache \in Seq(PlaySegment)
    <3>1. /\ playHistory \in Seq(PlaySegment) /\ cache \in Seq(PlaySegment)
      BY DEF ClientInv, ClientTypeOK
    <3>2. expPlay = Len(playHistory)
      BY <1>1 DEF ClientInv, PlaybackContiguous
    <3>3. expPlay \in Nat /\ Len(cache) \in Nat
      BY <3>1, <3>2, LenProperties
    <3>4. QED
      BY <1>1, <2>3, <3>1, <3>3 DEF ClientInv, PlaybackContiguous
  <2> DEFINE ps == [segment_id |-> reqSeg, bandwidth |-> m.bandwidth]
  <2>6. ps \in PlaySegment
    BY <1>1, <2>3 DEF PlaySegment
  <2>7. /\ cache' \in Seq(PlaySegment) /\ Len(cache') = Len(cache) + 1
        /\ \A i \in 1..Len(cache) : cache'[i] = cache[i]
        /\ cache'[Len(cache) + 1] = ps
    BY <2>1, <2>5, <2>6, AppendProperties
  <2>8. ClientTypeOK'
    <3>1. reqSent' \in BOOLEAN
      BY <2>1, Zenon
    <3>2. QED
      BY <1>2, <2>1, <2>2, <2>3, <2>4, <2>7, <3>1 DEF ClientInv, ClientTypeOK
  <2>9. PlaybackContiguous'
    <3>1. ASSUME NEW i \in 1..Len(cache')
          PROVE  cache'[i].segment_id = expPlay' + i - 1
      <4>1. CASE i \in 1..Len(cache)
        BY <1>1, <1>2, <2>7, <4>1 DEF ClientInv, PlaybackContiguous
      <4>2. CASE i = Len(cache) + 1
        <5>1. Len(cache) \in Nat
          BY <2>5, LenProperties
        <5>2. QED
          BY <1>2, <2>5, <2>7, <4>2, <5>1
      <4>3. QED
        BY <2>5, <2>7, <4>1, <4>2, LenProperties
    <3>2. reqSeg' = IF expPlay' + Len(cache') = totalSegs' THEN -1
                    ELSE expPlay' + Len(cache')
      <4>1. expPlay' + Len(cache') = reqSeg + 1
        BY <1>2, <2>5, <2>7, LenProperties
      <4>2. QED
        BY <1>2, <2>3, <2>4, <4>1
    <3>3. QED
      BY <1>1, <1>2, <3>1, <3>2 DEF ClientInv, PlaybackContiguous
  <2>10. Advances
    BY <1>2, <2>3, <2>4 DEF Advances
  <2>11. Started'
    BY <1>4, <2>3, <2>4 DEF Started
  <2>12. QED
    BY <1>4, <2>8, <2>9, <2>10, <2>11 DEF ClientInv
<1>8. QED
  BY <1>5, <1>6, <1>7 DEF process_media_data

LEMMA RecvStep ==
    ASSUME ClientInv, NEW m \in GoodResponse(reqSeg, reqSent), ClientRecv(m)
    PROVE  ClientInv' /\ Advances
BY MetaStep, ItemStep, MediaStep DEF ClientRecv

(* A request is only sent for a segment of the media. *)
LEMMA DownloadStep ==
    ASSUME ClientInv, timeout_download PROVE ClientInv' /\ Advances
<1> USE DEF playVars, sessionVars, downloadVars, timerVars
<1>1. Streaming
  BY DEF timeout_download, ClientInv, NotStarted
<1>2. /\ dlTimer' = "idle"
      /\ UNCHANGED <<bwqueue, segDur, totalSegs, reqBw, reqSeg, expTs, recvSize, cache,
                     playVars, playTimer, stops, proc>>
  BY DEF timeout_download
<1>3. CASE reqSeg < 0 \/ reqSent
  <2>1. UNCHANGED <<c2s, state, reqSent>>
    BY <1>3 DEF timeout_download
  <2>2. Streaming'
    BY <1>1, <2>1 DEF Streaming
  <2>3. ClientTypeOK'
    BY <1>2, <2>1 DEF ClientInv, ClientTypeOK
  <2>4. LadderKnown' /\ NotStarted' /\ Started' /\ PlaybackContiguous'
    BY <1>1, <1>2, <2>1, <2>2 DEF ClientInv, LadderKnown, NotStarted, Started, PlaybackContiguous
  <2>5. Advances
    BY <1>2, <2>1 DEF Advances
  <2>6. QED
    BY <2>3, <2>4, <2>5 DEF ClientInv
<1>4. CASE ~(reqSeg < 0 \/ reqSent)
  <2>1. c2s' = Append(c2s, MediaRequest(reqBw, reqSeg)) /\ state' = 5 /\ reqSent' = TRUE
    BY <1>4 DEF timeout_download, DASH_STREAM_REQUEST_SENT
  <2>2. Streaming'
    BY <2>1 DEF Streaming, DASH_M3U8ITEM_REQUEST_RECEIVED
  <2>3. ClientTypeOK'
    <3>1. reqSent' \in BOOLEAN
      BY <2>1, Zenon
    <3>2. QED
      BY <1>2, <2>1, <3>1 DEF ClientInv, ClientTypeOK
  <2>4. MediaPresent /\ bwqueue = BwList
    BY <1>1 DEF ClientInv, LadderKnown, Streaming, DASH_M3U8ITEM_REQUEST_RECEIVED
  <2>5. LadderKnown' /\ NotStarted' /\ Started' /\ PlaybackContiguous'
    BY <1>1, <1>2, <2>1, <2>2, <2>4
       DEF ClientInv, LadderKnown, NotStarted, Started, PlaybackContiguous
  <2>6. reqSeg \in 0..(SegmentCount - 1)
    BY <1>1, <1>4, CountIsInt DEF ClientInv, ClientTypeOK, Started
  <2>7. MediaRequest(reqBw, reqSeg) \in GoodRequest(reqSeg', reqSent')
    BY <1>2, <2>1, <2>4, <2>6 DEF ClientInv, ClientTypeOK, MediaRequest, GoodRequest, NotAhead
  <2>8. Advances
    BY <1>2, <2>1, <2>7 DEF Advances
  <2>9. QED
    BY <2>3, <2>5, <2>8 DEF ClientInv
<1>5. QED
  BY <1>3, <1>4

(* The play event: finish, freeze and wait leave the counters alone; a     *)
(* played segment moves from the cache to the history.                     *)
LEMMA PlayStep ==
    ASSUME ClientInv, timeout_play PROVE ClientInv' /\ Advances
<1> USE DEF sessionVars, downloadVars
<1>1. Streaming
  BY DEF timeout_play, ClientInv, NotStarted
<1>2. UNCHANGED <<c2s, sessionVars, downloadVars, proc>> /\ dlTimer' \in {"idle", "pending"}
  BY DEF timeout_play, ClientInv, ClientTypeOK
<1>3. Streaming'
  BY <1>1, <1>2 DEF Streaming
<1>4. LadderKnown' /\ NotStarted' /\ Started' /\ Advances
  BY <1>1, <1>2, <1>3 DEF ClientInv, LadderKnown, NotStarted, Started, Advances
<1>5. CASE /\ playTimer' = "idle"
           /\ UNCHANGED <<cache, expPlay, prevBw, qualityChange, playHistory>>
           /\ stops' \in Nat /\ freeze' \in BOOLEAN /\ totalFreeze' \in Nat
  <2>1. ClientTypeOK'
    BY <1>2, <1>5 DEF ClientInv, ClientTypeOK
  <2>2. PlaybackContiguous'
    BY <1>1, <1>2, <1>5 DEF ClientInv, PlaybackContiguous
  <2>3. QED
    BY <1>4, <2>1, <2>2 DEF ClientInv
<1>6. CASE /\ cache # <<>>
           /\ cache' = Tail(cache)
           /\ play_media(Head(cache))
           /\ UNCHANGED <<totalFreeze, stops>>
  <2>1. /\ cache \in Seq(PlaySegment) /\ playHistory \in Seq(PlaySegment)
        /\ Len(playHistory) = expPlay
        /\ \A i \in 1..Len(playHistory) : playHistory[i].segment_id = i - 1
        /\ \A i \in 1..Len(cache) : cache[i].segment_id = expPlay + i - 1
        /\ reqSeg = IF expPlay + Len(cache) = totalSegs THEN -1 ELSE expPlay + Len(cache)
    BY <1>1 DEF ClientInv, ClientTypeOK, PlaybackContiguous
  <2>2. /\ expPlay \in Nat /\ Len(cache) \in Nat \ {0}
        /\ Len(cache) \in Nat
    BY <1>6, <2>1, LenProperties, EmptySeq
  <2>3. /\ Head(cache) \in PlaySegment /\ Head(cache) = cache[1]
        /\ cache' \in Seq(PlaySegment) /\ Len(cache') = Len(cache) - 1
        /\ \A i \in 1..Len(cache') : cache'[i] = cache[i + 1]
    BY <1>6, <2>1, HeadTailProperties
  <2>4. /\ playHistory' = Append(playHistory, Head(cache))
        /\ expPlay' = expPlay + 1
        /\ prevBw' = Head(cache).bandwidth
        /\ freeze' = FALSE
        /\ qualityChange' \in {qualityChange, qualityChange + 1}
        /\ playTimer' = "pending"
    BY <1>6 DEF play_media
  <2>5. /\ playHistory' \in Seq(PlaySegment)
        /\ Len(playHistory') = expPlay + 1
        /\ \A i \in 1..Len(playHistory) : playHistory'[i] = playHistory[i]
        /\ playHistory'[expPlay + 1] = Head(cache)
    BY <2>1, <2>3, <2>4, AppendProperties
  <2>6. ClientTypeOK'
    <3>1. freeze' \in BOOLEAN
      BY <2>4, Zenon
    <3>2. prevBw' \in Int
      BY <2>3, <2>4 DEF PlaySegment
    <3>3. qualityChange' \in Nat
      BY <2>4 DEF ClientInv, ClientTypeOK
    <3>4. QED
      BY <1>2, <1>6, <2>2, <2>3, <2>4, <2>5, <3>1, <3>2, <3>3 DEF ClientInv, ClientTypeOK
  <2>7. PlaybackContiguous'
    <3>1. ASSUME NEW i \in 1..Len(playHistory') PROVE playHistory'[i].segment_id = i - 1
      <4>1. CASE i \in 1..Len(playHistory)
        BY <2>1, <2>5, <4>1
      <4>2. CASE i = expPlay + 1
        <5>1. cache[1].segment_id = expPlay
          BY <2>1, <2>2
        <5>2. QED
          BY <2>2, <2>3, <2>5, <4>2, <5>1
      <4>3. QED
        BY <2>1, <2>2, <2>5, <4>1, <4>2
    <3>2. ASSUME NEW i \in 1..Len(cache') PROVE cache'[i].segment_id = expPlay' + i - 1
      <4>1. i + 1 \in 1..Len(cache) /\ i \in Nat
        BY <2>2, <2>3
      <4>2. cache'[i] = cache[i + 1]
        BY <2>3
      <4>3. cache[i + 1].segment_id = expPlay + (i + 1) - 1
        BY <2>1, <4>1
      <4>4. QED
        BY <2>2, <2>4, <4>1, <4>2, <4>3
    <3>3. expPlay' + Len(cache') = expPlay + Len(cache)
      BY <2>2, <2>3, <2>4
    <3>4. QED
      BY <1>2, <2>1, <2>4, <2>5, <3>1, <3>2, <3>3 DEF PlaybackContiguous
  <2>8. QED
    BY <1>4, <2>6, <2>7 DEF ClientInv
<1>7. CASE cache = <<>> /\ stops' = stops + 1 /\ playTimer' = "idle" /\ UNCHANGED <<cache, playVars>>
  BY <1>5, <1>7 DEF ClientInv, ClientTypeOK, playVars
<1>8. CASE /\ cache = <<>> /\ freeze' = TRUE /\ totalFreeze' = totalFreeze + 1
           /\ playTimer' = "idle"
           /\ UNCHANGED <<cache, expPlay, prevBw, qualityChange, playHistory, stops>>
  <2>1. freeze' \in BOOLEAN
    BY <1>8, Zenon
  <2>2. stops' \in Nat /\ totalFreeze' \in Nat
    BY <1>8 DEF ClientInv, ClientTypeOK
  <2>3. QED
    BY <1>5, <1>8, <2>1, <2>2
<1>9. CASE playTimer' = "idle" /\ UNCHANGED <<cache, playVars, stops>>
  BY <1>5, <1>9 DEF ClientInv, ClientTypeOK, playVars
<1>10. QED
  BY <1>6, <1>7, <1>8, <1>9 DEF timeout_play

-----------------------------------------------------------------------------
(* The streams.                                                            *)

LEMMA ClientChannels ==
    ASSUME ClientInv, ClientInv', GoodChannels, Advances,
           s2c' = s2c \/ (s2c # <<>> /\ s2c' = Tail(s2c))
    PROVE  GoodChannels'
<1>1. /\ reqSeg \in Int /\ reqSent \in BOOLEAN
      /\ reqSeg' \in Int /\ reqSent' \in BOOLEAN
  BY DEF ClientInv, ClientTypeOK
<1>2. /\ GoodRequest(reqSeg, reqSent) \subseteq GoodRequest(reqSeg', reqSent')
      /\ GoodResponse(reqSeg, reqSent) \subseteq GoodResponse(reqSeg', reqSent')
  <2>1. \/ reqSeg' = reqSeg /\ (reqSent => reqSent')
        \/ reqSeg >= 0 /\ reqSeg' = reqSeg + 1
        \/ reqSeg' = -1
    BY DEF Advances
  <2>2. QED
    BY <1>1, <2>1, GoodGrows
<1>3. s2c' \in Seq(GoodResponse(reqSeg', reqSent'))
  <2>1. s2c' \in Seq(GoodResponse(reqSeg, reqSent))
    BY HeadTailProperties DEF GoodChannels
  <2>2. QED
    BY <1>2, <2>1, SeqMonotonic
<1>4. c2s' \in Seq(GoodRequest(reqSeg', reqSent'))
  <2>1. c2s \in Seq(GoodRequest(reqSeg', reqSent'))
    BY <1>2, SeqMonotonic DEF GoodChannels
  <2>2. QED
    BY <2>1, AppendProperties DEF Advances
<1>5. QED
  BY <1>3, <1>4 DEF GoodChannels

LEMMA ServeStep ==
    ASSUME SessionInv, Serve PROVE SessionInv'
<1>1. UNCHANGED clientVars /\ dups' = dups /\ ServerRecv
  BY DEF Serve
<1>2. UNCHANGED <<sessionVars, downloadVars, cache, playVars, timerVars, stops, proc>>
  BY <1>1 DEF clientVars
<1>3. ClientInv'
  BY <1>2, SameClientInv DEF SessionInv, ClientInv, ClientTypeOK
<1> DEFINE Req == GoodRequest(reqSeg, reqSent)
           Rsp == GoodResponse(reqSeg, reqSent)
<1>4. c2s # <<>> /\ c2s' = Tail(c2s) /\ c2s \in Seq(Req) /\ s2c \in Seq(Rsp)
  BY <1>1 DEF ServerRecv, SessionInv, GoodChannels
<1>5. Head(c2s) \in Req /\ c2s' \in Seq(Req)
  BY <1>4, HeadTailProperties
<1>6. reqSeg \in Int /\ reqSent \in BOOLEAN
  BY DEF SessionInv, ClientInv, ClientTypeOK
<1>7. s2c' \in Seq(Rsp)
  <2> DEFINE r == Head(c2s)
  <2>1. CASE /\ r.type = "meta"
             /\ \E program \in ProgramIds : s2c' = s2c \o send_m3u8meta_response(program)
    <3>1. PICK program \in ProgramIds : s2c' = s2c \o send_m3u8meta_response(program)
      BY <2>1
    <3>2. M3U8Meta(program, IF MediaPresent THEN BwList ELSE <<>>) \in Rsp
      BY DEF GoodResponse
    <3>3. send_m3u8meta_response(program) \in Seq(Rsp)
      BY <3>2 DEF send_m3u8meta_response
    <3>4. QED
      BY <1>4, <3>1, <3>3, ConcatProperties
  <2>2. CASE s2c' = Append(s2c, M3U8Item)
    <3>1. M3U8Item \in Rsp
      BY DEF GoodResponse
    <3>2. QED
      BY <1>4, <2>2, <3>1, AppendProperties
  <2>3. CASE /\ r.type = "media"
             /\ s2c' = IF r.bandwidth > 0 /\ r.segment_id >= 0
                       THEN s2c \o send_media_data_response(r.bandwidth, r.segment_id)
                       ELSE s2c
    <3>1. /\ r \in [type : {"media"}, bandwidth : Int, segment_id : Int]
          /\ MediaPresent /\ NotAhead(r.segment_id, reqSeg, reqSent)
      BY <1>5, <2>3 DEF GoodRequest, MetaRequest, ItemRequest
    <3>2. r.bandwidth \in Int /\ r.segment_id \in Int
      BY <3>1
    <3>3. send_media_data_response(r.bandwidth, r.segment_id) \in Seq(Rsp)
      BY <1>6, <3>1, <3>2, PiecesGood
    <3>4. QED
      BY <1>4, <2>3, <3>3, ConcatProperties
  <2>4. QED
    BY <1>1, <2>1, <2>2, <2>3 DEF ServerRecv
<1>8. GoodChannels'
  BY <1>2, <1>5, <1>7 DEF GoodChannels, downloadVars
<1>9. QED
  BY <1>1, <1>3, <1>8 DEF SessionInv

(* Delivery of a message, the first time or again. *)
LEMMA DeliverStep ==
    ASSUME SessionInv, s2c # <<>>, ClientRecv(Head(s2c)),
           s2c' = s2c \/ s2c' = Tail(s2c), dups' \in Nat
    PROVE  SessionInv'
<1>1. Head(s2c) \in GoodResponse(reqSeg, reqSent)
  BY HeadTailProperties DEF SessionInv, GoodChannels
<1>2. ClientInv' /\ Advances
  BY <1>1, RecvStep DEF SessionInv
<1>3. GoodChannels'
  BY <1>2, ClientChannels DEF SessionInv
<1>4. QED
  BY <1>2, <1>3 DEF SessionInv

LEMMA NextInv == SessionInv /\ [Next]_vars => SessionInv'
<1> SUFFICES ASSUME SessionInv, [Next]_vars PROVE SessionInv'
  OBVIOUS
<1>1. CASE Start
  BY <1>1, StartStep, ClientChannels DEF Start, SessionInv
<1>2. CASE Serve
  BY <1>2, ServeStep
<1>3. CASE Deliver
  BY <1>3, DeliverStep DEF Deliver, SessionInv
<1>4. CASE DeliverDuplicate
  <2>1. dups' \in Nat
    BY <1>4 DEF DeliverDuplicate, SessionInv
  <2>2. QED
    BY <1>4, <2>1, DeliverStep DEF DeliverDuplicate
<1>5. CASE DownloadTimeout
  BY <1>5, DownloadStep, ClientChannels DEF DownloadTimeout, SessionInv
<1>6. CASE PlayTimeout
  BY <1>6, PlayStep, ClientChannels DEF PlayTimeout, SessionInv
<1>7. CASE UNCHANGED vars
  <2>1. /\ UNCHANGED <<sessionVars, downloadVars, cache, playVars, timerVars, stops, proc>>
        /\ UNCHANGED <<c2s, s2c, dups>>
    BY <1>7 DEF vars, clientVars, chanVars
  <2>2. ClientInv'
    BY <2>1, SameClientInv DEF SessionInv, ClientInv, ClientTypeOK
  <2>3. GoodChannels'
    BY <2>1 DEF SessionInv, GoodChannels, downloadVars
  <2>4. QED
    BY <2>1, <2>2, <2>3 DEF SessionInv
<1>8. QED
  BY <1>1, <1>2, <1>3, <1>4, <1>5, <1>6, <1>7 DEF Next, Terminated

(* Client, streams and counters stay consistent in every session. *)
THEOREM SessionInvariant == Spec => []SessionInv
BY InitInv, NextInv, PTL DEF Spec

(* Type correctness of a session, for every client class and every medium, *)
(* present or not.                                                         *)
THEOREM TypeCorrect == Spec => []TypeOK
<1>1. SessionInv => TypeOK
  <2> SUFFICES ASSUME SessionInv PROVE TypeOK
    OBVIOUS
  <2>1. reqSeg \in Int /\ reqSent \in BOOLEAN
    BY DEF SessionInv, ClientInv, ClientTypeOK
  <2>2. ChannelTypeOK
    BY <2>1, GoodMessages, SeqMonotonic DEF SessionInv, GoodChannels, ChannelTypeOK
  <2>3. QED
    BY <2>2 DEF SessionInv, ClientInv, TypeOK
<1>2. QED
  BY <1>1, SessionInvariant, PTL

(* Segments are played in order without a gap or a repetition, and history *)
(* cache and request are consecutive, in every session.                    *)
THEOREM PlaybackInOrder == Spec => []PlaybackContiguous
<1>1. SessionInv => PlaybackContiguous
  BY DEF SessionInv, ClientInv
<1>2. QED
  BY <1>1, SessionInvariant, PTL

=============================================================================
