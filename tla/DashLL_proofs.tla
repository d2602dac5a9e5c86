---------------------------- MODULE DashLL_proofs ----------------------------
(***************************************************************************)
(* The access point's record of a client, for any number of clients and    *)
(* any ladder, durations and payload.                                      *)
(***************************************************************************)
EXTENDS DashLL, SequenceTheorems, TLAPS

(* The i-th request of a client. *)
RequestsAt(i) ==
    IF i = 1 THEN {Server!MetaRequest}
    ELSE IF i = 2 THEN {Server!ItemRequest}
    ELSE {Server!MediaRequest(BwList[k], i - 3) : k \in DOMAIN BwList}

ResponseTo(a) == IF a = <<>> THEN <<>> ELSE Answer(Last(a))

(* The invariant of one client, in terms of its requests a, how many of    *)
(* them have passed (k), how much of the response has been sent (s) and    *)
(* received (g), what waits for transmission (w), and its record d.        *)

(* The exchanges take place one after the other. *)
AskedOK(a, k, s, g) ==
    /\ a \in Seq(Server!Request)
    /\ Len(a) > 2 => Len(a) - 2 <= Server!SegmentCount
    /\ \A i \in 1..Len(a) : a[i] \in RequestsAt(i)
    /\ k \in Nat /\ (k = Len(a) \/ k = Len(a) - 1)
    /\ s \in 0..Len(ResponseTo(a))
    /\ s > 0 => k = Len(a)
    /\ g \subseteq 1..s

(* The record exists from the first request on, knows the ladder and the   *)
(* durations once the playlists have passed, and the media requests that   *)
(* have passed.                                                            *)
RecordOK(a, k, s, d) ==
    /\ d = NoRecord <=> k = 0
    /\ d # NoRecord =>
           /\ d \in ClientPlay
           /\ Len(a) > 1 \/ s > 0 => \A j \in DOMAIN BwList : BwList[j] \in Range(d.bwqueue)
           /\ Len(a) > 2 \/ (Len(a) = 2 /\ s > 0) =>
                  d.segment_duration = SegDuration /\ d.total_segments = Server!SegmentCount
           /\ Len(d.request_history) = IF k <= 2 THEN 0 ELSE k - 2
           /\ \A i \in 3..k : d.request_history[i - 2] = a[i].bandwidth
           /\ k > 2 => /\ d.requested = k - 3
                       /\ d.total_size = Server!SegmentSize(a[k].bandwidth, SegDuration)

Waiting == [exchange : Nat, part : Nat, data : Server!Response]

(* What waits for transmission is of this exchange or of an earlier one.   *)
WaitingOK(a, s, w) ==
    /\ w \in Seq(Waiting)
    /\ \A k \in 1..Len(w) :
           /\ w[k].exchange <= Len(a)
           /\ w[k].exchange = Len(a) => w[k].part \in 1..s /\ w[k].data = ResponseTo(a)[w[k].part]

(* What the record says when x pieces of the current segment have been     *)
(* transmitted.                                                            *)
Progress(a, d, x) ==
    LET whole == Len(ResponseTo(a))
    IN  /\ d.transmitted_ts = IF x = whole THEN -1 ELSE x - 1
        /\ d.transmitted_size = IF x = whole THEN 0 ELSE x * Payload
        /\ d.segments = IF x = whole THEN Len(a) - 2 ELSE Len(a) - 3

(* The pieces after them wait, in order, behind o old playlists. *)
InTransit(a, s, g, w, x, o) ==
    /\ x <= s /\ g = 1..x /\ Len(w) = o + (s - x)
    /\ x > 0 => o = 0
    /\ \A j \in 1..o : w[j].data.type # "media" /\ w[j].exchange < Len(a)
    /\ \A j \in (o + 1)..Len(w) : w[j].exchange = Len(a) /\ w[j].part = (j - o) + x

(* The tracking of a client whose media was neither repeated nor lost. *)
TrackOK(a, s, g, d, w) ==
    IF Len(a) <= 2
    THEN /\ \A j \in 1..Len(w) : w[j].data.type # "media"
         /\ d # NoRecord => d.transmitted_ts = -1 /\ d.transmitted_size = 0 /\ d.segments = 0
    ELSE \E x, o \in Nat : Progress(a, d, x) /\ InTransit(a, s, g, w, x, o)

-----------------------------------------------------------------------------
(* The server's answers.                                                   *)

LEMMA CountIsNat == Server!SegmentCount \in Nat
BY StreamAssumption DEF Server!SegmentCount

LEMMA SizePositive ==
    ASSUME NEW k \in DOMAIN BwList
    PROVE  /\ BwList[k] \in Nat \ {0}
           /\ Server!SegmentSize(BwList[k], SegDuration) \in Nat \ {0}
<1>1. BwList[k] \in Nat \ {0}
  BY StreamAssumption, LenProperties
<1>2. BwList[k] * SegDuration \in Nat
  BY <1>1, StreamAssumption
<1>3. QED
  BY <1>1, <1>2, StreamAssumption DEF Server!SegmentSize

LEMMA RequestTyped ==
    ASSUME NEW i \in Nat \ {0}, NEW r \in RequestsAt(i)
    PROVE  /\ r \in Server!Request
           /\ i = 1 => r.type = "meta"
           /\ i = 2 => r.type = "item"
           /\ i > 2 => r.type = "media" /\ r.segment_id = i - 3 /\ r.bandwidth \in Nat \ {0}
<1>1. CASE i = 1
  BY <1>1 DEF RequestsAt, Server!Request, Server!MetaRequest
<1>2. CASE i = 2
  BY <1>2 DEF RequestsAt, Server!Request, Server!ItemRequest
<1>3. CASE i > 2
  <2>1. PICK k \in DOMAIN BwList : r = Server!MediaRequest(BwList[k], i - 3)
    BY <1>3 DEF RequestsAt
  <2>2. BwList[k] \in Nat \ {0}
    BY SizePositive
  <2>3. QED
    BY <1>3, <2>1, <2>2 DEF Server!Request, Server!MediaRequest
<1>4. QED
  BY <1>1, <1>2, <1>3

(* All pieces but the last are full and leave something to come; the last  *)
(* one completes the segment.                                              *)
LEMMA PieceArithmetic ==
    ASSUME NEW size \in Nat \ {0}, NEW k \in Nat, k < Server!PieceCount(size)
    PROVE  /\ Server!PieceSize(size, k) \in Nat
           /\ k + 1 < Server!PieceCount(size) =>
                 /\ k * Payload + Server!PieceSize(size, k) = (k + 1) * Payload
                 /\ (k + 1) * Payload < size
           /\ k + 1 = Server!PieceCount(size) => k * Payload + Server!PieceSize(size, k) >= size
<1> DEFINE d == size \div Payload
           e == size % Payload
<1>1. Payload \in Nat /\ Payload > 0
  BY StreamAssumption
<1>2. d \in Nat /\ e \in Nat /\ size = Payload * d + e /\ e < Payload
  <2>1. d = size \div Payload /\ e = size % Payload
    OBVIOUS
  <2> HIDE DEF d, e
  <2>2. QED
    BY <1>1, <2>1
<1>3. /\ Server!PieceCount(size) = d + (IF e > 0 THEN 1 ELSE 0)
      /\ Server!PieceSize(size, k) = IF k < d THEN Payload ELSE e
  BY DEF Server!PieceCount, Server!PieceSize
<1> HIDE DEF d, e
<1>4. Server!PieceSize(size, k) \in Nat
  BY <1>1, <1>2, <1>3
<1>5. ASSUME k + 1 < Server!PieceCount(size)
      PROVE  /\ k * Payload + Server!PieceSize(size, k) = (k + 1) * Payload
             /\ (k + 1) * Payload < size
  <2>1. k < d /\ (k + 1 < d \/ (k + 1 = d /\ e > 0))
    BY <1>2, <1>3, <1>5
  <2>2. (k + 1) * Payload = k * Payload + Payload
    BY <1>1
  <2>3. CASE k + 1 < d
    <3>1. (k + 2) * Payload <= d * Payload
      BY <1>1, <1>2, <2>3
    <3>2. QED
      BY <1>1, <1>2, <1>3, <2>1, <2>2, <3>1
  <2>4. CASE k + 1 = d /\ e > 0
    BY <1>1, <1>2, <1>3, <2>1, <2>2, <2>4
  <2>5. QED
    BY <2>1, <2>3, <2>4
<1>6. ASSUME k + 1 = Server!PieceCount(size)
      PROVE  k * Payload + Server!PieceSize(size, k) >= size
  <2>1. CASE e > 0
    <3>1. k = d
      BY <1>2, <1>3, <1>6, <2>1
    <3>2. QED
      BY <1>1, <1>2, <1>3, <3>1
  <2>2. CASE e = 0
    <3>1. k + 1 = d /\ k < d
      BY <1>2, <1>3, <1>6, <2>2
    <3>2. Payload * d = k * Payload + Payload
      BY <1>1, <1>2, <3>1
    <3>3. QED
      BY <1>1, <1>2, <1>3, <2>2, <3>1, <3>2
  <2>3. QED
    BY <1>2, <2>1, <2>2
<1>7. QED
  BY <1>4, <1>5, <1>6

LEMMA CountPositive ==
    ASSUME NEW size \in Nat \ {0} PROVE Server!PieceCount(size) \in Nat \ {0}
<1> DEFINE d == size \div Payload
           e == size % Payload
<1>1. d = size \div Payload /\ e = size % Payload /\ Payload \in Nat /\ Payload > 0
  BY StreamAssumption
<1> HIDE DEF d, e
<1>2. d \in Nat /\ e \in Nat /\ size = Payload * d + e
  BY <1>1
<1>3. d = 0 => e > 0
  BY <1>1, <1>2
<1>4. Server!PieceCount(size) = d + (IF e > 0 THEN 1 ELSE 0)
  BY <1>1 DEF Server!PieceCount
<1>5. QED
  BY <1>2, <1>3, <1>4

(* The pieces of a segment. *)
LEMMA PiecesOf ==
    ASSUME NEW k \in DOMAIN BwList, NEW seg \in 0..(Server!SegmentCount - 1)
    PROVE  LET all == Server!send_media_data_response(BwList[k], seg)
               size == Server!SegmentSize(BwList[k], SegDuration)
           IN  /\ all \in Seq(Server!Response) /\ Len(all) = Server!PieceCount(size)
               /\ \A i \in 1..Len(all) :
                      all[i] = Server!Chunk(BwList[k], seg, i - 1, Server!PieceSize(size, i - 1))
<1> DEFINE bw == BwList[k]
           all == Server!send_media_data_response(bw, seg)
           size == Server!SegmentSize(bw, SegDuration)
           n == Server!PieceCount(size)
<1>1. bw \in Nat \ {0} /\ size \in Nat \ {0} /\ n \in Nat \ {0}
  BY SizePositive, CountPositive
<1>2. Server!ServedBandwidth(bw) = bw /\ Server!ServedSegment(seg) = seg
  BY CountIsNat, StreamAssumption DEF Server!ServedBandwidth, Server!ServedSegment
<1>3. all = [i \in 1..n |-> Server!Chunk(bw, seg, i - 1, Server!PieceSize(size, i - 1))]
  BY <1>2 DEF Server!send_media_data_response
<1> HIDE DEF all, n, size, bw
<1>4. ASSUME NEW i \in 1..n
      PROVE  Server!Chunk(bw, seg, i - 1, Server!PieceSize(size, i - 1)) \in Server!Response
  <2>1. i - 1 \in Nat /\ i - 1 < n /\ i - 1 < Server!PieceCount(size)
    BY <1>1 DEF n
  <2>2. Server!PieceSize(size, i - 1) \in Nat
    BY <1>1, <2>1, PieceArithmetic
  <2>3. seg \in Int /\ bw \in Int
    BY <1>1, CountIsNat
  <2>4. QED
    BY <2>1, <2>2, <2>3 DEF Server!Chunk, Server!Response
<1>5. all \in [1..n -> Server!Response]
  BY <1>3, <1>4
<1>6. all \in Seq(Server!Response)
  BY <1>1, <1>5, SeqDef
<1>7. Len(all) = n
  BY <1>1, <1>5, <1>6, LenProperties
<1>8. \A i \in 1..Len(all) : all[i] = Server!Chunk(bw, seg, i - 1, Server!PieceSize(size, i - 1))
  BY <1>3, <1>7
<1>9. QED
  BY <1>6, <1>7, <1>8 DEF all, n, size, bw

LEMMA AnswerIs ==
    ASSUME NEW n \in Nat \ {0}, NEW r \in RequestsAt(n), n > 2 => n - 2 <= Server!SegmentCount
    PROVE  /\ Answer(r) \in Seq(Server!Response) /\ Len(Answer(r)) \in Nat \ {0}
           /\ n = 1 => Answer(r) = <<Server!M3U8Meta(0, BwList)>>
           /\ n = 2 => Answer(r) = <<Server!M3U8Item>>
           /\ n > 2 => LET size == Server!SegmentSize(r.bandwidth, SegDuration)
                       IN  /\ size \in Nat \ {0}
                           /\ \E k \in DOMAIN BwList : BwList[k] = r.bandwidth
                           /\ Len(Answer(r)) = Server!PieceCount(size)
                           /\ \A i \in 1..Len(Answer(r)) :
                                  Answer(r)[i] = Server!Chunk(r.bandwidth, n - 3, i - 1,
                                                              Server!PieceSize(size, i - 1))
<1>1. CASE n = 1
  <2>1. r.type = "meta"
    BY <1>1, RequestTyped
  <2>2. Answer(r) = <<Server!M3U8Meta(0, BwList)>>
    BY <2>1, StreamAssumption DEF Answer, Server!send_m3u8meta_response
  <2>3. Server!M3U8Meta(0, BwList) \in Server!Response
    BY StreamAssumption, SeqMonotonic DEF Server!M3U8Meta, Server!Response
  <2>4. QED
    BY <1>1, <2>2, <2>3
<1>2. CASE n = 2
  <2>1. r.type = "item"
    BY <1>2, RequestTyped
  <2>2. Answer(r) = <<Server!M3U8Item>>
    BY <2>1 DEF Answer
  <2>3. Server!M3U8Item \in Server!Response
    BY StreamAssumption DEF Server!M3U8Item, Server!Response
  <2>4. QED
    BY <1>2, <2>2, <2>3
<1>3. CASE n > 2
  <2>1. PICK k \in DOMAIN BwList : r = Server!MediaRequest(BwList[k], n - 3)
    BY <1>3 DEF RequestsAt
  <2>2. r.type = "media" /\ r.bandwidth = BwList[k] /\ r.segment_id = n - 3
    BY <2>1 DEF Server!MediaRequest
  <2>3. Answer(r) = Server!send_media_data_response(BwList[k], n - 3)
    BY <2>2 DEF Answer
  <2> DEFINE size == Server!SegmentSize(BwList[k], SegDuration)
  <2>4. size \in Nat \ {0} /\ Server!PieceCount(size) \in Nat \ {0}
    BY SizePositive, CountPositive
  <2>5. n - 3 \in 0..(Server!SegmentCount - 1)
    BY <1>3, CountIsNat
  <2>6. /\ Answer(r) \in Seq(Server!Response) /\ Len(Answer(r)) = Server!PieceCount(size)
        /\ \A i \in 1..Len(Answer(r)) :
               Answer(r)[i] = Server!Chunk(BwList[k], n - 3, i - 1, Server!PieceSize(size, i - 1))
    BY <2>3, <2>5, PiecesOf
  <2> HIDE DEF size
  <2>7. QED
    BY <1>3, <2>2, <2>4, <2>6 DEF size
<1>4. QED
  BY <1>1, <1>2, <1>3

(* The response to the last of the requests a. *)
LEMMA ResponseIs ==
    ASSUME NEW a, NEW k, NEW s, NEW g, AskedOK(a, k, s, g)
    PROVE  /\ ResponseTo(a) \in Seq(Server!Response) /\ Len(ResponseTo(a)) \in Nat
           /\ Len(a) \in Nat /\ (Len(a) = 0 <=> a = <<>>) /\ a \in Seq(Server!Request)
           /\ DOMAIN ResponseTo(a) = 1..Len(ResponseTo(a))
           /\ a # <<>> => /\ Len(ResponseTo(a)) > 0 /\ Last(a) \in RequestsAt(Len(a))
                          /\ Last(a) = a[Len(a)] /\ Len(a) > 0
                          /\ ResponseTo(a) = Answer(Last(a))
<1>1. a \in Seq(Server!Request) /\ Len(a) \in Nat /\ (Len(a) = 0 <=> a = <<>>)
  BY LenProperties, EmptySeq DEF AskedOK
<1>2. CASE a = <<>>
  <2>1. ResponseTo(a) = <<>>
    BY <1>2 DEF ResponseTo
  <2>2. QED
    BY <1>1, <1>2, <2>1, EmptySeq, LenProperties
<1>3. CASE a # <<>>
  <2>1. Len(a) \in Nat \ {0} /\ Last(a) = a[Len(a)] /\ Last(a) \in RequestsAt(Len(a))
    BY <1>1, <1>3 DEF AskedOK, Last
  <2>2. ResponseTo(a) = Answer(Last(a))
    BY <1>3 DEF ResponseTo
  <2>3. Answer(Last(a)) \in Seq(Server!Response) /\ Len(Answer(Last(a))) \in Nat \ {0}
    BY <2>1, AnswerIs DEF AskedOK
  <2>4. QED
    BY <1>1, <2>1, <2>2, <2>3, LenProperties
<1>4. QED
  BY <1>2, <1>3

-----------------------------------------------------------------------------
(* The steps of one client.                                                *)

LEMMA AskStep ==
    ASSUME NEW a, NEW k, NEW s, NEW g, NEW d, NEW w,
           AskedOK(a, k, s, g), RecordOK(a, k, s, d), WaitingOK(a, s, w),
           g = DOMAIN ResponseTo(a), NEW r \in RequestsAt(Len(a) + 1),
           Len(a) + 1 > 2 => Len(a) - 1 <= Server!SegmentCount
    PROVE  /\ k = Len(a)
           /\ AskedOK(Append(a, r), k, 0, {}) /\ RecordOK(Append(a, r), k, 0, d)
           /\ WaitingOK(Append(a, r), 0, w)
<1> DEFINE b == Append(a, r)
           n == Len(a)
<1>1. /\ a \in Seq(Server!Request) /\ n \in Nat /\ (n = 0 <=> a = <<>>)
      /\ Len(ResponseTo(a)) \in Nat /\ DOMAIN ResponseTo(a) = 1..Len(ResponseTo(a))
      /\ a # <<>> => Len(ResponseTo(a)) > 0
  BY ResponseIs
<1>2. r \in Server!Request
  BY <1>1, RequestTyped
<1>3. /\ b \in Seq(Server!Request) /\ Len(b) = n + 1 /\ b # <<>>
      /\ \A i \in 1..n : b[i] = a[i]
      /\ b[n + 1] = r /\ Last(b) = r
  BY <1>1, <1>2, AppendProperties DEF Last
<1>4. a # <<>> => s > 0
  BY <1>1 DEF AskedOK
<1>5. k = n
  BY <1>1, <1>4 DEF AskedOK
<1>6. n + 1 > 2 => n - 1 <= Server!SegmentCount
  OBVIOUS
<1> HIDE DEF b, n
<1>7. ASSUME NEW i \in 1..Len(b) PROVE b[i] \in RequestsAt(i)
  <2>1. i \in 1..n \/ i = n + 1
    BY <1>1, <1>3
  <2>2. QED
    BY <1>3, <2>1 DEF AskedOK, n
<1>8. ResponseTo(b) = Answer(r) /\ Len(Answer(r)) \in Nat
  <2>1. n + 1 > 2 => n + 1 - 2 <= Server!SegmentCount
    BY <1>1, <1>6, CountIsNat
  <2>2. r \in RequestsAt(n + 1) /\ n + 1 \in Nat \ {0}
    BY <1>1 DEF n
  <2>3. QED
    BY <1>3, <2>1, <2>2, AnswerIs DEF ResponseTo
<1>9. AskedOK(b, k, 0, {})
  <2>1. Len(b) > 2 => Len(b) - 2 <= Server!SegmentCount
    BY <1>1, <1>3, <1>6, CountIsNat
  <2>2. 0 \in 0..Len(ResponseTo(b)) /\ ~(0 > 0)
    BY <1>8
  <2>3. k \in Nat /\ k = Len(b) - 1
    BY <1>1, <1>3, <1>5
  <2>4. QED
    BY <1>3, <1>7, <2>1, <2>2, <2>3 DEF AskedOK
<1>10. RecordOK(b, k, 0, d)
  <2>1. CASE d = NoRecord
    BY <2>1 DEF RecordOK
  <2>2. CASE d # NoRecord
    <3>1. k > 0 /\ a # <<>>
      BY <1>1, <1>5, <2>2 DEF RecordOK
    <3>2. s > 0 /\ d \in ClientPlay /\ \A j \in DOMAIN BwList : BwList[j] \in Range(d.bwqueue)
      BY <1>4, <2>2, <3>1 DEF RecordOK
    <3>3. Len(b) > 2 => n > 2 \/ n = 2
      BY <1>1, <1>3
    <3>4. Len(b) > 2 => d.segment_duration = SegDuration /\ d.total_segments = Server!SegmentCount
      BY <2>2, <3>2, <3>3 DEF RecordOK, n
    <3>5. /\ \A i \in 3..k : d.request_history[i - 2] = b[i].bandwidth
          /\ k > 2 => b[k] = a[k]
      <4>1. \A i \in 3..k : b[i] = a[i]
        BY <1>1, <1>3, <1>5
      <4>2. k > 2 => k \in 3..k
        BY <1>1, <1>5
      <4>3. \A i \in 3..k : d.request_history[i - 2] = a[i].bandwidth
        BY <2>2 DEF RecordOK
      <4>4. QED
        BY <4>1, <4>2, <4>3
    <3>6. ~(Len(b) = 2 /\ 0 > 0)
      OBVIOUS
    <3>7. QED
      BY <2>2, <3>2, <3>4, <3>5, <3>6 DEF RecordOK
  <2>3. QED
    BY <2>1, <2>2
<1>11. WaitingOK(b, 0, w)
  <2>1. ASSUME NEW i \in 1..Len(w) PROVE w[i].exchange <= Len(b) /\ w[i].exchange # Len(b)
    <3>1. w[i].exchange <= n /\ w[i] \in Waiting
      BY LenProperties DEF WaitingOK, n
    <3>2. w[i].exchange \in Nat
      BY <3>1 DEF Waiting
    <3>3. QED
      BY <1>1, <1>3, <3>1, <3>2
  <2>2. QED
    BY <2>1 DEF WaitingOK
<1>12. QED
  BY <1>5, <1>9, <1>10, <1>11 DEF b, n

(* What process_request makes of the record. *)
Requested(d, r) ==
    IF r.type = "meta" /\ d = NoRecord THEN NewClientPlay
    ELSE IF r.type = "media" /\ d # NoRecord /\ InSequence(d, r) THEN RequestMedia(d, r)
    ELSE d

LEMMA TrendTyped ==
    ASSUME NEW h, NEW t \in {"stable", "up", "down"}
    PROVE  update_request_trend(h, t) \in {"stable", "up", "down"}
BY DEF update_request_trend

LEMMA PassStep ==
    ASSUME NEW a, NEW k, NEW s, NEW g, NEW d,
           AskedOK(a, k, s, g), RecordOK(a, k, s, d), a # <<>>
    PROVE  AskedOK(a, Len(a), s, g) /\ RecordOK(a, Len(a), s, Requested(d, Last(a)))
<1> DEFINE n == Len(a)
           r == Last(a)
<1>1. n \in Nat \ {0} /\ r \in RequestsAt(n) /\ r = a[n] /\ a \in Seq(Server!Request)
  BY ResponseIs
<1>2. AskedOK(a, n, s, g)
  BY <1>1 DEF AskedOK
<1> SUFFICES RecordOK(a, n, s, Requested(d, r))
  BY <1>2
<1>3. /\ n = 1 => r.type = "meta"
      /\ n = 2 => r.type = "item"
      /\ n > 2 => r.type = "media" /\ r.segment_id = n - 3 /\ r.bandwidth \in Nat \ {0}
  BY <1>1, RequestTyped
<1>4. k \in Nat /\ (k = n \/ k = n - 1)
  BY DEF AskedOK
<1>5. CASE k = n
  <2>1. d # NoRecord /\ d \in ClientPlay /\ Len(d.request_history) = IF k <= 2 THEN 0 ELSE k - 2
    BY <1>1, <1>5 DEF RecordOK
  <2>2. n = 1 \/ n = 2 \/ n > 2
    <3> HIDE DEF n
    <3>1. QED
      BY <1>1
  <2>3. n > 2 => ~InSequence(d, r)
    BY <1>1, <1>3, <1>5, <2>1 DEF InSequence
  <2>4. Requested(d, r) = d
    BY <1>3, <2>1, <2>2, <2>3 DEF Requested
  <2>5. QED
    BY <1>5, <2>4
<1>6. CASE k = n - 1 /\ n = 1
  <2>1. d = NoRecord /\ r.type = "meta" /\ k = 0 /\ ~(s > 0)
    BY <1>1, <1>3, <1>6 DEF RecordOK, AskedOK
  <2>2. Requested(d, r) = NewClientPlay
    BY <2>1 DEF Requested
  <2>3. NewClientPlay \in ClientPlay /\ NewClientPlay.request_history = <<>>
    <3>1. FALSE \in BOOLEAN
      BY Zenon
    <3>2. <<>> \in Seq(Nat)
      BY EmptySeq
    <3>3. QED
      BY <3>1, <3>2 DEF NewClientPlay, ClientPlay
  <2>4. NewClientPlay # NoRecord /\ Len(NewClientPlay.request_history) = 0
    BY <2>3, RecordAssumption, EmptySeq
  <2>5. QED
    BY <1>6, <2>1, <2>2, <2>3, <2>4 DEF RecordOK
<1>7. CASE k = n - 1 /\ n = 2
  <2>1. d # NoRecord /\ r.type = "item" /\ k = 1
    BY <1>3, <1>7 DEF RecordOK
  <2>2. Requested(d, r) = d
    BY <2>1 DEF Requested
  <2>3. QED
    BY <1>7, <2>1, <2>2 DEF RecordOK
<1>8. CASE k = n - 1 /\ n > 2
  <2> DEFINE h == d.request_history
             x == RequestMedia(d, r)
  <2>1. r.type = "media" /\ r.segment_id = n - 3 /\ r.bandwidth \in Nat
    BY <1>3, <1>8
  <2>2. d # NoRecord /\ d \in ClientPlay
    BY <1>1, <1>8 DEF RecordOK
  <2>3. h \in Seq(Nat) /\ Len(h) = n - 3 /\ d.trend \in {"stable", "up", "down"}
    <3>1. h \in Seq(Nat) /\ Len(h) = IF k <= 2 THEN 0 ELSE k - 2
      BY <2>2 DEF RecordOK, ClientPlay
    <3>2. (IF k <= 2 THEN 0 ELSE k - 2) = n - 3
      BY <1>1, <1>8
    <3>3. QED
      BY <2>2, <3>1, <3>2 DEF ClientPlay
  <2>4. Requested(d, r) = x
    BY <2>1, <2>2, <2>3 DEF Requested, InSequence
  <2>5. /\ Append(h, r.bandwidth) \in Seq(Nat) /\ Len(Append(h, r.bandwidth)) = n - 2
        /\ \A i \in 1..(n - 3) : Append(h, r.bandwidth)[i] = h[i]
        /\ Append(h, r.bandwidth)[n - 2] = r.bandwidth
    BY <1>1, <2>1, <2>3, AppendProperties
  <2>6. d.segment_duration = SegDuration /\ d.total_segments = Server!SegmentCount
    BY <1>1, <1>8, <2>2 DEF RecordOK
  <2>7. Server!SegmentSize(r.bandwidth, SegDuration) \in Nat
    <3>1. r.bandwidth * SegDuration \in Nat
      BY <2>1, StreamAssumption
    <3>2. QED
      BY <3>1 DEF Server!SegmentSize
  <2>8. update_request_trend(Append(h, r.bandwidth), d.trend) \in {"stable", "up", "down"}
    BY <2>3, TrendTyped
  <2>9. /\ x.request_history = Append(h, r.bandwidth) /\ x.requested = r.segment_id
        /\ x.total_size = Server!SegmentSize(r.bandwidth, SegDuration)
        /\ x.bwqueue = d.bwqueue /\ x.segment_duration = d.segment_duration
        /\ x.total_segments = d.total_segments
        /\ x \in ClientPlay
    <3>1. n - 3 \in Int
      BY <1>1
    <3>2. QED
      BY <2>1, <2>2, <2>5, <2>6, <2>7, <2>8, <3>1 DEF RequestMedia, ClientPlay
  <2> HIDE DEF x
  <2>10. ASSUME NEW i \in 3..n PROVE x.request_history[i - 2] = a[i].bandwidth
    <3>1. CASE i = n
      BY <1>1, <2>5, <2>9, <3>1
    <3>2. CASE i \in 3..(n - 1)
      <4>1. i - 2 \in 1..(n - 3) /\ i \in 3..k
        BY <1>1, <1>8, <3>2
      <4>2. QED
        BY <2>2, <2>5, <2>9, <4>1 DEF RecordOK
    <3>3. QED
      BY <1>1, <3>1, <3>2
  <2>11. x # NoRecord
    BY <2>9, RecordAssumption
  <2>12. \A j \in DOMAIN BwList : BwList[j] \in Range(x.bwqueue)
    BY <1>1, <1>8, <2>2, <2>9 DEF RecordOK
  <2>13. Len(x.request_history) = (IF n <= 2 THEN 0 ELSE n - 2) /\ n # 0
    BY <1>1, <1>8, <2>5, <2>9
  <2>14. x.requested = n - 3 /\ x.total_size = Server!SegmentSize(a[n].bandwidth, SegDuration)
    BY <1>1, <2>1, <2>9
  <2>15. RecordOK(a, n, s, x)
    BY <2>6, <2>9, <2>10, <2>11, <2>12, <2>13, <2>14 DEF RecordOK
  <2>16. QED
    BY <2>4, <2>15
<1>9. n = 1 \/ n = 2 \/ n > 2
  <2> HIDE DEF n
  <2>1. QED
    BY <1>1
<1>10. QED
  BY <1>4, <1>5, <1>6, <1>7, <1>8, <1>9

LEMMA DataRecord ==
    ASSUME NEW a, NEW k, NEW s, NEW g, NEW d,
           AskedOK(a, k, s, g), RecordOK(a, k, s, d), k = Len(a), a # <<>>,
           NEW t \in Nat, NEW i \in 1..Len(ResponseTo(a))
    PROVE  RecordOK(a, k, t, process_data(d, ResponseTo(a)[i]))
<1> DEFINE n == Len(a)
           m == ResponseTo(a)[i]
           x == process_data(d, m)
<1>1. n \in Nat \ {0} /\ ResponseTo(a) = Answer(Last(a)) /\ Last(a) \in RequestsAt(n)
  BY ResponseIs
<1>2. n > 2 => n - 2 <= Server!SegmentCount
  BY DEF AskedOK
<1>3. d # NoRecord /\ d \in ClientPlay
  BY <1>1 DEF RecordOK
<1>4. CASE n = 1
  <2>1. Answer(Last(a)) = <<Server!M3U8Meta(0, BwList)>>
    BY <1>1, <1>2, <1>4, AnswerIs
  <2>2. ResponseTo(a) = <<Server!M3U8Meta(0, BwList)>> /\ i = 1
    BY <1>1, <2>1
  <2>3. m = Server!M3U8Meta(0, BwList)
    BY <2>2
  <2>4. m.type = "meta" /\ m.program_id = 0 /\ m.bwqueue = BwList
    BY <2>3 DEF Server!M3U8Meta
  <2>5. x = [d EXCEPT !.bwqueue = @ \o BwList, !.max_bandwidth = Last(BwList)]
    BY <1>3, <2>4, StreamAssumption DEF process_data, process_m3u8meta_data
  <2>6. d.bwqueue \in Seq(Nat) /\ BwList \in Seq(Nat) /\ BwList # <<>>
    BY <1>3, StreamAssumption, SeqMonotonic DEF ClientPlay
  <2>7. d.bwqueue \o BwList \in Seq(Nat) /\ Last(BwList) \in Nat
    BY <2>6, ConcatProperties, LenProperties, EmptySeq DEF Last
  <2>8. x \in ClientPlay /\ x # NoRecord
    <3>1. x \in ClientPlay
      BY <1>3, <2>5, <2>7 DEF ClientPlay
    <3>2. QED
      BY <3>1, RecordAssumption
  <2>9. /\ x.request_history = d.request_history /\ x.bwqueue = d.bwqueue \o BwList
    BY <1>3, <2>5 DEF ClientPlay
  <2>10. ASSUME NEW j \in DOMAIN BwList PROVE BwList[j] \in Range(x.bwqueue)
    <3> DEFINE b == d.bwqueue
    <3>1. b \in Seq(Nat) /\ Len(b) \in Nat /\ Len(BwList) \in Nat /\ j \in 1..Len(BwList)
      BY <2>6, LenProperties
    <3> HIDE DEF b
    <3>2. Len(b) + j \in 1..(Len(b) + Len(BwList)) /\ Len(b \o BwList) = Len(b) + Len(BwList)
      BY <2>6, <3>1, ConcatProperties
    <3>3. (b \o BwList)[Len(b) + j] = BwList[j]
      BY <2>6, <3>1, <3>2, ConcatProperties
    <3>4. b \o BwList \in Seq(Nat)
      BY <2>6, <3>1, ConcatProperties
    <3>5. Len(b) + j \in DOMAIN (b \o BwList)
      BY <3>2, <3>4, LenProperties
    <3>6. QED
      BY <2>9, <3>3, <3>5 DEF Range, b
  <2>11. ~(n > 2) /\ ~(n = 2)
    BY <1>4
  <2>12. QED
    BY <1>1, <1>3, <1>4, <2>8, <2>9, <2>10, <2>11 DEF RecordOK
<1>5. CASE n = 2
  <2>1. Answer(Last(a)) = <<Server!M3U8Item>>
    BY <1>1, <1>2, <1>5, AnswerIs
  <2>2. ResponseTo(a) = <<Server!M3U8Item>> /\ i = 1
    BY <1>1, <2>1
  <2>3. m = Server!M3U8Item
    BY <2>2
  <2>4. /\ m.type = "item" /\ m.segment_duration = SegDuration
        /\ m.total_duration \div m.segment_duration = Server!SegmentCount
    BY <2>3, StreamAssumption DEF Server!M3U8Item, Server!SegmentCount
  <2>5. x = [d EXCEPT !.segment_duration = SegDuration,
                      !.total_segments = Server!SegmentCount, !.started = TRUE]
    BY <1>3, <2>4 DEF process_data, process_m3u8item_data
  <2>6. TRUE \in BOOLEAN
    BY Zenon
  <2>7. x \in ClientPlay
    BY <1>3, <2>5, <2>6, CountIsNat, StreamAssumption DEF ClientPlay
  <2>8. /\ x.request_history = d.request_history /\ x.bwqueue = d.bwqueue
        /\ x.segment_duration = SegDuration /\ x.total_segments = Server!SegmentCount
    BY <1>3, <2>5 DEF ClientPlay
  <2>9. x # NoRecord
    BY <2>7, RecordAssumption
  <2> HIDE DEF x
  <2>10. RecordOK(a, k, t, x)
    BY <1>1, <1>3, <1>5, <2>7, <2>8, <2>9 DEF RecordOK
  <2>11. QED
    BY <2>10 DEF x
<1>6. CASE n > 2
  <2> DEFINE bw == Last(a).bandwidth
             z == Server!PieceSize(Server!SegmentSize(bw, SegDuration), i - 1)
  <2>1. Answer(Last(a))[i] = Server!Chunk(bw, n - 3, i - 1, z)
    BY <1>1, <1>2, <1>6, AnswerIs
  <2>2. m = Server!Chunk(bw, n - 3, i - 1, z)
    BY <1>1, <2>1
  <2>3. m.type = "media" /\ m.segment_id = n - 3 /\ m.transport_stream_id = i - 1
    BY <2>2 DEF Server!Chunk
  <2>4. x = process_media_data(d, m)
    BY <1>3, <2>3 DEF process_data
  <2>5. n - 3 \in Int /\ i - 1 \in Int
    BY <1>1
  <2>6. x \in ClientPlay
    BY <1>3, <2>3, <2>4, <2>5 DEF ClientPlay, process_media_data
  <2>7. /\ x.request_history = d.request_history /\ x.bwqueue = d.bwqueue
        /\ x.segment_duration = d.segment_duration /\ x.total_segments = d.total_segments
        /\ x.requested = d.requested /\ x.total_size = d.total_size
    BY <1>3, <2>4 DEF ClientPlay, process_media_data
  <2>8. x # NoRecord
    BY <2>6, RecordAssumption
  <2> HIDE DEF x
  <2>9. RecordOK(a, k, t, x)
    BY <1>1, <1>3, <1>6, <2>6, <2>7, <2>8 DEF RecordOK
  <2>10. QED
    BY <2>9 DEF x
<1>7. n = 1 \/ n = 2 \/ n > 2
  <2> HIDE DEF n
  <2>1. QED
    BY <1>1
<1>8. QED
  BY <1>4, <1>5, <1>6, <1>7

LEMMA TransmittedRecord ==
    ASSUME NEW a, NEW k, NEW s, NEW d, RecordOK(a, k, s, d), d # NoRecord,
           NEW m \in Server!Response, m.type = "media"
    PROVE  RecordOK(a, k, s, Transmitted(d, m))
<1> DEFINE x == Transmitted(d, m)
<1>1. d \in ClientPlay
  BY DEF RecordOK
<1>2. m.segment_id \in Int /\ m.transport_stream_id \in Int /\ m.media_packet_size \in Nat
  BY DEF Server!Response
<1>3. /\ d.transmitted_size \in Nat /\ d.segments \in Nat
      /\ d.transmitted_seg \in Int /\ d.transmitted_ts \in Int
  BY <1>1 DEF ClientPlay
<1> DEFINE seg == IF m.segment_id > d.transmitted_seg THEN m.segment_id ELSE d.transmitted_seg
           ts == IF Completes(d, m) THEN -1
                 ELSE IF Counts(d, m) THEN m.transport_stream_id ELSE d.transmitted_ts
           size == IF Completes(d, m) THEN 0
                   ELSE IF Counts(d, m) THEN d.transmitted_size + m.media_packet_size
                   ELSE d.transmitted_size
           segs == IF Completes(d, m) THEN d.segments + 1 ELSE d.segments
<1>4. x \in ClientPlay
  <2>1. x = [d EXCEPT !.transmitted_seg = seg, !.transmitted_ts = ts,
                      !.transmitted_size = size, !.segments = segs]
    BY DEF Transmitted
  <2>2. seg \in Int /\ ts \in Int
    BY <1>2, <1>3
  <2>3. size \in Nat /\ segs \in Nat
    BY <1>2, <1>3
  <2> HIDE DEF seg, ts, size, segs
  <2>4. QED
    BY <1>1, <2>1, <2>2, <2>3 DEF ClientPlay
<1>5. /\ x.request_history = d.request_history /\ x.bwqueue = d.bwqueue
      /\ x.segment_duration = d.segment_duration /\ x.total_segments = d.total_segments
      /\ x.requested = d.requested /\ x.total_size = d.total_size
  BY <1>1 DEF ClientPlay, Transmitted
<1>6. x # NoRecord
  BY <1>4, RecordAssumption
<1> HIDE DEF x
<1>7. RecordOK(a, k, s, x)
  BY <1>4, <1>5, <1>6 DEF RecordOK
<1>8. QED
  BY <1>7 DEF x

(* A message joins the queue for transmission. *)
LEMMA QueueStep ==
    ASSUME NEW a, NEW k, NEW s, NEW g, NEW w, AskedOK(a, k, s, g), WaitingOK(a, s, w),
           k = Len(a), NEW t \in Nat, s <= t, t <= Len(ResponseTo(a)), NEW i \in 1..t
    PROVE  /\ AskedOK(a, k, t, g)
           /\ WaitingOK(a, t, Append(w, [exchange |-> Len(a), part |-> i,
                                         data |-> ResponseTo(a)[i]]))
<1> DEFINE e == [exchange |-> Len(a), part |-> i, data |-> ResponseTo(a)[i]]
           v == Append(w, e)
           n == Len(a)
<1>1. /\ n \in Nat /\ ResponseTo(a) \in Seq(Server!Response)
      /\ Len(ResponseTo(a)) \in Nat
  BY ResponseIs
<1>2. s \in Nat /\ g \subseteq 1..t
  BY <1>1 DEF AskedOK
<1>3. AskedOK(a, k, t, g)
  BY <1>1, <1>2 DEF AskedOK
<1>4. ResponseTo(a)[i] \in Server!Response
  BY <1>1, LenProperties
<1>5. e \in Waiting /\ e.exchange = n /\ e.part = i /\ e.data = ResponseTo(a)[i]
  BY <1>1, <1>4 DEF Waiting
<1> HIDE DEF e, n
<1>6. /\ v \in Seq(Waiting) /\ Len(w) \in Nat /\ Len(v) = Len(w) + 1
      /\ \A j \in 1..Len(w) : v[j] = w[j]
      /\ v[Len(w) + 1] = e
  BY <1>5, AppendProperties, LenProperties DEF WaitingOK
<1>7. ASSUME NEW j \in 1..Len(v)
      PROVE  /\ v[j].exchange <= n
             /\ v[j].exchange = n => v[j].part \in 1..t /\ v[j].data = ResponseTo(a)[v[j].part]
  <2>1. CASE j \in 1..Len(w)
    <3>1. /\ w[j].exchange <= n
          /\ w[j].exchange = n => w[j].part \in 1..s /\ w[j].data = ResponseTo(a)[w[j].part]
      BY <2>1 DEF WaitingOK, n
    <3>2. QED
      BY <1>2, <1>6, <2>1, <3>1
  <2>2. CASE j = Len(w) + 1
    BY <1>1, <1>5, <1>6, <2>2
  <2>3. QED
    BY <1>6, <2>1, <2>2
<1> HIDE DEF v
<1>8. WaitingOK(a, t, v)
  BY <1>6, <1>7 DEF WaitingOK, n
<1>9. QED
  BY <1>3, <1>8 DEF v, e

(* A message leaves it; the client may have received it. *)
LEMMA LeaveStep ==
    ASSUME NEW a, NEW k, NEW s, NEW g, NEW w, AskedOK(a, k, s, g), WaitingOK(a, s, w), w # <<>>
    PROVE  /\ Head(w) \in Waiting
           /\ WaitingOK(a, s, Tail(w))
           /\ Head(w).exchange = Len(a) => AskedOK(a, k, s, g \cup {Head(w).part})
<1>1. /\ w \in Seq(Waiting) /\ Head(w) = w[1] /\ Tail(w) \in Seq(Waiting) /\ Head(w) \in Waiting
      /\ Len(w) \in Nat \ {0} /\ Len(Tail(w)) = Len(w) - 1
      /\ \A i \in 1..(Len(w) - 1) : Tail(w)[i] = w[i + 1]
  BY HeadTailProperties, LenProperties, EmptySeq DEF WaitingOK
<1>2. WaitingOK(a, s, Tail(w))
  <2>1. \A i \in 1..Len(Tail(w)) : Tail(w)[i] = w[i + 1] /\ i + 1 \in 1..Len(w)
    BY <1>1
  <2>2. QED
    BY <1>1, <2>1 DEF WaitingOK
<1>3. Head(w).exchange = Len(a) => Head(w).part \in 1..s
  <2>1. 1 \in 1..Len(w)
    BY <1>1
  <2>2. QED
    BY <1>1, <2>1 DEF WaitingOK
<1>4. QED
  BY <1>1, <1>2, <1>3 DEF AskedOK

-----------------------------------------------------------------------------
(* Tracking.                                                               *)

SameProgress(d, e) == /\ d.transmitted_ts = e.transmitted_ts
                      /\ d.transmitted_size = e.transmitted_size
                      /\ d.segments = e.segments

LEMMA TrackSame ==
    ASSUME NEW a, NEW s, NEW g, NEW d, NEW w, NEW e, TrackOK(a, s, g, d, w),
           d # NoRecord, SameProgress(d, e)
    PROVE  TrackOK(a, s, g, e, w)
BY DEF TrackOK, Progress, SameProgress

(* Two initial segments of the naturals. *)
LEMMA IntervalsEqual ==
    ASSUME NEW x \in Nat, NEW y \in Nat, 1..x = 1..y PROVE x = y
<1>1. x > 0 => x \in 1..y
  OBVIOUS
<1>2. y > 0 => y \in 1..x
  OBVIOUS
<1>3. QED
  BY <1>1, <1>2

LEMMA TrackAsk ==
    ASSUME NEW a, NEW k, NEW s, NEW g, NEW d, NEW w,
           AskedOK(a, k, s, g), RecordOK(a, k, s, d), WaitingOK(a, s, w),
           TrackOK(a, s, g, d, w),
           g = DOMAIN ResponseTo(a), NEW r \in RequestsAt(Len(a) + 1),
           Len(a) + 1 > 2 => Len(a) - 1 <= Server!SegmentCount
    PROVE  TrackOK(Append(a, r), 0, {}, d, w)
<1> DEFINE b == Append(a, r)
           n == Len(a)
           whole == Len(ResponseTo(a))
<1>1. AskedOK(b, k, 0, {}) /\ k = n
  BY AskStep
<1>2. n \in Nat /\ whole \in Nat /\ DOMAIN ResponseTo(a) = 1..whole /\ (n > 0 => whole > 0)
  BY ResponseIs
<1>3. r \in Server!Request /\ a \in Seq(Server!Request)
  BY <1>2, RequestTyped DEF AskedOK
<1>4. Len(b) = n + 1 /\ b # <<>>
  BY <1>3, AppendProperties
<1>5. Len(ResponseTo(b)) \in Nat \ {0}
  <2> HIDE DEF b
  <2>1. Len(ResponseTo(b)) \in Nat /\ Len(ResponseTo(b)) > 0
    BY <1>1, <1>4, ResponseIs
  <2>2. QED
    BY <2>1
<1> HIDE DEF b
<1>6. CASE n + 1 <= 2
  BY <1>2, <1>4, <1>6 DEF TrackOK
<1>7. CASE n = 2
  <2>1. d # NoRecord
    BY <1>1, <1>7 DEF RecordOK
  <2>2. /\ \A j \in 1..Len(w) : w[j].data.type # "media"
        /\ d.transmitted_ts = -1 /\ d.transmitted_size = 0 /\ d.segments = 0
    BY <1>7, <2>1 DEF TrackOK
  <2>3. Progress(b, d, 0)
    <3>1. 0 * Payload = 0 /\ 0 - 1 = -1 /\ Len(b) - 3 = 0 /\ 0 # Len(ResponseTo(b))
      BY <1>4, <1>5, <1>7, StreamAssumption
    <3>2. QED
      BY <2>2, <3>1 DEF Progress
  <2>4. Len(w) \in Nat /\ 1..0 = {}
    BY LenProperties DEF WaitingOK
  <2>5. ASSUME NEW j \in 1..Len(w) PROVE w[j].exchange < Len(b)
    <3>1. w[j].exchange <= n /\ w[j] \in Waiting
      BY LenProperties DEF WaitingOK
    <3>2. w[j].exchange \in Nat
      BY <3>1 DEF Waiting
    <3>3. QED
      BY <1>2, <1>4, <3>1, <3>2
  <2>6. InTransit(b, 0, {}, w, 0, Len(w))
    <3>1. \A j \in (Len(w) + 1)..Len(w) : FALSE
      BY <2>4
    <3>2. 0 <= 0 /\ Len(w) = Len(w) + (0 - 0) /\ ~(0 > 0)
      BY <2>4
    <3>3. QED
      BY <2>2, <2>4, <2>5, <3>1, <3>2 DEF InTransit
  <2>7. ~(Len(b) <= 2)
    BY <1>4, <1>7
  <2>8. QED
    BY <2>3, <2>4, <2>6, <2>7 DEF TrackOK, b
<1>8. CASE n > 2
  <2>1. ~(n <= 2)
    BY <1>2, <1>8
  <2>2. PICK x, o \in Nat : Progress(a, d, x) /\ InTransit(a, s, g, w, x, o)
    BY <2>1 DEF TrackOK
  <2>3. x = whole
    BY <1>2, <2>2, IntervalsEqual DEF InTransit
  <2>4. s \in 0..whole /\ x <= s /\ Len(w) = o + (s - x) /\ (x > 0 => o = 0)
    BY <2>2 DEF AskedOK, InTransit
  <2>5. Len(w) = 0
    <3>1. whole > 0
      BY <1>2, <1>8
    <3> HIDE DEF whole
    <3>2. s = x /\ o = 0
      BY <1>2, <2>3, <2>4, <3>1
    <3>3. QED
      BY <2>4, <3>2
  <2>6. d.transmitted_ts = -1 /\ d.transmitted_size = 0 /\ d.segments = n - 2
    BY <2>2, <2>3 DEF Progress
  <2>7. Progress(b, d, 0)
    <3>1. 0 * Payload = 0 /\ 0 - 1 = -1 /\ Len(b) - 3 = n - 2 /\ 0 # Len(ResponseTo(b))
      BY <1>2, <1>4, <1>5, StreamAssumption
    <3>2. QED
      BY <2>6, <3>1 DEF Progress
  <2>8. InTransit(b, 0, {}, w, 0, 0)
    <3>1. 0 <= 0 /\ 1..0 = {} /\ 0 + (0 - 0) = 0 /\ ~(0 > 0) /\ (0 + 1)..0 = {}
      OBVIOUS
    <3>2. QED
      BY <2>5, <3>1 DEF InTransit
  <2>9. ~(Len(b) <= 2)
    BY <1>2, <1>4, <1>8
  <2>10. QED
    BY <2>7, <2>8, <2>9 DEF TrackOK, b
<1>9. n + 1 <= 2 \/ n = 2 \/ n > 2
  <2> HIDE DEF n
  <2>1. QED
    BY <1>2
<1>10. QED
  BY <1>6, <1>7, <1>8, <1>9

(* The next part of the response joins the queue. *)
LEMMA TrackQueue ==
    ASSUME NEW a, NEW k, NEW s, NEW g, NEW d, NEW w, NEW e,
           AskedOK(a, k, s, g), WaitingOK(a, s, w), TrackOK(a, s, g, d, w),
           e \in Waiting, e.exchange = Len(a), e.part = s + 1,
           Len(a) <= 2 => e.data.type # "media"
    PROVE  TrackOK(a, s + 1, g, d, Append(w, e))
<1> DEFINE v == Append(w, e)
           n == Len(a)
<1>1. n \in Nat /\ s \in Nat
  BY ResponseIs DEF AskedOK
<1>2. /\ v \in Seq(Waiting) /\ Len(w) \in Nat /\ Len(v) = Len(w) + 1
      /\ \A j \in 1..Len(w) : v[j] = w[j]
      /\ v[Len(w) + 1] = e
  BY AppendProperties, LenProperties DEF WaitingOK
<1> HIDE DEF v
<1>3. CASE n <= 2
  <2>1. \A j \in 1..Len(v) : v[j].data.type # "media"
    <3>1. \A j \in 1..Len(v) : j \in 1..Len(w) \/ j = Len(w) + 1
      BY <1>2
    <3>2. QED
      BY <1>2, <1>3, <3>1 DEF TrackOK
  <2>2. QED
    BY <1>3, <2>1 DEF TrackOK, v
<1>4. CASE ~(n <= 2)
  <2>1. PICK x, o \in Nat : Progress(a, d, x) /\ InTransit(a, s, g, w, x, o)
    BY <1>4 DEF TrackOK
  <2>2. x <= s /\ Len(w) = o + (s - x)
    BY <2>1 DEF InTransit
  <2>3. x <= s + 1 /\ Len(v) = o + ((s + 1) - x) /\ (Len(w) + 1) - o + x = s + 1 /\ o <= Len(w)
    <3> DEFINE l == Len(w)
               lv == Len(v)
    <3>1. l \in Nat /\ lv = l + 1 /\ x <= s /\ l = o + (s - x) /\ s \in Nat
      BY <1>1, <1>2, <2>2
    <3> HIDE DEF l, lv
    <3>2. x <= s + 1 /\ lv = o + ((s + 1) - x) /\ (l + 1) - o + x = s + 1 /\ o <= l
      BY <3>1
    <3>3. QED
      BY <3>2 DEF l, lv
  <2>4. \A j \in 1..o : v[j].data.type # "media" /\ v[j].exchange < n
    BY <1>2, <2>1, <2>3 DEF InTransit
  <2>5. ASSUME NEW j \in (o + 1)..Len(v) PROVE v[j].exchange = n /\ v[j].part = (j - o) + x
    <3>1. CASE j = Len(w) + 1
      BY <1>1, <1>2, <2>3, <3>1
    <3>2. CASE j \in (o + 1)..Len(w)
      BY <1>2, <2>1, <3>2 DEF InTransit
    <3>3. QED
      BY <1>2, <3>1, <3>2
  <2>6. InTransit(a, s + 1, g, v, x, o)
    BY <2>1, <2>3, <2>4, <2>5 DEF InTransit
  <2>7. QED
    BY <1>4, <2>1, <2>6 DEF TrackOK, v
<1>5. QED
  BY <1>3, <1>4

(* An old playlist leaves the queue. *)
LEMMA TrackOther ==
    ASSUME NEW a, NEW k, NEW s, NEW g, NEW d, NEW w,
           AskedOK(a, k, s, g), WaitingOK(a, s, w), TrackOK(a, s, g, d, w), w # <<>>,
           Head(w).data.type # "media"
    PROVE  /\ TrackOK(a, s, g, d, Tail(w))
           /\ Len(a) > 2 => Head(w).exchange # Len(a)
<1> DEFINE n == Len(a)
           v == Tail(w)
<1>1. /\ w \in Seq(Waiting) /\ Head(w) = w[1] /\ Head(w) \in Waiting
      /\ Len(w) \in Nat \ {0} /\ Len(v) = Len(w) - 1
      /\ \A i \in 1..(Len(w) - 1) : v[i] = w[i + 1]
  BY HeadTailProperties, LenProperties, EmptySeq DEF WaitingOK
<1>2. n \in Nat /\ s \in Nat
  BY ResponseIs DEF AskedOK
<1>3. n > 2 => Head(w).exchange # n
  <2> SUFFICES ASSUME n > 2, Head(w).exchange = n PROVE FALSE
    OBVIOUS
  <2>1. 1 \in 1..Len(w)
    BY <1>1
  <2>2. Head(w).part \in 1..s /\ Head(w).data = ResponseTo(a)[Head(w).part]
    BY <1>1, <2>1 DEF WaitingOK
  <2>3. a # <<>>
    BY <1>2, ResponseIs
  <2>4. /\ ResponseTo(a) = Answer(Last(a)) /\ Last(a) \in RequestsAt(n)
        /\ s \in 0..Len(ResponseTo(a)) /\ Len(ResponseTo(a)) \in Nat
    BY <2>3, ResponseIs DEF AskedOK
  <2>5. n - 2 <= Server!SegmentCount /\ Head(w).part \in 1..Len(Answer(Last(a)))
    BY <2>2, <2>4 DEF AskedOK
  <2> DEFINE bw == Last(a).bandwidth
             z == Server!PieceSize(Server!SegmentSize(bw, SegDuration), Head(w).part - 1)
  <2>6. Answer(Last(a))[Head(w).part] = Server!Chunk(bw, n - 3, Head(w).part - 1, z)
    BY <1>2, <2>4, <2>5, AnswerIs
  <2>7. Head(w).data.type = "media"
    BY <2>2, <2>4, <2>6 DEF Server!Chunk
  <2>8. QED
    BY <2>7
<1> HIDE DEF v
<1>4. CASE n <= 2
  <2>1. \A j \in 1..Len(v) : v[j] = w[j + 1] /\ j + 1 \in 1..Len(w)
    BY <1>1
  <2>2. TrackOK(a, s, g, d, v)
    BY <1>4, <2>1 DEF TrackOK
  <2>3. QED
    BY <1>3, <2>2 DEF v
<1>5. CASE ~(n <= 2)
  <2>1. PICK x, o \in Nat : Progress(a, d, x) /\ InTransit(a, s, g, w, x, o)
    BY <1>5 DEF TrackOK
  <2>2. n > 2
    <3> HIDE DEF n
    <3>1. QED
      BY <1>2, <1>5
  <2>3. o > 0
    <3>1. ASSUME o = 0 PROVE FALSE
      <4>1. 1 \in (o + 1)..Len(w)
        BY <1>1, <3>1
      <4>2. w[1].exchange = n
        BY <2>1, <4>1 DEF InTransit
      <4>3. QED
        BY <1>1, <1>3, <2>2, <4>2
    <3>2. QED
      BY <3>1
  <2>4. x <= s /\ Len(w) = o + (s - x) /\ x = 0
    BY <2>1, <2>3 DEF InTransit
  <2>5. o - 1 \in Nat /\ Len(v) = (o - 1) + (s - x)
    BY <1>1, <1>2, <2>3, <2>4
  <2>6. \A j \in 1..(o - 1) : v[j].data.type # "media" /\ v[j].exchange < n
    <3>1. \A j \in 1..(o - 1) : j + 1 \in 1..o /\ v[j] = w[j + 1]
      BY <1>1, <1>2, <2>3, <2>4
    <3>2. QED
      BY <2>1, <3>1 DEF InTransit
  <2>7. ASSUME NEW j \in ((o - 1) + 1)..Len(v)
        PROVE  v[j].exchange = n /\ v[j].part = (j - (o - 1)) + x
    <3>1. j \in Nat /\ j + 1 \in (o + 1)..Len(w) /\ v[j] = w[j + 1]
      BY <1>1, <2>3
    <3>2. w[j + 1].exchange = n /\ w[j + 1].part = ((j + 1) - o) + x
      BY <2>1, <3>1 DEF InTransit
    <3>3. QED
      BY <3>1, <3>2
  <2>8. InTransit(a, s, g, v, x, o - 1)
    BY <2>1, <2>4, <2>5, <2>6, <2>7 DEF InTransit
  <2>9. TrackOK(a, s, g, d, v)
    BY <1>5, <2>1, <2>5, <2>8 DEF TrackOK
  <2>10. QED
    BY <1>3, <2>9 DEF v
<1>6. QED
  BY <1>4, <1>5

(* A piece is transmitted to a client whose media was neither repeated nor *)
(* lost: it is the next one of the current segment, and the record takes   *)
(* the segment to be complete at its last piece and not before.            *)
LEMMA TrackTransmit ==
    ASSUME NEW a, NEW k, NEW s, NEW g, NEW d, NEW w,
           AskedOK(a, k, s, g), RecordOK(a, k, s, d), WaitingOK(a, s, w),
           TrackOK(a, s, g, d, w), w # <<>>, Head(w).data.type = "media"
    PROVE  /\ Len(a) > 2 /\ s > 0 /\ d # NoRecord /\ Head(w).exchange = Len(a)
           /\ g # DOMAIN ResponseTo(a)
           /\ TrackOK(a, s, g \cup {Head(w).part}, Transmitted(d, Head(w).data), Tail(w))
           /\ Completes(d, Head(w).data) => g \cup {Head(w).part} = DOMAIN ResponseTo(a)
<1> DEFINE n == Len(a)
           v == Tail(w)
           whole == Len(ResponseTo(a))
           m == Head(w).data
           p == Head(w).part
           e == Transmitted(d, m)
<1>1. /\ w \in Seq(Waiting) /\ Head(w) = w[1] /\ Head(w) \in Waiting
      /\ Len(w) \in Nat \ {0} /\ Len(v) = Len(w) - 1
      /\ \A i \in 1..(Len(w) - 1) : v[i] = w[i + 1]
  BY HeadTailProperties, LenProperties, EmptySeq DEF WaitingOK
<1>2. n \in Nat /\ s \in Nat /\ whole \in Nat /\ DOMAIN ResponseTo(a) = 1..whole
  BY ResponseIs DEF AskedOK
<1>3. 1 \in 1..Len(w)
  BY <1>1
<1>4. ~(n <= 2)
  BY <1>1, <1>3 DEF TrackOK
<1>5. n > 2
  <2> HIDE DEF n
  <2>1. QED
    BY <1>2, <1>4
<1>6. PICK x, o \in Nat : Progress(a, d, x) /\ InTransit(a, s, g, w, x, o)
  BY <1>4 DEF TrackOK
<1>7. o = 0
  <2>1. ASSUME o > 0 PROVE FALSE
    <3>1. 1 \in 1..o
      BY <2>1
    <3>2. QED
      BY <1>1, <1>6, <3>1 DEF InTransit
  <2>2. QED
    BY <2>1
<1>8. Head(w).exchange = n /\ p = x + 1
  <2>1. 1 \in (o + 1)..Len(w)
    BY <1>3, <1>7
  <2>2. w[1].exchange = n /\ w[1].part = (1 - o) + x
    BY <1>6, <2>1 DEF InTransit
  <2>3. QED
    BY <1>1, <1>7, <2>2
<1>9. g = 1..x /\ x <= s /\ Len(w) = s - x /\ x < s /\ s <= whole /\ x < whole
  <2>1. g = 1..x /\ x <= s /\ Len(w) = o + (s - x)
    BY <1>6 DEF InTransit
  <2>2. s \in 0..whole
    BY DEF AskedOK
  <2> HIDE DEF whole
  <2>3. QED
    BY <1>1, <1>2, <1>7, <2>1, <2>2
<1>10. s > 0 /\ k = n
  BY <1>2, <1>9 DEF AskedOK
<1>11. d # NoRecord /\ d \in ClientPlay
  BY <1>5, <1>10 DEF RecordOK
<1>12. /\ d.transmitted_ts = x - 1 /\ d.transmitted_size = x * Payload
       /\ d.segments = n - 3
  <2>1. x # whole
    <3> HIDE DEF whole
    <3>1. QED
      BY <1>2, <1>9
  <2>2. QED
    BY <1>6, <2>1 DEF Progress
<1> DEFINE size == Server!SegmentSize(Last(a).bandwidth, SegDuration)
           z == Server!PieceSize(size, x)
<1>13. /\ size \in Nat \ {0} /\ whole = Server!PieceCount(size)
       /\ m = Server!Chunk(Last(a).bandwidth, n - 3, x, z)
       /\ d.total_size = size
  <2>1. a # <<>>
    BY <1>2, <1>5, ResponseIs
  <2>2. ResponseTo(a) = Answer(Last(a)) /\ Last(a) \in RequestsAt(n) /\ Last(a) = a[n]
    BY <2>1, ResponseIs
  <2>3. n - 2 <= Server!SegmentCount /\ n \in Nat \ {0}
    BY <1>2, <1>5 DEF AskedOK
  <2>4. /\ size \in Nat \ {0} /\ Len(Answer(Last(a))) = Server!PieceCount(size)
        /\ \A i \in 1..Len(Answer(Last(a))) :
               Answer(Last(a))[i] = Server!Chunk(Last(a).bandwidth, n - 3, i - 1,
                                                 Server!PieceSize(size, i - 1))
    BY <1>5, <2>2, <2>3, AnswerIs
  <2>5. x + 1 \in 1..whole /\ (x + 1) - 1 = x
    BY <1>2, <1>9
  <2>6. m = ResponseTo(a)[x + 1]
    BY <1>1, <1>3, <1>8 DEF WaitingOK
  <2>7. d.total_size = size
    BY <1>5, <1>10, <1>11, <2>2 DEF RecordOK
  <2>8. ResponseTo(a)[x + 1] = Server!Chunk(Last(a).bandwidth, n - 3, (x + 1) - 1,
                                            Server!PieceSize(size, (x + 1) - 1))
    BY <2>2, <2>4, <2>5
  <2>9. QED
    BY <2>2, <2>4, <2>5, <2>6, <2>7, <2>8
<1> HIDE DEF size
<1>14. /\ z \in Nat
       /\ x + 1 < whole => x * Payload + z = (x + 1) * Payload /\ (x + 1) * Payload < size
       /\ x + 1 = whole => x * Payload + z >= size
  BY <1>9, <1>13, PieceArithmetic
<1>15. /\ m.segment_id = n - 3 /\ m.transport_stream_id = x /\ m.media_packet_size = z
  BY <1>13 DEF Server!Chunk
<1> HIDE DEF m, p, z, whole
<1>16. x * Payload \in Nat /\ (x + 1) * Payload \in Nat
  BY StreamAssumption
<1>17. Counts(d, m)
  BY <1>12, <1>15 DEF Counts
<1>18. Completes(d, m) <=> x + 1 = whole
  <2>1. Completes(d, m) <=> x * Payload + z >= size
    BY <1>12, <1>13, <1>15, <1>17 DEF Completes
  <2>2. x + 1 < whole \/ x + 1 = whole
    BY <1>2, <1>9
  <2> DEFINE q == x * Payload
             t == (x + 1) * Payload
  <2>3. /\ q \in Nat /\ t \in Nat /\ z \in Nat /\ size \in Nat
        /\ x + 1 < whole => q + z = t /\ t < size
        /\ x + 1 = whole => q + z >= size
        /\ Completes(d, m) <=> q + z >= size
    BY <1>13, <1>14, <1>16, <2>1
  <2> HIDE DEF q, t
  <2>4. QED
    BY <1>2, <2>2, <2>3
<1>19. Progress(a, e, x + 1)
  <2>1. /\ e.transmitted_ts = IF x + 1 = whole THEN -1 ELSE x
        /\ e.transmitted_size = IF x + 1 = whole THEN 0 ELSE x * Payload + z
        /\ e.segments = IF x + 1 = whole THEN (n - 3) + 1 ELSE n - 3
    BY <1>11, <1>12, <1>15, <1>17, <1>18 DEF ClientPlay, Transmitted
  <2>2. x + 1 # whole => x * Payload + z = (x + 1) * Payload
    BY <1>2, <1>9, <1>14
  <2>3. (n - 3) + 1 = n - 2 /\ (x + 1) - 1 = x
    BY <1>2
  <2> HIDE DEF e
  <2>4. QED
    BY <2>1, <2>2, <2>3 DEF Progress, whole
<1>20. g \cup {p} = 1..(x + 1)
  BY <1>8, <1>9
<1>21. InTransit(a, s, g \cup {p}, v, x + 1, 0)
  <2>1. x + 1 <= s /\ Len(v) = 0 + (s - (x + 1))
    BY <1>1, <1>2, <1>9
  <2>2. ASSUME NEW j \in (0 + 1)..Len(v)
        PROVE  v[j].exchange = n /\ v[j].part = (j - 0) + (x + 1)
    <3>1. j \in Nat /\ j + 1 \in (o + 1)..Len(w) /\ v[j] = w[j + 1]
      BY <1>1, <1>7
    <3>2. w[j + 1].exchange = n /\ w[j + 1].part = ((j + 1) - o) + x
      BY <1>6, <3>1 DEF InTransit
    <3>3. QED
      BY <1>7, <3>1, <3>2
  <2>3. \A j \in 1..0 : FALSE
    OBVIOUS
  <2> HIDE DEF v
  <2>4. QED
    BY <1>20, <2>1, <2>2, <2>3 DEF InTransit
<1>22. TrackOK(a, s, g \cup {p}, e, v)
  <2> HIDE DEF e, v
  <2>1. x + 1 \in Nat /\ 0 \in Nat
    OBVIOUS
  <2>2. QED
    BY <1>4, <1>19, <1>21, <2>1 DEF TrackOK
<1>23. g # DOMAIN ResponseTo(a)
  BY <1>2, <1>9, IntervalsEqual
<1>24. Completes(d, m) => g \cup {p} = DOMAIN ResponseTo(a)
  BY <1>2, <1>18, <1>20
<1>25. QED
  BY <1>5, <1>8, <1>10, <1>11, <1>22, <1>23, <1>24 DEF p, m

(* Requests and data from the server leave what was transmitted alone. *)
LEMMA RequestedSame ==
    ASSUME NEW d, NEW r, d # NoRecord => d \in ClientPlay
    PROVE  /\ d # NoRecord => SameProgress(d, Requested(d, r))
           /\ d = NoRecord /\ Requested(d, r) # NoRecord => Requested(d, r) = NewClientPlay
BY DEF SameProgress, Requested, RequestMedia, ClientPlay

LEMMA DataSame ==
    ASSUME NEW d \in ClientPlay, NEW m \in Server!Response
    PROVE  SameProgress(d, process_data(d, m))
<1>1. d # NoRecord
  BY RecordAssumption
<1>2. m.type \in {"meta", "item", "media"}
  BY DEF Server!Response
<1>3. CASE m.type = "meta"
  BY <1>1, <1>3 DEF SameProgress, process_data, process_m3u8meta_data, ClientPlay
<1>4. CASE m.type = "item"
  BY <1>1, <1>4 DEF SameProgress, process_data, process_m3u8item_data, ClientPlay
<1>5. CASE m.type = "media"
  BY <1>1, <1>5 DEF SameProgress, process_data, process_media_data, ClientPlay
<1>6. QED
  BY <1>2, <1>3, <1>4, <1>5

LEMMA TrackPass ==
    ASSUME NEW a, NEW k, NEW s, NEW g, NEW d, NEW w,
           AskedOK(a, k, s, g), RecordOK(a, k, s, d), a # <<>>, TrackOK(a, s, g, d, w)
    PROVE  TrackOK(a, s, g, Requested(d, Last(a)), w)
<1> DEFINE e == Requested(d, Last(a))
           n == Len(a)
<1>1. d # NoRecord => d \in ClientPlay
  BY DEF RecordOK
<1>2. CASE d # NoRecord
  BY <1>1, <1>2, RequestedSame, TrackSame
<1>3. CASE d = NoRecord
  <2>1. k = 0
    BY <1>3 DEF RecordOK
  <2>2. n <= 2
    <3>1. n \in Nat /\ (k = n \/ k = n - 1)
      BY ResponseIs DEF AskedOK
    <3> HIDE DEF n
    <3>2. QED
      BY <2>1, <3>1
  <2>3. e # NoRecord => e.transmitted_ts = -1 /\ e.transmitted_size = 0 /\ e.segments = 0
    BY <1>1, <1>3, RequestedSame DEF NewClientPlay
  <2> HIDE DEF e
  <2>4. TrackOK(a, s, g, e, w)
    BY <2>2, <2>3 DEF TrackOK
  <2>5. QED
    BY <2>4 DEF e
<1>4. QED
  BY <1>2, <1>3

(* Only the answers after the second carry media. *)
LEMMA MediaAnswers ==
    ASSUME NEW a, NEW k, NEW s, NEW g, AskedOK(a, k, s, g), NEW i \in 1..Len(ResponseTo(a)),
           Len(a) <= 2
    PROVE  ResponseTo(a)[i].type # "media"
<1> DEFINE n == Len(a)
<1>1. a # <<>>
  <2>1. Len(ResponseTo(a)) \in Nat /\ Len(ResponseTo(a)) > 0
    BY ResponseIs
  <2>2. ResponseTo(<<>>) = <<>>
    BY DEF ResponseTo
  <2>3. QED
    BY <2>1, <2>2, EmptySeq
<1>2. n \in Nat \ {0} /\ ResponseTo(a) = Answer(Last(a)) /\ Last(a) \in RequestsAt(n)
  BY <1>1, ResponseIs
<1>3. n = 1 \/ n = 2
  <2>1. n <= 2
    OBVIOUS
  <2> HIDE DEF n
  <2>2. QED
    BY <1>2, <2>1
<1>4. CASE n = 1
  <2>1. Answer(Last(a)) = <<Server!M3U8Meta(0, BwList)>>
    BY <1>2, <1>4, AnswerIs
  <2>2. i = 1 /\ ResponseTo(a)[i] = Server!M3U8Meta(0, BwList)
    BY <1>2, <2>1
  <2>3. QED
    BY <2>2 DEF Server!M3U8Meta
<1>5. CASE n = 2
  <2>1. Answer(Last(a)) = <<Server!M3U8Item>>
    BY <1>2, <1>5, AnswerIs
  <2>2. i = 1 /\ ResponseTo(a)[i] = Server!M3U8Item
    BY <1>2, <2>1
  <2>3. QED
    BY <2>2 DEF Server!M3U8Item
<1>6. QED
  BY <1>3, <1>4, <1>5

-----------------------------------------------------------------------------
(* The invariant.                                                          *)

NumPassed(c) == IF passed[c] THEN Len(asked[c]) ELSE Len(asked[c]) - 1

Session(c) == /\ AskedOK(asked[c], NumPassed(c), sent[c], got[c])
              /\ RecordOK(asked[c], NumPassed(c), sent[c], client[c])
              /\ WaitingOK(asked[c], sent[c], down[c])

(* A client is in the set while a segment is on its way to it. *)
Tracked(c) ==
    ~disturbed[c] =>
        /\ TrackOK(asked[c], sent[c], got[c], client[c], down[c])
        /\ Len(asked[c]) > 2 /\ sent[c] > 0 /\ got[c] # DOMAIN ResponseTo(asked[c])
               => c \in client_set

OnClients(f) == f = [c \in Clients |-> f[c]]

Shape == /\ OnClients(client) /\ OnClients(weight) /\ OnClients(asked) /\ OnClients(passed)
         /\ OnClients(sent) /\ OnClients(got) /\ OnClients(down) /\ OnClients(owed)
         /\ OnClients(disturbed)

Simple == /\ client_set \subseteq Clients
          /\ \A c \in Clients : weight[c] \in Nat \ {0}
          /\ \A c \in Clients : passed[c] \in BOOLEAN
          /\ \A c \in Clients : disturbed[c] \in BOOLEAN
          /\ \A c \in Clients : owed[c] \in Nat
          /\ proc \in {"running", "exited", "undefined"}
          /\ repeats \in 0..MaxRepeats
          /\ losses \in 0..MaxLosses /\ ackLosses \in 0..MaxAckLosses

UndefinedOnlyIfDisturbed == proc = "undefined" => \E c \in Clients : disturbed[c]

Inv == /\ Shape /\ Simple /\ UndefinedOnlyIfDisturbed
       /\ \A c \in Clients : Session(c) /\ Tracked(c)

LEMMA InitInv == Init => Inv
<1> SUFFICES ASSUME Init PROVE Inv
  OBVIOUS
<1>1. Shape
  BY DEF Init, Shape, OnClients
<1>2. Simple
  <2>1. \A c \in Clients : passed[c] \in BOOLEAN /\ disturbed[c] \in BOOLEAN
    BY Zenon DEF Init
  <2>2. QED
    BY <2>1, AccessPointAssumption DEF Init, Simple
<1>3. UndefinedOnlyIfDisturbed
  BY DEF Init, UndefinedOnlyIfDisturbed
<1>4. ASSUME NEW c \in Clients PROVE Session(c) /\ Tracked(c)
  <2>1. /\ asked[c] = <<>> /\ NumPassed(c) = Len(<<>>) /\ sent[c] = 0 /\ got[c] = {}
        /\ client[c] = NoRecord /\ down[c] = <<>>
    BY DEF Init, NumPassed
  <2>2. Len(<<>>) = 0 /\ \A T : <<>> \in Seq(T)
    BY EmptySeq
  <2>3. ResponseTo(<<>>) = <<>>
    BY DEF ResponseTo
  <2>4. AskedOK(<<>>, 0, 0, {})
    BY <2>2, <2>3 DEF AskedOK
  <2>5. RecordOK(<<>>, 0, 0, NoRecord)
    BY DEF RecordOK
  <2>6. WaitingOK(<<>>, 0, <<>>)
    BY <2>2 DEF WaitingOK
  <2>7. TrackOK(<<>>, 0, {}, NoRecord, <<>>)
    BY <2>2 DEF TrackOK
  <2>8. QED
    BY <2>1, <2>2, <2>4, <2>5, <2>6, <2>7 DEF Session, Tracked
<1>5. QED
  BY <1>1, <1>2, <1>3, <1>4 DEF Inv

(* What a step of one client leaves alone of another. *)
Same(b) == /\ asked'[b] = asked[b] /\ passed'[b] = passed[b] /\ sent'[b] = sent[b]
           /\ got'[b] = got[b] /\ down'[b] = down[b] /\ client'[b] = client[b]
           /\ disturbed'[b] = disturbed[b]
           /\ b \in client_set => b \in client_set'

LEMMA SameStep ==
    ASSUME NEW b \in Clients, Session(b), Tracked(b), Same(b)
    PROVE  Session(b)' /\ Tracked(b)'
<1>1. NumPassed(b)' = NumPassed(b)
  BY DEF Same, NumPassed
<1>2. Session(b)'
  BY <1>1 DEF Same, Session
<1>3. Tracked(b)'
  BY DEF Same, Tracked
<1>4. QED
  BY <1>2, <1>3

(* A step of client c preserves the invariant if it does so for c. *)
LEMMA OneClient ==
    ASSUME Inv, NEW c \in Clients, \A b \in Clients \ {c} : Same(b),
           Shape', Simple', UndefinedOnlyIfDisturbed', Session(c)', Tracked(c)'
    PROVE  Inv'
<1>1. ASSUME NEW b \in Clients PROVE Session(b)' /\ Tracked(b)'
  <2>1. CASE b = c
    BY <2>1
  <2>2. CASE b # c
    BY <2>2, SameStep DEF Inv
  <2>3. QED
    BY <2>1, <2>2
<1>2. QED
  BY <1>1 DEF Inv

LEMMA AskInv ==
    ASSUME Inv, NEW c \in Clients, proc = "running", Ask(c) PROVE Inv'
<1> DEFINE a == asked[c]
           k == NumPassed(c)
           s == sent[c]
           g == got[c]
           d == client[c]
           w == down[c]
<1>1. /\ AskedOK(a, k, s, g) /\ RecordOK(a, k, s, d) /\ WaitingOK(a, s, w) /\ Tracked(c)
  BY DEF Inv, Session
<1>2. PICK r \in NextRequests(c) : asked' = [asked EXCEPT ![c] = Append(a, r)]
  BY DEF Ask
<1>3. g = DOMAIN ResponseTo(a)
  BY DEF Ask, Response, ResponseTo
<1>4. r \in RequestsAt(Len(a) + 1) /\ (Len(a) + 1 > 2 => Len(a) - 1 <= Server!SegmentCount)
  <2> DEFINE n == Len(a)
  <2>1. n \in Nat /\ Server!SegmentCount \in Nat
    BY <1>1, ResponseIs, CountIsNat
  <2>2. /\ n = 0 => r \in {Server!MetaRequest}
        /\ n = 1 => r \in {Server!ItemRequest}
        /\ n # 0 /\ n # 1 => /\ n - 2 < Server!SegmentCount
                             /\ r \in {Server!MediaRequest(BwList[i], n - 2) : i \in DOMAIN BwList}
    BY <1>2 DEF NextRequests
  <2> HIDE DEF n
  <2>3. n + 1 > 2 => n # 0 /\ n # 1 /\ n - 1 <= Server!SegmentCount
    BY <2>1, <2>2
  <2>4. r \in RequestsAt(n + 1)
    <3>1. CASE n = 0
      BY <2>2, <3>1 DEF RequestsAt
    <3>2. CASE n = 1
      BY <2>2, <3>2 DEF RequestsAt
    <3>3. CASE n # 0 /\ n # 1
      <4>1. n + 1 # 1 /\ n + 1 # 2 /\ (n + 1) - 3 = n - 2
        BY <2>1, <3>3
      <4>2. QED
        BY <2>2, <3>3, <4>1 DEF RequestsAt
    <3>4. QED
      BY <3>1, <3>2, <3>3
  <2>5. QED
    BY <2>3, <2>4 DEF n
<1>5. /\ k = Len(a) /\ AskedOK(Append(a, r), k, 0, {}) /\ RecordOK(Append(a, r), k, 0, d)
      /\ WaitingOK(Append(a, r), 0, w)
  BY <1>1, <1>3, <1>4, AskStep
<1>6. ~disturbed[c] => TrackOK(Append(a, r), 0, {}, d, w)
  BY <1>1, <1>3, <1>4, TrackAsk DEF Tracked
<1>7. /\ OnClients(asked') /\ asked'[c] = Append(a, r) /\ \A b \in Clients \ {c} : asked'[b] = asked[b]
  BY <1>2 DEF OnClients, Inv, Shape
<1>8. /\ OnClients(passed') /\ passed'[c] = FALSE /\ \A b \in Clients \ {c} : passed'[b] = passed[b]
  BY DEF OnClients, Inv, Shape, Ask
<1>9. /\ OnClients(sent') /\ sent'[c] = 0 /\ \A b \in Clients \ {c} : sent'[b] = sent[b]
  BY DEF OnClients, Inv, Shape, Ask
<1>10. /\ OnClients(got') /\ got'[c] = {} /\ \A b \in Clients \ {c} : got'[b] = got[b]
  BY DEF OnClients, Inv, Shape, Ask
<1>11. UNCHANGED <<client, client_set, weight, proc, down, owed, repeats, losses, ackLosses, disturbed>>
  BY DEF Ask, apVars, lossVars
<1>12. Shape'
  BY <1>7, <1>8, <1>9, <1>10, <1>11 DEF Inv, Shape
<1>13. Simple'
  <2>1. \A b \in Clients : passed'[b] \in BOOLEAN
    BY <1>8, Zenon DEF Inv, Simple
  <2>2. QED
    BY <1>11, <2>1 DEF Inv, Simple
<1>14. UndefinedOnlyIfDisturbed'
  BY <1>11 DEF Inv, UndefinedOnlyIfDisturbed
<1>15. NumPassed(c)' = k
  <2>1. NumPassed(c)' = Len(Append(a, r)) - 1
    BY <1>7, <1>8 DEF NumPassed
  <2>2. r \in Server!Request /\ a \in Seq(Server!Request) /\ Len(a) \in Nat
    BY <1>1, <1>4, ResponseIs, RequestTyped
  <2>3. QED
    BY <1>5, <2>1, <2>2, AppendProperties
<1>16. Session(c)'
  <2> HIDE DEF k
  <2>1. QED
    BY <1>5, <1>7, <1>9, <1>10, <1>11, <1>15 DEF Session
<1>17. Tracked(c)'
  BY <1>6, <1>7, <1>9, <1>10, <1>11 DEF Tracked
<1>18. \A b \in Clients \ {c} : Same(b)
  BY <1>7, <1>8, <1>9, <1>10, <1>11 DEF Same
<1>19. QED
  BY <1>12, <1>13, <1>14, <1>16, <1>17, <1>18, OneClient

(* process_request. *)
LEMMA RecvRequestInv ==
    ASSUME Inv, NEW c \in Clients, proc = "running", RecvRequest(c) PROVE Inv'
<1> DEFINE a == asked[c]
           k == NumPassed(c)
           s == sent[c]
           g == got[c]
           d == client[c]
           w == down[c]
<1>1. /\ AskedOK(a, k, s, g) /\ RecordOK(a, k, s, d) /\ WaitingOK(a, s, w) /\ Tracked(c)
  BY DEF Inv, Session
<1>2. a # <<>> /\ client' = [client EXCEPT ![c] = Requested(d, Last(a))]
  BY DEF RecvRequest, process_request, Requested
<1>3. AskedOK(a, Len(a), s, g) /\ RecordOK(a, Len(a), s, Requested(d, Last(a)))
  BY <1>1, <1>2, PassStep
<1>4. ~disturbed[c] => TrackOK(a, s, g, Requested(d, Last(a)), w)
  BY <1>1, <1>2, TrackPass DEF Tracked
<1>5. /\ OnClients(client') /\ client'[c] = Requested(d, Last(a))
      /\ \A b \in Clients \ {c} : client'[b] = client[b]
  BY <1>2 DEF OnClients, Inv, Shape
<1>6. /\ OnClients(passed') /\ passed'[c] = TRUE /\ \A b \in Clients \ {c} : passed'[b] = passed[b]
  BY DEF OnClients, Inv, Shape, RecvRequest
<1>7. /\ OnClients(owed') /\ \A b \in Clients : owed'[b] \in Nat
      /\ repeats' \in 0..MaxRepeats
  <2>1. /\ OnClients(owed) /\ \A b \in Clients : owed[b] \in Nat
        /\ repeats \in 0..MaxRepeats /\ MaxRepeats \in Nat
    BY AccessPointAssumption DEF Inv, Shape, Simple
  <2>2. CASE UNCHANGED <<owed, repeats>>
    BY <2>1, <2>2
  <2>3. CASE /\ repeats < MaxRepeats /\ repeats' = repeats + 1
             /\ owed' = [owed EXCEPT ![c] = owed[c] + 1]
    <3>1. OnClients(owed') /\ owed'[c] = owed[c] + 1 /\ \A b \in Clients \ {c} : owed'[b] = owed[b]
      BY <2>1, <2>3 DEF OnClients
    <3>2. QED
      BY <2>1, <2>3, <3>1
  <2>4. QED
    BY <2>2, <2>3 DEF RecvRequest
<1>8. UNCHANGED <<client_set, weight, asked, sent, got, down, losses, ackLosses, disturbed>>
  BY DEF RecvRequest, lossVars
<1>9. proc' \in {"running", "exited"}
  BY DEF RecvRequest, process_request
<1>10. Shape'
  BY <1>5, <1>6, <1>7, <1>8 DEF Inv, Shape
<1>11. Simple'
  <2>1. \A b \in Clients : passed'[b] \in BOOLEAN
    BY <1>6, Zenon DEF Inv, Simple
  <2>2. QED
    BY <1>7, <1>8, <1>9, <2>1 DEF Inv, Simple
<1>12. UndefinedOnlyIfDisturbed'
  BY <1>9 DEF UndefinedOnlyIfDisturbed
<1>13. NumPassed(c)' = Len(a)
  BY <1>6, <1>8 DEF NumPassed
<1>14. Session(c)'
  BY <1>1, <1>3, <1>5, <1>8, <1>13 DEF Session
<1>15. Tracked(c)'
  BY <1>1, <1>4, <1>5, <1>8 DEF Tracked
<1>16. \A b \in Clients \ {c} : Same(b)
  BY <1>5, <1>6, <1>8 DEF Same
<1>17. QED
  BY <1>10, <1>11, <1>12, <1>14, <1>15, <1>16, OneClient

(* A downstream packet makes its client known and gives it a weight. *)
LEMMA DownstreamStep ==
    ASSUME Inv, NEW c \in Clients, Downstream(c)
    PROVE  /\ client_set' = client_set \cup {c} /\ client_set' \subseteq Clients
           /\ OnClients(weight') /\ \A b \in Clients : weight'[b] \in Nat \ {0}
<1>1. PICK b \in Bitrates[c] : weight' = [weight EXCEPT ![c] = IF b <= 0 THEN AvgBandwidth ELSE b]
  BY DEF Downstream
<1> DEFINE v == IF b <= 0 THEN AvgBandwidth ELSE b
<1>2. v \in Nat \ {0}
  BY AccessPointAssumption
<1> HIDE DEF v
<1>3. OnClients(weight) /\ weight' = [weight EXCEPT ![c] = v]
  BY <1>1 DEF v, Inv, Shape
<1>4. OnClients(weight') /\ weight'[c] = v /\ \A x \in Clients \ {c} : weight'[x] = weight[x]
  BY <1>3 DEF OnClients
<1>5. \A x \in Clients : weight'[x] \in Nat \ {0}
  BY <1>2, <1>4 DEF Inv, Simple
<1>6. QED
  BY <1>4, <1>5 DEF Downstream, Inv, Simple

LEMMA RecvPlainInv ==
    ASSUME Inv, NEW c \in Clients, proc = "running", RecvPlain(c) PROVE Inv'
<1>1. /\ client_set' = client_set \cup {c} /\ client_set' \subseteq Clients
      /\ OnClients(weight') /\ \A b \in Clients : weight'[b] \in Nat \ {0}
  BY DownstreamStep DEF RecvPlain
<1>2. OnClients(owed') /\ \A b \in Clients : owed'[b] \in Nat
  <2>1. OnClients(owed) /\ (\A b \in Clients : owed[b] \in Nat) /\ owed[c] > 0
    BY DEF Inv, Shape, Simple, RecvPlain
  <2>2. OnClients(owed') /\ owed'[c] = owed[c] - 1 /\ \A b \in Clients \ {c} : owed'[b] = owed[b]
    BY <2>1 DEF OnClients, RecvPlain
  <2>3. QED
    BY <2>1, <2>2
<1>3. UNCHANGED <<client, proc, asked, passed, sent, got, down, repeats, losses, ackLosses, disturbed>>
  BY DEF RecvPlain, lossVars
<1>4. Shape'
  BY <1>1, <1>2, <1>3 DEF Inv, Shape
<1>5. Simple'
  BY <1>1, <1>2, <1>3 DEF Inv, Simple
<1>6. UndefinedOnlyIfDisturbed'
  BY <1>3 DEF Inv, UndefinedOnlyIfDisturbed
<1>7. \A b \in Clients : Same(b)
  BY <1>1, <1>3 DEF Same
<1>8. Session(c)' /\ Tracked(c)'
  BY <1>7, SameStep DEF Inv
<1>9. QED
  BY <1>4, <1>5, <1>6, <1>7, <1>8, OneClient

(* process_data, whether the part is new or not. *)
LEMMA RecvPartStep ==
    ASSUME Inv, NEW c \in Clients, NEW i \in 1..Len(Response(c)), RecvPart(c, i),
           NEW t \in Nat, sent[c] <= t, t <= Len(Response(c)), i <= t,
           NumPassed(c) = Len(asked[c])
    PROVE  LET a == asked[c]
               m == ResponseTo(a)[i]
               e == [exchange |-> Len(a), part |-> i, data |-> m]
           IN  /\ AskedOK(a, Len(a), t, got[c]) /\ WaitingOK(a, t, Append(down[c], e))
               /\ RecordOK(a, Len(a), t, client'[c])
               /\ SameProgress(client[c], client'[c]) /\ client[c] # NoRecord
               /\ OnClients(client') /\ \A b \in Clients \ {c} : client'[b] = client[b]
               /\ OnClients(down') /\ down'[c] = Append(down[c], e)
               /\ \A b \in Clients \ {c} : down'[b] = down[b]
               /\ m \in Server!Response /\ e \in Waiting
<1> DEFINE a == asked[c]
           n == Len(a)
           k == NumPassed(c)
           s == sent[c]
           g == got[c]
           d == client[c]
           w == down[c]
           m == ResponseTo(a)[i]
           e == [exchange |-> n, part |-> i, data |-> m]
<1>1. /\ AskedOK(a, k, s, g) /\ RecordOK(a, k, s, d) /\ WaitingOK(a, s, w)
  BY DEF Inv, Session
<1>2. Response(c) = ResponseTo(a)
  BY DEF Response, ResponseTo
<1>3. ResponseTo(a) \in Seq(Server!Response) /\ Len(ResponseTo(a)) \in Nat /\ n \in Nat
  BY <1>1, ResponseIs
<1>4. a # <<>>
  <2>1. Len(ResponseTo(a)) > 0
    BY <1>2, <1>3
  <2>2. ResponseTo(<<>>) = <<>> /\ Len(<<>>) = 0
    BY EmptySeq DEF ResponseTo
  <2>3. QED
    BY <2>1, <2>2
<1>5. m \in Server!Response /\ e \in Waiting
  BY <1>2, <1>3, LenProperties DEF Waiting
<1>6. i \in 1..t
  BY <1>2, <1>3
<1>7. AskedOK(a, n, t, g) /\ WaitingOK(a, t, Append(w, e))
  BY <1>1, <1>2, <1>6, QueueStep
<1>8. RecordOK(a, n, t, process_data(d, m))
  BY <1>1, <1>2, <1>4, DataRecord
<1>9. d # NoRecord /\ d \in ClientPlay
  <2>1. n > 0
    BY <1>1, <1>4, ResponseIs
  <2>2. QED
    BY <1>1, <2>1 DEF RecordOK
<1>10. SameProgress(d, process_data(d, m))
  BY <1>5, <1>9, DataSame
<1>11. /\ OnClients(client') /\ client'[c] = process_data(d, m)
       /\ \A b \in Clients \ {c} : client'[b] = client[b]
  <2>1. client' = [client EXCEPT ![c] = process_data(d, m)]
    BY <1>2 DEF RecvPart
  <2>2. QED
    BY <2>1 DEF OnClients, Inv, Shape
<1>12. /\ OnClients(down') /\ down'[c] = Append(w, e)
       /\ \A b \in Clients \ {c} : down'[b] = down[b]
  <2>1. down' = [down EXCEPT ![c] = Append(w, e)]
    BY <1>2 DEF RecvPart, Entry
  <2>2. QED
    BY <2>1 DEF OnClients, Inv, Shape
<1> HIDE DEF m, e
<1>13. QED
  BY <1>5, <1>7, <1>8, <1>9, <1>10, <1>11, <1>12 DEF m, e

LEMMA RecvNextInv ==
    ASSUME Inv, NEW c \in Clients, proc = "running", RecvNext(c) PROVE Inv'
<1> DEFINE a == asked[c]
           n == Len(a)
           s == sent[c]
           g == got[c]
           d == client[c]
           w == down[c]
           m == ResponseTo(a)[s + 1]
           e == [exchange |-> n, part |-> s + 1, data |-> m]
<1>1. NumPassed(c) = n
  BY DEF RecvNext, NumPassed
<1>2. AskedOK(a, n, s, g) /\ RecordOK(a, n, s, d) /\ WaitingOK(a, s, w) /\ Tracked(c)
  BY <1>1 DEF Inv, Session
<1>3. Response(c) = ResponseTo(a)
  BY DEF Response, ResponseTo
<1>4. Len(Response(c)) \in Nat /\ s \in Nat /\ n \in Nat
  BY <1>2, <1>3, ResponseIs DEF AskedOK
<1>5. s < Len(Response(c)) /\ RecvPart(c, s + 1) /\ UNCHANGED <<repeats, disturbed>>
  BY DEF RecvNext
<1>6. s + 1 \in 1..Len(Response(c)) /\ s + 1 \in Nat /\ s <= s + 1 /\ s + 1 <= Len(Response(c))
  BY <1>4, <1>5
<1>7. /\ AskedOK(a, n, s + 1, g) /\ WaitingOK(a, s + 1, Append(w, e))
      /\ RecordOK(a, n, s + 1, client'[c])
      /\ SameProgress(d, client'[c]) /\ d # NoRecord
      /\ OnClients(client') /\ \A b \in Clients \ {c} : client'[b] = client[b]
      /\ OnClients(down') /\ down'[c] = Append(w, e)
      /\ \A b \in Clients \ {c} : down'[b] = down[b]
      /\ m \in Server!Response /\ e \in Waiting
  BY <1>1, <1>5, <1>6, RecvPartStep
<1>8. /\ client_set' = client_set \cup {c} /\ client_set' \subseteq Clients
      /\ OnClients(weight') /\ \A b \in Clients : weight'[b] \in Nat \ {0}
  BY <1>5, DownstreamStep DEF RecvPart
<1>9. /\ OnClients(sent') /\ sent'[c] = s + 1
      /\ \A b \in Clients \ {c} : sent'[b] = sent[b]
  BY DEF OnClients, Inv, Shape, RecvNext
<1>10. UNCHANGED <<proc, asked, passed, got, owed, losses, ackLosses, repeats, disturbed>>
  BY <1>5 DEF RecvPart, lossVars
<1>11. NumPassed(c)' = n
  BY <1>1, <1>10 DEF NumPassed
<1>12. Shape'
  BY <1>7, <1>8, <1>9, <1>10 DEF Inv, Shape
<1>13. Simple'
  BY <1>8, <1>10 DEF Inv, Simple
<1>14. UndefinedOnlyIfDisturbed'
  BY <1>10 DEF Inv, UndefinedOnlyIfDisturbed
<1> HIDE DEF e
<1>15. Session(c)'
  BY <1>7, <1>9, <1>10, <1>11 DEF Session
<1>16. ~disturbed[c] => TrackOK(a, s + 1, g, client'[c], Append(w, e))
  <2> SUFFICES ASSUME ~disturbed[c] PROVE TrackOK(a, s + 1, g, client'[c], Append(w, e))
    OBVIOUS
  <2>1. TrackOK(a, s, g, client'[c], w)
    BY <1>2, <1>7, TrackSame DEF Tracked
  <2>2. e.exchange = n /\ e.part = s + 1 /\ e.data = m
    BY DEF e
  <2>3. n <= 2 => m.type # "media"
    BY <1>2, <1>3, <1>6, MediaAnswers
  <2>4. QED
    BY <1>2, <1>7, <2>1, <2>2, <2>3, TrackQueue
<1>17. Tracked(c)'
  BY <1>7, <1>8, <1>9, <1>10, <1>16 DEF Tracked
<1>18. \A b \in Clients \ {c} : Same(b)
  BY <1>7, <1>8, <1>9, <1>10 DEF Same
<1>19. QED
  BY <1>12, <1>13, <1>14, <1>15, <1>17, <1>18, OneClient

LEMMA RecvRetransmittedInv ==
    ASSUME Inv, NEW c \in Clients, proc = "running", RecvRetransmitted(c) PROVE Inv'
<1> DEFINE a == asked[c]
           n == Len(a)
           s == sent[c]
           g == got[c]
           d == client[c]
           w == down[c]
<1>1. PICK i \in 1..s :
        /\ RecvPart(c, i)
        /\ \/ Lost(c, i) /\ UNCHANGED repeats
           \/ ~Lost(c, i) /\ repeats < MaxRepeats /\ repeats' = repeats + 1
        /\ disturbed' = [disturbed EXCEPT ![c] = @ \/ Response(c)[i].type = "media"]
        /\ UNCHANGED sent
  BY DEF RecvRetransmitted
<1> DEFINE m == ResponseTo(a)[i]
           e == [exchange |-> n, part |-> i, data |-> m]
<1>2. AskedOK(a, NumPassed(c), s, g) /\ RecordOK(a, NumPassed(c), s, d) /\ Tracked(c)
  BY DEF Inv, Session
<1>3. Response(c) = ResponseTo(a)
  BY DEF Response, ResponseTo
<1>4. Len(Response(c)) \in Nat /\ s \in 0..Len(Response(c)) /\ n \in Nat
  BY <1>2, <1>3, ResponseIs DEF AskedOK
<1>5. i \in 1..Len(Response(c)) /\ s \in Nat /\ s > 0 /\ i <= s /\ s <= Len(Response(c)) /\ s <= s
  BY <1>4
<1>6. NumPassed(c) = n
  BY <1>2, <1>5 DEF AskedOK
<1>7. /\ AskedOK(a, n, s, g) /\ WaitingOK(a, s, Append(w, e))
      /\ RecordOK(a, n, s, client'[c])
      /\ SameProgress(d, client'[c]) /\ d # NoRecord
      /\ OnClients(client') /\ \A b \in Clients \ {c} : client'[b] = client[b]
      /\ OnClients(down') /\ down'[c] = Append(w, e)
      /\ \A b \in Clients \ {c} : down'[b] = down[b]
      /\ m \in Server!Response /\ e \in Waiting
  BY <1>1, <1>5, <1>6, RecvPartStep
<1>8. /\ client_set' = client_set \cup {c} /\ client_set' \subseteq Clients
      /\ OnClients(weight') /\ \A b \in Clients : weight'[b] \in Nat \ {0}
  BY <1>1, DownstreamStep DEF RecvPart
<1>9. /\ OnClients(disturbed') /\ (disturbed'[c] <=> disturbed[c] \/ m.type = "media")
      /\ \A b \in Clients \ {c} : disturbed'[b] = disturbed[b]
      /\ \A b \in Clients : disturbed'[b] \in BOOLEAN
  <2>1. /\ OnClients(disturbed') /\ \A b \in Clients \ {c} : disturbed'[b] = disturbed[b]
        /\ disturbed'[c] = (disturbed[c] \/ m.type = "media")
    BY <1>1, <1>3 DEF OnClients, Inv, Shape
  <2>2. \A b \in Clients : disturbed[b] \in BOOLEAN
    BY DEF Inv, Simple
  <2>3. QED
    BY <2>1, <2>2, Zenon
<1>10. repeats' \in 0..MaxRepeats
  BY <1>1, AccessPointAssumption DEF Inv, Simple
<1>11. UNCHANGED <<proc, asked, passed, sent, got, owed, losses, ackLosses>>
  BY <1>1 DEF RecvPart, lossVars
<1>12. NumPassed(c)' = n
  BY <1>6, <1>11 DEF NumPassed
<1>13. Shape'
  BY <1>7, <1>8, <1>9, <1>11 DEF Inv, Shape
<1>14. Simple'
  BY <1>8, <1>9, <1>10, <1>11 DEF Inv, Simple
<1>15. UndefinedOnlyIfDisturbed'
  BY <1>11 DEF UndefinedOnlyIfDisturbed
<1> HIDE DEF e
<1>16. Session(c)'
  BY <1>7, <1>11, <1>12 DEF Session
<1>17. ASSUME ~disturbed'[c] PROVE TrackOK(a, s, g, client'[c], Append(w, e))
  <2>1. ~disturbed[c] /\ m.type # "media"
    BY <1>9, <1>17
  <2>2. TrackOK(a, s, g, client'[c], w)
    BY <1>2, <1>7, <2>1, TrackSame DEF Tracked
  <2>3. n <= 2
    <3> SUFFICES ASSUME ~(n <= 2) PROVE FALSE
      OBVIOUS
    <3>1. n > 2
      <4> HIDE DEF n
      <4>1. QED
        BY <1>4
    <3>2. a # <<>> /\ n - 2 <= Server!SegmentCount /\ n \in Nat \ {0}
      BY <1>2, <1>4, <3>1, ResponseIs DEF AskedOK
    <3>3. ResponseTo(a) = Answer(Last(a)) /\ Last(a) \in RequestsAt(n)
      BY <1>2, <3>2, ResponseIs
    <3> DEFINE bw == Last(a).bandwidth
               z == Server!PieceSize(Server!SegmentSize(bw, SegDuration), i - 1)
    <3>4. Answer(Last(a))[i] = Server!Chunk(bw, n - 3, i - 1, z)
      BY <1>3, <1>5, <3>1, <3>2, <3>3, AnswerIs
    <3>5. QED
      BY <2>1, <3>3, <3>4 DEF Server!Chunk
  <2>4. w \in Seq(Waiting)
    BY DEF Inv, Session, WaitingOK
  <2> DEFINE v == Append(w, e)
  <2>5. /\ Len(w) \in Nat /\ Len(v) = Len(w) + 1 /\ v[Len(w) + 1] = e
        /\ \A j \in 1..Len(w) : v[j] = w[j]
    BY <1>7, <2>4, AppendProperties, LenProperties
  <2>6. \A j \in 1..Len(v) : j \in 1..Len(w) \/ j = Len(w) + 1
    BY <2>5
  <2>7. e.data.type # "media"
    BY <2>1 DEF e
  <2> HIDE DEF v
  <2>8. \A j \in 1..Len(v) : v[j].data.type # "media"
    BY <2>2, <2>3, <2>5, <2>6, <2>7 DEF TrackOK
  <2>9. TrackOK(a, s, g, client'[c], v)
    BY <2>2, <2>3, <2>8 DEF TrackOK
  <2>10. QED
    BY <2>9 DEF v
<1>18. Tracked(c)'
  BY <1>7, <1>8, <1>11, <1>17 DEF Tracked
<1>19. \A b \in Clients \ {c} : Same(b)
  BY <1>7, <1>8, <1>9, <1>11 DEF Same
<1>20. QED
  BY <1>13, <1>14, <1>15, <1>16, <1>18, <1>19, OneClient

(* A message leaves the queue of c, whether it arrives or not. *)
LEMMA LeavesStep ==
    ASSUME Inv, NEW c \in Clients, down[c] # <<>>,
           down' = [down EXCEPT ![c] = Tail(@)],
           Arrives(c, Head(down[c])) \/ got' = got
    PROVE  /\ OnClients(down') /\ down'[c] = Tail(down[c])
           /\ \A b \in Clients \ {c} : down'[b] = down[b]
           /\ OnClients(got') /\ \A b \in Clients \ {c} : got'[b] = got[b]
           /\ Arrives(c, Head(down[c])) =>
                  got'[c] = IF Head(down[c]).exchange = Len(asked[c])
                            THEN got[c] \cup {Head(down[c]).part} ELSE got[c]
           /\ AskedOK(asked[c], NumPassed(c), sent[c], got'[c])
           /\ WaitingOK(asked[c], sent[c], Tail(down[c]))
           /\ Head(down[c]) \in Waiting
<1> DEFINE a == asked[c]
           s == sent[c]
           g == got[c]
           w == down[c]
<1>1. AskedOK(a, NumPassed(c), s, g) /\ WaitingOK(a, s, w)
  BY DEF Inv, Session
<1>2. /\ Head(w) \in Waiting /\ WaitingOK(a, s, Tail(w))
      /\ Head(w).exchange = Len(a) => AskedOK(a, NumPassed(c), s, g \cup {Head(w).part})
  BY <1>1, LeaveStep
<1>3. /\ OnClients(down') /\ down'[c] = Tail(w)
      /\ \A b \in Clients \ {c} : down'[b] = down[b]
  BY DEF OnClients, Inv, Shape
<1>4. OnClients(got)
  BY DEF Inv, Shape
<1>5. CASE got' = got
  BY <1>1, <1>2, <1>3, <1>4, <1>5 DEF Arrives, OnClients
<1>6. CASE Head(w).exchange = Len(a) /\ got' = [got EXCEPT ![c] = @ \cup {Head(w).part}]
  <2>1. /\ OnClients(got') /\ got'[c] = g \cup {Head(w).part}
        /\ \A b \in Clients \ {c} : got'[b] = got[b]
    BY <1>4, <1>6 DEF OnClients
  <2>2. QED
    BY <1>2, <1>3, <1>6, <2>1
<1>7. QED
  BY <1>5, <1>6 DEF Arrives

(* update_recv. *)
LEMMA TransmitInv ==
    ASSUME Inv, NEW c \in Clients, proc = "running", Transmit(c) PROVE Inv'
<1> DEFINE a == asked[c]
           k == NumPassed(c)
           s == sent[c]
           g == got[c]
           d == client[c]
           w == down[c]
           m == Head(w).data
           leaves == Completes(d, m) /\ LastSegment(d, m)
<1>1. /\ AskedOK(a, k, s, g) /\ RecordOK(a, k, s, d) /\ WaitingOK(a, s, w) /\ Tracked(c)
  BY DEF Inv, Session
<1>2. w # <<>> /\ update_recv(c, m) /\ Arrives(c, Head(w))
  BY DEF Transmit
<1>3. /\ OnClients(down') /\ down'[c] = Tail(w)
      /\ \A b \in Clients \ {c} : down'[b] = down[b]
      /\ OnClients(got') /\ \A b \in Clients \ {c} : got'[b] = got[b]
      /\ got'[c] = IF Head(w).exchange = Len(a) THEN g \cup {Head(w).part} ELSE g
      /\ AskedOK(a, k, s, got'[c]) /\ WaitingOK(a, s, Tail(w)) /\ Head(w) \in Waiting
  BY <1>2, LeavesStep DEF Transmit
<1>4. UNCHANGED <<weight, asked, passed, sent, owed, repeats, losses, ackLosses, disturbed>>
  BY <1>2 DEF Transmit, update_recv, lossVars
<1>5. NumPassed(c)' = k
  BY <1>4 DEF NumPassed
<1>6. m \in Server!Response
  BY <1>3 DEF Waiting
<1>7. /\ proc' \in {"running", "undefined"}
      /\ client_set' \subseteq client_set /\ client_set \ {c} \subseteq client_set'
  BY <1>2 DEF update_recv
<1>8. Simple'
  BY <1>4, <1>7 DEF Inv, Simple
<1>9. CASE m.type = "media" /\ d # NoRecord
  <2>1. client' = [client EXCEPT ![c] = Transmitted(d, m)]
    BY <1>2, <1>9 DEF update_recv
  <2>2. /\ OnClients(client') /\ client'[c] = Transmitted(d, m)
        /\ \A b \in Clients \ {c} : client'[b] = client[b]
    BY <2>1 DEF OnClients, Inv, Shape
  <2>3. RecordOK(a, k, s, Transmitted(d, m))
    BY <1>1, <1>6, <1>9, TransmittedRecord
  <2>4. Session(c)'
    BY <1>3, <1>4, <1>5, <2>2, <2>3 DEF Session
  <2>5. Shape'
    BY <1>3, <1>4, <2>2 DEF Inv, Shape
  <2>6. \A b \in Clients \ {c} : Same(b)
    BY <1>3, <1>4, <1>7, <2>2 DEF Same
  <2>7. CASE disturbed[c]
    <3>1. Tracked(c)'
      BY <1>4, <2>7 DEF Tracked
    <3>2. UndefinedOnlyIfDisturbed'
      BY <1>4, <2>7 DEF UndefinedOnlyIfDisturbed
    <3>3. QED
      BY <1>8, <2>4, <2>5, <2>6, <3>1, <3>2, OneClient
  <2>8. CASE ~disturbed[c]
    <3>1. TrackOK(a, s, g, d, w)
      BY <1>1, <2>8 DEF Tracked
    <3>2. /\ Len(a) > 2 /\ s > 0 /\ Head(w).exchange = Len(a) /\ g # DOMAIN ResponseTo(a)
          /\ TrackOK(a, s, g \cup {Head(w).part}, Transmitted(d, m), Tail(w))
          /\ Completes(d, m) => g \cup {Head(w).part} = DOMAIN ResponseTo(a)
      <4>1. m.type = "media"
        BY <1>9
      <4> HIDE DEF a, k, s, g, d, w
      <4>2. QED
        BY <1>1, <1>2, <3>1, <4>1, TrackTransmit
    <3>3. c \in client_set
      BY <1>1, <2>8, <3>2 DEF Tracked
    <3>4. proc' = "running" /\ (client_set' # client_set => Completes(d, m))
      BY <1>2, <1>9, <3>3 DEF update_recv
    <3>5. UndefinedOnlyIfDisturbed'
      BY <3>4 DEF UndefinedOnlyIfDisturbed
    <3>6. Tracked(c)'
      BY <1>3, <1>4, <2>2, <3>2, <3>3, <3>4 DEF Tracked
    <3>7. QED
      BY <1>8, <2>4, <2>5, <2>6, <3>5, <3>6, OneClient
  <2>9. QED
    BY <2>7, <2>8
<1>10. CASE ~(m.type = "media" /\ d # NoRecord)
  <2>1. UNCHANGED <<client, client_set, proc>>
    BY <1>2, <1>10 DEF update_recv
  <2>2. Session(c)'
    BY <1>1, <1>3, <1>4, <1>5, <2>1 DEF Session
  <2>3. Shape'
    BY <1>3, <1>4, <2>1 DEF Inv, Shape
  <2>4. \A b \in Clients \ {c} : Same(b)
    BY <1>3, <1>4, <2>1 DEF Same
  <2>5. UndefinedOnlyIfDisturbed'
    BY <2>1 DEF UndefinedOnlyIfDisturbed
  <2>6. ASSUME ~disturbed[c]
        PROVE  TrackOK(a, s, got'[c], d, Tail(w)) /\ (Len(a) > 2 => got'[c] = g)
    <3>1. TrackOK(a, s, g, d, w)
      BY <1>1, <2>6 DEF Tracked
    <3>2. m.type # "media"
      <4> SUFFICES ASSUME m.type = "media" PROVE d # NoRecord
        BY <1>10
      <4> HIDE DEF a, k, s, g, d, w
      <4>1. QED
        BY <1>1, <1>2, <3>1, TrackTransmit
    <3>3. TrackOK(a, s, g, d, Tail(w)) /\ (Len(a) > 2 => Head(w).exchange # Len(a))
      BY <1>1, <1>2, <3>1, <3>2, TrackOther
    <3>4. Len(a) \in Nat
      BY <1>1, ResponseIs
    <3>5. CASE Len(a) <= 2
      <4> DEFINE n == Len(a)
                 h == got'[c]
                 z == Tail(w)
      <4> HIDE DEF a, s, g, d, w
      <4>1. n <= 2 /\ n \in Nat
        BY <3>5, <3>4
      <4>2. TrackOK(a, s, h, d, z)
        <5> HIDE DEF h, z
        <5>1. TrackOK(a, s, g, d, z)
          BY <3>3 DEF z
        <5>2. QED
          BY <4>1, <5>1 DEF TrackOK
      <4> HIDE DEF n, h, z
      <4>3. ~(n > 2)
        BY <4>1
      <4>4. QED
        BY <4>2, <4>3 DEF n, h, z
    <3>6. CASE Len(a) > 2
      BY <1>3, <3>3, <3>6
    <3>7. QED
      BY <1>3, <3>3, <3>4, <3>5, <3>6
  <2>7. Tracked(c)'
    BY <1>1, <1>3, <1>4, <2>1, <2>6 DEF Tracked
  <2>8. QED
    BY <1>8, <2>2, <2>3, <2>4, <2>5, <2>7, OneClient
<1>11. QED
  BY <1>9, <1>10

(* A frame is given up: the record is not told, so the tracking of this    *)
(* client is over unless it carried a playlist.                            *)
LEMMA GiveUpInv ==
    ASSUME Inv, NEW c \in Clients, proc = "running", GiveUp(c),
           Arrives(c, Head(down[c])) \/ got' = got,
           losses' \in 0..MaxLosses, ackLosses' \in 0..MaxAckLosses
    PROVE  Inv'
<1> DEFINE a == asked[c]
           k == NumPassed(c)
           s == sent[c]
           g == got[c]
           d == client[c]
           w == down[c]
           m == Head(w).data
<1>1. /\ AskedOK(a, k, s, g) /\ RecordOK(a, k, s, d) /\ WaitingOK(a, s, w) /\ Tracked(c)
  BY DEF Inv, Session
<1>2. w # <<>>
  BY DEF GiveUp
<1>3. /\ OnClients(down') /\ down'[c] = Tail(w)
      /\ \A b \in Clients \ {c} : down'[b] = down[b]
      /\ OnClients(got') /\ \A b \in Clients \ {c} : got'[b] = got[b]
      /\ Arrives(c, Head(w)) =>
             got'[c] = IF Head(w).exchange = Len(a) THEN g \cup {Head(w).part} ELSE g
      /\ AskedOK(a, k, s, got'[c]) /\ WaitingOK(a, s, Tail(w)) /\ Head(w) \in Waiting
  BY <1>2, LeavesStep DEF GiveUp
<1>4. UNCHANGED <<client, client_set, weight, proc, asked, passed, sent, owed, repeats>>
  BY DEF GiveUp, apVars
<1>5. /\ OnClients(disturbed') /\ (disturbed'[c] <=> disturbed[c] \/ m.type = "media")
      /\ \A b \in Clients \ {c} : disturbed'[b] = disturbed[b]
      /\ \A b \in Clients : disturbed'[b] \in BOOLEAN
  <2>1. /\ OnClients(disturbed') /\ \A b \in Clients \ {c} : disturbed'[b] = disturbed[b]
        /\ disturbed'[c] = (disturbed[c] \/ m.type = "media")
    BY DEF OnClients, Inv, Shape, GiveUp
  <2>2. \A b \in Clients : disturbed[b] \in BOOLEAN
    BY DEF Inv, Simple
  <2>3. QED
    BY <2>1, <2>2, Zenon
<1>6. NumPassed(c)' = k
  BY <1>4 DEF NumPassed
<1>7. Session(c)'
  BY <1>1, <1>3, <1>4, <1>6 DEF Session
<1>8. Shape'
  BY <1>3, <1>4, <1>5 DEF Inv, Shape
<1>9. Simple'
  BY <1>4, <1>5 DEF Inv, Simple
<1>10. \A b \in Clients \ {c} : Same(b)
  BY <1>3, <1>4, <1>5 DEF Same
<1>11. UndefinedOnlyIfDisturbed'
  BY <1>4 DEF UndefinedOnlyIfDisturbed
<1>12. ASSUME ~disturbed'[c]
       PROVE  TrackOK(a, s, got'[c], d, Tail(w)) /\ (Len(a) > 2 => got'[c] = g)
  <2>1. ~disturbed[c] /\ m.type # "media"
    BY <1>5, <1>12
  <2>2. TrackOK(a, s, g, d, w)
    BY <1>1, <2>1 DEF Tracked
  <2>3. TrackOK(a, s, g, d, Tail(w)) /\ (Len(a) > 2 => Head(w).exchange # Len(a))
    BY <1>1, <1>2, <2>1, <2>2, TrackOther
  <2>4. Len(a) \in Nat
    BY <1>1, ResponseIs
  <2>5. CASE Len(a) <= 2
    BY <2>3, <2>4, <2>5 DEF TrackOK
  <2>6. CASE Len(a) > 2
    BY <1>3, <2>3, <2>6
  <2>7. QED
    BY <2>4, <2>5, <2>6
<1>13. Tracked(c)'
  BY <1>1, <1>3, <1>4, <1>5, <1>12 DEF Tracked
<1>14. QED
  BY <1>7, <1>8, <1>9, <1>10, <1>11, <1>13, OneClient

LEMMA StepInv == Inv /\ [Next]_vars => Inv'
<1> SUFFICES ASSUME Inv, [Next]_vars PROVE Inv'
  OBVIOUS
<1>1. ASSUME NEW c \in Clients, proc = "running", Ask(c) PROVE Inv'
  BY <1>1, AskInv
<1>2. ASSUME NEW c \in Clients, proc = "running", RecvRequest(c) PROVE Inv'
  BY <1>2, RecvRequestInv
<1>3. ASSUME NEW c \in Clients, proc = "running", RecvPlain(c) PROVE Inv'
  BY <1>3, RecvPlainInv
<1>4. ASSUME NEW c \in Clients, proc = "running", RecvNext(c) PROVE Inv'
  BY <1>4, RecvNextInv
<1>5. ASSUME NEW c \in Clients, proc = "running", RecvRetransmitted(c) PROVE Inv'
  BY <1>5, RecvRetransmittedInv
<1>6. ASSUME NEW c \in Clients, proc = "running", Transmit(c) PROVE Inv'
  BY <1>6, TransmitInv
<1>7. /\ MaxLosses \in Nat /\ MaxAckLosses \in Nat
      /\ losses \in 0..MaxLosses /\ ackLosses \in 0..MaxAckLosses
  BY AccessPointAssumption DEF Inv, Simple
<1>8. ASSUME NEW c \in Clients, proc = "running", Lose(c) PROVE Inv'
  <2>1. GiveUp(c) /\ got' = got /\ losses' \in 0..MaxLosses /\ ackLosses' \in 0..MaxAckLosses
    BY <1>7, <1>8 DEF Lose
  <2>2. QED
    BY <1>8, <2>1, GiveUpInv
<1>9. ASSUME NEW c \in Clients, proc = "running", LoseAck(c) PROVE Inv'
  <2>1. /\ GiveUp(c) /\ Arrives(c, Head(down[c]))
        /\ losses' \in 0..MaxLosses /\ ackLosses' \in 0..MaxAckLosses
    BY <1>7, <1>9 DEF LoseAck
  <2>2. QED
    BY <1>9, <2>1, GiveUpInv
<1>10. CASE UNCHANGED vars
  <2>1. UNCHANGED <<client, client_set, weight, proc, asked, passed, sent, got, down, owed,
                    repeats, losses, ackLosses, disturbed>>
    BY <1>10 DEF vars, apVars, lossVars
  <2>2. \A b \in Clients : Same(b)
    BY <2>1 DEF Same
  <2>3. \A b \in Clients : Session(b)' /\ Tracked(b)'
    BY <2>2, SameStep DEF Inv
  <2>4. Shape' /\ Simple' /\ UndefinedOnlyIfDisturbed'
    BY <2>1 DEF Inv, Shape, Simple, UndefinedOnlyIfDisturbed
  <2>5. QED
    BY <2>3, <2>4 DEF Inv
<1>11. QED
  BY <1>1, <1>2, <1>3, <1>4, <1>5, <1>6, <1>8, <1>9, <1>10 DEF Next, Terminated

(* In every reachable state each client's requests, its record and the     *)
(* queue for it agree (Session), and a client whose media was neither      *)
(* repeated nor lost is tracked exactly and known to the access point      *)
(* (Tracked): recv, process_request, process_data and update_recv keep it  *)
(* so for every client, whatever they do for the others.                   *)
THEOREM AccessPointInvariant == Spec => []Inv
BY InitInv, StepInv, PTL DEF Spec

-----------------------------------------------------------------------------
(* What follows from it.                                                   *)

LEMMA TypeFollows == Inv => TypeOK
<1> SUFFICES ASSUME Inv PROVE TypeOK
  OBVIOUS
<1>1. ASSUME NEW c \in Clients
      PROVE  /\ asked[c] \in Seq(Server!Request)
             /\ sent[c] \in 0..Len(Response(c)) /\ got[c] \subseteq 1..sent[c]
             /\ down[c] \in Seq([exchange : Nat, part : Nat, data : Server!Response])
             /\ client[c] \in ClientPlay \cup {NoRecord}
  <2>1. Response(c) = ResponseTo(asked[c])
    BY DEF Response, ResponseTo
  <2>2. Session(c)
    BY DEF Inv
  <2>3. QED
    BY <2>1, <2>2 DEF Session, AskedOK, RecordOK, WaitingOK, Waiting
<1>2. client \in [Clients -> ClientPlay \cup {NoRecord}]
  BY <1>1 DEF Inv, Shape, OnClients
<1>3. weight \in [Clients -> Nat \ {0}]
  BY DEF Inv, Shape, Simple, OnClients
<1>4. QED
  BY <1>1, <1>2, <1>3 DEF Inv, Simple, TypeOK

(* Type correctness; in particular the weight that update_underlying_queue_ *)
(* weight sets is never 0, so set_weight_direct never ends the process, and *)
(* no more of a response passes or arrives than the server sent.            *)
THEOREM AccessPointTyped == Spec => []TypeOK
<1>1. Inv => TypeOK
  BY TypeFollows
<1>2. QED
  BY <1>1, AccessPointInvariant, PTL

(* The media requests among the requests a. *)
LEMMA MediaOf ==
    ASSUME NEW a \in Seq(Server!Request)
    PROVE  /\ SubSeq(a, 3, Len(a)) \in Seq(Server!Request)
           /\ Len(SubSeq(a, 3, Len(a))) = IF Len(a) <= 2 THEN 0 ELSE Len(a) - 2
           /\ \A i \in 1..(Len(a) - 2) : SubSeq(a, 3, Len(a))[i] = a[i + 2]
<1> DEFINE n == Len(a)
<1>1. n \in Nat /\ \A i \in 3..n : a[i] \in Server!Request
  BY LenProperties
<1> HIDE DEF n
<1>2. /\ SubSeq(a, 3, n) \in Seq(Server!Request)
      /\ Len(SubSeq(a, 3, n)) = IF 3 <= n THEN n - 3 + 1 ELSE 0
      /\ \A i \in 1..(n - 3 + 1) : SubSeq(a, 3, n)[i] = a[3 + i - 1]
  BY <1>1, SubSeqProperties
<1>3. n - 3 + 1 = n - 2 /\ \A i \in 1..(n - 2) : 3 + i - 1 = i + 2
  BY <1>1
<1>4. (IF 3 <= n THEN n - 3 + 1 ELSE 0) = IF n <= 2 THEN 0 ELSE n - 2
  BY <1>1
<1>5. QED
  BY <1>2, <1>3, <1>4 DEF n

(* Taken in the order of the requests, each segment has been transmitted   *)
(* when its last piece has, and the record counted it then.                *)
LEMMA TrackingFollows == Inv => TrackingExactInOrder
<1> SUFFICES ASSUME Inv, NEW c \in Records, ~disturbed[c]
             PROVE  client[c].segments = WhollyTransmitted(c)
  BY DEF TrackingExactInOrder
<1> DEFINE a == asked[c]
           n == Len(a)
           d == client[c]
           whole == Len(ResponseTo(a))
<1>1. c \in Clients /\ d # NoRecord
  BY DEF Records
<1>2. /\ AskedOK(a, NumPassed(c), sent[c], got[c])
      /\ TrackOK(a, sent[c], got[c], d, down[c])
  BY <1>1 DEF Inv, Session, Tracked
<1>3. /\ a \in Seq(Server!Request) /\ n \in Nat /\ whole \in Nat
      /\ DOMAIN ResponseTo(a) = 1..whole
  BY <1>2, ResponseIs
<1>4. Response(c) = ResponseTo(a)
  BY DEF Response, ResponseTo
<1>5. Len(MediaAsked(c)) = IF n <= 2 THEN 0 ELSE n - 2
  BY <1>3, MediaOf DEF MediaAsked
<1>6. CASE n <= 2
  BY <1>1, <1>2, <1>5, <1>6 DEF TrackOK, WhollyTransmitted
<1>7. CASE ~(n <= 2)
  <2>1. PICK x, o \in Nat : Progress(a, d, x) /\ InTransit(a, sent[c], got[c], down[c], x, o)
    BY <1>2, <1>7 DEF TrackOK
  <2>2. got[c] = 1..x
    BY <2>1 DEF InTransit
  <2>3. got[c] = DOMAIN Response(c) <=> x = whole
    BY <1>3, <1>4, <2>2, IntervalsEqual
  <2>4. d.segments = IF x = whole THEN n - 2 ELSE n - 3
    BY <2>1 DEF Progress
  <2>5. Len(MediaAsked(c)) = n - 2
    BY <1>5, <1>7
  <2> HIDE DEF n
  <2>6. n - 2 # 0 /\ (n - 2) - 1 = n - 3
    BY <1>3, <1>7
  <2>7. QED
    BY <2>3, <2>4, <2>5, <2>6 DEF WhollyTransmitted
<1>8. QED
  BY <1>6, <1>7

(* As long as no media of a client was repeated or lost, the history of    *)
(* transmitted segments (process_transmitted_media_data) has one entry for *)
(* each segment whose pieces have all been transmitted, and no other, for  *)
(* every ladder, every piece size and any number of clients.               *)
THEOREM TrackingIsExact == Spec => []TrackingExactInOrder
<1>1. Inv => TrackingExactInOrder
  BY TrackingFollows
<1>2. QED
  BY <1>1, AccessPointInvariant, PTL

LEMMA KnownFollows == Inv => ClientsWithMediaKnown
<1> SUFFICES ASSUME Inv PROVE ClientsWithMediaKnown
  OBVIOUS
<1>1. proc = "undefined" => \E c \in Clients : disturbed[c]
  BY DEF Inv, UndefinedOnlyIfDisturbed
<1>2. ASSUME NEW c \in Clients, ~disturbed[c],
             NEW j \in DOMAIN down[c], down[c][j].data.type = "media"
      PROVE  c \in client_set
  <2> DEFINE a == asked[c]
             n == Len(a)
             s == sent[c]
             w == down[c]
             whole == Len(ResponseTo(a))
  <2>1. /\ AskedOK(a, NumPassed(c), s, got[c]) /\ WaitingOK(a, s, w)
        /\ TrackOK(a, s, got[c], client[c], w)
    BY <1>2 DEF Inv, Session, Tracked
  <2>2. w \in Seq(Waiting) /\ j \in 1..Len(w) /\ Len(w) \in Nat
    BY <2>1, LenProperties DEF WaitingOK
  <2>3. ~(n <= 2)
    BY <1>2, <2>1, <2>2 DEF TrackOK
  <2>4. PICK x, o \in Nat : InTransit(a, s, got[c], w, x, o)
    BY <2>1, <2>3 DEF TrackOK
  <2>5. n \in Nat /\ s \in 0..whole /\ whole \in Nat /\ DOMAIN ResponseTo(a) = 1..whole
    BY <2>1, ResponseIs DEF AskedOK
  <2>6. ~(j \in 1..o)
    BY <1>2, <2>4 DEF InTransit
  <2>7. got[c] = 1..x /\ x <= s /\ Len(w) = o + (s - x)
    BY <2>4 DEF InTransit
  <2>8. x < s /\ s <= whole /\ s > 0 /\ x # whole /\ n > 2
    <3> HIDE DEF n, s, whole
    <3>1. QED
      BY <2>2, <2>3, <2>5, <2>6, <2>7
  <2>9. got[c] # DOMAIN ResponseTo(a)
    BY <2>5, <2>7, <2>8, IntervalsEqual
  <2>10. QED
    BY <1>2, <2>8, <2>9 DEF Inv, Tracked
<1>3. QED
  BY <1>1, <1>2 DEF ClientsWithMediaKnown

(* A client for which media waits is in _client_set, and update_recv never *)
(* erases one that is not there, unless media was repeated or lost.        *)
THEOREM MediaClientsKnown == Spec => []ClientsWithMediaKnown
<1>1. Inv => ClientsWithMediaKnown
  BY KnownFollows
<1>2. QED
  BY <1>1, AccessPointInvariant, PTL

(* Bandwidths of the first l media requests, and those that have passed    *)
(* the access point.                                                       *)
Asked(a, l) == [i \in 1..l |-> a[i + 2].bandwidth]

All(c) == [i \in 1..Len(MediaAsked(c)) |-> MediaAsked(c)[i].bandwidth]

SeenOf(c) == IF passed[c] \/ All(c) = <<>> THEN All(c) ELSE Front(All(c))

LEMMA AskedTyped ==
    ASSUME NEW a, NEW k, NEW s, NEW g, AskedOK(a, k, s, g),
           NEW l \in Nat, l = 0 \/ l <= Len(a) - 2
    PROVE  /\ Asked(a, l) \in Seq(Nat) /\ Len(Asked(a, l)) = l
           /\ \A i \in 1..l : /\ Asked(a, l)[i] = a[i + 2].bandwidth
                              /\ \E j \in DOMAIN BwList : BwList[j] = a[i + 2].bandwidth
<1> DEFINE n == Len(a)
<1>1. n \in Nat
  BY ResponseIs
<1>2. ASSUME NEW i \in 1..l
      PROVE  a[i + 2].bandwidth \in Nat /\ \E j \in DOMAIN BwList : BwList[j] = a[i + 2].bandwidth
  <2>1. l <= n - 2
    OBVIOUS
  <2> HIDE DEF n
  <2>2. i + 2 \in 1..n /\ i + 2 > 2 /\ i + 2 \in Nat
    BY <1>1, <2>1
  <2>3. a[i + 2] \in RequestsAt(i + 2)
    BY <2>2 DEF AskedOK, n
  <2>4. PICK j \in DOMAIN BwList : a[i + 2] = Server!MediaRequest(BwList[j], (i + 2) - 3)
    BY <2>2, <2>3 DEF RequestsAt
  <2>5. a[i + 2].bandwidth = BwList[j]
    BY <2>4 DEF Server!MediaRequest
  <2>6. QED
    BY <2>5, SizePositive
<1>3. Asked(a, l) \in [1..l -> Nat]
  BY <1>2 DEF Asked
<1>4. Asked(a, l) \in Seq(Nat)
  BY <1>3, SeqDef
<1>5. Len(Asked(a, l)) = l
  BY <1>3, <1>4, LenProperties
<1>6. \A i \in 1..l : Asked(a, l)[i] = a[i + 2].bandwidth
  BY DEF Asked
<1>7. QED
  BY <1>2, <1>4, <1>5, <1>6

LEMMA SeenIs ==
    ASSUME NEW c \in Clients, Session(c), passed[c] \in BOOLEAN
    PROVE  SeenOf(c) = Asked(asked[c], IF NumPassed(c) <= 2 THEN 0 ELSE NumPassed(c) - 2)
<1> DEFINE a == asked[c]
           n == Len(a)
           k == NumPassed(c)
           l == IF n <= 2 THEN 0 ELSE n - 2
           q == IF k <= 2 THEN 0 ELSE k - 2
<1>1. AskedOK(a, k, sent[c], got[c])
  BY DEF Session
<1>2. n \in Nat /\ a \in Seq(Server!Request) /\ k \in Nat
  BY <1>1, ResponseIs DEF AskedOK
<1>3. l \in Nat /\ (l = 0 \/ l <= n - 2) /\ (l = 0 <=> n <= 2) /\ (l > 0 => l = n - 2)
  <2> HIDE DEF n
  <2>1. QED
    BY <1>2
<1>4. All(c) = Asked(a, l)
  <2>1. Len(MediaAsked(c)) = l
    BY <1>2, MediaOf DEF MediaAsked
  <2>2. \A i \in 1..l : MediaAsked(c)[i] = a[i + 2]
    <3>1. \A i \in 1..l : i \in 1..(n - 2)
      <4> HIDE DEF n
      <4>1. QED
        BY <1>2
    <3>2. QED
      BY <1>2, <3>1, MediaOf DEF MediaAsked
  <2> HIDE DEF l
  <2>3. QED
    BY <2>1, <2>2 DEF All, Asked
<1> HIDE DEF l
<1>5. Asked(a, l) \in Seq(Nat) /\ Len(Asked(a, l)) = l
  BY <1>1, <1>3, AskedTyped
<1>6. All(c) = <<>> <=> l = 0
  BY <1>3, <1>4, <1>5, EmptySeq
<1>7. CASE passed[c]
  <2>1. k = n
    BY <1>7 DEF NumPassed
  <2>2. q = l
    BY <2>1 DEF l
  <2>3. QED
    BY <1>4, <1>7, <2>2 DEF SeenOf
<1>8. CASE ~passed[c] /\ l = 0
  <2>1. k = n - 1
    BY <1>8 DEF NumPassed
  <2>2. q = l
    <3>1. n <= 2
      BY <1>3, <1>8
    <3> HIDE DEF n, k
    <3>2. QED
      BY <1>2, <1>8, <2>1, <3>1
  <2>3. QED
    BY <1>4, <1>6, <1>8, <2>2 DEF SeenOf
<1>9. CASE ~passed[c] /\ l > 0
  <2>1. k = n - 1
    BY <1>9 DEF NumPassed
  <2>2. q = l - 1 /\ q \in Nat /\ (q = 0 \/ q <= n - 2)
    <3> HIDE DEF n, k
    <3>1. QED
      BY <1>2, <1>3, <1>9, <2>1
  <2> HIDE DEF q
  <2>3. SeenOf(c) = SubSeq(Asked(a, l), 1, l - 1)
    BY <1>3, <1>4, <1>5, <1>6, <1>9 DEF SeenOf, Front
  <2>4. \A i \in 1..(l - 1) : Asked(a, l)[i] \in Nat
    BY <1>3, <1>5, LenProperties
  <2>5. /\ SeenOf(c) \in Seq(Nat)
        /\ Len(SeenOf(c)) = l - 1
        /\ \A i \in 1..(l - 1) : SeenOf(c)[i] = Asked(a, l)[i]
    <3>1. /\ SubSeq(Asked(a, l), 1, l - 1) \in Seq(Nat)
          /\ Len(SubSeq(Asked(a, l), 1, l - 1)) = IF 1 <= l - 1 THEN (l - 1) - 1 + 1 ELSE 0
          /\ \A i \in 1..((l - 1) - 1 + 1) :
                 SubSeq(Asked(a, l), 1, l - 1)[i] = Asked(a, l)[1 + i - 1]
      BY <1>3, <2>4, SubSeqProperties
    <3>2. /\ (IF 1 <= l - 1 THEN (l - 1) - 1 + 1 ELSE 0) = l - 1 /\ (l - 1) - 1 + 1 = l - 1
          /\ \A i \in 1..(l - 1) : 1 + i - 1 = i
      BY <1>3, <1>9
    <3>3. QED
      BY <2>3, <3>1, <3>2
  <2>6. Asked(a, q) \in Seq(Nat) /\ Len(Asked(a, q)) = q
    BY <1>1, <2>2, AskedTyped
  <2>7. \A i \in 1..q : SeenOf(c)[i] = Asked(a, q)[i]
    <3> SUFFICES ASSUME NEW i \in 1..q PROVE SeenOf(c)[i] = Asked(a, q)[i]
      OBVIOUS
    <3>1. i \in 1..(l - 1) /\ i \in 1..l
      BY <1>3, <2>2
    <3>2. Asked(a, l)[i] = a[i + 2].bandwidth
      BY <1>1, <1>3, <3>1, AskedTyped
    <3>3. Asked(a, q)[i] = a[i + 2].bandwidth
      BY <1>1, <2>2, AskedTyped
    <3>4. QED
      BY <2>5, <3>1, <3>2, <3>3
  <2>8. SeenOf(c) = Asked(a, q)
    BY <2>2, <2>5, <2>6, <2>7, SeqEqual
  <2>9. QED
    BY <2>8 DEF q
<1>10. QED
  BY <1>3, <1>7, <1>8, <1>9

LEMMA HistoryFollows == Inv => HistoryIsWhatWasAsked
<1> SUFFICES ASSUME Inv, NEW c \in Clients
             PROVE  IF c \notin Records THEN SeenOf(c) = <<>>
                    ELSE LET d == client[c]
                         IN  /\ d.request_history = SeenOf(c)
                             /\ Range(SeenOf(c)) \subseteq Range(d.bwqueue)
                             /\ SeenOf(c) # <<>> =>
                                    /\ d.requested = Len(SeenOf(c)) - 1
                                    /\ d.total_size =
                                           Server!SegmentSize(Last(SeenOf(c)), SegDuration)
  BY DEF HistoryIsWhatWasAsked, SeenOf, All
<1> DEFINE a == asked[c]
           n == Len(a)
           k == NumPassed(c)
           q == IF k <= 2 THEN 0 ELSE k - 2
           d == client[c]
           h == d.request_history
           seen == Asked(a, q)
<1>1. AskedOK(a, k, sent[c], got[c]) /\ RecordOK(a, k, sent[c], d)
  BY DEF Inv, Session
<1>2. n \in Nat /\ k \in Nat /\ (k = n \/ k = n - 1)
  BY <1>1, ResponseIs DEF AskedOK
<1>3. /\ q \in Nat /\ (q = 0 \/ q <= n - 2) /\ (q > 0 => q = k - 2 /\ k > 2)
      /\ (k <= 2 => q = 0)
  <2> HIDE DEF n, k
  <2>1. QED
    BY <1>2
<1>4. SeenOf(c) = seen
  BY SeenIs DEF Inv, Simple
<1>5. /\ seen \in Seq(Nat) /\ Len(seen) = q
      /\ \A i \in 1..q : /\ seen[i] = a[i + 2].bandwidth
                         /\ \E j \in DOMAIN BwList : BwList[j] = a[i + 2].bandwidth
  BY <1>1, <1>3, AskedTyped
<1>6. seen = <<>> <=> q = 0
  BY <1>5, EmptySeq
<1>7. CASE c \notin Records
  <2>1. k = 0
    BY <1>1, <1>7 DEF Records, RecordOK
  <2>2. QED
    BY <1>3, <1>4, <1>6, <1>7, <2>1
<1>8. CASE c \in Records
  <2>1. d # NoRecord
    BY <1>8 DEF Records
  <2>2. /\ d \in ClientPlay
        /\ n > 1 => \A j \in DOMAIN BwList : BwList[j] \in Range(d.bwqueue)
        /\ Len(h) = q
        /\ \A i \in 3..k : h[i - 2] = a[i].bandwidth
        /\ k > 2 => /\ d.requested = k - 3
                    /\ d.total_size = Server!SegmentSize(a[k].bandwidth, SegDuration)
    BY <1>1, <2>1 DEF RecordOK
  <2>3. h \in Seq(Nat)
    BY <2>2 DEF ClientPlay
  <2> HIDE DEF q
  <2>4. \A i \in 1..q : h[i] = seen[i]
    <3> SUFFICES ASSUME NEW i \in 1..q PROVE h[i] = seen[i]
      OBVIOUS
    <3>1. i + 2 \in 3..k /\ (i + 2) - 2 = i
      BY <1>2, <1>3
    <3>2. h[(i + 2) - 2] = a[i + 2].bandwidth
      BY <2>2, <3>1
    <3>3. QED
      BY <1>5, <3>1, <3>2
  <2> HIDE DEF seen, h
  <2>5. h = seen
    BY <1>5, <2>2, <2>3, <2>4, SeqEqual
  <2>6. Range(seen) \subseteq Range(d.bwqueue)
    <3> SUFFICES ASSUME NEW i \in 1..q PROVE seen[i] \in Range(d.bwqueue)
      BY <1>5, LenProperties DEF Range
    <3>1. n > 1
      BY <1>2, <1>3
    <3>2. QED
      BY <1>5, <2>2, <3>1
  <2>7. ASSUME q > 0
        PROVE  d.requested = q - 1 /\ d.total_size = Server!SegmentSize(Last(seen), SegDuration)
    <3>1. q = k - 2 /\ k > 2 /\ q \in 1..q /\ q + 2 = k /\ k - 3 = q - 1
      BY <1>2, <1>3, <2>7
    <3>2. Last(seen) = a[k].bandwidth
      BY <1>5, <3>1 DEF Last
    <3>3. QED
      BY <2>2, <3>1, <3>2
  <2>8. QED
    BY <1>3, <1>4, <1>5, <1>6, <1>8, <2>5, <2>6, <2>7 DEF h
<1>9. QED
  BY <1>7, <1>8

(* The recorded history (process_request) is what the client asked for, in *)
(* its order and each segment once, although requests may pass twice; the  *)
(* ladder was recorded before the first segment was asked for, and so were *)
(* the durations from which the size of the current segment is computed.   *)
THEOREM HistoryIsExact == Spec => []HistoryIsWhatWasAsked
<1>1. Inv => HistoryIsWhatWasAsked
  BY HistoryFollows
<1>2. QED
  BY <1>1, AccessPointInvariant, PTL

=============================================================================
