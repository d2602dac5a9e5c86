-------------------------- MODULE DashBuffer_proofs --------------------------
(***************************************************************************)
(* The interplay of the download timer and the play timer, for the classes *)
(* with fixed thresholds and for AIMD: the cache stays bounded and no      *)
(* wake-up is lost. DashSession_proofs gives the counters and the streams, *)
(* DashExchange_proofs that only offered bandwidths are requested; what is *)
(* added here relates the cache to the two timers.                         *)
(***************************************************************************)
EXTENDS DashExchange_proofs

(* The clients the theorems are about. AIMD takes the first entry of the   *)
(* ladder for the lowest; its idle time needs a segment duration.          *)
Paced ==
    \/ Kind \in Threshold
    \/ Kind = "AIMD" /\ Ascending(BwList) /\ SegDuration > 0

(* The most segments the cache may hold. *)
CacheLimit ==
    IF LargestCache < 3 THEN 3
    ELSE IF expPlay > 0 THEN LargestCache ELSE LargestCache + 1

(* Until playback starts, downloading and waiting for the play event       *)
(* alternate.                                                              *)
TimersAlternate ==
    expPlay = 0 => /\ playTimer = "pending" => ~reqSent /\ dlTimer = "idle"
                   /\ reqSent => dlTimer = "idle"

(* A download is only under way if its segment has room, and when the      *)
(* timer has been re-armed during a download there is room for two.        *)
RoomForDownload ==
    /\ reqSeg >= 0 /\ (reqSent \/ dlTimer = "pending") => Len(cache) < CacheLimit
    /\ expPlay > 0 /\ reqSeg >= 0 /\ reqSent /\ dlTimer = "pending" =>
           Len(cache) + 1 < CacheLimit

CacheInv == Streaming => TimersAlternate /\ RoomForDownload /\ Len(cache) <= CacheLimit

BufferInv == CacheInv /\ NoLostWakeup

-----------------------------------------------------------------------------
(* The rule of timeout_play.                                               *)

(* A quotient is at least every multiple that fits into the dividend. *)
LEMMA QuotientBounds ==
    ASSUME NEW c \in Int, NEW d \in Nat \ {0}, NEW n \in Int, c * d <= n
    PROVE  n \div d \in Int /\ c <= n \div d
<1>1. PICK k \in Int : k = n \div d
  OBVIOUS
<1>2. n < (k + 1) * d
  <2>1. n = d * k + (n % d) /\ n % d \in 0..(d - 1)
    BY <1>1
  <2>2. (k + 1) * d = d * k + d
    OBVIOUS
  <2>3. d * k \in Int /\ n % d < d
    BY <2>1
  <2>4. QED
    BY <2>1, <2>2, <2>3
<1>3. SUFFICES ASSUME c >= k + 1 PROVE FALSE
  BY <1>1
<1>4. (k + 1) * d <= c * d
  BY <1>3
<1>5. QED
  BY <1>2, <1>4

(* The lowest bandwidth of an ascending ladder is first, the highest last. *)
LEMMA LadderEnds ==
    ASSUME Ascending(BwList), NEW b \in Offered(BwList)
    PROVE  /\ BwList[1] \in Nat \ {0} /\ BwList[Len(BwList)] \in Nat \ {0} /\ b \in Nat
           /\ BwList[1] <= b /\ b <= BwList[Len(BwList)]
<1>1. /\ Len(BwList) \in Nat \ {0} /\ DOMAIN BwList = 1..Len(BwList)
      /\ \A i \in 1..Len(BwList) : BwList[i] \in Nat \ {0}
  BY MediaAssumption, LenProperties, EmptySeq
<1>2. PICK i \in 1..Len(BwList) : b = BwList[i]
  BY <1>1 DEF Offered
<1>3. 1 \in 1..Len(BwList) /\ Len(BwList) \in 1..Len(BwList)
  BY <1>1
<1>4. BwList[1] <= BwList[i]
  BY <1>1, <1>3 DEF Ascending
<1>5. BwList[i] <= BwList[Len(BwList)]
  BY <1>1, <1>3 DEF Ascending
<1>6. QED
  BY <1>1, <1>2, <1>3, <1>4, <1>5

(* The limit of the cache is a number, for AIMD because the lowest bandwidth *)
(* and the segment duration are positive.                                  *)
LEMMA LargestTyped ==
    ASSUME Paced
    PROVE  LargestCache \in Int
<1>1. CASE Kind \in Threshold
  BY <1>1 DEF LargestCache, Threshold
<1>2. CASE Kind = "AIMD" /\ Ascending(BwList) /\ SegDuration > 0
  <2>1. BwList[1] \in Offered(BwList)
    BY MediaAssumption, LenProperties, EmptySeq DEF Offered
  <2>2. BwList[1] \in Nat \ {0} /\ BwList[Len(BwList)] \in Nat /\ SegDuration \in Nat \ {0}
        /\ MinBuffer \in Nat
    BY <1>2, <2>1, LadderEnds, MediaAssumption, ClientAssumption
  <2>3. PICK d \in Nat \ {0} : d = SegDuration * BwList[1]
    BY <2>2
  <2>4. PICK n \in Int : n = MinBuffer * BwList[1] + SegDuration * BwList[Len(BwList)]
    BY <2>2
  <2>5. LargestCache = n \div d
    BY <1>2, <2>3, <2>4 DEF LargestCache
  <2>6. QED
    BY <2>3, <2>5
<1>3. QED
  BY <1>1, <1>2 DEF Paced

(* Playback wakes the download timer up only while the cache is below its  *)
(* limit, and always does if it is empty or below a legal _play_after.     *)
LEMMA DownloadRule ==
    ASSUME Paced, ClientInv, Streaming, reqBw \in Offered(BwList)
    PROVE  /\ DownloadMore => Len(cache) <= LargestCache
           /\ Len(cache) = 0 => DownloadMore
           /\ Startable /\ Len(cache) < PlayAfter => DownloadMore
<1>1. Len(cache) \in Nat /\ segDur = SegDuration /\ bwqueue = BwList /\ PlayAfter \in Int
  BY LenProperties, ClientAssumption
     DEF ClientInv, ClientTypeOK, Started, LadderKnown, Streaming, DASH_M3U8ITEM_REQUEST_RECEIVED
<1> DEFINE c == Len(cache)
<1>2. CASE Kind \in Threshold
  <2>1. DownloadMore <=> c < 4
    BY <1>2 DEF DownloadMore, Threshold
  <2>2. LargestCache = 3
    BY <1>2 DEF LargestCache, Threshold
  <2>3. Startable => PlayAfter <= 4
    BY <1>2 DEF Startable
  <2>4. QED
    BY <1>1, <2>1, <2>2, <2>3
<1>3. CASE Kind = "AIMD" /\ Ascending(BwList) /\ SegDuration > 0
  <2>1. PICK lo \in Nat \ {0}, hi \in Nat \ {0} :
           lo = BwList[1] /\ hi = BwList[Len(BwList)] /\ lo <= reqBw /\ reqBw <= hi /\ reqBw \in Nat
    BY <1>3, LadderEnds
  <2>2. PICK D \in Nat \ {0}, M \in Nat : D = SegDuration /\ M = MinBuffer
    BY <1>3, MediaAssumption, ClientAssumption
  <2>3. DownloadMore <=> (c * D - M) * lo <= D * reqBw
    BY <1>1, <1>3, <2>1, <2>2 DEF DownloadMore, Threshold
  <2>4. LargestCache = (M * lo + D * hi) \div (D * lo)
    BY <1>3, <2>1, <2>2 DEF LargestCache
  <2>5. Startable => (PlayAfter - 2) * D <= M
    BY <1>3, <2>2 DEF Startable
  <2> HIDE DEF c
  <2>6. c \in Nat
    BY <1>1 DEF c
  <2>7. D * reqBw <= D * hi /\ D * lo <= D * reqBw
    BY <2>1, <2>2
  <2>8. (c * D - M) * lo = c * (D * lo) - M * lo
    BY <2>1, <2>2, <2>6
  <2>9. ASSUME DownloadMore PROVE c <= LargestCache
    <3>1. c * (D * lo) - M * lo <= D * reqBw
      BY <2>3, <2>8, <2>9
    <3>2. PICK d \in Nat \ {0} : d = D * lo
      BY <2>1, <2>2
    <3>3. PICK x \in Int : x = c * d
      BY <2>6, <3>2
    <3>4. PICK y \in Int, z \in Int, r \in Int : y = M * lo /\ z = D * hi /\ r = D * reqBw
      BY <2>1, <2>2
    <3>5. x <= y + z
      BY <2>7, <3>1, <3>2, <3>3, <3>4
    <3>6. c <= (y + z) \div d
      BY <2>6, <3>3, <3>5, QuotientBounds
    <3>7. QED
      BY <2>4, <3>2, <3>4, <3>6
  <2>10. ASSUME c * D <= M + D PROVE DownloadMore
    <3>1. PICK x \in Int : x = c * D
      BY <2>2, <2>6
    <3>2. x - M <= D
      BY <2>2, <2>10, <3>1
    <3>3. (x - M) * lo <= D * lo
      BY <2>1, <2>2, <3>1, <3>2
    <3>4. PICK y \in Int, u \in Int, r \in Int : y = (x - M) * lo /\ u = D * lo /\ r = D * reqBw
      BY <2>1, <2>2
    <3>5. y <= r
      BY <2>7, <3>3, <3>4
    <3>6. QED
      BY <2>3, <3>1, <3>4, <3>5
  <2>11. c = 0 => c * D <= M + D
    BY <2>2
  <2>12. ASSUME Startable, c < PlayAfter PROVE c * D <= M + D
    <3>1. PICK a \in Int : a = PlayAfter
      BY <1>1
    <3>2. c - 1 <= a - 2
      BY <2>6, <2>12, <3>1
    <3>3. (c - 1) * D <= (a - 2) * D
      BY <2>2, <2>6, <3>2
    <3>4. (a - 2) * D <= M
      BY <2>5, <2>12, <3>1
    <3>5. (c - 1) * D = c * D - D
      BY <2>2, <2>6
    <3>6. PICK x \in Int, y \in Int : x = c * D /\ y = (a - 2) * D
      BY <2>2, <2>6
    <3>7. QED
      BY <2>2, <3>3, <3>4, <3>5, <3>6
  <2>13. QED
    BY <2>9, <2>10, <2>11, <2>12 DEF c
<1>4. QED
  BY <1>2, <1>3 DEF Paced

-----------------------------------------------------------------------------
(* A handler that leaves timers, cache and request alone. *)
LEMMA SameBufferInv ==
    ASSUME BufferInv, UNCHANGED <<reqSeg, reqSent, cache, expPlay, timerVars, totalSegs>>,
           Streaming <=> Streaming', stops' = 0 => stops = 0, proc = "running"
    PROVE  BufferInv'
<1> USE DEF timerVars
<1>1. CacheInv'
  BY DEF BufferInv, CacheInv, TimersAlternate, RoomForDownload, CacheLimit
<1>2. NoLostWakeup'
  BY DEF BufferInv, NoLostWakeup, Startable
<1>3. QED
  BY <1>1, <1>2 DEF BufferInv

(* The piece that is accepted belongs to a segment that was asked for. *)
LEMMA AcceptedWasRequested ==
    ASSUME ClientInv, NEW m \in GoodResponse(reqSeg, reqSent), m.type = "media", Expected(m)
    PROVE  reqSent /\ reqSeg >= 0
<1>1. NotAhead(reqSeg, reqSeg, reqSent) /\ reqSeg \in Int
  BY MediaOnlyStreaming DEF Expected, ClientInv, ClientTypeOK
<1>2. reqSeg >= 0
  BY <1>1, CountIsInt DEF NotAhead
<1>3. QED
  BY <1>1, <1>2 DEF NotAhead

LEMMA MetaBuffer ==
    ASSUME ClientInv, BufferInv, proc = "running",
           NEW m \in GoodResponse(reqSeg, reqSent), process_m3u8meta_data(m)
    PROVE  BufferInv'
<1>1. CASE Fatal
  <2>1. Streaming <=> Streaming'
    BY <1>1 DEF Fatal, Streaming, sessionVars
  <2>2. QED
    BY <1>1, <2>1, SameBufferInv DEF Fatal, sessionVars, downloadVars, playVars, timerVars
<1>2. CASE state = DASH_M3U8META_REQUEST_SENT
  <2>1. ~Streaming'
    BY <1>2 DEF process_m3u8meta_data, Streaming, DASH_M3U8ITEM_REQUEST_RECEIVED,
                DASH_M3U8META_REQUEST_SENT, DASH_M3U8ITEM_REQUEST_SENT
  <2>2. QED
    BY <2>1 DEF BufferInv, CacheInv, NoLostWakeup
<1>3. QED
  BY <1>1, <1>2 DEF process_m3u8meta_data

LEMMA ItemBuffer ==
    ASSUME Paced, ClientInv, BufferInv, proc = "running",
           NEW m \in GoodResponse(reqSeg, reqSent), process_m3u8item_data(m)
    PROVE  BufferInv'
<1>1. CASE Fatal
  <2>1. Streaming <=> Streaming'
    BY <1>1 DEF Fatal, Streaming, sessionVars
  <2>2. QED
    BY <1>1, <2>1, SameBufferInv DEF Fatal, sessionVars, downloadVars, playVars, timerVars
<1>2. CASE /\ state = DASH_M3U8ITEM_REQUEST_SENT
           /\ reqSeg' = 0 /\ reqSent' = FALSE /\ expPlay' = 0 /\ dlTimer' = "pending"
           /\ UNCHANGED <<cache, playTimer>>
  <2>1. ~Streaming
    BY <1>2 DEF Streaming, DASH_M3U8ITEM_REQUEST_RECEIVED, DASH_M3U8ITEM_REQUEST_SENT
  <2>2. cache' = <<>> /\ playTimer' = "idle" /\ Len(cache') = 0
    BY <1>2, <2>1 DEF ClientInv, NotStarted
  <2>3. CacheInv'
    BY <1>2, <2>2, LargestTyped DEF CacheInv, TimersAlternate, RoomForDownload, CacheLimit
  <2>4. NoLostWakeup'
    BY <1>2 DEF NoLostWakeup
  <2>5. QED
    BY <2>3, <2>4 DEF BufferInv
<1>3. QED
  BY <1>1, <1>2 DEF process_m3u8item_data

LEMMA MediaBuffer ==
    ASSUME Paced, ClientInv, BufferInv, proc = "running",
           NEW m \in GoodResponse(reqSeg, reqSent), process_media_data(m)
    PROVE  BufferInv'
<1> USE DEF sessionVars, playVars, downloadVars, timerVars
<1>1. UNCHANGED <<sessionVars, playVars, stops>> /\ Streaming /\ Streaming'
  <2>1. Streaming
    BY MediaOnlyStreaming DEF process_media_data
  <2>2. QED
    BY <2>1 DEF process_media_data, Streaming
<1>2. CASE UNCHANGED <<reqSeg, reqSent, cache, timerVars>>
  BY <1>1, <1>2, SameBufferInv
<1>3. CASE Expected(m) /\ SegmentComplete(m)
  <2>1. reqSent /\ reqSeg >= 0
    BY <1>3, AcceptedWasRequested DEF process_media_data
  <2>2. /\ cache' = Append(cache, [segment_id |-> reqSeg, bandwidth |-> m.bandwidth])
        /\ reqSent' = FALSE /\ playTimer' = "pending"
        /\ \/ playTimer # "pending" /\ dlTimer' = dlTimer
           \/ /\ playTimer = "pending"
              /\ dlTimer' = IF NextRequest >= 0 /\ Len(cache') < 3 THEN "pending" ELSE dlTimer
    BY <1>3 DEF SegmentComplete, KeepFilling
  <2>3. cache \in Seq(PlaySegment) /\ Len(cache) \in Nat /\ Len(cache') = Len(cache) + 1
    BY <2>2, LenProperties DEF ClientInv, ClientTypeOK
  <2>4. expPlay' = expPlay /\ expPlay \in Int /\ dlTimer \in {"idle", "pending"}
    BY <1>1 DEF ClientInv, ClientTypeOK
  <2>5. /\ TimersAlternate /\ RoomForDownload /\ Len(cache) <= CacheLimit
        /\ CacheLimit' = CacheLimit /\ CacheLimit \in Int /\ CacheLimit >= 3
    BY <1>1, LargestTyped DEF BufferInv, CacheInv, CacheLimit
  <2>6. TimersAlternate'
    BY <2>1, <2>2, <2>4, <2>5 DEF TimersAlternate
  <2>7. Len(cache') <= CacheLimit'
    BY <2>1, <2>3, <2>5 DEF RoomForDownload
  <2>8. RoomForDownload'
    <3>1. CASE expPlay > 0
      BY <2>1, <2>2, <2>3, <2>4, <2>5, <3>1 DEF RoomForDownload
    <3>2. CASE ~(expPlay > 0)
      <4>1. expPlay = 0
        BY <1>1, <2>4, <3>2, LenProperties DEF ClientInv, ClientTypeOK, PlaybackContiguous
      <4>2. dlTimer' = "idle" /\ ~reqSent'
        BY <2>1, <2>2, <2>5, <4>1 DEF TimersAlternate
      <4>3. QED
        BY <4>2 DEF RoomForDownload
    <3>3. QED
      BY <3>1, <3>2
  <2>9. NoLostWakeup'
    BY <2>2 DEF NoLostWakeup
  <2>10. QED
    BY <2>6, <2>7, <2>8, <2>9 DEF BufferInv, CacheInv
<1>4. QED
  BY <1>2, <1>3 DEF process_media_data

LEMMA DownloadBuffer ==
    ASSUME ClientInv, BufferInv, proc = "running", timeout_download
    PROVE  BufferInv'
<1> USE DEF sessionVars, playVars, downloadVars, timerVars
<1>1. Streaming
  BY DEF timeout_download, ClientInv, NotStarted
<1>2. /\ dlTimer = "pending" /\ dlTimer' = "idle"
      /\ UNCHANGED <<totalSegs, reqSeg, cache, expPlay, playTimer, stops, proc>>
      /\ \/ (reqSeg < 0 \/ reqSent) /\ reqSent' = reqSent
         \/ reqSeg >= 0 /\ ~reqSent /\ reqSent' = TRUE
  <2>1. reqSeg \in Int
    BY DEF ClientInv, ClientTypeOK
  <2>2. QED
    BY <2>1 DEF timeout_download
<1>3. TimersAlternate /\ RoomForDownload /\ Len(cache) <= CacheLimit
  BY <1>1 DEF BufferInv, CacheInv
<1>4. TimersAlternate' /\ RoomForDownload' /\ Len(cache') <= CacheLimit'
  BY <1>2, <1>3 DEF TimersAlternate, RoomForDownload, CacheLimit
<1>5. NoLostWakeup'
  <2> SUFFICES ASSUME Startable, stops' = 0, proc' = "running", playTimer' # "pending"
               PROVE  reqSeg' >= 0 /\ reqSent'
    BY DEF NoLostWakeup, Startable
  <2>1. reqSeg >= 0
    BY <1>1, <1>2 DEF BufferInv, NoLostWakeup
  <2>2. reqSeg \in Int
    BY DEF ClientInv, ClientTypeOK
  <2>3. QED
    BY <1>2, <2>1, <2>2
<1>6. QED
  BY <1>4, <1>5 DEF BufferInv, CacheInv

(* The play event arms the download timer before it looks at the cache:    *)
(* when it then freezes or keeps waiting, a download is on its way.        *)
LEMMA PlayBuffer ==
    ASSUME Paced, ClientInv, BufferInv, proc = "running", timeout_play,
           Streaming => reqBw \in Offered(BwList)
    PROVE  BufferInv'
<1> USE DEF sessionVars, downloadVars
<1>1. Streaming /\ Streaming'
  BY DEF timeout_play, ClientInv, NotStarted, Streaming
<1>2. /\ UNCHANGED <<totalSegs, reqSeg, reqSent, proc>>
      /\ dlTimer' = IF reqSeg >= 0 /\ DownloadMore THEN "pending" ELSE dlTimer
      /\ playTimer = "pending"
  BY DEF timeout_play
<1>3. /\ TimersAlternate /\ RoomForDownload /\ Len(cache) <= CacheLimit
      /\ DownloadMore => Len(cache) <= LargestCache
      /\ LargestCache \in Int
  BY <1>1, DownloadRule, LargestTyped DEF BufferInv, CacheInv
<1>4. /\ cache \in Seq(PlaySegment) /\ Len(cache) \in Nat /\ expPlay \in Nat
      /\ reqSeg \in Int /\ totalSegs \in Nat /\ stops \in Nat
      /\ dlTimer \in {"idle", "pending"} /\ reqSent \in BOOLEAN
  <2>1. expPlay = Len(playHistory) /\ playHistory \in Seq(PlaySegment)
    BY <1>1 DEF ClientInv, ClientTypeOK, PlaybackContiguous
  <2>2. QED
    BY <2>1, LenProperties DEF ClientInv, ClientTypeOK
<1>5. reqSeg = IF expPlay + Len(cache) = totalSegs THEN -1 ELSE expPlay + Len(cache)
  BY <1>1 DEF ClientInv, PlaybackContiguous
<1>6. CASE cache = <<>> /\ stops' = stops + 1 /\ playTimer' = "idle" /\ UNCHANGED <<cache, expPlay>>
  <2>1. Len(cache') = 0
    BY <1>6
  <2>2. TimersAlternate' /\ RoomForDownload' /\ Len(cache') <= CacheLimit'
    BY <1>2, <1>3, <1>4, <1>6, <2>1 DEF TimersAlternate, RoomForDownload, CacheLimit
  <2>3. NoLostWakeup'
    BY <1>4, <1>6 DEF NoLostWakeup
  <2>4. QED
    BY <2>2, <2>3 DEF BufferInv, CacheInv
<1>7. CASE /\ cache = <<>> /\ expPlay < totalSegs
           /\ playTimer' = "idle" /\ UNCHANGED <<cache, expPlay, stops>>
  <2>1. Len(cache) = 0 /\ Len(cache') = 0
    BY <1>7
  <2>2. TimersAlternate' /\ RoomForDownload' /\ Len(cache') <= CacheLimit'
    BY <1>2, <1>3, <1>4, <1>7, <2>1 DEF TimersAlternate, RoomForDownload, CacheLimit
  <2>3. reqSeg' >= 0 /\ dlTimer' = "pending"
    BY <1>1, <1>2, <1>4, <1>5, <1>7, <2>1, DownloadRule
  <2>4. NoLostWakeup'
    BY <2>3 DEF NoLostWakeup
  <2>5. QED
    BY <2>2, <2>4 DEF BufferInv, CacheInv
<1>8. CASE WaitForMore /\ playTimer' = "idle" /\ UNCHANGED <<cache, expPlay, stops>>
  <2>1. expPlay = 0 /\ (PlayAfter < 0 \/ Len(cache) < PlayAfter)
    BY <1>8 DEF WaitForMore
  <2>2. ~reqSent /\ dlTimer = "idle"
    BY <1>2, <1>3, <2>1 DEF TimersAlternate
  <2>3. TimersAlternate' /\ RoomForDownload' /\ Len(cache') <= CacheLimit'
    BY <1>2, <1>3, <1>4, <1>8, <2>1, <2>2 DEF TimersAlternate, RoomForDownload, CacheLimit
  <2>4. NoLostWakeup'
    <3> SUFFICES ASSUME Startable PROVE reqSeg' >= 0 /\ dlTimer' = "pending"
      BY DEF NoLostWakeup, Startable
    <3>1. PlayAfter \in 0..SegmentCount /\ totalSegs = SegmentCount
      BY <1>1 DEF Startable, ClientInv, Started
    <3>2. Len(cache) < PlayAfter /\ Len(cache) < totalSegs
      BY <1>4, <2>1, <3>1
    <3>3. QED
      BY <1>1, <1>2, <1>4, <1>5, <2>1, <3>2, DownloadRule
  <2>5. QED
    BY <2>3, <2>4 DEF BufferInv, CacheInv
<1>9. CASE /\ cache # <<>> /\ cache' = Tail(cache) /\ expPlay' = expPlay + 1
           /\ playTimer' = "pending"
  <2>1. Len(cache') = Len(cache) - 1 /\ Len(cache) > 0
    BY <1>4, <1>9, HeadTailProperties, EmptySeq
  <2>2. Len(cache') <= CacheLimit'
    BY <1>3, <1>4, <1>9, <2>1 DEF CacheLimit
  <2>3. TimersAlternate'
    BY <1>4, <1>9 DEF TimersAlternate
  <2>4. RoomForDownload'
    <3>1. CASE expPlay = 0
      <4>1. ~reqSent /\ dlTimer = "idle"
        BY <1>2, <1>3, <3>1 DEF TimersAlternate
      <4>2. QED
        BY <1>2, <1>3, <1>4, <1>9, <2>1, <3>1, <4>1 DEF RoomForDownload, CacheLimit
    <3>2. CASE expPlay > 0
      BY <1>2, <1>3, <1>4, <1>9, <2>1, <3>2 DEF RoomForDownload, CacheLimit
    <3>3. QED
      BY <1>4, <3>1, <3>2
  <2>5. NoLostWakeup'
    BY <1>9 DEF NoLostWakeup
  <2>6. QED
    BY <2>2, <2>3, <2>4, <2>5 DEF BufferInv, CacheInv
<1>10. ~PlayedAll => expPlay < totalSegs
  BY <1>4 DEF PlayedAll
<1>11. QED
  BY <1>6, <1>7, <1>8, <1>9, <1>10 DEF timeout_play, play_media, playVars

-----------------------------------------------------------------------------
LEMMA InitBuffer == Init => BufferInv
BY DEF Init, ClientInit, BufferInv, CacheInv, NoLostWakeup, Streaming, DASH_INITIAL,
       DASH_M3U8ITEM_REQUEST_RECEIVED

LEMMA NextBuffer ==
    ASSUME Paced
    PROVE  SessionInv /\ LadderInv(Offered(BwList)) /\ BufferInv /\ [Next]_vars => BufferInv'
<1> SUFFICES ASSUME SessionInv, LadderInv(Offered(BwList)), BufferInv, [Next]_vars
             PROVE  BufferInv'
  OBVIOUS
<1>1. ClientInv
  BY DEF SessionInv
<1>2. s2c # <<>> => Head(s2c) \in GoodResponse(reqSeg, reqSent)
  BY HeadTailProperties DEF SessionInv, GoodChannels
<1>3. CASE proc = "running" /\ Start
  <2>1. ~Streaming'
    BY <1>3 DEF Start, start, Streaming, DASH_M3U8META_REQUEST_SENT,
                DASH_M3U8ITEM_REQUEST_RECEIVED
  <2>2. QED
    BY <2>1 DEF BufferInv, CacheInv, NoLostWakeup
<1>4. CASE proc = "running" /\ Serve
  <2>1. UNCHANGED <<sessionVars, downloadVars, cache, playVars, timerVars, stops, proc>>
    BY <1>4 DEF Serve, clientVars
  <2>2. Streaming <=> Streaming'
    BY <2>1 DEF sessionVars, Streaming
  <2>3. QED
    BY <1>4, <2>1, <2>2, SameBufferInv DEF sessionVars, downloadVars, playVars
<1>5. CASE proc = "running" /\ (Deliver \/ DeliverDuplicate)
  <2>1. s2c # <<>> /\ ClientRecv(Head(s2c))
    BY <1>5 DEF Deliver, DeliverDuplicate
  <2>2. QED
    BY <1>1, <1>2, <1>5, <2>1, MetaBuffer, ItemBuffer, MediaBuffer DEF ClientRecv
<1>6. CASE proc = "running" /\ DownloadTimeout
  BY <1>1, <1>6, DownloadBuffer DEF DownloadTimeout
<1>7. CASE proc = "running" /\ PlayTimeout
  BY <1>1, <1>7, PlayBuffer DEF PlayTimeout, LadderInv
<1>8. CASE UNCHANGED vars
  <2>1. UNCHANGED <<sessionVars, downloadVars, cache, playVars, timerVars, stops, proc>>
    BY <1>8 DEF vars, clientVars
  <2>2. Streaming <=> Streaming'
    BY <2>1 DEF sessionVars, Streaming
  <2>3. CacheInv'
    BY <2>1, <2>2 DEF BufferInv, CacheInv, TimersAlternate, RoomForDownload, CacheLimit,
                      downloadVars, playVars, timerVars
  <2>4. NoLostWakeup'
    BY <2>1, <2>2 DEF BufferInv, NoLostWakeup, Startable, downloadVars, timerVars
  <2>5. QED
    BY <2>3, <2>4 DEF BufferInv
<1>9. QED
  BY <1>3, <1>4, <1>5, <1>6, <1>7, <1>8 DEF Next, Terminated

(* The timers, the cache and the outstanding request stay consistent. *)
THEOREM BufferInvariant ==
    ASSUME Paced PROVE Spec => []BufferInv
BY InitBuffer, NextBuffer, SessionInvariant, AlwaysOffered, PTL DEF Spec

(* The cache of a client with fixed thresholds never exceeds 4 segments    *)
(* before playback starts and 3 afterwards, and that of AIMD the segments  *)
(* its idle time allows at the highest bandwidth (one more before          *)
(* playback), for every number of segments, every _play_after and every    *)
(* interleaving of the two timers.                                         *)
THEOREM BufferBounded ==
    ASSUME Paced PROVE Spec => []BufferBound
<1>1. SessionInv /\ BufferInv => BufferBound
  <2> SUFFICES ASSUME SessionInv, BufferInv PROVE BufferBound
    OBVIOUS
  <2>1. CASE Streaming
    BY <2>1 DEF BufferInv, CacheInv, CacheLimit, BufferBound
  <2>2. CASE ~Streaming
    <3>1. Len(cache) = 0
      BY <2>2 DEF SessionInv, ClientInv, NotStarted
    <3>2. QED
      BY <3>1, LargestTyped DEF BufferBound
  <2>3. QED
    BY <2>1, <2>2
<1>2. QED
  BY <1>1, SessionInvariant, BufferInvariant, PTL

(* A client with a _play_after it can reach always has a timer pending or  *)
(* a request out until it stops.                                           *)
THEOREM WakeupNeverLost ==
    ASSUME Paced PROVE Spec => []NoLostWakeup
<1>1. BufferInv => NoLostWakeup
  BY DEF BufferInv
<1>2. QED
  BY <1>1, BufferInvariant, PTL

=============================================================================
