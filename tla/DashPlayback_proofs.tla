------------------------- MODULE DashPlayback_proofs -------------------------
(***************************************************************************)
(* What the client reports about playback: the freezes, the changes of     *)
(* quality, and that it stops once. All three are kept by timeout_play and *)
(* play_media, while process_media_data decides when playback goes on.     *)
(***************************************************************************)
EXTENDS DashSession_proofs, FiniteSetTheorems

(* Nothing is reported before streaming begins. *)
QuietInv ==
    ~Streaming => expPlay = -1 /\ freeze = FALSE /\ totalFreeze = 0 /\ qualityChange = 0

(* A play event is pending before the first segment, or in a freeze, only  *)
(* if there is a segment to play. So no freeze follows another one without *)
(* a segment played between them, and a segment pays for each freeze.      *)
FreezeInv ==
    Streaming =>
        /\ expPlay = 0 /\ playTimer = "pending" => cache # <<>>
        /\ freeze => expPlay > 0 /\ (playTimer = "idle" <=> cache = <<>>)
        /\ expPlay > 0 /\ playTimer = "idle" /\ stops = 0 => freeze
        /\ totalFreeze <= expPlay
        /\ expPlay > 0 /\ ~freeze => totalFreeze < expPlay

(* Once stopped, the client has played everything, asks for nothing, and   *)
(* has no play event that could stop it again.                             *)
StopsInv ==
    MediaPresent =>
        \/ stops = 0
        \/ /\ stops = 1 /\ Streaming
           /\ playTimer = "idle" /\ cache = <<>> /\ expPlay = totalSegs

Switches == {i \in 2..Len(playHistory) :
                playHistory[i].bandwidth # playHistory[i-1].bandwidth}

QualityInv ==
    Streaming =>
        /\ qualityChange = Cardinality(Switches)
        /\ expPlay > 0 => prevBw = playHistory[expPlay].bandwidth

PlaybackInv == QuietInv /\ FreezeInv /\ StopsInv /\ QualityInv

-----------------------------------------------------------------------------
(* A handler that leaves playback alone. *)
LEMMA SamePlayback ==
    ASSUME PlaybackInv, Streaming <=> Streaming',
           UNCHANGED <<playVars, cache, playTimer, stops, totalSegs>>
    PROVE  PlaybackInv'
<1> USE DEF playVars
<1>1. QuietInv' /\ FreezeInv' /\ StopsInv'
  BY DEF PlaybackInv, QuietInv, FreezeInv, StopsInv
<1>2. QualityInv'
  BY DEF PlaybackInv, QualityInv, Switches
<1>3. QED
  BY <1>1, <1>2 DEF PlaybackInv

(* A streaming client plays at most the segments there are, and has asked  *)
(* for everything when the history and the cache hold all of them.         *)
LEMMA CountersTyped ==
    ASSUME ClientInv, Streaming
    PROVE  /\ expPlay = Len(playHistory) /\ expPlay \in Nat
           /\ cache \in Seq(PlaySegment) /\ playHistory \in Seq(PlaySegment)
           /\ Len(cache) \in Nat /\ totalSegs \in Nat /\ totalSegs > 0
           /\ expPlay + Len(cache) <= totalSegs
           /\ reqSeg >= 0 => expPlay + Len(cache) < totalSegs
<1>1. /\ expPlay = Len(playHistory)
      /\ reqSeg = IF expPlay + Len(cache) = totalSegs THEN -1 ELSE expPlay + Len(cache)
  BY DEF ClientInv, PlaybackContiguous
<1>2. /\ cache \in Seq(PlaySegment) /\ playHistory \in Seq(PlaySegment)
      /\ totalSegs \in Nat
  BY DEF ClientInv, ClientTypeOK
<1>3. Len(cache) \in Nat /\ Len(playHistory) \in Nat
  BY <1>2, LenProperties
<1>4. totalSegs = SegmentCount /\ reqSeg < SegmentCount /\ SegmentCount > 0
  BY DEF ClientInv, Started
<1>5. QED
  BY <1>1, <1>2, <1>3, <1>4

LEMMA MetaPlayback ==
    ASSUME ClientInv, PlaybackInv, NEW m \in GoodResponse(reqSeg, reqSent),
           process_m3u8meta_data(m)
    PROVE  PlaybackInv'
<1> USE DEF sessionVars, playVars, timerVars
<1>1. CASE Fatal
  <2>1. Streaming <=> Streaming'
    BY <1>1 DEF Fatal, Streaming
  <2>2. QED
    BY <1>1, <2>1, SamePlayback DEF Fatal
<1>2. CASE state = DASH_M3U8META_REQUEST_SENT
  <2>1. /\ UNCHANGED <<playVars, cache, timerVars>>
        /\ stops' = IF m.program_id < 0 THEN stops + 1 ELSE stops
    BY <1>2 DEF process_m3u8meta_data
  <2>2. ~Streaming /\ ~Streaming'
    BY <1>2 DEF process_m3u8meta_data, Streaming, DASH_M3U8ITEM_REQUEST_RECEIVED,
                DASH_M3U8META_REQUEST_SENT, DASH_M3U8ITEM_REQUEST_SENT
  <2>3. MediaPresent => m.program_id = 0
    BY DEF process_m3u8meta_data, GoodResponse, M3U8Meta, M3U8Item, ProgramIds
  <2>4. QED
    BY <2>1, <2>2, <2>3 DEF PlaybackInv, QuietInv, FreezeInv, StopsInv, QualityInv
<1>3. QED
  BY <1>1, <1>2 DEF process_m3u8meta_data

LEMMA ItemPlayback ==
    ASSUME ClientInv, PlaybackInv, NEW m \in GoodResponse(reqSeg, reqSent),
           process_m3u8item_data(m)
    PROVE  PlaybackInv'
<1> USE DEF sessionVars, playVars, timerVars
<1>1. CASE Fatal
  <2>1. Streaming <=> Streaming'
    BY <1>1 DEF Fatal, Streaming
  <2>2. QED
    BY <1>1, <2>1, SamePlayback DEF Fatal
<1>2. CASE /\ state = DASH_M3U8ITEM_REQUEST_SENT
           /\ state' = DASH_M3U8ITEM_REQUEST_RECEIVED /\ expPlay' = 0
           /\ UNCHANGED <<cache, prevBw, freeze, totalFreeze, qualityChange, playHistory,
                          playTimer, stops>>
  <2>1. ~Streaming
    BY <1>2 DEF Streaming, DASH_M3U8ITEM_REQUEST_RECEIVED, DASH_M3U8ITEM_REQUEST_SENT
  <2>2. cache = <<>> /\ playHistory = <<>> /\ playTimer = "idle"
    BY <2>1 DEF ClientInv, NotStarted
  <2>3. freeze = FALSE /\ totalFreeze = 0 /\ qualityChange = 0
    BY <2>1 DEF PlaybackInv, QuietInv
  <2>4. MediaPresent => stops = 0
    BY <2>1 DEF PlaybackInv, StopsInv
  <2>5. Cardinality(Switches') = 0
    <3>1. Switches' = {}
      BY <1>2, <2>2 DEF Switches
    <3>2. QED
      BY <3>1, FS_EmptySet
  <2>6. Streaming'
    BY <1>2 DEF Streaming, DASH_M3U8ITEM_REQUEST_RECEIVED
  <2>7. QED
    BY <1>2, <2>2, <2>3, <2>4, <2>5, <2>6
       DEF PlaybackInv, QuietInv, FreezeInv, StopsInv, QualityInv
<1>3. QED
  BY <1>1, <1>2 DEF process_m3u8item_data

LEMMA MediaPlayback ==
    ASSUME ClientInv, PlaybackInv, NEW m \in GoodResponse(reqSeg, reqSent),
           process_media_data(m)
    PROVE  PlaybackInv'
<1> USE DEF sessionVars, downloadVars, playVars, timerVars
<1>1. /\ Streaming /\ Streaming'
      /\ UNCHANGED <<playVars, stops, totalSegs>>
  <2>1. Streaming
    BY MediaOnlyStreaming DEF process_media_data
  <2>2. QED
    BY <2>1 DEF process_media_data, Streaming
<1>2. CASE UNCHANGED <<cache, timerVars>>
  BY <1>1, <1>2, SamePlayback
<1>3. CASE Expected(m) /\ SegmentComplete(m)
  <2>1. /\ cache' = Append(cache, [segment_id |-> reqSeg, bandwidth |-> m.bandwidth])
        /\ playTimer' = "pending"
    BY <1>3 DEF SegmentComplete
  <2>2. cache \in Seq(PlaySegment) /\ m.bandwidth \in Int /\ reqSeg \in Int
    BY MediaOnlyStreaming DEF process_media_data, ClientInv, ClientTypeOK
  <2>3. cache' # <<>>
    BY <2>1, <2>2, AppendProperties DEF PlaySegment
  <2>4. MediaPresent => stops = 0
    <3>1. NotAhead(reqSeg, reqSeg, reqSent)
      BY <1>3, MediaOnlyStreaming DEF Expected, process_media_data
    <3>2. reqSeg >= 0
      BY <2>2, <3>1, CountIsInt DEF NotAhead
    <3>3. expPlay + Len(cache) < totalSegs /\ expPlay \in Nat /\ totalSegs \in Nat
      BY <1>1, <3>2, CountersTyped
    <3>4. ~(cache = <<>> /\ expPlay = totalSegs)
      BY <3>3
    <3>5. QED
      BY <3>4 DEF PlaybackInv, StopsInv
  <2>5. FreezeInv' /\ StopsInv' /\ QuietInv'
    BY <1>1, <2>1, <2>3, <2>4 DEF PlaybackInv, FreezeInv, StopsInv, QuietInv
  <2>6. QualityInv'
    BY <1>1 DEF PlaybackInv, QualityInv, Switches
  <2>7. QED
    BY <2>5, <2>6 DEF PlaybackInv
<1>4. QED
  BY <1>2, <1>3 DEF process_media_data

(* Playing a segment adds at most one switch to the history, and play_media *)
(* counts exactly that.                                                    *)
LEMMA SwitchCounted ==
    ASSUME ClientInv, Streaming, QualityInv, NEW ps \in PlaySegment, play_media(ps)
    PROVE  /\ qualityChange' = Cardinality(Switches')
           /\ prevBw' = playHistory'[expPlay'].bandwidth
<1> DEFINE n == Len(playHistory)
<1>1. playHistory \in Seq(PlaySegment) /\ n \in Nat /\ expPlay = n
  BY CountersTyped
<1>2. /\ playHistory' = Append(playHistory, ps)
      /\ qualityChange' = IF expPlay # 0 /\ ps.bandwidth # prevBw
                          THEN qualityChange + 1 ELSE qualityChange
      /\ expPlay' = expPlay + 1 /\ prevBw' = ps.bandwidth
  BY DEF play_media, QualityChanges
<1>3. /\ Len(playHistory') = n + 1
      /\ \A i \in 1..n : playHistory'[i] = playHistory[i]
      /\ playHistory'[n + 1] = ps
  BY <1>1, <1>2, AppendProperties
<1>4. IsFiniteSet(Switches)
  <2>1. Switches \subseteq 2..n
    BY DEF Switches
  <2>2. IsFiniteSet(2..n)
    BY <1>1, FS_Interval
  <2>3. QED
    BY <2>1, <2>2, FS_Subset
<1>5. n + 1 \notin Switches
  BY <1>1 DEF Switches
<1>6. CASE expPlay # 0 /\ ps.bandwidth # prevBw
  <2>1. prevBw = playHistory[n].bandwidth /\ n \in 1..n
    BY <1>1, <1>6 DEF QualityInv
  <2>2. Switches' = Switches \cup {n + 1}
    <3>1. ASSUME NEW i PROVE i \in Switches' <=> i \in Switches \cup {n + 1}
      <4>1. CASE i \in 2..n
        <5>1. i \in 1..n /\ i - 1 \in 1..n /\ i # n + 1 /\ i \in 2..(n + 1)
          BY <1>1, <4>1
        <5>2. QED
          BY <1>3, <4>1, <5>1 DEF Switches
      <4>2. CASE i = n + 1
        <5>1. i \in 2..(n + 1) /\ i - 1 = n
          BY <1>1, <2>1, <4>2
        <5>2. QED
          BY <1>3, <1>6, <2>1, <4>2, <5>1 DEF Switches
      <4>3. CASE i \notin 2..(n + 1)
        <5>1. i \notin 2..n /\ i # n + 1
          BY <1>1, <2>1, <4>3
        <5>2. QED
          BY <1>3, <4>3, <5>1 DEF Switches
      <4>4. QED
        BY <1>1, <4>1, <4>2, <4>3
    <3>2. QED
      BY <3>1
  <2>3. Cardinality(Switches') = Cardinality(Switches) + 1
    BY <1>4, <1>5, <2>2, FS_AddElement
  <2>4. QED
    BY <1>1, <1>2, <1>3, <1>6, <2>3 DEF QualityInv
<1>7. CASE ~(expPlay # 0 /\ ps.bandwidth # prevBw)
  <2>1. Switches' = Switches
    <3>1. ASSUME NEW i PROVE i \in Switches' <=> i \in Switches
      <4>1. CASE i \in 2..n
        <5>1. i \in 1..n /\ i - 1 \in 1..n /\ i \in 2..(n + 1)
          BY <1>1, <4>1
        <5>2. QED
          BY <1>3, <4>1, <5>1 DEF Switches
      <4>2. CASE i = n + 1 /\ n # 0
        <5>1. i - 1 = n /\ n \in 1..n /\ i \notin 2..n
          BY <1>1, <4>2
        <5>2. playHistory'[i].bandwidth = playHistory'[i-1].bandwidth
          BY <1>1, <1>3, <1>7, <4>2, <5>1 DEF QualityInv
        <5>3. QED
          BY <5>1, <5>2 DEF Switches
      <4>3. CASE i \notin 2..(n + 1)
        <5>1. i \notin 2..n
          BY <1>1, <4>3
        <5>2. QED
          BY <1>3, <4>3, <5>1 DEF Switches
      <4>4. QED
        BY <1>1, <4>1, <4>2, <4>3
    <3>2. QED
      BY <3>1
  <2>2. QED
    BY <1>1, <1>2, <1>3, <1>7, <2>1 DEF QualityInv
<1>8. QED
  BY <1>6, <1>7

LEMMA PlayPlayback ==
    ASSUME ClientInv, PlaybackInv, timeout_play
    PROVE  PlaybackInv'
<1> USE DEF sessionVars, downloadVars
<1>1. Streaming /\ Streaming' /\ playTimer = "pending" /\ totalSegs' = totalSegs
  BY DEF timeout_play, ClientInv, NotStarted, Streaming
<1>2. /\ expPlay = Len(playHistory) /\ expPlay \in Nat
      /\ cache \in Seq(PlaySegment) /\ Len(cache) \in Nat
      /\ totalSegs \in Nat /\ totalSegs > 0
      /\ expPlay + Len(cache) <= totalSegs
      /\ stops \in Nat /\ totalFreeze \in Nat /\ freeze \in BOOLEAN
  BY <1>1, CountersTyped DEF ClientInv, ClientTypeOK
<1>3. MediaPresent => stops = 0
  BY <1>1 DEF PlaybackInv, StopsInv
<1>4. QuietInv'
  BY <1>1 DEF QuietInv
<1>5. CASE UNCHANGED <<cache, expPlay, prevBw, qualityChange, playHistory>>
  <2>1. QualityInv'
    BY <1>1, <1>5 DEF PlaybackInv, QualityInv, Switches
  <2>2. CASE /\ cache = <<>> /\ PlayedAll /\ stops' = stops + 1 /\ playTimer' = "idle"
             /\ UNCHANGED <<freeze, totalFreeze>>
    <3>1. expPlay = totalSegs
      BY <1>2, <2>2 DEF PlayedAll
    <3>2. ~freeze
      BY <1>1, <2>2 DEF PlaybackInv, FreezeInv
    <3>3. FreezeInv' /\ StopsInv'
      BY <1>1, <1>2, <1>3, <1>5, <2>2, <3>1, <3>2 DEF PlaybackInv, FreezeInv, StopsInv
    <3>4. QED
      BY <1>4, <2>1, <3>3 DEF PlaybackInv
  <2>3. CASE /\ cache = <<>> /\ freeze' = TRUE /\ totalFreeze' = totalFreeze + 1
             /\ playTimer' = "idle" /\ stops' = stops
    <3>1. expPlay > 0 /\ ~freeze
      BY <1>1, <1>2, <2>3 DEF PlaybackInv, FreezeInv
    <3>2. FreezeInv' /\ StopsInv'
      BY <1>1, <1>2, <1>3, <1>5, <2>3, <3>1 DEF PlaybackInv, FreezeInv, StopsInv
    <3>3. QED
      BY <1>4, <2>1, <3>2 DEF PlaybackInv
  <2>4. CASE WaitForMore /\ playTimer' = "idle" /\ UNCHANGED <<freeze, totalFreeze, stops>>
    <3>1. expPlay = 0
      BY <2>4 DEF WaitForMore
    <3>2. FreezeInv' /\ StopsInv'
      BY <1>1, <1>2, <1>3, <1>5, <2>4, <3>1 DEF PlaybackInv, FreezeInv, StopsInv
    <3>3. QED
      BY <1>4, <2>1, <3>2 DEF PlaybackInv
  <2>5. ~play_media(Head(cache))
    BY <1>2, <1>5 DEF play_media
  <2>6. QED
    BY <2>2, <2>3, <2>4, <2>5 DEF timeout_play, playVars
<1>6. CASE /\ cache # <<>> /\ cache' = Tail(cache) /\ play_media(Head(cache))
           /\ UNCHANGED <<totalFreeze, stops>>
  <2>1. Head(cache) \in PlaySegment
    BY <1>2, <1>6, HeadTailProperties
  <2>2. QualityInv'
    BY <1>1, <1>6, <2>1, SwitchCounted DEF PlaybackInv, QualityInv
  <2>3. freeze' = FALSE /\ expPlay' = expPlay + 1 /\ playTimer' = "pending"
    BY <1>6 DEF play_media
  <2>4. FreezeInv' /\ StopsInv'
    BY <1>1, <1>2, <1>3, <1>6, <2>3 DEF PlaybackInv, FreezeInv, StopsInv
  <2>5. QED
    BY <1>4, <2>2, <2>4 DEF PlaybackInv
<1>7. QED
  BY <1>5, <1>6 DEF timeout_play, playVars

-----------------------------------------------------------------------------
LEMMA InitPlayback == Init => PlaybackInv
BY DEF Init, ClientInit, PlaybackInv, QuietInv, FreezeInv, StopsInv, QualityInv, Streaming,
       DASH_INITIAL, DASH_M3U8ITEM_REQUEST_RECEIVED

LEMMA NextPlayback == SessionInv /\ PlaybackInv /\ [Next]_vars => PlaybackInv'
<1> SUFFICES ASSUME SessionInv, PlaybackInv, [Next]_vars PROVE PlaybackInv'
  OBVIOUS
<1> USE DEF sessionVars, downloadVars, timerVars
<1>1. ClientInv
  BY DEF SessionInv
<1>2. s2c # <<>> => Head(s2c) \in GoodResponse(reqSeg, reqSent)
  BY HeadTailProperties DEF SessionInv, GoodChannels
<1>3. CASE Start
  <2>1. ~Streaming /\ ~Streaming' /\ UNCHANGED <<playVars, cache, playTimer, stops, totalSegs>>
    BY <1>3 DEF Start, start, Streaming, DASH_INITIAL, DASH_M3U8META_REQUEST_SENT,
                DASH_M3U8ITEM_REQUEST_RECEIVED
  <2>2. QED
    BY <2>1, SamePlayback
<1>4. CASE Serve \/ UNCHANGED vars
  <2>1. UNCHANGED <<sessionVars, cache, playVars, timerVars, stops>>
    BY <1>4 DEF Serve, vars, clientVars
  <2>2. Streaming <=> Streaming'
    BY <2>1 DEF Streaming
  <2>3. QED
    BY <2>1, <2>2, SamePlayback
<1>5. CASE Deliver \/ DeliverDuplicate
  <2>1. s2c # <<>> /\ ClientRecv(Head(s2c))
    BY <1>5 DEF Deliver, DeliverDuplicate
  <2>2. QED
    BY <1>1, <1>2, <2>1, MetaPlayback, ItemPlayback, MediaPlayback DEF ClientRecv
<1>6. CASE DownloadTimeout
  <2>1. UNCHANGED <<playVars, cache, playTimer, stops, totalSegs>>
    BY <1>6 DEF DownloadTimeout, timeout_download
  <2>2. Streaming
    BY <1>1, <1>6 DEF DownloadTimeout, timeout_download, ClientInv, NotStarted
  <2>3. Streaming'
    BY <1>6, <2>2 DEF DownloadTimeout, timeout_download, Streaming,
                      DASH_M3U8ITEM_REQUEST_RECEIVED, DASH_STREAM_REQUEST_SENT
  <2>4. QED
    BY <2>1, <2>2, <2>3, SamePlayback
<1>7. CASE PlayTimeout
  BY <1>1, <1>7, PlayPlayback DEF PlayTimeout
<1>8. QED
  BY <1>3, <1>4, <1>5, <1>6, <1>7 DEF Next, Terminated

(* The reports of the client stay consistent with what it plays. *)
THEOREM PlaybackInvariant == Spec => []PlaybackInv
BY InitPlayback, NextPlayback, SessionInvariant, PTL DEF Spec

(* Playback that has begun is only interrupted in a recorded freeze, and   *)
(* there are never more freezes than played segments, for every client     *)
(* class, ladder and interleaving of downloads with play events.           *)
THEOREM FreezesAccounted == Spec => []FreezeAccounting
<1>1. SessionInv /\ PlaybackInv => FreezeAccounting
  <2> SUFFICES ASSUME SessionInv, PlaybackInv PROVE FreezeAccounting
    OBVIOUS
  <2>1. ClientInv
    BY DEF SessionInv
  <2>2. CASE Streaming
    <3>1. expPlay = Len(playHistory)
      BY <2>1, <2>2, CountersTyped
    <3>2. QED
      BY <2>2, <3>1 DEF PlaybackInv, FreezeInv, FreezeAccounting
  <2>3. CASE ~Streaming
    <3>1. playHistory = <<>> /\ Len(playHistory) = 0
      BY <2>1, <2>3 DEF ClientInv, NotStarted
    <3>2. QED
      BY <2>3, <3>1 DEF PlaybackInv, QuietInv, FreezeAccounting
  <2>4. QED
    BY <2>2, <2>3
<1>2. QED
  BY <1>1, SessionInvariant, PlaybackInvariant, PTL

(* quality_change is the number of switches in the play history: the first *)
(* segment is none, and no switch is missed or counted twice.              *)
THEOREM QualityCounted == Spec => []QualityAccounting
<1>1. PlaybackInv => QualityAccounting
  BY DEF PlaybackInv, QualityInv, QualityAccounting, Switches
<1>2. QED
  BY <1>1, PlaybackInvariant, PTL

(* A client whose medium is on the server calls stop() at most once, and   *)
(* then it has played every segment: client_number is decremented once.    *)
THEOREM StopsOnlyOnce == ASSUME MediaPresent PROVE Spec => []StopsOnce
<1>1. PlaybackInv => StopsOnce
  BY DEF PlaybackInv, StopsInv, StopsOnce
<1>2. QED
  BY <1>1, PlaybackInvariant, PTL

=============================================================================
