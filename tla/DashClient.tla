----------------------------- MODULE DashClient -----------------------------
(***************************************************************************)
(* DashHttpClient and its subclasses (ns-2.35/dash/dashclient.cc): fetch   *)
(* the ladder and the durations, then download the segments one at a time  *)
(* while a play timer consumes them.                                       *)
(*                                                                         *)
(* The simulator is single-threaded: an action is one event handler (a     *)
(* message delivered by the agent, or the expiry of one of the two timers) *)
(* run to its end. Delays are abstracted: a pending timer may fire at any  *)
(* time, so every interleaving of downloads with playback is covered.      *)
(***************************************************************************)
EXTENDS DashMedia, RateSelect

CONSTANTS
    Kind,        \* the client's class
    PlayAfter,   \* _play_after (Tcl "play-after"): segments to cache first
    LowerBound,  \* _bitrate_lower_bound
    UpperBound,  \* _bitrate_upper_bound
    BoundGap,    \* smallest legal distance of the bounds (512000 in the code)
    MinBuffer,   \* _min_buffer of AIMDHttpClient, in seconds
    Rates        \* download rates a client may measure

Threshold == {"VLCHLS", "VLCDash", "Android", "SAndroid", "VAndroid", "WEMA"}
Kinds == Threshold \cup {"AIMD", "DashClient"}

ASSUME ClientAssumption ==
    /\ Kind \in Kinds
    /\ PlayAfter \in Int
    /\ LowerBound \in Int /\ UpperBound \in Int
    /\ BoundGap \in Nat /\ MinBuffer \in Nat
    /\ Rates \subseteq Int /\ Rates # {}

VARIABLES
    state,         \* _state
    bwqueue,       \* _bwqueue
    segDur,        \* _segment_duration
    totalSegs,     \* _total_segments
    reqBw,         \* _current_requested_bandwidth
    reqSeg,        \* _current_requested_segment_id, -1 when all are here
    reqSent,       \* _current_request_sent
    expTs,         \* _expected_ts_id
    recvSize,      \* _received_segment_size
    cache,         \* _cache_queue
    expPlay,       \* _expected_play_segment
    prevBw,        \* _prev_played_bandwidth
    freeze,        \* _play_freeze
    totalFreeze,   \* _qosstat.total_freeze
    qualityChange, \* _qosstat.quality_change
    playHistory,   \* the segments written to play_history_<addr>.txt
    playTimer,     \* status of _play_timer
    dlTimer,       \* status of _download_timer
    stops,         \* number of calls of stop()
    proc           \* the simulator process: running, or ended by exit/abort

downloadVars == <<reqBw, reqSeg, reqSent, expTs, recvSize>>
playVars == <<expPlay, prevBw, freeze, totalFreeze, qualityChange, playHistory>>
sessionVars == <<state, bwqueue, segDur, totalSegs>>
timerVars == <<playTimer, dlTimer>>
clientVars == <<sessionVars, downloadVars, cache, playVars, timerVars, stops, proc>>

DASH_INITIAL == 0
DASH_M3U8META_REQUEST_SENT == 1
DASH_M3U8ITEM_REQUEST_SENT == 3
DASH_M3U8ITEM_REQUEST_RECEIVED == 4
DASH_STREAM_REQUEST_SENT == 5

PlaySegment == [segment_id : Int, bandwidth : Int]

-----------------------------------------------------------------------------
ClientInit ==
    /\ state = DASH_INITIAL
    /\ bwqueue = <<>>
    /\ segDur = 0 /\ totalSegs = 0
    /\ reqBw = 0 /\ reqSeg = 0 /\ reqSent = FALSE
    /\ expTs = -1 /\ recvSize = 0
    /\ cache = <<>> /\ expPlay = -1 /\ prevBw = 0
    /\ freeze = FALSE /\ totalFreeze = 0 /\ qualityChange = 0
    /\ playHistory = <<>>
    /\ playTimer = "idle" /\ dlTimer = "idle"
    /\ stops = 0 /\ proc = "running"

(* Log(DASH_LOG_FATAL, ...) ends the whole simulation. *)
Fatal == proc' = "exit" /\ UNCHANGED <<c2s, sessionVars, downloadVars, cache,
                                       playVars, timerVars, stops>>

(* start(): Tcl schedules it once, in the initial state, for a client that *)
(* has an agent and a medium to ask for; without them it is fatal.         *)
start ==
    /\ state = DASH_INITIAL
    /\ c2s' = Append(c2s, MetaRequest)
    /\ state' = DASH_M3U8META_REQUEST_SENT
    /\ UNCHANGED <<bwqueue, segDur, totalSegs, downloadVars, cache, playVars,
                   timerVars, stops, proc>>

-----------------------------------------------------------------------------
(* process_m3u8meta_data: a missing medium makes the client stop(), and    *)
(* the handler goes on; an empty ladder is fatal.                          *)
process_m3u8meta_data(m) ==
    /\ m.type = "meta"
    /\ IF state # DASH_M3U8META_REQUEST_SENT
       THEN Fatal
       ELSE /\ stops' = IF m.program_id < 0 THEN stops + 1 ELSE stops
            /\ bwqueue' = bwqueue \o m.bwqueue
            /\ IF bwqueue' = <<>>
               THEN /\ proc' = "exit"
                    /\ UNCHANGED <<c2s, state>>
               ELSE /\ c2s' = Append(c2s, ItemRequest)
                    /\ state' = DASH_M3U8ITEM_REQUEST_SENT
                    /\ UNCHANGED proc
            /\ UNCHANGED <<segDur, totalSegs, downloadVars, cache, playVars, timerVars>>

(* Mutant: unset bounds are compared too. *)
BoundsClash_Unset == UpperBound - LowerBound < BoundGap

(* The client insists on bounds that are not too close to each other. *)
BoundsClash == LowerBound > 0 /\ UpperBound > 0 /\ UpperBound - LowerBound < BoundGap

(* process_m3u8item_data: streaming starts by scheduling the download      *)
(* timer; sched() aborts on a timer that is already pending.               *)
process_m3u8item_data(m) ==
    /\ m.type = "item"
    /\ IF \/ state # DASH_M3U8ITEM_REQUEST_SENT
          \/ m.segment_duration <= 0
          \/ m.total_duration \div m.segment_duration <= 0
          \/ BoundsClash
       THEN Fatal
       ELSE /\ segDur' = m.segment_duration
            /\ totalSegs' = m.total_duration \div m.segment_duration
            /\ state' = DASH_M3U8ITEM_REQUEST_RECEIVED
            /\ reqBw' = initial_bandwidth(bwqueue, LowerBound)
            /\ reqSeg' = 0 /\ reqSent' = FALSE /\ expTs' = 0
            /\ expPlay' = 0
            /\ dlTimer' = "pending"
            /\ proc' = IF dlTimer = "idle" THEN proc ELSE "abort"
            /\ UNCHANGED <<c2s, bwqueue, recvSize, cache, prevBw, freeze, totalFreeze,
                           qualityChange, playHistory, playTimer, stops>>

-----------------------------------------------------------------------------
(* The estimates a class may compute from its measured rates. The averages *)
(* of the threshold classes are again arbitrary rates; AIMD steps up one   *)
(* entry, keeps the bandwidth, or scales it down by at most _lambda=0.67.  *)
(* A download takes simulated time, so its rate is always in the history.  *)
EstimatedBitrates(bw) ==
    IF Kind = "AIMD"
    THEN {bw, next_higher_bandwidth(bwqueue, bw)} \cup {r \in Rates : 100 * r <= 67 * bw}
    ELSE Rates

(* change_requested_bandwidth(): aborts in the base class, does nothing in *)
(* AIMD for a ladder of one entry; a rate <= 0 exits.                      *)
change_requested_bandwidth(bw) ==
    \/ /\ Kind = "DashClient"
       /\ reqBw' = bw /\ proc' = "abort"
    \/ /\ Kind = "AIMD" /\ Len(bwqueue) < 2
       /\ reqBw' = bw /\ UNCHANGED proc
    \/ /\ Kind \in Threshold \/ (Kind = "AIMD" /\ Len(bwqueue) >= 2)
       /\ \E r \in EstimatedBitrates(bw) :
              /\ reqBw' = best_matching_bandwidth(bwqueue, LowerBound, UpperBound, r)
              /\ proc' = IF r <= 0 THEN "exit" ELSE proc

(* Only the piece that continues the requested segment is accepted. *)
Expected(m) == m.segment_id = reqSeg /\ m.transport_stream_id = expTs

(* Mutant: the last segment is missed by one. *)
NextRequest_OffByOne == IF reqSeg + 1 > totalSegs THEN -1 ELSE reqSeg + 1

(* The request id after segment reqSeg has been downloaded. *)
NextRequest == IF reqSeg + 1 >= totalSegs THEN -1 ELSE reqSeg + 1

(* Mutant: the cache is filled without a limit. *)
KeepFilling_Always(c) == NextRequest >= 0

(* While a segment is playing, the cache c is filled up to 3. *)
KeepFilling(c) == NextRequest >= 0 /\ Len(c) < 3

(* A segment is complete: cache it, advance the request, and wake up       *)
(* playback or go on downloading.                                          *)
SegmentComplete(m) ==
    /\ cache' = Append(cache, [segment_id |-> reqSeg, bandwidth |-> m.bandwidth])
    /\ reqSeg' = NextRequest
    /\ reqSent' = FALSE
    /\ recvSize' = 0 /\ expTs' = 0
    /\ IF playTimer # "pending"
       THEN playTimer' = "pending" /\ UNCHANGED dlTimer
       ELSE /\ dlTimer' = IF KeepFilling(cache') THEN "pending" ELSE dlTimer
            /\ UNCHANGED playTimer
    /\ change_requested_bandwidth(m.bandwidth)

process_media_data(m) ==
    /\ m.type = "media"
    /\ \/ /\ ~Expected(m)
          /\ UNCHANGED <<downloadVars, cache, timerVars, proc>>
       \/ /\ Expected(m)
          /\ recvSize + m.media_packet_size < SegmentSize(m.bandwidth, segDur)
          /\ reqBw' = m.bandwidth
          /\ recvSize' = recvSize + m.media_packet_size
          /\ expTs' = expTs + 1
          /\ UNCHANGED <<reqSeg, reqSent, cache, timerVars, proc>>
       \/ /\ Expected(m)
          /\ recvSize + m.media_packet_size >= SegmentSize(m.bandwidth, segDur)
          /\ SegmentComplete(m)
    /\ UNCHANGED <<c2s, sessionVars, playVars, stops>>

(* recv / process_data: what the agent delivers. A server sends nothing    *)
(* but the three responses, so no conversion fails.                        *)
ClientRecv(m) ==
    \/ process_m3u8meta_data(m)
    \/ process_m3u8item_data(m)
    \/ process_media_data(m)

-----------------------------------------------------------------------------
(* Mutant: a request is sent while another one is out. *)
timeout_download_Pipelined ==
    /\ dlTimer = "pending"
    /\ dlTimer' = "idle"
    /\ IF reqSeg < 0
       THEN UNCHANGED <<c2s, state, reqSent>>
       ELSE /\ c2s' = Append(c2s, MediaRequest(reqBw, reqSeg))
            /\ state' = DASH_STREAM_REQUEST_SENT
            /\ reqSent' = TRUE
    /\ UNCHANGED <<bwqueue, segDur, totalSegs, reqBw, reqSeg, expTs, recvSize, cache,
                   playVars, playTimer, stops, proc>>

(* timeout_download(): not pipelined, a request is sent only when the      *)
(* previous segment is complete and one is left to ask for.                *)
timeout_download ==
    /\ dlTimer = "pending"
    /\ dlTimer' = "idle"
    /\ IF reqSeg < 0 \/ reqSent
       THEN UNCHANGED <<c2s, state, reqSent>>
       ELSE /\ c2s' = Append(c2s, MediaRequest(reqBw, reqSeg))
            /\ state' = DASH_STREAM_REQUEST_SENT
            /\ reqSent' = TRUE
    /\ UNCHANGED <<bwqueue, segDur, totalSegs, reqBw, reqSeg, expTs, recvSize, cache,
                   playVars, playTimer, stops, proc>>

(* Mutant: downloading stops at two cached segments. *)
DownloadMore_Two == Len(cache) < 2

(* The class' rule for downloading on: fewer than 4 cached segments, or    *)
(* AIMD's idle time (multiplied out by the lowest bandwidth) not positive. *)
DownloadMore ==
    \/ Kind \in Threshold /\ Len(cache) < 4
    \/ /\ Kind = "AIMD"
       /\ (Len(cache) * segDur - MinBuffer) * bwqueue[1] <= segDur * reqBw

(* Mutant: waiting also after playback has started. *)
WaitForMore_AlsoLater == Kind # "DashClient" /\ Len(cache) < PlayAfter

(* Playback has not started and fewer than _play_after segments are here   *)
(* (an unsigned comparison: a negative value is never reached).            *)
WaitForMore ==
    /\ Kind # "DashClient"
    /\ expPlay = 0
    /\ PlayAfter < 0 \/ Len(cache) < PlayAfter

(* Mutant: the first segment counts as a change. *)
QualityChanges_First(ps) == ps.bandwidth # prevBw

QualityChanges(ps) == expPlay # 0 /\ ps.bandwidth # prevBw

(* Mutant: a freeze is never taken back. *)
play_media_KeepsFreeze(ps) ==
    /\ playHistory' = Append(playHistory, ps)
    /\ qualityChange' = IF QualityChanges(ps) THEN qualityChange + 1 ELSE qualityChange
    /\ expPlay' = expPlay + 1
    /\ prevBw' = ps.bandwidth
    /\ playTimer' = "pending"
    /\ UNCHANGED freeze

play_media(ps) ==
    /\ playHistory' = Append(playHistory, ps)
    /\ freeze' = FALSE
    /\ qualityChange' = IF QualityChanges(ps) THEN qualityChange + 1 ELSE qualityChange
    /\ expPlay' = expPlay + 1
    /\ prevBw' = ps.bandwidth
    /\ playTimer' = "pending"

(* Mutant: finished one segment early. *)
PlayedAll_Early == expPlay + 1 >= totalSegs

PlayedAll == expPlay >= totalSegs

(* timeout_play(): resume downloading if the class' rule says so; then     *)
(* finish, record a freeze, keep waiting, or play the next segment.        *)
timeout_play ==
    /\ playTimer = "pending"
    /\ dlTimer' = IF reqSeg >= 0 /\ DownloadMore THEN "pending" ELSE dlTimer
    /\ \/ /\ cache = <<>> /\ PlayedAll
          /\ stops' = stops + 1
          /\ playTimer' = "idle"
          /\ UNCHANGED <<cache, playVars>>
       \/ /\ cache = <<>> /\ ~PlayedAll
          /\ freeze' = TRUE
          /\ totalFreeze' = totalFreeze + 1
          /\ playTimer' = "idle"
          /\ UNCHANGED <<cache, expPlay, prevBw, qualityChange, playHistory, stops>>
       \/ /\ cache # <<>> /\ WaitForMore
          /\ playTimer' = "idle"
          /\ UNCHANGED <<cache, playVars, stops>>
       \/ /\ cache # <<>> /\ ~WaitForMore
          /\ cache' = Tail(cache)
          /\ play_media(Head(cache))
          /\ UNCHANGED <<totalFreeze, stops>>
    /\ UNCHANGED <<c2s, sessionVars, downloadVars, proc>>

=============================================================================
