----------------------------- MODULE DashSession -----------------------------
(***************************************************************************)
(* One streaming session: a DashClient and a DashServer over the two byte  *)
(* streams of their connected DHttpAgents. The streams lose and reorder    *)
(* nothing, but a media piece may reach the client twice: a TCP segment    *)
(* that arrives twice behind a hole is queued twice by                     *)
(* DHttpAgent::addtoReceiveQueue and both copies are handed over by        *)
(* findReceivedData.                                                       *)
(***************************************************************************)
EXTENDS DashClient, DashServer, FiniteSets

CONSTANT MaxDups   \* bound on the number of pieces delivered twice

ASSUME SessionAssumption == MaxDups \in Nat

VARIABLE dups      \* pieces delivered twice so far

vars == <<clientVars, chanVars, dups>>

Init == /\ ClientInit
        /\ c2s = <<>> /\ s2c = <<>>
        /\ dups = 0

Start == start /\ UNCHANGED <<s2c, dups>>

Serve == ServerRecv /\ UNCHANGED <<clientVars, dups>>

Deliver == /\ s2c # <<>>
           /\ ClientRecv(Head(s2c))
           /\ s2c' = Tail(s2c)
           /\ UNCHANGED dups

(* The first of two deliveries of the same piece: a copy stays in front. *)
DeliverDuplicate == /\ s2c # <<>>
                    /\ Head(s2c).type = "media"
                    /\ dups < MaxDups
                    /\ ClientRecv(Head(s2c))
                    /\ dups' = dups + 1
                    /\ UNCHANGED s2c

DownloadTimeout == timeout_download /\ UNCHANGED <<s2c, dups>>

PlayTimeout == timeout_play /\ UNCHANGED <<s2c, dups>>

(* The session is over, or the simulator has exited. *)
Ended == stops > 0 \/ proc # "running"

Terminated == Ended /\ UNCHANGED vars

Next ==
    \/ /\ proc = "running"
       /\ \/ Start \/ Serve \/ Deliver \/ DeliverDuplicate
          \/ DownloadTimeout \/ PlayTimeout
    \/ Terminated

Spec == Init /\ [][Next]_vars

(* The scheduler dispatches every event in its queue, so a pending timer,  *)
(* the scheduled start and a message in flight do not wait for ever.       *)
Step(A) == proc = "running" /\ A

Fairness == /\ WF_vars(Step(Start))
            /\ WF_vars(Step(Serve))
            /\ WF_vars(Step(Deliver))
            /\ WF_vars(Step(DownloadTimeout))
            /\ WF_vars(Step(PlayTimeout))

FairSpec == Spec /\ Fairness

-----------------------------------------------------------------------------
Streaming == state >= DASH_M3U8ITEM_REQUEST_RECEIVED

ClientTypeOK ==
    /\ state \in 0..5
    /\ bwqueue \in Seq(Int)
    /\ segDur \in Nat /\ totalSegs \in Nat
    /\ reqBw \in Int
    /\ reqSeg \in Nat \cup {-1}
    /\ reqSent \in BOOLEAN
    /\ expTs \in Nat \cup {-1}
    /\ recvSize \in Nat
    /\ cache \in Seq(PlaySegment)
    /\ expPlay \in Nat \cup {-1}
    /\ prevBw \in Int
    /\ freeze \in BOOLEAN
    /\ totalFreeze \in Nat /\ qualityChange \in Nat
    /\ playHistory \in Seq(PlaySegment)
    /\ playTimer \in {"idle", "pending"} /\ dlTimer \in {"idle", "pending"}
    /\ stops \in Nat
    /\ proc \in {"running", "exit", "abort"}

TypeOK == ChannelTypeOK /\ ClientTypeOK /\ dups \in Nat

(* Segments are played in order without a gap or a repetition, the cache   *)
(* holds exactly the ones that follow, and the segment being requested is  *)
(* the one after the cache: process_media_data, timeout_play and           *)
(* play_media keep the three counters of the client consistent.            *)
PlaybackContiguous ==
    Streaming =>
        /\ Len(playHistory) = expPlay
        /\ \A i \in 1..Len(playHistory) : playHistory[i].segment_id = i - 1
        /\ \A i \in 1..Len(cache) : cache[i].segment_id = expPlay + i - 1
        /\ reqSeg = IF expPlay + Len(cache) = totalSegs THEN -1
                    ELSE expPlay + Len(cache)

(* The segments in the response stream that the client has not accepted    *)
(* yet: only the second copy of a duplicated piece is skipped.             *)
Fresh == IF s2c # <<>> /\ Head(s2c).type = "media" /\ ~Expected(Head(s2c))
         THEN Tail(s2c) ELSE s2c

(* Downloads are not pipelined: while a request is out, the streams hold   *)
(* either that request or exactly the pieces the client still expects, in  *)
(* order; otherwise they hold nothing. So process_media_data never rejects *)
(* a piece other than a second copy, and completes a segment on its last   *)
(* piece.                                                                  *)
OneExchangeAtATime ==
    Streaming =>
        \/ ~reqSent /\ c2s = <<>> /\ Fresh = <<>>
        \/ reqSent /\ c2s = <<MediaRequest(reqBw, reqSeg)>> /\ Fresh = <<>>
        \/ /\ reqSent /\ c2s = <<>>
           /\ LET all == send_media_data_response(reqBw, reqSeg)
              IN  expTs < Len(all) /\ Fresh = SubSeq(all, expTs + 1, Len(all))

(* The values of _play_after with which a client of this class starts.     *)
Startable ==
    /\ PlayAfter \in 0..SegmentCount
    /\ Kind \in Threshold => PlayAfter <= 4
    /\ Kind = "AIMD" => (PlayAfter - 2) * SegDuration <= MinBuffer

(* No wake-up is lost: a client that is not finished has a timer pending   *)
(* or a request out, and once everything is downloaded the play timer      *)
(* itself is pending. timeout_play and process_media_data each rely on the *)
(* other one to re-arm the timers.                                         *)
NoLostWakeup ==
    Startable /\ Streaming /\ stops = 0 /\ proc = "running" =>
        \/ playTimer = "pending"
        \/ reqSeg >= 0 /\ (dlTimer = "pending" \/ reqSent)

(* The cache is bounded by the thresholds of process_media_data (3) and    *)
(* timeout_play (4, or AIMD's idle time at the highest bandwidth), although *)
(* a download may complete after later play events: one segment more than  *)
(* the rule of timeout_play allows before playback starts, none afterwards. *)
LargestCache ==
    IF Kind = "AIMD"
    THEN (MinBuffer * BwList[1] + SegDuration * BwList[Len(BwList)])
             \div (SegDuration * BwList[1])
    ELSE 3

BufferBound ==
    Len(cache) <= IF LargestCache < 3 THEN 3
                  ELSE IF expPlay > 0 THEN LargestCache ELSE LargestCache + 1

(* Freezes are accounted for: playback that has begun and is not finished  *)
(* is interrupted (no play event pending) only in a recorded freeze,       *)
(* waiting for the first segments is not counted as one, and every freeze  *)
(* follows a played segment.                                               *)
FreezeAccounting ==
    /\ expPlay > 0 /\ playTimer = "idle" /\ stops = 0 => freeze
    /\ freeze => expPlay > 0 /\ (playTimer = "idle" => cache = <<>>)
    /\ totalFreeze <= Len(playHistory)

(* _qosstat.quality_change counts the switches in the play history. *)
QualityAccounting ==
    Streaming =>
        LET switches == {i \in 2..Len(playHistory) :
                            playHistory[i].bandwidth # playHistory[i-1].bandwidth}
        IN  qualityChange = Cardinality(switches)

(* When the ladder offers a bandwidth within the user's bounds, every      *)
(* request of the client is within them, whatever rate it measures.        *)
InBounds(bw) == (LowerBound > 0 => bw >= LowerBound) /\ (UpperBound > 0 => bw <= UpperBound)

BoundsRespected ==
    Streaming /\ (\E b \in Offered(BwList) : InBounds(b)) => InBounds(reqBw)

(* None of the situations the code reports as fatal happens in a session   *)
(* whose medium is on the server: "those fatal situations should not       *)
(* happen" (dashclient.cc, Log).                                           *)
NoFatal == proc = "running"

(* stop() is called once: it decrements the client_number that decides     *)
(* when the whole simulation finishes.                                     *)
StopsOnce == stops <= 1 /\ (stops = 1 => expPlay = totalSegs /\ cache = <<>>)

-----------------------------------------------------------------------------
(* Every segment is eventually played and the client then stops. *)
Completes == <>(stops = 1 /\ Len(playHistory) = SegmentCount)

(* A freeze ends: playback goes on with the segment that was missing. *)
FreezeEnds == freeze ~> ~freeze

=============================================================================
