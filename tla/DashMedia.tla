------------------------------ MODULE DashMedia ------------------------------
(***************************************************************************)
(* The media a session streams and the messages client and server exchange *)
(* (ns-2.35/dash/media.h, media.cc), together with the byte stream between *)
(* them: one reliable FIFO in each direction, which is what a pair of      *)
(* connected DHttpAgents gives to the applications above it.               *)
(***************************************************************************)
EXTENDS Integers, Sequences

CONSTANTS
    BwList,        \* bandwidths of the requested video, in the list's order
    SegDuration,   \* segment_duration of the video
    TotalDuration, \* total_duration of the video
    Payload,       \* _mss - sizeof(DashMediaChunk): media bytes per piece
    MediaPresent   \* is the requested video on the server?

ASSUME MediaAssumption ==
    /\ BwList \in Seq(Nat \ {0}) /\ BwList # <<>>
    /\ SegDuration \in Nat
    /\ TotalDuration \in Nat
    /\ Payload \in Nat \ {0}
    /\ MediaPresent \in BOOLEAN

VARIABLES
    c2s,   \* requests on their way to the server
    s2c    \* responses on their way to the client

chanVars == <<c2s, s2c>>

(* Both sides compute the number of segments as an integer quotient. *)
SegmentCount == IF SegDuration > 0 THEN TotalDuration \div SegDuration ELSE -1

(* Bytes of one segment of dur seconds at bandwidth bw. *)
SegmentSize(bw, dur) == (bw * dur) \div 8

-----------------------------------------------------------------------------
(* Requests carry a url "<media> meta 0", "<media> item 0" or              *)
(* "<media> <bandwidth> <segment>".                                        *)
MetaRequest == [type |-> "meta"]
ItemRequest == [type |-> "item"]
MediaRequest(bw, seg) == [type |-> "media", bandwidth |-> bw, segment_id |-> seg]

Request == {MetaRequest, ItemRequest}
    \cup [type : {"media"}, bandwidth : Int, segment_id : Int]

(* Responses: the ladder, the durations, and pieces of a segment. *)
M3U8Meta(program, bws) == [type |-> "meta", program_id |-> program, bwqueue |-> bws]
M3U8Item == [type |-> "item", segment_duration |-> SegDuration,
             total_duration |-> TotalDuration]
Chunk(bw, seg, ts, size) == [type |-> "media", bandwidth |-> bw, segment_id |-> seg,
                             transport_stream_id |-> ts, media_packet_size |-> size]

Response == [type : {"meta"}, program_id : Int, bwqueue : Seq(Int)]
    \cup [type : {"item"}, segment_duration : Int, total_duration : Int]
    \cup [type : {"media"}, bandwidth : Int, segment_id : Int,
          transport_stream_id : Nat, media_packet_size : Nat]

ChannelTypeOK == c2s \in Seq(Request) /\ s2c \in Seq(Response)

=============================================================================
