----------------------------- MODULE DashServer -----------------------------
(***************************************************************************)
(* DashHttpServer (ns-2.35/dash/dashserver.cc): a stateless responder that *)
(* answers each request as it arrives. A segment is answered by pieces     *)
(* that each fit one TCP segment.                                          *)
(***************************************************************************)
EXTENDS DashMedia

(* send() cuts size media bytes into full pieces and one for the rest. *)
PieceCount(size) == (size \div Payload) + (IF size % Payload > 0 THEN 1 ELSE 0)

(* Mutant: the rest is one piece too short. *)
PieceSize_OffByOne(size, ts) ==
    IF ts < size \div Payload THEN Payload ELSE size - (ts + 1) * Payload

PieceSize(size, ts) == IF ts < size \div Payload THEN Payload ELSE size % Payload

(* DashMediaChunk(vd, bandwidth, segment_id): an unknown bandwidth becomes *)
(* 0 and an unknown segment -1.                                            *)
ServedBandwidth(bw) ==
    IF MediaPresent /\ bw \in {BwList[i] : i \in DOMAIN BwList} THEN bw ELSE 0

ServedSegment(seg) ==
    IF MediaPresent /\ seg >= 0 /\ seg < SegmentCount THEN seg ELSE -1

send_media_data_response(bw, seg) ==
    LET b    == ServedBandwidth(bw)
        s    == ServedSegment(seg)
        size == SegmentSize(b, SegDuration)
    IN  [i \in 1..PieceCount(size) |-> Chunk(b, s, i - 1, PieceSize(size, i - 1))]

(* The program id of a response. When the video is missing, the            *)
(* default-constructed VideoDescription is never assigned, so its          *)
(* _program_id is whatever the stack holds; its _bwqueue is empty.         *)
ProgramIds == IF MediaPresent THEN {0} ELSE {-1, 0}

send_m3u8meta_response(program) ==
    <<M3U8Meta(program, IF MediaPresent THEN BwList ELSE <<>>)>>

(* recv: one request is taken from the connection and answered at once;   *)
(* anything that is not a well-formed request is ignored.                  *)
ServerRecv ==
    /\ c2s # <<>>
    /\ c2s' = Tail(c2s)
    /\ LET r == Head(c2s)
       IN  \/ /\ r.type = "meta"
              /\ \E program \in ProgramIds :
                     s2c' = s2c \o send_m3u8meta_response(program)
           \/ /\ r.type = "item"
              /\ s2c' = Append(s2c, M3U8Item)
           \/ /\ r.type = "media"
              /\ s2c' = IF r.bandwidth > 0 /\ r.segment_id >= 0
                        THEN s2c \o send_media_data_response(r.bandwidth, r.segment_id)
                        ELSE s2c

=============================================================================
