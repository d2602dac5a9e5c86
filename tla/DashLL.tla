------------------------------- MODULE DashLL -------------------------------
(***************************************************************************)
(* DashLL (dei80211mr-1.1.4/src/dashll/DashLL.cc): the link layer of the   *)
(* access point. It reads the messages of the DASH sessions that pass it   *)
(* and keeps a DashClientPlay per client: what the client asked for, what  *)
(* came from the server for it, and which segments have been transmitted   *)
(* to it. It is told of a transmission by the MAC (update_recv), when the  *)
(* station has acknowledged the frame.                                     *)
(*                                                                         *)
(* TCP runs over the access point: a request or a piece may pass twice,    *)
(* and a frame may be lost behind it, or its acknowledgement. Packets for  *)
(* one client leave in the order they came (FlowOrder of DashPriQueue).    *)
(***************************************************************************)
EXTENDS Integers, Sequences, SequencesExt

CONSTANTS
    BwList, SegDuration, TotalDuration, Payload, MediaPresent,  \* as in DashMedia
    Clients,       \* addresses of the clients
    TableSize,     \* entries of _client_bw_table (10 in the code)
    Bitrates,      \* Bitrates[c]: values of the MAC's _current_bitrate for c;
                   \* 0: it has no sample yet
    AvgBandwidth,  \* the weight that counts as 1.0 (20000 in the code)
    NoRecord,      \* no DashClientPlay for an address
    MaxRepeats,    \* bound: messages that pass twice without need
    MaxLosses,     \* bound: frames lost behind the access point
    MaxAckLosses   \* bound: frames that arrive and are given up nevertheless

Server == INSTANCE DashServer WITH c2s <- <<>>, s2c <- <<>>

ASSUME AccessPointAssumption ==
    /\ Clients \subseteq Nat \ {0}
    /\ TableSize \in Nat /\ AvgBandwidth \in Nat \ {0}
    /\ \A c \in Clients : Bitrates[c] \subseteq Nat /\ Bitrates[c] # {}
    /\ {MaxRepeats, MaxLosses, MaxAckLosses} \subseteq Nat

(* The sessions are those that DashSession shows to be completed: the      *)
(* video is on the server, and no segment of it is empty (it would be      *)
(* answered by no piece at all, and the client would wait for ever).       *)
ASSUME StreamAssumption ==
    /\ BwList \in Seq(Nat \ {0}) /\ BwList # <<>>
    /\ SegDuration \in Nat \ {0} /\ TotalDuration \in Nat /\ Payload \in Nat \ {0}
    /\ MediaPresent = TRUE
    /\ \A i \in DOMAIN BwList : Server!SegmentSize(BwList[i], SegDuration) > 0

VARIABLES
    client,       \* client[c]: the DashClientPlay of c (_dash_clients)
    client_set,   \* _client_set
    weight,       \* weight of c's bucket, in units of 1/AvgBandwidth
    proc,         \* running, exited, or undefined after erase(end())
    asked,        \* asked[c]: the requests of c so far
    passed,       \* passed[c]: has the last one passed the access point?
    sent,         \* sent[c]: how much of its response has passed
    got,          \* got[c]: the parts of it that c has received
    down,         \* down[c]: messages waiting for transmission to c
    owed,         \* owed[c]: segments without data the server will send
    repeats, losses, ackLosses,
    disturbed     \* disturbed[c]: has media for c been repeated or lost?

apVars == <<client, client_set, weight, proc>>
lossVars == <<losses, ackLosses>>
vars == <<apVars, asked, passed, sent, got, down, owed, repeats, lossVars, disturbed>>

-----------------------------------------------------------------------------
(* The sessions. A client asks for the ladder, the durations and then the  *)
(* segments one after the other (OneExchangeAtATime of DashSession).       *)

NextRequests(c) ==
    LET n == Len(asked[c])
    IN  IF n = 0 THEN {Server!MetaRequest}
        ELSE IF n = 1 THEN {Server!ItemRequest}
        ELSE IF n - 2 < Server!SegmentCount
        THEN {Server!MediaRequest(BwList[i], n - 2) : i \in DOMAIN BwList}
        ELSE {}

Answer(r) ==
    CASE r.type = "meta"  -> Server!send_m3u8meta_response(0)
      [] r.type = "item"  -> <<Server!M3U8Item>>
      [] r.type = "media" -> Server!send_media_data_response(r.bandwidth, r.segment_id)

Response(c) == IF asked[c] = <<>> THEN <<>> ELSE Answer(Last(asked[c]))

(* What c asked for after the two playlists. *)
MediaAsked(c) == SubSeq(asked[c], 3, Len(asked[c]))

Init == /\ client = [c \in Clients |-> NoRecord]
        /\ client_set = {}
        /\ weight = [c \in Clients |-> AvgBandwidth]
        /\ proc = "running"
        /\ asked = [c \in Clients |-> <<>>]
        /\ passed = [c \in Clients |-> TRUE]
        /\ sent = [c \in Clients |-> 0]
        /\ got = [c \in Clients |-> {}]
        /\ down = [c \in Clients |-> <<>>]
        /\ owed = [c \in Clients |-> 1]   \* the server's SYN
        /\ repeats = 0 /\ losses = 0 /\ ackLosses = 0
        /\ disturbed = [c \in Clients |-> FALSE]

-----------------------------------------------------------------------------
(* DashClientPlay. Its durations are not initialised; they are never used  *)
(* before the item sets them (ItemBeforeMedia), so 0 stands for that.      *)

NewClientPlay ==
    [bwqueue |-> <<>>, max_bandwidth |-> 0,
     segment_duration |-> 0, total_segments |-> 0, started |-> FALSE,
     requested |-> -1,                  \* _current_requested_segment_id
     received_seg |-> -1, received_ts |-> -1,
     transmitted_seg |-> -1, transmitted_ts |-> -1,
     transmitted_size |-> 0,            \* _transmitted_segment_size
     total_size |-> 0,                  \* _current_segment_total_size
     request_history |-> <<>>,          \* both histories: they are equal
     segments |-> 0,                    \* length of _seg_trans_history
     trend |-> "stable"]

update_request_trend(history, trend) ==
    LET n == Len(history)
    IN  IF n <= 1 THEN trend
        ELSE IF history[n] = history[n-1] THEN "stable"
        ELSE IF history[n] > history[n-1] THEN "up" ELSE "down"

(* A media request counts if it is for the next segment. *)
InSequence(d, r) == r.segment_id = Len(d.request_history)

RequestMedia(d, r) ==
    LET history == Append(d.request_history, r.bandwidth)
    IN  [d EXCEPT !.requested = r.segment_id,
                  !.request_history = history,
                  !.trend = update_request_trend(history, @),
                  !.total_size = Server!SegmentSize(r.bandwidth, d.segment_duration)]

(* process_request. *)
(* Mutant: an established record is replaced. *)
process_request_Replaces(c, r) ==
    /\ client' = [client EXCEPT ![c] =
                     IF r.type = "meta" THEN NewClientPlay
                     ELSE IF r.type = "media" /\ InSequence(@, r) THEN RequestMedia(@, r)
                     ELSE @]
    /\ UNCHANGED proc

process_request(c, r) ==
    LET d == client[c]
    IN  /\ client' = [client EXCEPT ![c] =
                         IF r.type = "meta" /\ d = NoRecord THEN NewClientPlay
                         ELSE IF r.type = "media" /\ d # NoRecord /\ InSequence(d, r)
                         THEN RequestMedia(d, r)
                         ELSE d]
        /\ proc' = IF r.type = "meta" /\ d = NoRecord /\ c >= TableSize
                   THEN "exited" ELSE proc

process_m3u8meta_data(d, m) ==
    IF m.program_id < 0 THEN d
    ELSE [d EXCEPT !.bwqueue = @ \o m.bwqueue,
                   !.max_bandwidth = IF m.bwqueue = <<>> THEN @ ELSE Last(m.bwqueue)]

process_m3u8item_data(d, m) ==
    [d EXCEPT !.segment_duration = m.segment_duration,
              !.total_segments = m.total_duration \div m.segment_duration,
              !.started = TRUE]

process_media_data(d, m) ==
    [d EXCEPT !.received_seg = IF m.segment_id > @ THEN m.segment_id ELSE @,
              !.received_ts = IF \/ m.segment_id > d.received_seg
                                 \/ m.transport_stream_id > @
                              THEN m.transport_stream_id ELSE @]

(* process_data for what comes from the server. *)
process_data(d, m) ==
    IF d = NoRecord THEN d
    ELSE CASE m.type = "meta"  -> process_m3u8meta_data(d, m)
           [] m.type = "item"  -> process_m3u8item_data(d, m)
           [] m.type = "media" -> process_media_data(d, m)

(* The first half of recv for a downstream packet, whatever it carries:    *)
(* update_client_number, update_underlying_bandwidth and                   *)
(* update_underlying_queue_weight.                                         *)
(* Mutant: a rate that has not been sampled becomes the weight. *)
Downstream_Unsampled(c) ==
    /\ client_set' = client_set \cup {c}
    /\ \E b \in Bitrates[c] : weight' = [weight EXCEPT ![c] = b]

Downstream(c) ==
    /\ client_set' = client_set \cup {c}
    /\ \E b \in Bitrates[c] :
           weight' = [weight EXCEPT ![c] = IF b <= 0 THEN AvgBandwidth ELSE b]

-----------------------------------------------------------------------------
(* process_transmitted_media_data: what a transmitted piece adds to the    *)
(* record d, and whether the segment is then taken to be complete.         *)

Counts(d, m) == m.transport_stream_id > d.transmitted_ts

Completes(d, m) ==
    Counts(d, m) /\ d.transmitted_size + m.media_packet_size >= d.total_size

(* Mutant: the bytes of a complete segment are not cleared. *)
Transmitted_KeepsSize(d, m) ==
    [d EXCEPT !.transmitted_seg = IF m.segment_id > @ THEN m.segment_id ELSE @,
              !.transmitted_ts = IF Completes(d, m) THEN -1
                                 ELSE IF Counts(d, m) THEN m.transport_stream_id ELSE @,
              !.transmitted_size = IF Counts(d, m) THEN @ + m.media_packet_size ELSE @,
              !.segments = IF Completes(d, m) THEN @ + 1 ELSE @]

Transmitted(d, m) ==
    [d EXCEPT !.transmitted_seg = IF m.segment_id > @ THEN m.segment_id ELSE @,
              !.transmitted_ts = IF Completes(d, m) THEN -1
                                 ELSE IF Counts(d, m) THEN m.transport_stream_id ELSE @,
              !.transmitted_size = IF Completes(d, m) THEN 0
                                   ELSE IF Counts(d, m) THEN @ + m.media_packet_size
                                   ELSE @,
              !.segments = IF Completes(d, m) THEN @ + 1 ELSE @]

LastSegment(d, m) == m.segment_id >= d.total_segments - 1

(* After the last segment the client leaves the set. Erasing one that is   *)
(* not there is undefined: it is only reported, and erase(end()) follows.  *)
(* Mutant: the client leaves at any piece of its last segment. *)
update_recv_AnyPiece(c, m) ==
    LET d      == client[c]
        media  == m.type = "media" /\ d # NoRecord
        leaves == media /\ LastSegment(d, m)
    IN  /\ client' = IF media THEN [client EXCEPT ![c] = Transmitted(d, m)] ELSE client
        /\ client_set' = IF leaves THEN client_set \ {c} ELSE client_set
        /\ proc' = IF leaves /\ c \notin client_set THEN "undefined" ELSE proc
        /\ UNCHANGED weight

update_recv(c, m) ==
    LET d      == client[c]
        media  == m.type = "media" /\ d # NoRecord
        leaves == media /\ Completes(d, m) /\ LastSegment(d, m)
    IN  /\ client' = IF media THEN [client EXCEPT ![c] = Transmitted(d, m)] ELSE client
        /\ client_set' = IF leaves THEN client_set \ {c} ELSE client_set
        /\ proc' = IF leaves /\ c \notin client_set THEN "undefined" ELSE proc
        /\ UNCHANGED weight

-----------------------------------------------------------------------------
(* Actions *)

(* The client has its response (before the first request, its connection)  *)
(* and sends the next request.                                             *)
Ask(c) == /\ asked[c] = <<>> => owed[c] = 0
          /\ got[c] = DOMAIN Response(c)
          /\ \E r \in NextRequests(c) : asked' = [asked EXCEPT ![c] = Append(@, r)]
          /\ passed' = [passed EXCEPT ![c] = FALSE]
          /\ sent' = [sent EXCEPT ![c] = 0]
          /\ got' = [got EXCEPT ![c] = {}]
          /\ UNCHANGED <<apVars, down, owed, repeats, lossVars, disturbed>>

(* recv of a request. It may come again until its response arrives; the    *)
(* server acknowledges the copy at once.                                   *)
RecvRequest(c) ==
    /\ asked[c] # <<>>
    /\ process_request(c, Last(asked[c]))
    /\ \/ ~passed[c] /\ UNCHANGED <<owed, repeats>>
       \/ /\ passed[c] /\ got[c] = {}
          /\ repeats < MaxRepeats /\ repeats' = repeats + 1
          /\ owed' = [owed EXCEPT ![c] = @ + 1]
    /\ passed' = [passed EXCEPT ![c] = TRUE]
    /\ UNCHANGED <<client_set, weight, asked, sent, got, down, lossVars, disturbed>>

(* recv of a downstream segment without data. *)
RecvPlain(c) ==
    /\ owed[c] > 0
    /\ owed' = [owed EXCEPT ![c] = @ - 1]
    /\ Downstream(c)
    /\ UNCHANGED <<client, proc, asked, passed, sent, got, down, repeats, lossVars, disturbed>>

(* recv of part i of a response. *)
Entry(c, i) == [exchange |-> Len(asked[c]), part |-> i, data |-> Response(c)[i]]

RecvPart(c, i) ==
    /\ Downstream(c)
    /\ client' = [client EXCEPT ![c] = process_data(@, Response(c)[i])]
    /\ down' = [down EXCEPT ![c] = Append(@, Entry(c, i))]
    /\ UNCHANGED <<proc, asked, passed, got, owed, lossVars>>

RecvNext(c) ==
    /\ passed[c] /\ sent[c] < Len(Response(c))
    /\ RecvPart(c, sent[c] + 1)
    /\ sent' = [sent EXCEPT ![c] = @ + 1]
    /\ UNCHANGED <<repeats, disturbed>>

Lost(c, i) == i \notin got[c] /\ \A k \in DOMAIN down[c] : down[c][k] # Entry(c, i)

RecvRetransmitted(c) ==
    \E i \in 1..sent[c] :
        /\ RecvPart(c, i)
        /\ \/ Lost(c, i) /\ UNCHANGED repeats
           \/ ~Lost(c, i) /\ repeats < MaxRepeats /\ repeats' = repeats + 1
        /\ disturbed' = [disturbed EXCEPT ![c] = @ \/ Response(c)[i].type = "media"]
        /\ UNCHANGED sent

(* The client receives what arrives of the response it waits for. *)
Arrives(c, e) ==
    got' = IF e.exchange = Len(asked[c]) THEN [got EXCEPT ![c] = @ \cup {e.part}] ELSE got

(* The station acknowledges the frame, and the MAC calls update_recv. *)
Transmit(c) ==
    /\ down[c] # <<>>
    /\ down' = [down EXCEPT ![c] = Tail(@)]
    /\ update_recv(c, Head(down[c]).data)
    /\ Arrives(c, Head(down[c]))
    /\ UNCHANGED <<asked, passed, sent, owed, repeats, lossVars, disturbed>>

(* The MAC gives the frame up after its last retry: it never arrived, or   *)
(* it did and its acknowledgements were lost.                              *)
GiveUp(c) ==
    /\ down[c] # <<>>
    /\ down' = [down EXCEPT ![c] = Tail(@)]
    /\ disturbed' = [disturbed EXCEPT ![c] = @ \/ Head(down[c]).data.type = "media"]
    /\ UNCHANGED <<apVars, asked, passed, sent, owed, repeats>>

Lose(c) == /\ GiveUp(c)
           /\ losses < MaxLosses /\ losses' = losses + 1
           /\ UNCHANGED <<got, ackLosses>>

LoseAck(c) == /\ GiveUp(c)
              /\ ackLosses < MaxAckLosses /\ ackLosses' = ackLosses + 1
              /\ Arrives(c, Head(down[c]))
              /\ UNCHANGED losses

Done == \A c \in Clients : /\ NextRequests(c) = {} /\ got[c] = DOMAIN Response(c)
                           /\ down[c] = <<>> /\ owed[c] = 0

Terminated == (Done \/ proc # "running") /\ UNCHANGED vars

Next ==
    \/ /\ proc = "running"
       /\ \E c \in Clients :
              \/ Ask(c) \/ RecvRequest(c) \/ RecvPlain(c)
              \/ RecvNext(c) \/ RecvRetransmitted(c)
              \/ Transmit(c) \/ Lose(c) \/ LoseAck(c)
    \/ Terminated

Spec == Init /\ [][Next]_vars

-----------------------------------------------------------------------------
ClientPlay ==
    [bwqueue : Seq(Nat), max_bandwidth : Nat, segment_duration : Nat,
     total_segments : Nat, started : BOOLEAN, requested : Int,
     received_seg : Int, received_ts : Int, transmitted_seg : Int, transmitted_ts : Int,
     transmitted_size : Nat, total_size : Nat, request_history : Seq(Nat),
     segments : Nat, trend : {"stable", "up", "down"}]

ASSUME RecordAssumption == NoRecord \notin ClientPlay

(* Weights stay positive, or set_weight_direct would end the process. *)
TypeOK ==
    /\ client \in [Clients -> ClientPlay \cup {NoRecord}]
    /\ client_set \subseteq Clients
    /\ weight \in [Clients -> Nat \ {0}]
    /\ proc \in {"running", "exited", "undefined"}
    /\ \A c \in Clients :
           /\ asked[c] \in Seq(Server!Request)
           /\ passed[c] \in BOOLEAN
           /\ sent[c] \in 0..Len(Response(c))
           /\ got[c] \subseteq 1..sent[c]
           /\ owed[c] \in Nat
           /\ down[c] \in Seq([exchange : Nat, part : Nat, data : Server!Response])
           /\ disturbed[c] \in BOOLEAN
    /\ repeats \in 0..MaxRepeats
    /\ losses \in 0..MaxLosses /\ ackLosses \in 0..MaxAckLosses

Records == {c \in Clients : client[c] # NoRecord}

(* The recorded history is what the client really asked for, in its order, *)
(* each segment once, although requests are retransmitted; only a request  *)
(* still on its way is missing. The size expected of the current segment   *)
(* and the ladder fit: the durations were known when it was computed, and  *)
(* no bandwidth "is not recorded" (process_request).                       *)
HistoryIsWhatWasAsked ==
    \A c \in Clients :
        LET all  == [i \in 1..Len(MediaAsked(c)) |-> MediaAsked(c)[i].bandwidth]
            seen == IF passed[c] \/ all = <<>> THEN all ELSE Front(all)
        IN  IF c \notin Records THEN seen = <<>>
            ELSE LET d == client[c]
                 IN  /\ d.request_history = seen
                     /\ Range(seen) \subseteq Range(d.bwqueue)
                     /\ seen # <<>> => /\ d.requested = Len(seen) - 1
                                       /\ d.total_size =
                                              Server!SegmentSize(Last(seen), SegDuration)

(* Segments whose pieces have all been transmitted to c. *)
WhollyTransmitted(c) ==
    LET n == Len(MediaAsked(c))
    IN  IF n = 0 THEN 0 ELSE IF got[c] = DOMAIN Response(c) THEN n ELSE n - 1

(* "check if all packets in the current segment has been transmitted"      *)
(* (process_transmitted_media_data): the history of transmitted segments   *)
(* has one entry for each segment that has been, and for no other.         *)
TrackingExact ==
    \A c \in Records : client[c].segments = WhollyTransmitted(c)

(* It is so for every client whose own media was neither repeated nor      *)
(* lost, whatever happens to the playlists and to the other clients.       *)
TrackingExactInOrder ==
    \A c \in Records : ~disturbed[c] => client[c].segments = WhollyTransmitted(c)

(* A client for which media waits is in the set, until that has been       *)
(* transmitted; and as long as no media was repeated or lost, no client is *)
(* removed that is not there.                                              *)
ClientsWithMediaKnown ==
    /\ \A c \in Clients :
           ~disturbed[c] /\ (\E k \in DOMAIN down[c] : down[c][k].data.type = "media")
               => c \in client_set
    /\ proc = "undefined" => \E c \in Clients : disturbed[c]

=============================================================================
