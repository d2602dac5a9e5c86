# TLA+ verification of the DASH extension of ns-2.35

The repository is a copy of the ns-allinone distribution extended by a simulator
of DASH video streaming over 802.11. The extension is what is verified here:
clients and a server that exchange HTTP-like messages over a modified FullTcp
(`src/ns-2.35/dash/`), the interface queue of the access point
(`dashpriqueue.*`), and the access point's link layer
(`src/dei80211mr-1.1.4/src/dashll/`). The rest (ns-2 itself, Tcl/OTcl, nam,
xgraph, zlib, ...) is vendored.

The simulator is single-threaded and event-driven. What makes it hard is the
order of events: message deliveries, two timers per client, packet arrivals and
MAC callbacks interleave in an order that depends on simulated delays, and each
handler relies on another one to schedule the next event. In the models a
handler run to its end is one action and delays are abstracted, so every order
of pending events is explored.

## Inventory

| Part | State | Operations | Interacts with | What makes it correct |
|---|---|---|---|---|
| `DashHttpClient` and 7 subclasses (`dashclient.*`) | protocol state, ladder, current request, cache of segments, play position, freeze/quality statistics, download and play timers | `start`, `recv` (meta, item, media), `timeout_download`, `timeout_play`, `stop` | server through its agent; scheduler through the timers; all clients through the global `client_number` | plays every segment once and in order, cache bounded, no wake-up lost, statistics match what was played, `stop` once |
| bandwidth selection (in `dashclient.cc`) | none | `best_matching_`, `higher_`, `lower_`, `next_higher_bandwidth` | client | result is offered, and within the user's bounds |
| `DashHttpServer` (`dashserver.*`) | list of videos | `recv`: meta, item and media responses cut into pieces | client | pieces add up to the segment |
| messages (`media.*`) | - | constructors | all | a missing medium is recognisable |
| `DHttpAgent` (`httpagent.*`, on `tcp/tcp-full.cc`) | three queues of application messages next to FullTcp's byte counters: not sent, not acknowledged, received behind a hole | `sendmsg`, `recv`, `foutput`/`sendpacket`, `newack`, timeout, fast retransmit | applications, TCP of the peer | segments and messages coincide; in-order delivery without loss |
| `DashPriQueue` (`dashpriqueue.*`) | main queue, sub-queue per destination bucket, ring of active sub-queues, deficits, virtual times, `blocked_` | `recv`, `resume`, four selection policies, random drop at the limit | link layer above, MAC below (`resume` is its callback) | sub-queues mirror the main queue, never idle with a backlog, no starvation, order per flow |
| `DashLL` (`DashLL.*`), `DashClientPlay` (`media.cc`) | a record per client: its ladder, requests, transmitted segments, trend | reads the packets it forwards in both directions, is told of transmissions (`update_recv`), sets queue weights, `select_packet` | queue, MAC, the sessions it observes | request history = what was asked; transmitted segments recorded exactly once; clients with traffic known |
| `Mac802_11mr` | 802.11 state machine | transmit, retry, `resume` callback | queue | third-party; environment here |

Behaviours that a test would hardly reach are listed, each at its line, under
`hazards` in `PROJECT.json`: the mutual re-arming of the two client timers,
segments that TCP cuts again after a timeout, pieces delivered twice,
the double advance of the round-robin pointer, the drop of a random packet, the
eligibility rule of WF2Q+, and others.

## Modules

* `RateSelect`: the four selection functions and the initial choice, as
  operators on a ladder. The scan loop of `best_matching_bandwidth` is given by
  the set of entries it accepts.
* `DashMedia`: media constants, the messages, and the two streams `c2s`, `s2c`.
* `DashServer`: `ServerRecv`, one request answered at once. `send` becomes
  `PieceCount`/`PieceSize`. The default `VideoDescription` is never
  initialised, hence the choice in `ProgramIds` when the medium is missing.
* `DashClient`: one action per handler. `Kind` is the class; the classes differ
  in `DownloadMore` (threshold 4, AIMD's idle time, or never for the base class),
  in `WaitForMore` and in `change_requested_bandwidth`. A timer is `idle` or
  `pending`: `sched` on a pending timer aborts, `resched` does not.
  `playHistory` is what the client writes to `play_history_<addr>.txt`.
  `proc` records that the process ended by `exit` (`Log(FATAL)`) or `abort`.
* `DashSession`: client + server + streams. The streams are what a connected
  pair of `DHttpAgent`s gives the applications. They are reliable FIFOs, except
  that `addtoReceiveQueue` does not recognise a TCP segment it already holds, so a
  media piece may be delivered twice in a row (`DeliverDuplicate`, at most
  `MaxDups` times).
* `Streams`: the abstract specification of a connection: in each direction messages
  arrive in the order sent, none is lost, and only a media piece may be handed over
  again, its copies in a row. This is what `DashSession` assumes.
* `HttpAgent`: `DHttpAgent` as operators on a record of its fields. `Datalen` is the
  computation of `foutput`, which cuts segments from a byte count; `sendpacket`
  then looks for a message of that length in `appq` (new) or `waitq` (sent before)
  and ends the process (`fatal`) if there is none. `reass` is the reassembly queue
  of FullTcp, `addtoReceiveQueue` and `findReceivedData` the agent's own. `Kept` is what
  is left of a queue when entries are erased.
* `HttpConnection`: two agents, a path that keeps the order and loses packets, and the
  applications reduced to request and response. Each `foutput` of the loop in
  `send_much` and each hand-over of the loop in `findReceivedData` is a step, because an
  application may send from inside its `recv`; no packet is received in between.
* `DashLL`: the access point. `client[c]` is the `DashClientPlay` of a client. The
  actions are `recv` of a request, of a part of a response (new or retransmitted) and of a
  segment without data, and the MAC's two outcomes: `Transmit` (`update_recv`) and
  `Lose`/`LoseAck`. The sessions around it ask one thing at a time, and
  the server's answers are those of `DashServer` (INSTANCE).
* `DashPriQueue`: the queue's fields in one record `q`; the methods are operators
  on that record, `recv` and `resume` the two actions. The circular list is a
  sequence read from `rr_cur` on. The DRR loop is given in closed form: the
  bucket whose deficit first covers its packet, and the number of visits of each
  bucket until then. `MaxNumFlows`, `MaxClock` and `Ids` are bounds.
* `MCDashSession`, `MCDashPriQueue`, `MCHttpConnection`, `MCDashLL`: values for the
  constants.
* `RateSelect_proofs` (the selection functions), `DashSession_proofs` (types and playback
  order), `DashBuffer_proofs` (cache and wake-ups), `DashPlayback_proofs` (statistics and
  `stop`), `DashExchange_proofs` (bounds, fatal errors, one exchange at a time),
  `DashLL_proofs`, `DashPriQueue_proofs`, `HttpConnection_proofs`: the proofs.

Operators named `X_Something` just before `X`, marked *Mutant*, are plausible
wrong versions of `X`, used to show that a property notices them. No
specification refers to them.

## Abstractions

* The rate a client measures is an arbitrary member of `Rates`, since it depends
  on the network; averaging classes compute another arbitrary rate. AIMD's three
  branches are kept. A download takes positive simulated time, so a rate is
  always measured (`calculate_bandwidth` has a branch for a duration of 0 that
  cannot occur with links that have a delay).
* Bandwidths are small numbers; with `SegDuration = 8` a segment has as many bytes
  as its bandwidth, and `Payload = 2` gives segments of one, two and three pieces.
  `BoundGap` stands for the 512000 of `process_m3u8item_data`.
* Names, URLs, log lines, traces and the statistics that need a clock are left out.
* Connection: it is established, sequence numbers count from the first data byte. The
  window is an arbitrary number of segments at each `foutput`, Nagle's rule, burst limit
  and the threshold of duplicate ACKs are arbitrary choices, so every behaviour of
  FullTcp's congestion control is included. Without SACK and ECN (off by default).
  `WholeMessages` therefore does not depend on the window; it depends on the client
  asking for one thing at a time, which `session_threshold` checks (`OneExchangeAtATime`).
* Access point: the packets for one client leave in the order they came, which is
  `FlowOrder` of the queue. A late copy may be transmitted after the next request has
  passed. Erasing a client that is not in the set is undefined in the code, and the
  model stops there. The MAC's bit rate is an arbitrary value per client, 0 before its
  first sample; weights are counted in units of 1/20000.
* Queue: packet sizes and weights are chosen so that the virtual times of WF2Q+ are
  integers (`WeightAssumption`); weights do not change; `unblock_on_resume_` is 1
  and `qib_` 0, their defaults. A packet buffer that is still referred to is not
  reused, so a packet left behind by a wrong drop stays recognisable: the number of buffers
  bounds the number of wrong drops.

## Runs that pass

| Run | Instance | Shows |
|---|---|---|
| `session_threshold` | Android client, 6 segments, 3 bandwidths, `PlayAfter` 3, 2 duplicates | `TypeOK`, `PlaybackContiguous`, `OneExchangeAtATime`, `NoLostWakeup`, `BufferBound`, `FreezeAccounting`, `QualityAccounting`, `NoFatal`, `StopsOnce` |
| `session_aimd` | AIMD, 7 segments, `MinBuffer` 20 s, ladder of 4 with bounds inside it, rates from 0 | `NoLostWakeup` and `BufferBound` with the idle-time rule, `BoundsRespected` |
| `session_live` | VLCHLS, 5 segments, `PlayAfter` 4, one duplicate, fairness | `Completes`, `FreezeEnds` |
| `queue_fifo` | FIFO, limit 4, 7 buffers of one size, up to 3 wrong drops, no routing packets | `TypeOK`, `RingMatchesBacklog`, `WorkConserving`, `BelowLimit` |
| `queue_rr` | RR, priority bucket and 2 flows, below the limit | `SubqueuesMirrorMain`, `NoAbort`, `FlowOrder` |
| `queue_drr` | DRR, packets smaller and larger than the quantum, fairness of the MAC | `SubqueuesMirrorMain`, `BytesMatchSubqueue`, `DeficitBounded`, `NoStarvation` |
| `connection` | 2 exchanges (playlist, or media of 3 segments), window up to 3, 3 packets in flight, 2 losses, 1 early retransmission, fairness | `TypeOK`, `NoFatal`, `WholeMessages`, `WaitingTiled`, `RecvqMatchesTcp`, refinement `ImplementsStreams`, `EventuallyDelivered` |
| `access_point` | 2 clients, 2 segments of 1 or 2 pieces, 1 repetition, 1 lost frame, 1 lost acknowledgement | `TypeOK`, `HistoryIsWhatWasAsked`, `TrackingExactInOrder`, `ClientsWithMediaKnown` |

Six segments are enough for a client to fill its cache (4), drain it completely,
freeze, fill it again and finish; three bandwidths allow a step up, a step down
and two steps; two duplicates may hit the same piece or two pieces of a segment.
For the queue, two flows with two packets each reach every shape of the ring
that the policies distinguish (empty, single, two with `rr_cur` at either), and
four buffers fill the queue to its limit of 4 with one packet at the MAC, and each of the
other three can be left behind by a drop (none of the properties of `queue_fifo` depends on
sizes, so there is one); the starvation of round robin needs a third flow.

For the connection, three segments and a window of three allow a hole before, between
and behind received segments; a piece is handed over twice only if two packets are lost
(the first of the response and, after the timeout, its retransmission), which is why
`MaxLosses` is 2. Two exchanges let a late copy of the first meet the second. At the
access point two segments are enough for a late piece of one to be counted for the
next, and for the last one to be completed twice; segments of one and two pieces make
either the larger.

## Runs that find a disagreement

| Run | Code | Statement it contradicts |
|---|---|---|
| `queue_drop` | the drop removes the wrong packet from the victim's sub-queue | "remove this packet pointer from the queue" |
| `queue_rr_starve` | `rr_cur` is advanced twice when a bucket empties | "packet fairness" |
| `queue_wf2q` | no bucket eligible although packets wait | "We're not blocked. Get a packet and send it on." |
| `access_point_loss` | a piece retransmitted after a lost frame is not counted, so its segment is never recorded | "check if all packets in the current segment has been transmitted" |

`queue_fifo` shows what survives the drop: packet counters and ring stay right,
because they count packets and not bytes, and FIFO takes packets from the main
queue. `access_point` shows what survives at the access point: the request history
always, and the tracking of every client whose own media was neither lost nor repeated.
After a loss the tracking of a client may stay wrong for the rest of its session; a
late copy of the last segment can make the access point remove a client twice.

## Refinement

`ImplementsStreams` maps a connection to `Streams`. The stream towards an end consists of
the messages in its receive queue that are being handed over, then what the peer has
sent and TCP has not received, then what the peer has yet to send. The copies of
a segment that were queued behind the same hole count once, so the second hand-over is
`DeliverDuplicate`. Only media can be queued twice: a request or a playlist is alone in its
stream, so it is never received behind a hole.

## Fairness

`FairSpec` of `HttpConnection` has weak fairness of sending, receiving, handing over and
of the retransmission timer, for each end: the scheduler dispatches every event, and
the timer is pending while bytes are not acknowledged. The path is not fair: it may
lose any packet, up to `MaxLosses`. Early retransmissions and new requests are not required.

`FairSpec` of `DashSession` has weak fairness of the scheduled start, of each
delivery and of each timer: the ns-2 scheduler dispatches every event in its queue,
and the agents deliver what is sent (`EventuallyDelivered`). A duplicate delivery is never
required. For the queue, only `resume` is fair: the MAC ends every transmission
with an acknowledgement or after its last retry and then calls back; arrivals
are not required. `FairSpecUnfolded` states the same formula with `ENABLED
resume` replaced by what it is equivalent to, `mac # NoPacket`.

## What is proved

For every value of the constants allowed by the `ASSUME`s (any ladder of positive
bandwidths, any durations, any piece size, any class, any `_play_after`, any bounds,
any measured rates, any number of duplicates):

* `TypeCorrect`: `Spec => []TypeOK`, and `PlaybackInOrder`:
  `Spec => []PlaybackContiguous`. Neither is inductive: the client trusts the
  pieces it gets, so the invariant `SessionInv` adds what can be in the streams
  (`GoodChannels`: no request or piece is ahead of the segment being asked for),
  that nothing has moved before streaming (`NotStarted`), and that client and
  server agree on the durations afterwards (`Started`, `LadderKnown`). The key step
  is that a completed segment was asked for and is the one after the cache.
* `BufferBounded` and `WakeupNeverLost`, for the classes with fixed thresholds and for
  AIMD on an ascending ladder with a positive segment duration (`Paced`). `BufferInv` adds how cache and timers are tied:
  until playback starts the two timers alternate (`TimersAlternate`), and a
  download is under way only if there is room for its segment, for two if
  the timer has been re-armed meanwhile (`RoomForDownload`). Without the
  latter the bound is not inductive, since the thresholds are tested when a download
  starts and not when it ends. AIMD compares the cache with an idle time computed from the
  requested bandwidth instead; `DownloadRule` turns this into the limit `LargestCache`. It
  needs that only offered bandwidths are requested, hence `LadderInv` of
  `DashExchange_proofs`.
* `BoundsHonoured`: on an ascending ladder with an entry within the bounds
  every request is within them. `LadderInv` carries the fact through the streams,
  since the client adopts the bandwidth of the pieces it receives. It rests on the
  lemmas of `RateSelect_proofs` about what the selection functions return.
* `FreezesAccounted`, `QualityCounted` and `StopsOnlyOnce`, for a medium that is on the server
  (`MediaPresent`; otherwise `stop()` is called and the process ends). `PlaybackInv` ties
  the statistics to the play history and the play timer: between two segments the timer is
  pending or a freeze is open, and `stop()` clears what would call it again.
* `NothingFatal`: no handler reaches one of its `exit`s or the `abort()` of a timer that is
  scheduled twice, if the medium is there with at least one segment, the bounds are legal,
  the class is not the abstract one and measured rates are positive (`Streamable`; each
  condition excludes one exit that the code really has). `PhaseInv` says which message may
  come and which timer may be pending in each protocol state.
* `OneExchange`: downloads are never pipelined. `ExchangeInv` adds that the streams hold
  either the one request, or exactly the pieces that are still expected, plus copies of
  the last one delivered. It needs segments that are not empty (`NoEmptySegment`): for an
  empty one the server sends nothing, and the client waits for ever.

Access point, for any number of clients, segments, repetitions and losses:

* `AccessPointTyped`, `HistoryIsExact`, `TrackingIsExact` and `MediaClientsKnown`. The
  invariant `Inv` has one part per client (`Session`: what was asked, what the record says
  and what waits agree; `Tracked`: a client whose media was neither lost nor repeated has
  counted `x` pieces of the current segment, and the pieces from `x + 1` on wait in
  order), so that a step for one client leaves the parts of the others alone, and says
  that `erase(end())` is only reached after a disturbance. `StreamAssumption` (positive
  bandwidths, durations and piece size) excludes empty segments, which the access point
  would never see completed.

Queue, for any number of buckets, buffers and sizes, any limit, quantum and weights:

* `QueueBelowLimit`, for every policy, with and without drops. It needs nothing of the
  ring or the sub-queues, only that no selection touches the main queue.
* `QueueTyped`, `NeverAborts` and the action property `KeepsFlowOrder`, where `Covered`
  holds: any of the four policies, and with drops only FIFO without routing packets.
  `RingIsExact` and `QueueWorkConserving` also exclude WF2Q+, which leaves empty buckets
  linked and can leave packets waiting. `SubqueuesMirror`, `ByteCountsMatch` and
  `CreditBounded` hold without drops, for all four policies. What is excluded really fails,
  as `queue_drop` and `queue_wf2q` show.
  The inductive invariant `QueueInv` consists of `Counted` (the packet counters are those of
  the main queue), `Linked` (ring and `num_flows` are those of the buckets with packets;
  under WF2Q+ only `Activations`, that `num_flows` is positive while a routing packet waits),
  `Mirror` (each sub-queue is the main queue restricted to its bucket), `Deficits`,
  `ByteCounts` and, but for WF2Q+, `WorkConserving`. `Linked` and `Mirror` need each other:
  the selections take the front of a list because the ring says that there is one. `Deficits` is stronger than `DeficitBounded`: the credit of a bucket whose turn it
  is not is below the size of the packet at its front. That the loop of DRR keeps it follows from
  three facts about the closed form (`VisitsNeededIs`, `VisitCount`, `LoserVisits`): a
  bucket with packets needs finitely many visits, the served one gets as many as it
  needs, every other one fewer. `ByteCounts` speaks of a sum over a sequence, which is a
  recursive function; what appending and removing an element do to it is shown by
  looking at the smallest index for which it would fail.
  WF2Q+ never looks at the ring: a bucket is eligible only if its byte count is not 0, so
  `ByteCounts` is what makes the front of its list exist. The bucket that is served is the
  earliest of a finite set (`EarliestExists`). The clock advances by a quotient by the sum of
  the weights, a fold over a set: that it is a number for every set of buckets
  (`SumTyped`) is shown by looking at a smallest set for which it would not be. No passing
  run has WF2Q+; the instance of `queue_wf2q` with `MaxNumFlows` and `MaxClock` 4 and routing
  packets (757,000 states, those without an eligible bucket included) satisfies
  `BytesMatchSubqueue`, `NoAbort` and `FlowOrder`.

Connection, for any segment size, responses, window, bounds and losses:

* `ConnectionInvariant`: in every reachable state there are two flows, one per direction,
  from which counters, queues and packets can be computed (`Sender`, `Link`). A flow is one
  batch of messages: what an application hands over at once, all but the last as long as a
  segment. So segments and messages have the same edges, also when TCP cuts them again
  after a timeout. An application only sends when the batch before is acknowledged,
  because the packet that made it send carried the acknowledgement. `Phase` says
  where the exchange is: nothing is outstanding (`Idle`), the request is on its way
  (`Asking`), or the response is (`Answering`). The receive queue of the client holds
  messages being handed over and messages behind a hole whose bytes are those of TCP's
  reassembly queue (`Queued`); copies of the last piece of a response may stay there
  until the next one begins (`OldCopies`).
* From it `TypeCorrect`, `NeverFatal`, `MessagesStayWhole`, `WaitingQueueTiles` and
  `ReceiveQueueMatchesTcp`.
* `ConnectionImplementsStreams`, the refinement: a new request maps to `Send`, a message that
  arrives in order to `Deliver` (the server's answer extends the other stream in the same
  step), a hand-over from the receive queue to `Deliver` or `DeliverDuplicate`, everything
  else to a stutter. `View` gives the stream of an end in terms of its flow.

Two statements changed because their proofs failed. A deficit is below the largest packet
only between turns; during a turn the bound is the quantum, which may be larger than every packet
(the instance had a small quantum). And the tracking of the access point is exact only
if no segment is empty.

Only model-checked: liveness (`Completes`, `FreezeEnds`, `NoStarvation`,
`EventuallyDelivered`), since fairness and `ENABLED` are out of the prover's reach. Every
other property of the passing runs is a theorem.

## Not modelled

* Of the extension: `ReadVideoListFile` (file parsing), logs and traces, the numeric
  estimators of the clients, weight changes while WF2Q+ runs, `select_packet_atrr` (never
  called), `DashLL::change_requested_bandwidth` with the methods of `DashClientPlay` it uses
  (its only call is commented out), opening and closing of connections (no session closes
  its connection).
* Of a client: `start()` without an agent or a medium, or called twice, and data in
  `process_data` that is none of the three responses. All are `Log(DASH_LOG_FATAL)` or
  `Log(DASH_LOG_ERROR)` on a wrong configuration of the Tcl script; `start` is the call of a client
  that is set up.
* The base class `DashHttpClient` used directly aborts at its first complete segment
  (`dashclient.cc:838`), and the answer for a missing medium carries an uninitialised
  `_program_id` (`media.cc:13`). Both are in the model (`Kind = "DashClient"`,
  `ProgramIds`); no run uses them, since there is nothing to check beyond the one step.
* The MAC, and the vendored parts: ns-2 itself, Tcl/Tk, OTcl, tclcl, nam, xgraph, zlib and
  the others are more than 99 % of the lines of the repository. They are general-purpose
  libraries with projects of their own, mostly generated, graphical or parsing code; of
  ns-2 the parts that the extension's behaviour rests on (FullTcp's timeout and reassembly,
  timers, the scheduler) are modelled as far as it uses them.

## Plan

The rate estimators as functions, with integer widths; WF2Q+ with weights that change.
