----------------------------- MODULE VideoQueue -----------------------------
(***************************************************************************)
(* The synthetic V4L2 decoder of the streaming client: video-bridge.cpp,   *)
(* preloaded into the player, and the MediaCodec session of                *)
(* video_bridge.cpp behind its socket.  The player's threads call ioctl()  *)
(* under the mutex of the Device; one worker takes the encoded packets,    *)
(* exchanges them with Android without the mutex, and puts the pictures    *)
(* into the capture buffers the player has queued.                         *)
(*                                                                         *)
(* A packet is the input buffer it came in, its time stamp and the picture *)
(* size of the sequence header in it (0: none).  Sizes stand for widths    *)
(* and heights, a capture buffer's length for the size it can hold.  Left  *)
(* out: pixels, formats, mappings, discovery and the passing of descriptors.*)
(***************************************************************************)
EXTENDS Naturals, Sequences, FiniteSets

CONSTANTS
  Inputs,      \* indices of the encoded buffers
  Captures,    \* indices of the capture buffers: 0 .. count - 1
  Sizes,       \* picture sizes
  Modes,       \* how the device is opened
  MaxPackets,  \* bound on the packets, which the time stamps count
  MaxPending,  \* 2 * Slots
  MaxOffs      \* bound on the times a queue is switched off

ASSUME VideoBounds ==
  /\ MaxPackets \in Nat /\ MaxOffs \in Nat
  /\ MaxPending \in Nat \ {0}
ASSUME DataAssumption ==
  /\ Captures \subseteq Nat /\ Inputs \subseteq Nat
  /\ Sizes \subseteq Nat \ {0}
  /\ Modes \subseteq {"stateless", "h264", "hevc"}

VARIABLES
  \* the device
  mode, size, outputOn, captureOn, stopping, failed, sourceKnown, sourceChange,
  packets, completed, pendingStamps, capture, sequence,
  event,     \* the eventfd is readable
  \* the worker: where it is, the packet it exchanges, the answer it keeps
  worker, hand, answer,
  \* Android: the stamps MediaCodec holds and the size it decodes to
  inside, decoded,
  \* the player: whether it has the device open, its input buffers, the stamp
  \* of its last packet, the frame it was last given, how often it switched off
  device, mine, stamp, shown, offs,
  \* history: the output queue was switched off around a packet in exchange
  stale

settings == <<mode, device, stopping>>
streams == <<outputOn, captureOn>>
source == <<size, sourceKnown, sourceChange>>
queues == <<packets, completed, capture>>
android == <<inside, decoded>>
player == <<mine, stamp, shown, offs, stale>>
videoVars == <<settings, streams, source, queues, failed, pendingStamps, sequence, event,
          worker, hand, answer, android, player>>

Stamps == 1 .. MaxPackets
Packets == [index : Inputs, stamp : Stamps, header : Sizes \cup {0}]
NoPacket == [index |-> 0, stamp |-> 0, header |-> 0]
Buffers == [queued : BOOLEAN, frame : 0 .. MaxPackets, length : Sizes \cup {0}]
Answers == [kind : {"accepted", "format"}, stamp : {0}, size : Sizes \cup {0}]
           \cup [kind : {"frame"}, stamp : Stamps, size : Sizes \cup {0}]
Accepted == [kind |-> "accepted", stamp |-> 0, size |-> 0]

stateful == mode \in {"h264", "hevc"}

VideoTypeOK ==
  /\ mode \in Modes
  /\ size \in Sizes \cup {0}
  /\ outputOn \in BOOLEAN /\ captureOn \in BOOLEAN
  /\ stopping \in BOOLEAN /\ failed \in BOOLEAN
  /\ sourceKnown \in BOOLEAN /\ sourceChange \in BOOLEAN
  /\ packets \in Seq(Packets)
  /\ completed \in Seq(Inputs)
  /\ pendingStamps \subseteq Stamps /\ Cardinality(pendingStamps) <= MaxPending
  /\ capture \in [Captures -> Buffers]
  /\ sequence \in 0 .. MaxPackets
  /\ event \in BOOLEAN
  /\ worker \in {"none", "sequence", "connect", "loop", "exchange", "format", "ending", "done"}
  /\ hand \in Packets \cup {NoPacket}
  /\ hand # NoPacket => worker = "exchange"
  /\ answer \in Answers
  /\ answer # Accepted <=> worker = "format"
  /\ inside \in Seq(Stamps)
  /\ decoded \in Sizes \cup {0}
  /\ device \in {"open", "closing", "closed"}
  /\ device = "closing" <=> stopping
  /\ mine \subseteq Inputs
  /\ stamp \in 0 .. MaxPackets /\ shown \in 0 .. MaxPackets /\ offs \in 0 .. MaxOffs
  /\ stale \in BOOLEAN

\* No device is open.
VideoInit ==
  /\ mode \in Modes /\ size = 0 /\ device = "closed"
  /\ outputOn = FALSE /\ captureOn = FALSE /\ stopping = FALSE /\ failed = FALSE
  /\ sourceKnown = FALSE /\ sourceChange = FALSE
  /\ packets = <<>> /\ completed = <<>> /\ pendingStamps = {} /\ sequence = 0
  /\ capture = [i \in Captures |-> [queued |-> FALSE, frame |-> 0, length |-> 0]]
  /\ event = FALSE
  /\ worker = "none" /\ hand = NoPacket /\ answer = Accepted
  /\ inside = <<>> /\ decoded = 0
  /\ mine = Inputs /\ stamp = 0 /\ shown = 0 /\ offs = 0
  /\ stale = FALSE

-----------------------------------------------------------------------------
(* Shared by the worker and the calls.                                     *)

\* Device::ready: is there anything to tell the player?
Ready == \/ failed \/ sourceChange \/ completed # <<>>
         \/ \E i \in Captures : capture[i].frame # 0

\* signal(): the eventfd is brought in line with ready().
Signal == event' = (stateful /\ Ready')

QueuedCaptures == {i \in Captures : capture[i].queued}
ReadyCaptures == {i \in Captures : capture[i].frame # 0}
Oldest(s) == CHOOSE i \in s : \A j \in s : capture[i].frame <= capture[j].frame
First(s) == CHOOSE i \in s : \A j \in s : i <= j

-----------------------------------------------------------------------------
(* The player's calls.                                                     *)

\* open(): a stateful device has a size of its own until it knows its source.
Open ==
  /\ device = "closed"
  /\ device' = "open"
  /\ mode' \in Modes
  /\ size' \in IF mode' = "stateless" THEN Sizes ELSE {0}
  /\ UNCHANGED <<stopping, streams, sourceKnown, sourceChange, queues, failed, pendingStamps,
                 sequence, event, worker, hand, answer, android, player>>

\* close(): stop() tells the worker, shuts the socket down and joins it.
CloseDevice ==
  /\ device = "open"
  /\ device' = "closing" /\ stopping' = TRUE
  /\ UNCHANGED <<mode, streams, source, queues, failed, pendingStamps, sequence, event,
                 worker, hand, answer, android, player>>

\* The last reference to the Device goes with the worker.
CloseReturns ==
  /\ device = "closing" /\ worker \in {"none", "done"}
  /\ device' = "closed"
  /\ size' = 0 /\ stopping' = FALSE /\ failed' = FALSE
  /\ outputOn' = FALSE /\ captureOn' = FALSE
  /\ sourceKnown' = FALSE /\ sourceChange' = FALSE
  /\ packets' = <<>> /\ completed' = <<>> /\ pendingStamps' = {} /\ sequence' = 0
  /\ capture' = [i \in Captures |-> [queued |-> FALSE, frame |-> 0, length |-> 0]]
  /\ event' = FALSE /\ worker' = "none"
  /\ inside' = <<>> /\ decoded' = 0
  /\ mine' = Inputs /\ stamp' = 0 /\ shown' = 0 /\ offs' = 0 /\ stale' = FALSE
  /\ UNCHANGED <<mode, hand, answer>>

\* VIDIOC_QBUF of an encoded packet.
QueueInput(i, header) ==
  /\ device = "open" /\ i \in mine /\ stamp < MaxPackets
  /\ stamp' = stamp + 1
  /\ packets' = Append(packets, [index |-> i, stamp |-> stamp + 1, header |-> header])
  /\ mine' = mine \ {i}
  /\ UNCHANGED <<settings, streams, source, completed, capture, failed, pendingStamps, sequence,
                 event, worker, hand, answer, android, shown, offs, stale>>

\* VIDIOC_DQBUF of an encoded buffer.
DequeueInput ==
  /\ device = "open" /\ completed # <<>>
  /\ completed' = Tail(completed)
  /\ mine' = mine \cup {Head(completed)}
  /\ UNCHANGED <<settings, streams, source, packets, capture, failed, pendingStamps, sequence,
                 worker, hand, answer, android, stamp, shown, offs, stale>>
  /\ Signal

\* VIDIOC_QBUF of a capture buffer that holds at least a picture of the size.
QueueCapture(i) ==
  /\ device = "open" /\ ~ capture[i].queued
  /\ capture' = [capture EXCEPT ![i] = [queued |-> TRUE, frame |-> 0, length |-> size]]
  /\ UNCHANGED <<settings, streams, source, packets, completed, failed, pendingStamps, sequence,
                 event, worker, hand, answer, android, player>>

TakeCapture(i) ==
  /\ shown' = capture[i].frame
  /\ capture' = [capture EXCEPT ![i].queued = FALSE, ![i].frame = 0]
  /\ UNCHANGED <<settings, streams, source, packets, completed, failed, pendingStamps, sequence,
                 worker, hand, answer, android, mine, stamp, offs, stale>>
  /\ Signal

\* Mutant: the first buffer that is ready.
DequeueFirstCapture ==
  device = "open" /\ ReadyCaptures # {} /\ TakeCapture(First(ReadyCaptures))

\* VIDIOC_DQBUF of a picture: the oldest first.
DequeueCapture ==
  device = "open" /\ ReadyCaptures # {} /\ TakeCapture(Oldest(ReadyCaptures))

\* VIDIOC_STREAMON.  The worker is started once, and never again.
StreamOn(queue) ==
  /\ device = "open"
  /\ IF queue = "output" THEN ~ outputOn /\ outputOn' = TRUE /\ UNCHANGED captureOn
                         ELSE ~ captureOn /\ captureOn' = TRUE /\ UNCHANGED outputOn
  /\ worker' = IF worker = "none" /\ outputOn' /\ (captureOn' \/ stateful)
               THEN IF stateful THEN "sequence" ELSE "connect"
               ELSE worker
  /\ UNCHANGED <<settings, source, queues, failed, pendingStamps, sequence, event, hand,
                 answer, android, player>>

\* VIDIOC_STREAMOFF, which does not call signal().
StreamOff(queue) ==
  /\ device = "open" /\ offs < MaxOffs
  /\ offs' = offs + 1
  /\ IF queue = "output"
     THEN /\ outputOn' = FALSE
          /\ packets' = <<>> /\ completed' = <<>> /\ mine' = Inputs
          /\ stale' = (stale \/ hand # NoPacket)
          /\ UNCHANGED <<captureOn, capture>>
     ELSE /\ captureOn' = FALSE
          /\ capture' = [i \in Captures |->
                           [capture[i] EXCEPT !.queued = FALSE, !.frame = 0]]
          /\ UNCHANGED <<outputOn, packets, completed, mine, stale>>
  /\ UNCHANGED <<settings, source, failed, pendingStamps, sequence, event, worker, hand,
                 answer, android, stamp, shown>>

\* VIDIOC_DQEVENT.
DequeueEvent ==
  /\ device = "open" /\ sourceChange
  /\ sourceChange' = FALSE
  /\ UNCHANGED <<settings, streams, size, sourceKnown, queues, failed, pendingStamps, sequence,
                 worker, hand, answer, android, player>>
  /\ Signal

-----------------------------------------------------------------------------
(* Device::run.                                                            *)

\* The source is announced; pictures wait until the player has switched its
\* capture queue on again.
Announce(s) ==
  /\ size' = s /\ sourceKnown' = TRUE /\ sourceChange' = TRUE /\ captureOn' = FALSE

\* A stateful HEVC decoder needs a sequence header; inputs before it are
\* completed at once.
SequenceHeader ==
  /\ worker = "sequence" /\ ~ stopping /\ packets # <<>>
  /\ \/ /\ mode = "h264"
        /\ worker' = "connect"
        /\ UNCHANGED <<source, captureOn, packets, completed>>
     \/ /\ mode = "hevc" /\ Head(packets).header # 0
        /\ Announce(Head(packets).header)
        /\ worker' = "connect"
        /\ UNCHANGED <<packets, completed>>
     \/ /\ mode = "hevc" /\ Head(packets).header = 0
        /\ completed' = Append(completed, Head(packets).index)
        /\ packets' = Tail(packets)
        /\ UNCHANGED <<source, captureOn, worker>>
  /\ UNCHANGED <<settings, outputOn, capture, failed, pendingStamps, sequence, hand, answer,
                 android, player>>
  /\ IF mode = "h264" THEN UNCHANGED event ELSE Signal

\* The socket is connected, MediaCodec configured and the memory shared, or
\* something of it fails.
Connect ==
  /\ worker = "connect"
  /\ worker' \in {"loop", "ending"}
  /\ decoded' = size
  /\ UNCHANGED <<settings, streams, source, queues, failed, pendingStamps, sequence, event,
                 hand, answer, inside, player>>

\* Mutant: stopping is not looked at while there is something to do.
StreamingDeaf == worker = "loop" /\ outputOn /\ (stateful \/ captureOn)

\* The queues are on; a stateful decoder goes on without the capture queue.
Streaming == worker = "loop" /\ ~ stopping /\ outputOn /\ (stateful \/ captureOn)

\* A packet is taken; its stamp is pending, for as many stamps as are kept.
Submit ==
  /\ Streaming /\ packets # <<>>
  /\ hand' = Head(packets) /\ packets' = Tail(packets)
  /\ LET all == pendingStamps \cup {Head(packets).stamp}
     IN pendingStamps' = IF Cardinality(all) > MaxPending
                   THEN {s \in all : \E t \in all : t < s} ELSE all
  /\ worker' = "exchange"
  /\ UNCHANGED <<settings, streams, source, completed, capture, failed, sequence, event,
                 answer, android, player>>

Poll ==
  /\ Streaming /\ packets = <<>> /\ pendingStamps # {} /\ (stateful => captureOn)
  /\ worker' = "exchange"
  /\ UNCHANGED <<settings, streams, source, queues, failed, pendingStamps, sequence, event,
                 hand, answer, android, player>>

\* What Android makes of a packet or a poll: nothing yet, another format, or a
\* picture of what the decoder holds.  Pictures drained to make room for the
\* packet, and those the codec discards, are lost with the ones before them;
\* a format that comes while output is drained may be overwritten in the
\* response by a picture that already has the new size.
Exchanged(a) ==
  LET held == IF hand = NoPacket THEN inside ELSE Append(inside, hand.stamp)
  IN \E n \in 0 .. Len(held) :
       /\ inside' = SubSeq(held, n + 1, Len(held))
       /\ \/ a = Accepted /\ UNCHANGED decoded
          \/ /\ \E s \in Sizes : a = [kind |-> "format", stamp |-> 0, size |-> s]
             /\ decoded' = a.size
          \/ /\ n > 0
             /\ \/ UNCHANGED decoded
                \/ hand # NoPacket /\ n <= Len(inside) /\ decoded' \in Sizes
             /\ a = [kind |-> "frame", stamp |-> held[n], size |-> decoded']

Stored(i, a) ==
  /\ capture' = [capture EXCEPT ![i].frame = sequence + 1]
  /\ pendingStamps' = {s \in pendingStamps : s > a.stamp}
  /\ sequence' = sequence + 1
  /\ worker' = "loop"

\* A picture goes into the first buffer that is free, or replaces the oldest
\* one that waits for the player; without a queued buffer it is lost.
Store(a) ==
  \/ /\ a.size > size
     /\ worker' = "ending"
     /\ UNCHANGED <<capture, pendingStamps, sequence>>
  \/ /\ a.size <= size /\ QueuedCaptures = {}
     /\ sequence' = sequence + 1
     /\ pendingStamps' = pendingStamps \ {a.stamp}
     /\ worker' = "loop"
     /\ UNCHANGED capture
  \/ /\ a.size <= size /\ QueuedCaptures # {}
     /\ LET free == QueuedCaptures \ ReadyCaptures
            i == IF free # {} THEN First(free) ELSE Oldest(QueuedCaptures)
        IN IF capture[i].length < size
           THEN /\ worker' = "ending" /\ sequence' = sequence + 1
                /\ UNCHANGED <<capture, pendingStamps>>
           ELSE Stored(i, a)

Changes(a) == a.kind # "accepted" /\ stateful /\ (~ sourceKnown \/ a.size # size)

\* Mutant: a poll completes an input as well.
CompleteAlways == completed' = Append(completed, hand.index)

\* The packet is handed back; a poll has none.
Complete == completed' = IF hand = NoPacket THEN completed
                         ELSE Append(completed, hand.index)

\* The answer is taken in with the mutex held; the packet is completed.
Answer(a) ==
  /\ worker = "exchange"
  /\ Exchanged(a)
  /\ Complete /\ hand' = NoPacket
  /\ \/ /\ Changes(a)
        /\ Announce(a.size)
        /\ worker' = "format" /\ answer' = a
        /\ UNCHANGED <<capture, pendingStamps, sequence>>
     \/ /\ ~ Changes(a) /\ a.kind = "frame"
        /\ Store(a)
        /\ UNCHANGED <<source, captureOn, answer>>
     \/ /\ ~ Changes(a) /\ a.kind # "frame"
        /\ worker' = "loop"
        /\ UNCHANGED <<source, captureOn, answer, capture, pendingStamps, sequence>>
  /\ UNCHANGED <<settings, outputOn, packets, failed, player>>
  /\ IF completed' = completed /\ capture' = capture /\ ~ Changes(a)
     THEN UNCHANGED event ELSE Signal

\* The exchange fails: MediaCodec, Android or the socket is gone.
Break ==
  /\ worker = "exchange"
  /\ Complete /\ hand' = NoPacket
  /\ worker' = "ending"
  /\ UNCHANGED <<settings, streams, source, packets, capture, failed, pendingStamps, sequence,
                 answer, android, player>>
  /\ IF completed' = completed THEN UNCHANGED event ELSE Signal

\* The wait for the player's capture queue ends.
Resume ==
  /\ worker = "format" /\ (captureOn \/ stopping)
  /\ answer' = Accepted
  /\ IF stopping THEN worker' = "ending" /\ UNCHANGED <<capture, pendingStamps, sequence>>
     ELSE IF answer.kind = "frame" THEN Store(answer)
     ELSE worker' = "loop" /\ UNCHANGED <<capture, pendingStamps, sequence>>
  /\ UNCHANGED <<settings, streams, source, packets, completed, failed, hand, android, player>>
  /\ IF capture' = capture THEN UNCHANGED event ELSE Signal

\* stopping is seen: before the decoder is connected the worker just returns.
Stop ==
  /\ stopping /\ worker \in {"sequence", "loop"}
  /\ worker' = IF worker = "loop" THEN "ending" ELSE "done"
  /\ UNCHANGED <<settings, streams, source, queues, failed, pendingStamps, sequence, event,
                 hand, answer, android, player>>

End ==
  /\ worker = "ending"
  /\ worker' = "done"
  /\ failed' = ~ stopping
  /\ UNCHANGED <<settings, streams, source, queues, pendingStamps, sequence, hand, answer,
                 android, player>>
  /\ Signal

Worker ==
  \/ SequenceHeader \/ Connect \/ Submit \/ Poll \/ Break \/ Resume \/ Stop \/ End
  \/ \E a \in Answers : Answer(a)

Player ==
  \/ Open \/ CloseDevice \/ CloseReturns \/ DequeueInput \/ DequeueCapture \/ DequeueEvent
  \/ \E i \in Inputs, header \in Sizes \cup {0} :
       (header # 0 => mode = "hevc") /\ QueueInput(i, header)
  \/ \E i \in Captures : QueueCapture(i)
  \/ \E queue \in {"output", "capture"} : StreamOn(queue) \/ StreamOff(queue)

VideoNext == Worker \/ Player
VideoSpec == VideoInit /\ [][VideoNext]_videoVars

\* The worker is a thread that runs, and every exchange with Android ends: its
\* waits have deadlines, and shutdown() ends the socket.  Of the player only
\* that it switches its queues on: it need not take a single picture.
VideoFairSpec ==
  /\ VideoSpec
  /\ WF_videoVars(Worker)
  /\ WF_videoVars(CloseReturns)
  /\ WF_videoVars(StreamOn("output")) /\ WF_videoVars(StreamOn("capture"))

-----------------------------------------------------------------------------
(* Properties.                                                             *)

\* Pictures reach the player in the order they were decoded, though a stalled
\* player's oldest ones are replaced and buffers come back in any order
\* (video-queue.test.cpp: "It must not jump ahead of frames 2 and 3").
FramesInOrder == [][shown' # shown /\ shown' # 0 => shown' > shown]_videoVars

\* The player sleeps in epoll_wait on the eventfd: whenever there is something
\* for it the eventfd is readable, whoever brought it about.
EventNotLost == stateful /\ Ready /\ device = "open" => event

\* An encoded buffer is in one place, the queue, the exchange, the completed
\* ones or the player's hands, unless the queue was switched off around it.
Held == {packets[i].index : i \in DOMAIN packets}
        \cup (IF hand = NoPacket THEN {} ELSE {hand.index})
Back == {completed[i] : i \in DOMAIN completed}
InputsHeldOnce ==
  device = "open" /\ ~ stale =>
    /\ mine = Inputs \ (Held \cup Back)
    /\ Cardinality(Held) + Cardinality(Back)
         = Cardinality(Inputs \ mine)
    /\ Len(packets) + Len(completed) + (IF hand = NoPacket THEN 0 ELSE 1)
         = Cardinality(Inputs \ mine)

\* The ledgers of the device: types, the buffers and their wake-up.
QueuesAccounted == VideoTypeOK /\ InputsHeldOnce /\ EventNotLost

\* Every packet is completed although the player takes no picture: decoding
\* never waits behind presentation ("never ... waiting behind the renderer
\* with a full input queue").
InputsComplete ==
  \A i \in Inputs : i \in Held /\ device = "open"
                    ~> i \notin Held \/ failed \/ device # "open"

\* close() returns, whatever the worker is waiting for.
CloseEnds == device = "closing" ~> device = "closed"

\* The player never hangs in the decoder, playing or closing.
PlayerGoesOn == InputsComplete /\ CloseEnds

=============================================================================
