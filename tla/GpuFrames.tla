------------------------------ MODULE GpuFrames ------------------------------
(***************************************************************************)
(* The direct presentation path: SteamVR's compositor draws into images    *)
(* that Android displays, with no copy.  Three actors share the images.    *)
(*                                                                         *)
(*   renderer   the Swapchain of quest_wsi.cpp (acquire, present, event    *)
(*              wait), one at a time; it may be destroyed or killed at any *)
(*              moment and a new one may connect;                          *)
(*   receiver   GpuBridge::receiveFrames, the bridge's socket thread;      *)
(*   eyes       the OpenXR render thread: GpuBridge::poll adopts the       *)
(*              newest image, draw samples it for both eyes, glFinish ends *)
(*              the sampling.                                              *)
(*                                                                         *)
(* receiver and eyes share FrameLeases under historyLock; the receiver     *)
(* keeps that lock from the moment poll(2) returns until its sends are     *)
(* done, but the renderer reads its end of the socket between two sends.   *)
(***************************************************************************)
EXTENDS FrameLeases, FramePool, FiniteSets

CONSTANTS
  Capacity,      \* messages one direction of gpu.sock holds before EAGAIN
  MaxFrame,      \* bound: frames one session presents
  MaxAcquired    \* bound: images the compositor draws into at once

ASSUME GpuFramesAssumption ==
  /\ Capacity \in Nat \ {0}
  /\ MaxFrame \in Nat \ {0}
  /\ MaxAcquired \in Nat \ {0}

VARIABLES
  link,        \* the renderer's swapchain and its end of the socket
  pool,        \* Swapchain::framePool
  acquired,    \* images the compositor is drawing into
  frame,       \* Swapchain::frame, the last frame_id given out
  presentIds,  \* Swapchain::presentIds
  presented,   \* Swapchain::presented
  hello,       \* available_mask of the hello in flight
  toBridge,    \* presents in flight
  toClient,    \* acceptances and releases in flight
  abandoned,   \* the listen backlog holds a connection nobody reads any more
  client,      \* GpuBridge::client
  leases,      \* GpuBridge::leases
  receiver,    \* where the receiver is in its loop
  wantOut,     \* its poll(2) also waits for POLLOUT
  woken,       \* wakeFd is readable
  eyes,        \* where the render thread is in its frame
  texture,     \* GpuBridge::history: the image draw() samples
  reading,     \* history variable: images the headset GPU is sampling
  published,   \* history variable: last frame published in this session
  shown        \* history variable: last frame adopted in this session

renderVars   == <<pool, acquired, frame, presentIds, presented>>
receiverVars == <<receiver, wantOut>>
eyeVars      == <<eyes, texture, reading>>
vars == <<link, renderVars, hello, toBridge, toClient, abandoned, client,
          leases, receiverVars, woken, eyeVars, published, shown>>

TypeOK ==
  /\ link \in {"none",     \* no swapchain
               "queued",   \* connected, waiting for the hello
               "greeted",  \* the hello is in its socket buffer
               "up",
               "hungup"}   \* the bridge closed the connection
  /\ pool \in PoolType
  /\ acquired \in SUBSET Slots
  /\ frame \in Nat
  /\ presentIds \in [Slots -> Nat]
  /\ presented \in Nat
  /\ hello \in SUBSET Slots
  /\ toBridge \in Seq(PresentMsg)
  /\ toClient \in Seq(EventMsg)
  /\ abandoned \in BOOLEAN
  /\ client \in {"none", "live", "dead"}   \* dead: the peer has gone
  /\ leases \in LeasesType
  /\ receiver \in {"top", "polling", "accepting", "releasing", "done"}
  /\ wantOut \in BOOLEAN
  /\ woken \in BOOLEAN
  /\ eyes \in {"between", "polled", "drawing", "stopped"}
  /\ texture \in Slots \cup {NoSlot}
  /\ reading \in SUBSET Slots
  /\ published \in Nat
  /\ shown \in Nat

Init ==
  /\ link = "none"
  /\ pool = NoPool
  /\ acquired = {}
  /\ frame = 0
  /\ presentIds = [s \in Slots |-> 0]
  /\ presented = 0
  /\ hello = {}
  /\ toBridge = <<>>
  /\ toClient = <<>>
  /\ abandoned = FALSE
  /\ client = "none"
  /\ leases = NoLeases
  /\ receiver = "top"
  /\ wantOut = FALSE
  /\ woken = FALSE
  /\ eyes = "between"
  /\ texture = NoSlot
  /\ reading = {}
  /\ published = 0
  /\ shown = 0

-----------------------------------------------------------------------------
(* The renderer.                                                           *)

\* vkCreateSwapchainKHR: connect succeeds as soon as the listen backlog takes
\* the connection.  gpu.sock is unlinked once the bridge has shut down.
Connect ==
  /\ link = "none"
  /\ receiver # "done"
  /\ link' = "queued"
  /\ UNCHANGED <<renderVars, hello, toBridge, toClient, abandoned, client,
                 leases, receiverVars, woken, eyeVars, published, shown>>

\* The rest of initialize: recvmsg takes the hello, also from a bridge that
\* has closed the connection since, and a fresh pool starts from it.
ReadHello ==
  /\ link = "greeted"
  /\ link' = IF client = "live" THEN "up" ELSE "hungup"
  /\ pool' = PoolOf(hello)
  /\ hello' = {}
  /\ UNCHANGED <<acquired, frame, presentIds, presented, toBridge, toClient,
                 abandoned, client, leases, receiverVars, woken, eyeVars,
                 published, shown>>

\* vkAcquireNextImageKHR, when the pool has an image.  The socket is not
\* looked at, so this also happens after the bridge has hung up.
Acquire(slot) ==
  /\ link \in {"up", "hungup"}
  /\ Cardinality(acquired) < MaxAcquired
  /\ IsNextSlot(pool, slot)
  /\ pool' = Acquired(pool, slot)
  /\ acquired' = acquired \cup {slot}
  /\ UNCHANGED <<link, frame, presentIds, presented, hello, toBridge, toClient,
                 abandoned, client, leases, receiverVars, woken, eyeVars,
                 published, shown>>

\* vkQueuePresentKHR: the GPU has finished the image (releaseFence) before
\* the frame is numbered and sent; send blocks while the socket is full and
\* fails with VK_ERROR_SURFACE_LOST_KHR once the bridge has hung up.  The
\* compositor may or may not attach a present id.
Present(slot) ==
  /\ link \in {"up", "hungup"}
  /\ frame < MaxFrame
  /\ slot \in acquired
  /\ acquired' = acquired \ {slot}
  /\ frame' = frame + 1
  /\ pool' = Submitted(pool, slot, frame + 1)
  /\ \E id \in {0, frame + 1} : presentIds' = [presentIds EXCEPT ![slot] = id]
  /\ \/ /\ link = "up"
        /\ Len(toBridge) < Capacity
        /\ toBridge' = Append(toBridge, [slot |-> slot, frame |-> frame + 1])
     \/ /\ link = "hungup"
        /\ UNCHANGED toBridge
  /\ UNCHANGED <<link, presented, hello, toClient, abandoned, client, leases,
                 receiverVars, woken, eyeVars, published, shown>>

\* The ACCEPTED branch of receiveEvent: the newest accepted present id.
PresentedAfter(event) ==
  IF /\ event.kind = "accepted"
     /\ Matches(pool, event.slot, event.frame)
     /\ presentIds[event.slot] > presented
  THEN presentIds[event.slot]
  ELSE presented

\* The RELEASE branch of receiveEvent.
PoolAfter(event) ==
  IF event.kind = "release" /\ CanReturn(pool, event.slot, event.frame)
  THEN Returned(pool, event.slot)
  ELSE pool

\* receiveEvent as the thread that reads the socket: one message, applied
\* under Swapchain::lock.  A refused release is VK_ERROR_SURFACE_LOST_KHR and
\* changes nothing.
ReceiveEvent ==
  /\ link = "up"
  /\ toClient # <<>>
  /\ presented' = PresentedAfter(Head(toClient))
  /\ pool' = PoolAfter(Head(toClient))
  /\ toClient' = Tail(toClient)
  /\ UNCHANGED <<link, acquired, frame, presentIds, hello, toBridge, abandoned,
                 client, leases, receiverVars, woken, eyeVars, published, shown>>

\* vkDestroySwapchainKHR, a failed initialize, or the death of the process.
\* The bridge drops a present it has not read when it sees the hangup; a
\* connection still in the backlog stays there.
Close ==
  /\ link # "none"
  /\ link' = "none"
  /\ pool' = NoPool
  /\ acquired' = {}
  /\ frame' = 0
  /\ presentIds' = [s \in Slots |-> 0]
  /\ presented' = 0
  /\ hello' = {}
  /\ toBridge' = <<>>
  /\ toClient' = <<>>
  /\ abandoned' = (abandoned \/ link = "queued")
  /\ client' = IF client = "live" THEN "dead" ELSE client
  /\ UNCHANGED <<leases, receiverVars, woken, eyeVars, published, shown>>

-----------------------------------------------------------------------------
(* The receiver.                                                           *)

Polling == receiver = "polling"

\* The thread holds historyLock while it answers a poll.
ReceiverLocks == receiver \in {"accepting", "releasing"}

\* Top of the loop: decide, under the lock, whether there is something to
\* send, and enter poll(2).
EnterPoll ==
  /\ receiver = "top"
  /\ receiver' = "polling"
  /\ wantOut' = (client # "none" /\ leases.releases \cup leases.accepted # {})
  /\ UNCHANGED <<link, renderVars, hello, toBridge, toClient, abandoned, client,
                 leases, woken, eyeVars, published, shown>>

\* poll(2) returns and wakeFd is drained; the connection hung up: drop it.
SeeHangup ==
  /\ Polling
  /\ eyes # "stopped"
  /\ client = "dead"
  /\ client' = "none"
  /\ receiver' = "top"
  /\ woken' = FALSE
  /\ UNCHANGED <<link, renderVars, hello, toBridge, toClient, abandoned, leases,
                 wantOut, eyeVars, published, shown>>

\* Closing our end: the renderer's next send or poll(2) finds it gone, and
\* waitReadable reads nothing after POLLHUP; a hello in its buffer stays.
HangUp ==
  /\ client' = "none"
  /\ link' = IF link = "up" THEN "hungup" ELSE link
  /\ toBridge' = <<>>
  /\ toClient' = <<>>

\* One present is read and published; one that cannot be ends the connection.
ReadPresent ==
  /\ Polling
  /\ eyes # "stopped"
  /\ client = "live"
  /\ toBridge # <<>>
  /\ LET present == Head(toBridge) IN
       IF CanPublish(leases, present.slot, present.frame)
       THEN /\ leases' = Publish(leases, present.slot, present.frame)
            /\ published' = present.frame
            /\ toBridge' = Tail(toBridge)
            /\ receiver' = "accepting"
            /\ UNCHANGED <<link, toClient, client>>
       ELSE /\ HangUp
            /\ receiver' = "top"
            /\ UNCHANGED <<leases, published>>
  /\ woken' = FALSE
  /\ UNCHANGED <<renderVars, hello, abandoned, wantOut, eyeVars, shown>>

\* Nothing to read: the render thread woke us, or the socket takes data.
WakeToSend ==
  /\ Polling
  /\ eyes # "stopped"
  /\ client = "live"
  /\ toBridge = <<>>
  /\ woken \/ (wantOut /\ Len(toClient) < Capacity)
  /\ receiver' = "accepting"
  /\ woken' = FALSE
  /\ UNCHANGED <<link, renderVars, hello, toBridge, toClient, abandoned, client,
                 leases, wantOut, eyeVars, published, shown>>

\* Woken without a client: nothing to do.
WakeIdle ==
  /\ Polling
  /\ eyes # "stopped"
  /\ client = "none"
  /\ woken
  /\ ~abandoned /\ link # "queued"
  /\ receiver' = "top"
  /\ woken' = FALSE
  /\ UNCHANGED <<link, renderVars, hello, toBridge, toClient, abandoned, client,
                 leases, wantOut, eyeVars, published, shown>>

\* accept: the leases are reset for the new renderer and the hello is sent.
\* It fails if the peer has gone, and the connection is dropped.
Accept ==
  /\ Polling
  /\ eyes # "stopped"
  /\ client = "none"
  /\ abandoned \/ link = "queued"
  /\ leases' = Reconnect(leases)
  /\ published' = 0
  /\ shown' = 0
  /\ \/ /\ abandoned
        /\ abandoned' = FALSE
        /\ UNCHANGED <<link, hello, client>>
     \/ /\ ~abandoned
        /\ link' = "greeted"
        /\ hello' = leases'.available
        /\ client' = "live"
        /\ UNCHANGED abandoned
  /\ receiver' = "top"
  /\ woken' = FALSE
  /\ UNCHANGED <<renderVars, toBridge, toClient, wantOut, eyeVars>>

\* The next message a send loop takes: the lowest slot first.
Lowest(slots, slot) == slot \in slots /\ \A other \in slots : slot <= other

Event(kind, slot) == [kind |-> kind, slot |-> slot, frame |-> leases.frames[slot]]

\* One turn of the ACCEPTED loop.
SendAccepted ==
  \E slot \in leases.accepted :
     /\ Lowest(leases.accepted, slot)
     /\ Len(toClient) < Capacity
     /\ leases' = SentAccepted(leases, slot)
     /\ toClient' = Append(toClient, Event("accepted", slot))

\* Images whose RELEASE may go: never before their acceptance has gone.
Releasable == leases.releases \ leases.accepted

\* Mutant: a release that was sent stays due.
SendReleaseAgain ==
  \E slot \in Releasable :
     /\ Lowest(Releasable, slot)
     /\ Len(toClient) < Capacity
     /\ toClient' = Append(toClient, Event("release", slot))
     /\ UNCHANGED leases

\* One turn of the RELEASE loop.
SendRelease ==
  \E slot \in Releasable :
     /\ Lowest(Releasable, slot)
     /\ Len(toClient) < Capacity
     /\ leases' = SentRelease(leases, slot)
     /\ toClient' = Append(toClient, Event("release", slot))

\* The ACCEPTED loop ends when every acceptance is sent or on EAGAIN.
Accepting ==
  /\ receiver = "accepting"
  /\ client = "live"
  /\ \/ SendAccepted /\ UNCHANGED receiver
     \/ /\ leases.accepted = {} \/ Len(toClient) >= Capacity
        /\ receiver' = "releasing"
        /\ UNCHANGED <<leases, toClient>>
  /\ UNCHANGED <<link, renderVars, hello, toBridge, abandoned, client, wantOut,
                 woken, eyeVars, published, shown>>

Releasing ==
  /\ receiver = "releasing"
  /\ client = "live"
  /\ \/ SendRelease /\ UNCHANGED receiver
     \/ /\ Releasable = {} \/ Len(toClient) >= Capacity
        /\ receiver' = "top"
        /\ UNCHANGED <<leases, toClient>>
  /\ UNCHANGED <<link, renderVars, hello, toBridge, abandoned, client, wantOut,
                 woken, eyeVars, published, shown>>

\* The renderer went away while we were sending: a send fails with EPIPE and
\* the connection is closed; with nothing left to send the next poll sees it.
SendFails ==
  /\ ReceiverLocks
  /\ client = "dead"
  /\ LET unsent == IF receiver = "accepting"
                   THEN leases.accepted \cup leases.releases
                   ELSE Releasable
     IN client' = IF unsent = {} THEN client ELSE "none"
  /\ receiver' = "top"
  /\ UNCHANGED <<link, renderVars, hello, toBridge, toClient, abandoned, leases,
                 wantOut, woken, eyeVars, published, shown>>

\* stopping is seen at the top of the loop or when wakeFd ends the poll.
StopReceiving ==
  /\ eyes = "stopped"
  /\ receiver = "top" \/ (Polling /\ woken)
  /\ receiver' = "done"
  /\ HangUp
  /\ UNCHANGED <<renderVars, hello, abandoned, leases, wantOut, woken, eyeVars,
                 published, shown>>

-----------------------------------------------------------------------------
(* The render thread.                                                      *)

\* GpuBridge::poll: adopt the newest image; if that frees one, wake the
\* receiver.  draw() keeps sampling history until the next adoption.
Poll ==
  /\ eyes = "between"
  /\ ~ReceiverLocks
  /\ eyes' = "polled"
  /\ leases' = Adopt(leases)
  /\ \/ /\ leases.pending = NoSlot
        /\ UNCHANGED <<woken, texture, shown>>
     \/ /\ leases.pending # NoSlot
        /\ woken' = (woken \/ leases'.releases # {})
        /\ texture' = leases'.held
        /\ shown' = leases.frames[leases.pending]
  /\ UNCHANGED <<link, renderVars, hello, toBridge, toClient, abandoned, client,
                 receiverVars, reading, published>>

\* GpuBridge::draw for the eyes, when there is a frame and something to draw.
Draw ==
  /\ eyes = "polled"
  /\ texture # NoSlot
  /\ eyes' = "drawing"
  /\ reading' = {texture}
  /\ UNCHANGED <<link, renderVars, hello, toBridge, toClient, abandoned, client,
                 leases, receiverVars, woken, texture, published, shown>>

\* Mutant: the frame ends without glFinish, the GPU still sampling.
EndFrameUnfinished ==
  /\ eyes \in {"polled", "drawing"}
  /\ eyes' = "between"
  /\ UNCHANGED <<link, renderVars, hello, toBridge, toClient, abandoned, client,
                 leases, receiverVars, woken, texture, reading, published, shown>>

\* End of frame() or idle(): glFinish after eyes were drawn.
EndFrame ==
  /\ eyes \in {"polled", "drawing"}
  /\ eyes' = "between"
  /\ reading' = {}
  /\ UNCHANGED <<link, renderVars, hello, toBridge, toClient, abandoned, client,
                 leases, receiverVars, woken, texture, published, shown>>

\* Mutant: shutdown does not write wakeFd.
ShutdownSilently ==
  /\ eyes = "between"
  /\ eyes' = "stopped"
  /\ UNCHANGED <<link, renderVars, hello, toBridge, toClient, abandoned, client,
                 leases, receiverVars, woken, texture, reading, published, shown>>

\* GpuBridge::shutdown, from the same thread between two frames.
Shutdown ==
  /\ eyes = "between"
  /\ eyes' = "stopped"
  /\ woken' = TRUE
  /\ UNCHANGED <<link, renderVars, hello, toBridge, toClient, abandoned, client,
                 leases, receiverVars, texture, reading, published, shown>>

\* The bridge has stopped and no renderer is left.
Terminated ==
  /\ receiver = "done"
  /\ link = "none"
  /\ UNCHANGED vars

-----------------------------------------------------------------------------

Renderer ==
  \/ Connect \/ ReadHello \/ ReceiveEvent \/ Close
  \/ \E slot \in Slots : Acquire(slot) \/ Present(slot)

Receiver ==
  \/ EnterPoll \/ SeeHangup \/ ReadPresent \/ WakeToSend \/ WakeIdle \/ Accept
  \/ Accepting \/ Releasing \/ SendFails \/ StopReceiving

Eyes == Poll \/ Draw \/ EndFrame \/ Shutdown

Next == Renderer \/ Receiver \/ Eyes \/ Terminated

Spec == Init /\ [][Next]_vars

\* What keeps running.  The receiver is a thread that blocks only in poll(2).
\* A renderer that waits, for an image or for a present, sits in receiveEvent
\* until its socket is readable.  Nothing is assumed of the render thread: a
\* headset that is taken off stops calling xrWaitFrame.
FairSpec == Spec /\ WF_vars(Receiver) /\ WF_vars(ReceiveEvent)

-----------------------------------------------------------------------------
(* Properties.                                                             *)

SlotsOf(queue) == {queue[i].slot : i \in DOMAIN queue}
ReleasesOf(queue) == {i \in DOMAIN queue : queue[i].kind = "release"}
ReturnedBy(queue) == {queue[i].slot : i \in ReleasesOf(queue)}

InFlight  == SlotsOf(toBridge)
Returning == ReturnedBy(toClient)

\* What Android may be reading, or is going to read.
OnDisplay == {leases.held, leases.pending} \ {NoSlot}

\* What the renderer may draw into without hearing from Android again.
Drawable == IF link \in {"up", "hungup"} THEN pool.available \cup acquired ELSE {}

\* The renderer never draws into an image the headset GPU is sampling, that
\* is on display, or that is queued for it: "concurrent producer pressure must
\* never change pixels held by either eye".
NoTornImage == Drawable \cap (reading \cup OnDisplay \cup InFlight) = {}

Places == <<pool.available, acquired, InFlight, OnDisplay, leases.releases,
            Returning>>

\* While a renderer is connected every image is in exactly one place: none is
\* lost on the way round and none is handed out twice.
OneImageOnePlace ==
  link = "up" =>
    \A slot \in Slots :
      \E place \in DOMAIN Places :
        /\ slot \in Places[place]
        /\ \A other \in DOMAIN Places : slot \in Places[other] => other = place

\* An image makes its round and is never torn or lost on it.
ImagesRound == NoTornImage /\ OneImageOnePlace

\* Neither side ever refuses what the other sends: a present names an image
\* the leases have free and a release one the pool has given away, so a
\* correct renderer never sees VK_ERROR_SURFACE_LOST_KHR from the protocol.
NothingRefused ==
  /\ client = "live" /\ toBridge # <<>> =>
       CanPublish(leases, Head(toBridge).slot, Head(toBridge).frame)
  /\ link = "up" /\ toClient # <<>> /\ Head(toClient).kind = "release" =>
       CanReturn(pool, Head(toClient).slot, Head(toClient).frame)

\* A present id is reported only once Android has taken that frame.
PresentedIsPublished == link = "up" => presented <= published

\* The socket never fills, so vkQueuePresentKHR, which sends while it holds
\* the swapchain lock, never blocks there.
SocketNeverFills ==
  /\ Len(toBridge) <= Buffers
  /\ Len(toClient) <= 2 * Buffers

\* What is sent arrives and is reported: no present id too early, and no send
\* blocks.
SendsAreSafe == PresentedIsPublished /\ SocketNeverFills

\* A renderer that draws into no image gets one, even if the headset's render
\* thread never adopts another frame.
ImageAlwaysComes ==
  (link = "up" /\ acquired = {}) ~> (pool.available # {} \/ link # "up")

\* A present that was given an id completes, however the threads interleave.
PresentsComplete ==
  \A id \in 1 .. MaxFrame :
    (link = "up" /\ \E slot \in Slots : presentIds[slot] = id)
      ~> (presented >= id \/ link # "up")

\* A renderer gets images and hears of its presents.
RendererGoesOn == ImageAlwaysComes /\ PresentsComplete

\* A hangup is noticed, which is what lets the next renderer in.
NextRendererServed == link = "queued" ~> (link # "queued" \/ eyes = "stopped")

\* shutdown's join returns although the receiver may be inside poll(2).
ShutdownCompletes == eyes = "stopped" ~> receiver = "done"

\* Renderers come and go, and the thread that serves them ends when asked to.
ServiceGoesOn == NextRendererServed /\ ShutdownCompletes

Ownership == INSTANCE ImageOwnership
               WITH linux <- Drawable, screen <- leases.held, shown <- shown

\* The path with all its sockets and threads keeps the promise made in
\* ImageOwnership: an image is drawn into or shown, and frames go forward.
ImplementsOwnership == Ownership!Spec
=============================================================================
