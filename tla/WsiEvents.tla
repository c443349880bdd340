------------------------------ MODULE WsiEvents ------------------------------
(***************************************************************************)
(* Several compositor threads on one Swapchain of quest_wsi.cpp.  A thread *)
(* that needs an image (vkAcquireNextImageKHR) or the display of a present *)
(* id (vkWaitForPresentKHR) waits for events of gpu.sock.  One of them     *)
(* reads the socket, without Swapchain::lock; the others sleep on          *)
(* presentedCondition and are all woken whenever the reader is done.       *)
(*                                                                         *)
(* An action is one stretch of code that holds Swapchain::lock from end to *)
(* end: it ends where the thread sleeps, polls or returns.  GpuFrames      *)
(* models what the messages do to the images; here the bridge is only the  *)
(* order in which its messages come, and the question is who hears them.   *)
(***************************************************************************)
EXTENDS FramePool

CONSTANTS
  Threads,    \* compositor threads
  MaxFrame    \* bound: frames presented

ASSUME WsiEventsAssumption == MaxFrame \in Nat \ {0}

VARIABLES
  pool,          \* Swapchain::framePool
  acquired,      \* images handed to the compositor
  frame,         \* Swapchain::frame
  presentIds,    \* Swapchain::presentIds
  presented,     \* Swapchain::presented
  eventWaiting,  \* Swapchain::eventWaiting
  call,          \* what each thread has called
  pc,            \* where each thread is
  result,        \* what its last call returned
  socket,        \* events the bridge has sent and nobody has read
  hungUp,        \* the bridge has closed the connection
  bridge,        \* frame the bridge holds in each image, 0: none
  accepted,      \* images whose frame it has accepted
  lastId         \* history variable: the newest present id given out

swapVars   == <<pool, acquired, frame, presentIds, presented>>
bridgeVars == <<socket, hungUp, bridge, accepted, lastId>>
vars == <<swapVars, eventWaiting, call, pc, result, bridgeVars>>

Timeouts == {"zero", "finite", "infinite"}
Calls == [op : {"acquire"}, id : {0}, timeout : Timeouts]
           \cup [op : {"wait"}, id : 1 .. MaxFrame, timeout : Timeouts]
NoCall == [op |-> "none", id |-> 0, timeout |-> "zero"]

TypeOK ==
  /\ pool \in PoolType
  /\ acquired \in SUBSET Slots
  /\ frame \in 0 .. MaxFrame
  /\ presentIds \in [Slots -> 0 .. MaxFrame]
  /\ presented \in 0 .. MaxFrame
  /\ eventWaiting \in BOOLEAN
  /\ call \in [Threads -> Calls \cup {NoCall}]
  /\ pc \in [Threads -> {"idle",
                         "entering",    \* called, wants the lock
                         "sleeping",    \* in presentedCondition.wait
                         "woken",       \* notified, wants the lock
                         "polling",     \* the reader, in poll(2)
                         "readable",    \* poll said there is an event,
                         "expired",     \* that the time is up,
                         "lost"}]       \* or that the peer has gone
  /\ result \in [Threads -> {"none", "success", "timeout", "lost"}]
  /\ socket \in Seq(EventMsg)
  /\ hungUp \in BOOLEAN
  /\ bridge \in [Slots -> Nat]
  /\ accepted \in SUBSET Slots
  /\ lastId \in 0 .. MaxFrame

\* A swapchain whose hello offered the images of mask; the bridge still shows
\* a frame of an earlier renderer in the others.
Init ==
  /\ \E mask \in SUBSET Slots :
       /\ pool = PoolOf(mask)
       /\ bridge = [s \in Slots |-> IF s \in mask THEN 0 ELSE 1]
       /\ accepted = Slots \ mask
  /\ acquired = {}
  /\ frame = 0
  /\ presentIds = [s \in Slots |-> 0]
  /\ presented = 0
  /\ eventWaiting = FALSE
  /\ call = [t \in Threads |-> NoCall]
  /\ pc = [t \in Threads |-> "idle"]
  /\ result = [t \in Threads |-> "none"]
  /\ socket = <<>>
  /\ hungUp = FALSE
  /\ lastId = 0

-----------------------------------------------------------------------------
(* The pieces of a waiting call.                                           *)

\* The thread that owns the socket, between setting eventWaiting and clearing
\* it.
Reading(t) == pc[t] \in {"polling", "readable", "expired", "lost"}

\* What the call waits for, given the pool and the newest displayed id.
CanServe(t, p, shown) ==
  IF call[t].op = "acquire" THEN p.available # {} ELSE shown >= call[t].id

\* Everybody in presentedCondition.wait returns from it.
NotifyAll(where) ==
  [t \in Threads |-> IF where[t] = "sleeping" THEN "woken" ELSE where[t]]

\* Mutant: notify_one instead of notify_all, and it picks a favourite.
NotifyOne(where) ==
  LET asleep == {t \in Threads : where[t] = "sleeping"}
  IN  IF asleep = {} THEN where
      ELSE [where EXCEPT ![CHOOSE t \in asleep : TRUE] = "woken"]

Returns(t, where, outcome) ==
  /\ pc' = [where EXCEPT ![t] = "idle"]
  /\ call' = [call EXCEPT ![t] = NoCall]
  /\ result' = [result EXCEPT ![t] = outcome]

\* VK_SUCCESS: an acquisition takes the pool's next image with it.
Serve(t, p, shown, where) ==
  /\ CanServe(t, p, shown)
  /\ \/ /\ call[t].op = "acquire"
        /\ \E slot \in Slots :
             /\ IsNextSlot(p, slot)
             /\ pool' = Acquired(p, slot)
             /\ acquired' = acquired \cup {slot}
     \/ /\ call[t].op = "wait"
        /\ pool' = p
        /\ UNCHANGED acquired
  /\ presented' = shown
  /\ Returns(t, where, "success")

Fail(t, p, shown, where, outcome) ==
  /\ pool' = p
  /\ presented' = shown
  /\ UNCHANGED acquired
  /\ Returns(t, where, outcome)

\* Mutant: the condition is not looked at again when the time is up.
TimeOutBlindly(t, p, shown, where) == Fail(t, p, shown, where, "timeout")

\* receiveEvent said VK_TIMEOUT: both callers look once more before they do.
TimeOut(t, p, shown, where) ==
  \/ Serve(t, p, shown, where)
  \/ /\ ~CanServe(t, p, shown)
     /\ Fail(t, p, shown, where, "timeout")

\* receiveEvent said VK_ERROR_SURFACE_LOST_KHR: only a present wait looks.
Lose(t, p, shown, where) ==
  \/ /\ call[t].op = "wait"
     /\ Serve(t, p, shown, where)
  \/ /\ call[t].op = "acquire" \/ ~CanServe(t, p, shown)
     /\ Fail(t, p, shown, where, "lost")

\* Time left of the call: a finite one may have run out.
Left(t) ==
  IF call[t].timeout = "finite" THEN {"zero", "finite"} ELSE {call[t].timeout}

\* One round of the caller's loop: serve, or enter receiveEvent, which waits
\* for the present reader or becomes it.
Loop(t, p, shown, where, waiting) ==
  \/ /\ Serve(t, p, shown, where)
     /\ eventWaiting' = waiting
  \/ /\ ~CanServe(t, p, shown)
     /\ waiting
     /\ eventWaiting' = waiting
     /\ \E left \in Left(t) :
          IF left = "zero"
          THEN Fail(t, p, shown, where, "timeout")
          ELSE /\ pc' = [where EXCEPT ![t] = "sleeping"]
               /\ pool' = p
               /\ presented' = shown
               /\ UNCHANGED <<acquired, call, result>>
  \/ /\ ~CanServe(t, p, shown)
     /\ ~waiting
     /\ eventWaiting' = TRUE
     /\ pc' = [where EXCEPT ![t] = "polling"]
     /\ pool' = p
     /\ presented' = shown
     /\ UNCHANGED <<acquired, call, result>>

-----------------------------------------------------------------------------
(* The threads.                                                            *)

\* vkAcquireNextImageKHR or vkWaitForPresentKHR is called.
Enter(t) ==
  /\ pc[t] = "idle"
  /\ \E c \in Calls :
       /\ call' = [call EXCEPT ![t] = c]
       /\ result' = [result EXCEPT ![t] = "none"]
       /\ pc' = [pc EXCEPT ![t] = "entering"]
  /\ UNCHANGED <<swapVars, eventWaiting, bridgeVars>>

\* A thread that entered or was woken gets the lock and goes round its loop.
Recheck(t) ==
  /\ pc[t] \in {"entering", "woken"}
  /\ Loop(t, pool, presented, pc, eventWaiting)
  /\ UNCHANGED <<frame, presentIds, bridgeVars>>

\* presentedCondition.wait may return with no notification.
WakeSpuriously(t) ==
  /\ pc[t] = "sleeping"
  /\ Loop(t, pool, presented, pc, eventWaiting)
  /\ UNCHANGED <<frame, presentIds, bridgeVars>>

\* presentedCondition.wait_for says timeout, notified or not.
SleepExpires(t) ==
  /\ pc[t] \in {"sleeping", "woken"}
  /\ call[t].timeout = "finite"
  /\ TimeOut(t, pool, presented, pc)
  /\ UNCHANGED <<frame, presentIds, eventWaiting, bridgeVars>>

\* waitReadable: poll(2) returns, with the lock free.  A hangup hides what is
\* still to be read.
Poll(t) ==
  /\ pc[t] = "polling"
  /\ \/ /\ hungUp
        /\ pc' = [pc EXCEPT ![t] = "lost"]
     \/ /\ ~hungUp /\ socket # <<>>
        /\ pc' = [pc EXCEPT ![t] = "readable"]
     \/ /\ ~hungUp /\ socket = <<>>
        /\ call[t].timeout # "infinite"
        /\ pc' = [pc EXCEPT ![t] = "expired"]
  /\ UNCHANGED <<swapVars, eventWaiting, call, result, bridgeVars>>

\* Mutant: the sleepers are not told that the socket is free.
AbandonQuietly(t) ==
  /\ eventWaiting' = FALSE
  /\ \/ /\ pc[t] = "expired"
        /\ TimeOut(t, pool, presented, pc)
     \/ /\ pc[t] = "lost"
        /\ Lose(t, pool, presented, pc)
  /\ UNCHANGED <<frame, presentIds, bridgeVars>>

\* The reader is back under the lock with nothing to read: it hands the
\* socket over and returns.
Abandon(t) ==
  /\ eventWaiting' = FALSE
  /\ \/ /\ pc[t] = "expired"
        /\ TimeOut(t, pool, presented, NotifyAll(pc))
     \/ /\ pc[t] = "lost"
        /\ Lose(t, pool, presented, NotifyAll(pc))
  /\ UNCHANGED <<frame, presentIds, bridgeVars>>

\* What one event does: the newest displayed id, the pool.
PresentedAfter(event) ==
  IF /\ event.kind = "accepted"
     /\ Matches(pool, event.slot, event.frame)
     /\ presentIds[event.slot] > presented
  THEN presentIds[event.slot] ELSE presented

PoolAfter(event) ==
  IF event.kind = "release" THEN Returned(pool, event.slot) ELSE pool

\* Mutant: the sleepers are not told.
ReceiveQuietly(t) ==
  /\ pc[t] = "readable"
  /\ socket # <<>>
  /\ Loop(t, PoolAfter(Head(socket)), PresentedAfter(Head(socket)), pc, FALSE)
  /\ socket' = Tail(socket)
  /\ UNCHANGED <<frame, presentIds, hungUp, bridge, accepted, lastId>>

\* The reader is back under the lock and reads one event: the sleepers are
\* woken, the event is applied, and the thread goes round its loop, all under
\* the same lock.  A release the pool refuses is a lost surface, and recv
\* with nothing to read is VK_TIMEOUT.
Receive(t) ==
  /\ pc[t] = "readable"
  /\ \/ /\ socket # <<>>
        /\ LET event == Head(socket) IN
             IF event.kind = "release"
                  /\ ~CanReturn(pool, event.slot, event.frame)
             THEN /\ eventWaiting' = FALSE
                  /\ Lose(t, pool, presented, NotifyAll(pc))
             ELSE Loop(t, PoolAfter(event), PresentedAfter(event),
                       NotifyAll(pc), FALSE)
        /\ socket' = Tail(socket)
     \/ /\ socket = <<>>
        /\ eventWaiting' = FALSE
        /\ IF hungUp THEN Lose(t, pool, presented, NotifyAll(pc))
                     ELSE TimeOut(t, pool, presented, NotifyAll(pc))
        /\ UNCHANGED socket
  /\ UNCHANGED <<frame, presentIds, hungUp, bridge, accepted, lastId>>

\* vkQueuePresentKHR holds the lock from the GPU's fence to the send.
Present(t, slot) ==
  /\ pc[t] = "idle"
  /\ slot \in acquired
  /\ frame < MaxFrame
  /\ acquired' = acquired \ {slot}
  /\ frame' = frame + 1
  /\ pool' = Submitted(pool, slot, frame + 1)
  /\ \E id \in {0, frame + 1} :
       /\ presentIds' = [presentIds EXCEPT ![slot] = id]
       /\ IF hungUp
          THEN /\ result' = [result EXCEPT ![t] = "lost"]
               /\ UNCHANGED <<pc, bridge, accepted, lastId>>
          ELSE /\ result' = [result EXCEPT ![t] = "success"]
               /\ pc' = NotifyAll(pc)
               /\ bridge' = [bridge EXCEPT ![slot] = frame + 1]
               /\ accepted' = accepted \ {slot}
               /\ lastId' = IF id > lastId THEN id ELSE lastId
  /\ UNCHANGED <<presented, eventWaiting, call, socket, hungUp>>

-----------------------------------------------------------------------------
(* The bridge: each frame is accepted, and later its image is returned.    *)

Send(kind, slot) ==
  socket' = Append(socket,
                   [kind |-> kind, slot |-> slot, frame |-> bridge[slot]])

Accept(slot) ==
  /\ ~hungUp
  /\ bridge[slot] # 0 /\ slot \notin accepted
  /\ Send("accepted", slot)
  /\ accepted' = accepted \cup {slot}
  /\ UNCHANGED <<swapVars, eventWaiting, call, pc, result, hungUp, bridge,
                 lastId>>

Release(slot) ==
  /\ ~hungUp
  /\ slot \in accepted
  /\ Send("release", slot)
  /\ bridge' = [bridge EXCEPT ![slot] = 0]
  /\ accepted' = accepted \ {slot}
  /\ UNCHANGED <<swapVars, eventWaiting, call, pc, result, hungUp, lastId>>

HangUp ==
  /\ ~hungUp
  /\ hungUp' = TRUE
  /\ UNCHANGED <<swapVars, eventWaiting, call, pc, result, socket, bridge,
                 accepted, lastId>>

-----------------------------------------------------------------------------

Thread(t) ==
  \/ Recheck(t) \/ WakeSpuriously(t) \/ SleepExpires(t)
  \/ Poll(t) \/ Abandon(t) \/ Receive(t)

Next ==
  \/ \E t \in Threads :
       \/ Enter(t) \/ Thread(t)
       \/ \E slot \in Slots : Present(t, slot)
  \/ \E slot \in Slots : Accept(slot) \/ Release(slot)
  \/ HangUp

Spec == Init /\ [][Next]_vars

\* Who was told that the surface is lost does not call again.  One that did,
\* for ever, could win the lock each time and keep a sleeper from reading.
LossIsFinal == \A t \in Threads : result[t] = "lost" => pc'[t] = "idle"

\* A thread inside a call runs on and its clock goes on; the bridge accepts
\* what it is given.  Nobody has to call, to present or to release an image.
FairSpec ==
  /\ Init
  /\ [][Next /\ LossIsFinal]_vars
  /\ \A t \in Threads : WF_vars(Recheck(t)) /\ WF_vars(SleepExpires(t))
                         /\ WF_vars(Poll(t) \/ Abandon(t) \/ Receive(t))
  /\ \A slot \in Slots : WF_vars(Accept(slot))

-----------------------------------------------------------------------------
(* Properties.                                                             *)

\* One thread at a time owns the socket, and eventWaiting says whether one
\* does: messages are applied in the order they were sent.
OneReader ==
  /\ \A t, u \in Threads : Reading(t) /\ Reading(u) => t = u
  /\ eventWaiting <=> \E t \in Threads : Reading(t)

\* receiveEvent's comment: "Multiple pollers could miss an event consumed by
\* another thread and wait forever".  Whoever sleeps or polls is waiting for
\* something that has not happened yet, and whoever sleeps has a reader that
\* will wake it.
NobodyWaitsInVain ==
  \A t \in Threads :
    /\ pc[t] = "sleeping" \/ Reading(t) => ~CanServe(t, pool, presented)
    /\ pc[t] = "sleeping" => \E u \in Threads : Reading(u)

\* An event poll(2) announced is still there when the reader has the lock
\* again: recv never says EAGAIN, so a call without a timeout never reports
\* one.
AnnouncedIsThere ==
  \A t \in Threads : pc[t] = "readable" => socket # <<>>

\* VK_TIMEOUT and VK_NOT_READY are true when they are returned, and never the
\* answer to an unlimited wait.
TimeoutHonest ==
  [][\A t \in Threads :
       result'[t] = "timeout" /\ result[t] # "timeout" =>
         /\ call[t].timeout # "infinite"
         /\ ~CanServe(t, pool', presented')]_vars

\* Whoever waits for a present id that was given out gets an answer, however
\* many other threads read the socket meanwhile.
PresentWaitEnds ==
  \A t \in Threads :
    [](pc[t] # "idle" /\ call[t].op = "wait" /\ call[t].id <= lastId
         => <>(pc[t] = "idle"))

\* A lost surface reaches every waiting thread, also those that sleep.
LossReachesAll ==
  \A t \in Threads : [](hungUp => <>(pc[t] = "idle" \/ ~hungUp))

\* A call that waits ends: with its event, or with the surface.
CallsEnd == PresentWaitEnds /\ LossReachesAll

=============================================================================
