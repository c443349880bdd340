--------------------------- MODULE GpuFramesProofs ---------------------------
(***************************************************************************)
(* Proofs about GpuFrames for every number of buffers, socket capacity and *)
(* bound: the type invariant, that images are exclusive and conserved,     *)
(* that no send blocks and no present id is early, and that the path       *)
(* implements ImageOwnership.                                              *)
(***************************************************************************)
EXTENDS GpuFramesInvariant, FiniteSetTheorems, TLAPS

-----------------------------------------------------------------------------
(* The operators on leases and pool keep their types.                      *)

LEMMA LeasesOps ==
  ASSUME NEW l \in LeasesType, NEW slot \in Slots, NEW f \in Nat
  PROVE  /\ Reconnect(l) \in LeasesType
         /\ Publish(l, slot, f) \in LeasesType
         /\ Adopt(l) \in LeasesType
         /\ SentRelease(l, slot) \in LeasesType
         /\ SentAccepted(l, slot) \in LeasesType
<1>1. Reconnect(l) \in LeasesType
  BY DEF Reconnect, LeasesType
<1>2. \A s \in Slots \cup {NoSlot} : Released(l, s) \in LeasesType
  BY DEF Released, LeasesType
<1>3. l.pending \in Slots \cup {NoSlot} /\ l.held \in Slots \cup {NoSlot}
  BY DEF LeasesType
<1>4. Publish(l, slot, f) \in LeasesType
  <2> DEFINE r == Released(l, l.pending)
  <2>1. r \in LeasesType
    BY <1>2, <1>3
  <2> HIDE DEF r
  <2>2. [r EXCEPT !.available = @ \ {slot}, !.frames[slot] = f,
                  !.pending = slot, !.accepted = @ \cup {slot}] \in LeasesType
    BY <2>1 DEF LeasesType
  <2> QED
    BY <2>2 DEF Publish, r
<1>5. Adopt(l) \in LeasesType
  <2> DEFINE r == Released(l, l.held)
  <2>1. r \in LeasesType
    BY <1>2, <1>3
  <2> HIDE DEF r
  <2>2. [r EXCEPT !.held = l.pending, !.pending = NoSlot] \in LeasesType
    BY <2>1, <1>3 DEF LeasesType
  <2> QED
    BY <2>2 DEF Adopt, r
<1>6. SentRelease(l, slot) \in LeasesType /\ SentAccepted(l, slot) \in LeasesType
  BY DEF SentRelease, SentAccepted, LeasesType
<1> QED
  BY <1>1, <1>4, <1>5, <1>6

LEMMA PoolOps ==
  ASSUME NEW p \in PoolType, NEW slot \in Slots, NEW f \in Nat
  PROVE  /\ NoPool \in PoolType
         /\ \A mask \in SUBSET Slots : PoolOf(mask) \in PoolType
         /\ Acquired(p, slot) \in PoolType
         /\ Submitted(p, slot, f) \in PoolType
         /\ Returned(p, slot) \in PoolType
<1>1. 0 \in Slots /\ (slot + 1) % Buffers \in Slots
  BY BuffersAssumption DEF Slots
<1>2. NoPool \in PoolType
  BY <1>1 DEF NoPool, PoolType
<1>3. \A mask \in SUBSET Slots : PoolOf(mask) \in PoolType
  BY <1>2 DEF PoolOf, PoolType
<1>4. Acquired(p, slot) \in PoolType
  BY <1>1 DEF Acquired, PoolType
<1>5. Submitted(p, slot, f) \in PoolType /\ Returned(p, slot) \in PoolType
  BY DEF Submitted, Returned, PoolType
<1> QED
  BY <1>2, <1>3, <1>4, <1>5

-----------------------------------------------------------------------------
(* The slots named by a queue of messages.                                 *)

LEMMA PresentsAppend ==
  ASSUME NEW q \in Seq(PresentMsg), NEW m \in PresentMsg
  PROVE  /\ SlotsOf(Append(q, m)) = SlotsOf(q) \cup {m.slot}
         /\ Distinct(q) /\ m.slot \notin SlotsOf(q) => Distinct(Append(q, m))
<1> DEFINE r == Append(q, m)
<1>1. DOMAIN q = 1 .. Len(q) /\ DOMAIN r = 1 .. Len(q) + 1 /\ Len(q) \in Nat
  OBVIOUS
<1>2. \A i \in DOMAIN q : i \in DOMAIN r /\ r[i] = q[i]
  OBVIOUS
<1>3. r[Len(q) + 1] = m
  OBVIOUS
<1>4. \A i \in DOMAIN r : i \in DOMAIN q \/ i = Len(q) + 1
  BY <1>1
<1> HIDE DEF r
<1>5. SlotsOf(r) = SlotsOf(q) \cup {m.slot}
  BY <1>1, <1>2, <1>3, <1>4 DEF SlotsOf
<1>6. ASSUME Distinct(q), m.slot \notin SlotsOf(q)  PROVE Distinct(r)
  BY <1>6, <1>1, <1>2, <1>3, <1>4 DEF Distinct, SlotsOf
<1> QED
  BY <1>5, <1>6 DEF r

LEMMA PresentsTail ==
  ASSUME NEW q \in Seq(PresentMsg), q # <<>>
  PROVE  /\ Head(q) \in PresentMsg
         /\ Tail(q) \in Seq(PresentMsg)
         /\ \A i \in DOMAIN Tail(q) : i + 1 \in DOMAIN q /\ Tail(q)[i] = q[i + 1]
         /\ Head(q) = q[1] /\ 1 \in DOMAIN q
         /\ Head(q).slot \in SlotsOf(q)
         /\ Distinct(q) => /\ Distinct(Tail(q))
                           /\ SlotsOf(Tail(q)) = SlotsOf(q) \ {Head(q).slot}
<1> DEFINE r == Tail(q)
<1>1. Len(q) \in Nat \ {0} /\ DOMAIN q = 1 .. Len(q) /\ DOMAIN r = 1 .. Len(q) - 1
  OBVIOUS
<1>2. \A i \in DOMAIN r : i + 1 \in DOMAIN q /\ r[i] = q[i + 1]
  BY <1>1
<1>3. Head(q) = q[1] /\ 1 \in DOMAIN q /\ q[1] \in PresentMsg
  BY <1>1
<1>4. \A i \in DOMAIN q : i = 1 \/ (i - 1 \in DOMAIN r /\ r[i - 1] = q[i])
  BY <1>1
<1>5. r \in Seq(PresentMsg)
  BY <1>1
<1> HIDE DEF r
<1>6. Head(q).slot \in SlotsOf(q)
  BY <1>3 DEF SlotsOf
<1>7. ASSUME Distinct(q)
      PROVE  Distinct(r) /\ SlotsOf(r) = SlotsOf(q) \ {Head(q).slot}
  <2>1. Distinct(r)
    BY <1>7, <1>1, <1>2 DEF Distinct
  <2>2. \A i \in DOMAIN r : r[i].slot # q[1].slot
    BY <1>7, <1>1, <1>2, <1>3 DEF Distinct
  <2>3. SlotsOf(r) \subseteq SlotsOf(q) \ {q[1].slot}
    BY <1>2, <2>2 DEF SlotsOf
  <2>4. SlotsOf(q) \ {q[1].slot} \subseteq SlotsOf(r)
    BY <1>4 DEF SlotsOf
  <2> QED
    BY <1>3, <2>1, <2>3, <2>4
<1> QED
  BY <1>2, <1>3, <1>5, <1>6, <1>7 DEF r

LEMMA EventsAppend ==
  ASSUME NEW q \in Seq(EventMsg), NEW m \in EventMsg
  PROVE  /\ ReturnedBy(Append(q, m)) =
              ReturnedBy(q) \cup (IF m.kind = "release" THEN {m.slot} ELSE {})
         /\ \/ m.kind # "release"
            \/ m.slot \notin ReturnedBy(q)
            => (DistinctReleases(q) => DistinctReleases(Append(q, m)))
<1> DEFINE r == Append(q, m)
<1>1. DOMAIN q = 1 .. Len(q) /\ DOMAIN r = 1 .. Len(q) + 1 /\ Len(q) \in Nat
  OBVIOUS
<1>2. \A i \in DOMAIN q : i \in DOMAIN r /\ r[i] = q[i]
  OBVIOUS
<1>3. r[Len(q) + 1] = m
  OBVIOUS
<1>4. \A i \in DOMAIN r : i \in DOMAIN q \/ i = Len(q) + 1
  BY <1>1
<1> HIDE DEF r
<1>5. ReturnedBy(r) = ReturnedBy(q) \cup (IF m.kind = "release" THEN {m.slot} ELSE {})
  BY <1>1, <1>2, <1>3, <1>4 DEF ReturnedBy, ReleasesOf
<1>6. ASSUME m.kind # "release" \/ m.slot \notin ReturnedBy(q), DistinctReleases(q)
      PROVE  DistinctReleases(r)
  BY <1>6, <1>1, <1>2, <1>3, <1>4 DEF DistinctReleases, ReturnedBy, ReleasesOf
<1> QED
  BY <1>5, <1>6 DEF r

LEMMA EventsTail ==
  ASSUME NEW q \in Seq(EventMsg), q # <<>>
  PROVE  /\ Head(q) \in EventMsg
         /\ Tail(q) \in Seq(EventMsg)
         /\ \A i \in DOMAIN Tail(q) : i + 1 \in DOMAIN q /\ Tail(q)[i] = q[i + 1]
         /\ Head(q) = q[1] /\ 1 \in DOMAIN q
         /\ DistinctReleases(q) =>
              /\ DistinctReleases(Tail(q))
              /\ ReturnedBy(Tail(q)) =
                   ReturnedBy(q) \ (IF Head(q).kind = "release" THEN {Head(q).slot} ELSE {})
<1> DEFINE r == Tail(q)
<1>1. Len(q) \in Nat \ {0} /\ DOMAIN q = 1 .. Len(q) /\ DOMAIN r = 1 .. Len(q) - 1
  OBVIOUS
<1>2. \A i \in DOMAIN r : i + 1 \in DOMAIN q /\ r[i] = q[i + 1]
  BY <1>1
<1>3. Head(q) = q[1] /\ 1 \in DOMAIN q /\ q[1] \in EventMsg
  BY <1>1
<1>4. \A i \in DOMAIN q : i = 1 \/ (i - 1 \in DOMAIN r /\ r[i - 1] = q[i])
  BY <1>1
<1>5. r \in Seq(EventMsg)
  BY <1>1
<1> HIDE DEF r
<1>6. ASSUME DistinctReleases(q)
      PROVE  /\ DistinctReleases(r)
             /\ ReturnedBy(r) =
                  ReturnedBy(q) \ (IF q[1].kind = "release" THEN {q[1].slot} ELSE {})
  <2>1. DistinctReleases(r)
    BY <1>6, <1>1, <1>2 DEF DistinctReleases, ReleasesOf
  <2>2. q[1].kind = "release" => \A i \in ReleasesOf(r) : r[i].slot # q[1].slot
    BY <1>6, <1>1, <1>2, <1>3 DEF DistinctReleases, ReleasesOf
  <2>3. ReturnedBy(r) \subseteq
          ReturnedBy(q) \ (IF q[1].kind = "release" THEN {q[1].slot} ELSE {})
    BY <1>2, <2>2 DEF ReturnedBy, ReleasesOf
  <2>4. ReturnedBy(q) \ (IF q[1].kind = "release" THEN {q[1].slot} ELSE {})
          \subseteq ReturnedBy(r)
    BY <1>4, <1>3 DEF ReturnedBy, ReleasesOf
  <2> QED
    BY <2>1, <2>3, <2>4
<1> QED
  BY <1>2, <1>3, <1>5, <1>6 DEF r

-----------------------------------------------------------------------------
(* The type invariant.                                                     *)

LEMMA QueueTypes ==
  /\ <<>> \in Seq(PresentMsg)
  /\ <<>> \in Seq(EventMsg)
  /\ \A q \in Seq(PresentMsg), m \in PresentMsg : Append(q, m) \in Seq(PresentMsg)
  /\ \A q \in Seq(EventMsg), m \in EventMsg : Append(q, m) \in Seq(EventMsg)
  OBVIOUS

LEMMA NoPresentIds == [s \in Slots |-> 0] \in [Slots -> Nat]
  OBVIOUS

LEMMA TypeInit == Init => TypeOK
<1> SUFFICES ASSUME Init  PROVE TypeOK
  OBVIOUS
<1>1. NoLeases \in LeasesType
  BY DEF NoLeases, LeasesType
<1>2. NoPool \in PoolType
  BY BuffersAssumption DEF NoPool, PoolType, Slots
<1>3. leases \in LeasesType /\ pool \in PoolType /\ presentIds \in [Slots -> Nat]
  BY <1>1, <1>2, NoPresentIds DEF Init
<1>4. toBridge \in Seq(PresentMsg) /\ toClient \in Seq(EventMsg)
  BY QueueTypes DEF Init
<1> QED
  BY <1>3, <1>4 DEF Init, TypeOK

LEMMA TypeStep == TypeOK /\ [Next]_vars => TypeOK'
<1> SUFFICES ASSUME TypeOK, [Next]_vars  PROVE TypeOK'
  OBVIOUS
<1> USE DEF TypeOK, renderVars, receiverVars, eyeVars
<1>0. LeasesType # {} /\ leases \in LeasesType /\ pool \in PoolType
  OBVIOUS
<1>1. CASE Connect
  BY <1>1 DEF Connect
<1>2. CASE ReadHello
  <2>1. 0 \in Slots /\ 0 \in Nat
    BY BuffersAssumption DEF Slots
  <2>2. PoolOf(hello) \in PoolType
    BY <2>1, PoolOps
  <2> QED
    BY <1>2, <2>2 DEF ReadHello
<1>3. ASSUME NEW slot \in Slots, Acquire(slot)  PROVE TypeOK'
  BY <1>3, PoolOps, SMTT(30) DEF Acquire
<1>4. ASSUME NEW slot \in Slots, Present(slot)  PROVE TypeOK'
  <2>1. frame + 1 \in Nat /\ [slot |-> slot, frame |-> frame + 1] \in PresentMsg
    BY DEF PresentMsg
  <2>2. Submitted(pool, slot, frame + 1) \in PoolType
    BY <2>1, PoolOps
  <2>3. toBridge' \in Seq(PresentMsg)
    BY <1>4, <2>1, QueueTypes DEF Present
  <2>4. presentIds' \in [Slots -> Nat]
    BY <1>4, <2>1 DEF Present
  <2> QED
    BY <1>4, <2>1, <2>2, <2>3, <2>4 DEF Present
<1>5. CASE ReceiveEvent
  <2> DEFINE m == Head(toClient)
  <2>1. m \in EventMsg /\ m.slot \in Slots /\ Tail(toClient) \in Seq(EventMsg)
    BY <1>5, EventsTail DEF ReceiveEvent, EventMsg
  <2>2. presented' \in Nat
    BY <1>5, <2>1 DEF ReceiveEvent, PresentedAfter
  <2>3. pool' \in PoolType
    BY <1>5, <2>1, PoolOps DEF ReceiveEvent, PoolAfter
  <2> QED
    BY <1>5, <2>1, <2>2, <2>3 DEF ReceiveEvent
<1>6. CASE Close
  <2>1. NoPool \in PoolType
    BY BuffersAssumption DEF NoPool, PoolType, Slots
  <2> QED
    BY <1>6, <2>1, QueueTypes, NoPresentIds DEF Close
<1>7. CASE EnterPoll
  BY <1>7 DEF EnterPoll
<1>8. CASE SeeHangup
  BY <1>8 DEF SeeHangup
<1>9. CASE ReadPresent
  <2>1. Head(toBridge).slot \in Slots /\ Head(toBridge).frame \in Nat
        /\ Tail(toBridge) \in Seq(PresentMsg)
    BY <1>9, PresentsTail DEF ReadPresent, PresentMsg
  <2>2. Publish(leases, Head(toBridge).slot, Head(toBridge).frame) \in LeasesType
    BY <2>1, LeasesOps
  <2> QED
    BY <1>9, <2>1, <2>2, QueueTypes DEF ReadPresent, HangUp
<1>10. CASE WakeToSend
  BY <1>10 DEF WakeToSend
<1>11. CASE WakeIdle
  BY <1>11 DEF WakeIdle
<1>12. CASE Accept
  <2>1. Reconnect(leases) \in LeasesType
    BY LeasesOps, BuffersAssumption DEF Slots
  <2>2. Reconnect(leases).available \in SUBSET Slots
    BY <2>1 DEF LeasesType
  <2> QED
    BY <1>12, <2>1, <2>2 DEF Accept
<1>13. CASE Accepting
  <2>1. \A slot \in Slots : Event("accepted", slot) \in EventMsg
    BY DEF Event, EventMsg, LeasesType
  <2>2. leases.accepted \subseteq Slots
    BY DEF LeasesType
  <2>3. CASE SendAccepted
    BY <1>13, <2>1, <2>2, <2>3, LeasesOps, QueueTypes DEF Accepting, SendAccepted
  <2> QED
    BY <1>13, <2>3 DEF Accepting
<1>14. CASE Releasing
  <2>1. \A slot \in Slots : Event("release", slot) \in EventMsg
    BY DEF Event, EventMsg, LeasesType
  <2>2. Releasable \subseteq Slots
    BY DEF LeasesType, Releasable
  <2>3. CASE SendRelease
    BY <1>14, <2>1, <2>2, <2>3, LeasesOps, QueueTypes DEF Releasing, SendRelease
  <2> QED
    BY <1>14, <2>3 DEF Releasing
<1>15. CASE SendFails
  BY <1>15 DEF SendFails
<1>16. CASE StopReceiving
  BY <1>16, QueueTypes DEF StopReceiving, HangUp
<1>17. CASE Poll
  <2>1. Adopt(leases) \in LeasesType
    BY LeasesOps, BuffersAssumption DEF Slots
  <2>2. Adopt(leases).held \in Slots \cup {NoSlot}
    BY <2>1 DEF LeasesType
  <2>3. leases.pending # NoSlot => leases.frames[leases.pending] \in Nat
    BY DEF LeasesType
  <2> QED
    BY <1>17, <2>1, <2>2, <2>3, ZenonT(30) DEF Poll
<1>18. CASE Draw
  BY <1>18 DEF Draw
<1>19. CASE EndFrame
  BY <1>19 DEF EndFrame
<1>20. CASE Shutdown
  BY <1>20 DEF Shutdown
<1>21. CASE Terminated
  BY <1>21 DEF Terminated, vars
<1>22. CASE UNCHANGED vars
  BY <1>22 DEF vars
<1> QED
  BY <1>1, <1>2, <1>3, <1>4, <1>5, <1>6, <1>7, <1>8, <1>9, <1>10, <1>11, <1>12,
     <1>13, <1>14, <1>15, <1>16, <1>17, <1>18, <1>19, <1>20, <1>21, <1>22
     DEF Next, Renderer, Receiver, Eyes

\* Every variable keeps its type: TypeOK of GpuFrames, for any number of
\* buffers, any socket capacity and any bound on frames.
THEOREM TypeCorrect == Spec => []TypeOK
<1> QED
  BY TypeInit, TypeStep, PTL DEF Spec

-----------------------------------------------------------------------------
(* Images stay exclusive: IInv is inductive.                               *)

LEMMA NoSlotApart == NoSlot \notin Slots
  BY BuffersAssumption DEF NoSlot, Slots

LEMMA EmptyQueues ==
  /\ SlotsOf(<<>>) = {} /\ Distinct(<<>>) /\ DOMAIN <<>> = {}
  /\ ReturnedBy(<<>>) = {} /\ DistinctReleases(<<>>) /\ ReleasesOf(<<>>) = {}
<1>1. DOMAIN <<>> = {}
  OBVIOUS
<1> QED
  BY <1>1 DEF SlotsOf, Distinct, ReturnedBy, DistinctReleases, ReleasesOf

LEMMA ImagesInit == Init => ImagesExclusive
<1> SUFFICES ASSUME Init  PROVE ImagesExclusive
  OBVIOUS
<1> USE DEF Init, NoLeases
<1>1. OnDisplay = {} /\ InFlight = {} /\ Returning = {}
  BY EmptyQueues DEF OnDisplay, InFlight, Returning
<1>2. Connection
  BY DEF Connection
<1>3. LeasesConsistent /\ SamplesHeld
  BY <1>1 DEF LeasesConsistent, SamplesHeld
<1>4. Round
  BY EmptyQueues DEF Round
<1>5. Numbered
  BY <1>1, EmptyQueues DEF Numbered
<1> QED
  BY <1>2, <1>3, <1>4, <1>5 DEF ImagesExclusive

\* What a step that leaves the images where they are preserves.
imageVars == <<pool, acquired, toBridge, toClient, leases>>

LEMMA ImagesStay ==
  ASSUME ImagesExclusive, UNCHANGED imageVars
  PROVE  /\ LeasesConsistent'
         /\ link' = link => Round' /\ Numbered'
<1>1. OnDisplay' = OnDisplay /\ InFlight' = InFlight /\ Returning' = Returning
  BY DEF imageVars, OnDisplay, InFlight, Returning
<1>2. LeasesConsistent'
  BY <1>1 DEF imageVars, ImagesExclusive, LeasesConsistent
<1>3. ASSUME link' = link  PROVE Round'
  BY <1>1, <1>3 DEF imageVars, ImagesExclusive, Round
<1>4. ASSUME link' = link  PROVE Numbered'
  BY <1>1, <1>4 DEF imageVars, ImagesExclusive, Numbered, Recognized
<1> QED
  BY <1>2, <1>3, <1>4

LEMMA MessageSlots ==
  ASSUME TypeOK
  PROVE  /\ \A i \in DOMAIN toBridge :
              /\ toBridge[i].slot \in InFlight \cap Slots
              /\ toBridge[i].frame \in Nat
         /\ \A i \in ReleasesOf(toClient) :
              /\ toClient[i].slot \in Returning \cap Slots
              /\ toClient[i].frame \in Nat
<1>1. \A i \in DOMAIN toBridge : toBridge[i] \in PresentMsg
  BY DEF TypeOK
<1>2. \A i \in DOMAIN toClient : toClient[i] \in EventMsg
  BY DEF TypeOK
<1> QED
  BY <1>1, <1>2 DEF InFlight, Returning, SlotsOf, ReturnedBy, ReleasesOf,
                    PresentMsg, EventMsg

LEMMA LeaseSlots ==
  ASSUME TypeOK
  PROVE  /\ OnDisplay \cup leases.releases \subseteq Slots
         /\ leases.held \in Slots \cup {NoSlot}
         /\ leases.pending \in Slots \cup {NoSlot}
         /\ \A slot \in Slots : leases.frames[slot] \in Nat
  BY DEF OnDisplay, TypeOK, LeasesType

LEMMA ImagesConnect == IInv /\ Connect => ImagesExclusive'
<1> SUFFICES ASSUME IInv, Connect  PROVE ImagesExclusive'
  OBVIOUS
<1> USE DEF IInv, ImagesExclusive, Connect, renderVars, receiverVars, eyeVars
<1>1. UNCHANGED imageVars /\ UNCHANGED OnDisplay
  BY DEF imageVars, OnDisplay
<1>2. Connection' /\ SamplesHeld' /\ LeasesConsistent'
  BY <1>1, ImagesStay DEF Connection, SamplesHeld
<1>3. toBridge' = <<>> /\ toClient' = <<>>
  BY DEF Connection
<1>4. Round'
  BY <1>3, EmptyQueues DEF Round
<1>5. Numbered'
  BY <1>1, <1>3, EmptyQueues DEF Numbered, imageVars
<1> QED
  BY <1>2, <1>4, <1>5

LEMMA ImagesReadHello == IInv /\ ReadHello => ImagesExclusive'
<1> SUFFICES ASSUME IInv, ReadHello  PROVE ImagesExclusive'
  OBVIOUS
<1> USE DEF IInv, ImagesExclusive, ReadHello, renderVars, receiverVars, eyeVars
<1>1. /\ toBridge' = <<>> /\ toClient' = <<>> /\ acquired' = {}
      /\ leases' = leases /\ leases.releases = {} /\ leases.pending = NoSlot
      /\ hello = Slots \ {leases.held} /\ leases.held \in Slots \cup {NoSlot}
  BY DEF Connection, TypeOK, LeasesType
<1>2. OnDisplay' = OnDisplay /\ OnDisplay = Slots \ hello
  BY <1>1, NoSlotApart DEF OnDisplay
<1>3. pool'.available = hello /\ pool'.inherited = Slots \ hello
  BY DEF PoolOf, NoPool
<1>4. Connection' /\ SamplesHeld'
  BY <1>1 DEF Connection, SamplesHeld
<1>5. LeasesConsistent'
  BY <1>1, <1>2 DEF LeasesConsistent
<1>6. InFlight' = {} /\ Returning' = {}
  BY <1>1, EmptyQueues DEF InFlight, Returning
<1>7. Round'
  BY <1>1, <1>2, <1>3, <1>6, EmptyQueues DEF Round, Apart
<1>8. Numbered'
  BY <1>1, <1>2, <1>3, EmptyQueues DEF Numbered, Recognized
<1> QED
  BY <1>4, <1>5, <1>7, <1>8

LEMMA ImagesAcquire ==
  ASSUME IInv, NEW slot \in Slots, Acquire(slot)  PROVE ImagesExclusive'
<1> USE DEF IInv, ImagesExclusive, Acquire, renderVars, receiverVars, eyeVars
<1>1. /\ slot \in pool.available
      /\ pool'.available = pool.available \ {slot}
      /\ pool'.inherited = pool.inherited
      /\ \A s \in Slots \ {slot} : pool'.frames[s] = pool.frames[s]
  BY DEF IsNextSlot, Acquired, TypeOK, PoolType
<1>2. OnDisplay' = OnDisplay /\ InFlight' = InFlight /\ Returning' = Returning
  BY DEF OnDisplay, InFlight, Returning
<1>3. Connection' /\ SamplesHeld' /\ LeasesConsistent'
  BY <1>2 DEF Connection, SamplesHeld, LeasesConsistent
<1>4. Round'
  BY <1>1, <1>2 DEF Round, Apart
<1>5. CASE link = "up"
  <2>1. Apart(acquired, pool.available, InFlight, OnDisplay, leases.releases,
              Returning)
    BY <1>5 DEF Round
  <2>2. \A s \in Slots : s \in InFlight \cup Returning \cup OnDisplay \cup leases.releases
                         => s # slot
    BY <2>1, <1>1 DEF Apart
  <2>3. Numbered'
    BY <1>2, <2>2, <1>1, MessageSlots, LeaseSlots DEF Numbered, Recognized
  <2> QED
    BY <1>3, <1>4, <2>3
<1>6. CASE link = "hungup"
  <2>1. toBridge' = <<>> /\ toClient' = <<>>
    BY <1>6 DEF Connection
  <2>2. Numbered'
    BY <1>2, <1>6, <2>1, EmptyQueues DEF Numbered
  <2> QED
    BY <1>3, <1>4, <2>2
<1> QED
  BY <1>5, <1>6

LEMMA ImagesPresent ==
  ASSUME IInv, NEW slot \in Slots, Present(slot)  PROVE ImagesExclusive'
<1> USE DEF IInv, ImagesExclusive, Present, renderVars, receiverVars, eyeVars
<1>1. /\ slot \in acquired
      /\ acquired' = acquired \ {slot}
      /\ pool'.available = pool.available
      /\ pool'.inherited = pool.inherited
      /\ \A s \in Slots \ {slot} : pool'.frames[s] = pool.frames[s]
      /\ pool'.frames[slot] = frame + 1
  BY DEF Submitted, TypeOK, PoolType
<1>2. OnDisplay' = OnDisplay /\ Returning' = Returning
  BY DEF OnDisplay, Returning
<1>3. Connection' /\ SamplesHeld' /\ LeasesConsistent'
  BY <1>2 DEF Connection, SamplesHeld, LeasesConsistent
<1>4. CASE link = "up"
  <2> DEFINE present == [slot |-> slot, frame |-> frame + 1]
  <2>1. present \in PresentMsg /\ frame + 1 # 0
    BY DEF PresentMsg, TypeOK
  <2>2. toBridge' = Append(toBridge, present) /\ toBridge \in Seq(PresentMsg)
    BY <1>4 DEF TypeOK
  <2>3. Apart(acquired, pool.available, InFlight, OnDisplay, leases.releases,
              Returning)
    BY <1>4 DEF Round
  <2>4. slot \notin InFlight
    BY <2>3, <1>1 DEF Apart
  <2>5. InFlight' = InFlight \cup {slot} /\ Distinct(toBridge')
    BY <2>1, <2>2, <2>4, PresentsAppend DEF InFlight, Round
  <2>6. Round'
    BY <1>1, <1>2, <1>4, <2>5 DEF Round, Apart
  <2>7. \A s \in Slots : s \in InFlight \cup Returning \cup OnDisplay \cup leases.releases
                         => s # slot
    BY <2>3, <1>1 DEF Apart
  <2>8. \A i \in DOMAIN toBridge' :
          \/ i \in DOMAIN toBridge /\ toBridge'[i] = toBridge[i]
          \/ toBridge'[i].slot = slot /\ toBridge'[i].frame = frame + 1
    BY <2>1, <2>2
  <2>9. \A i \in DOMAIN toBridge' :
           toBridge'[i].frame # 0 /\ Recognized(toBridge[i].slot, toBridge[i].frame)'
    BY <2>1, <2>7, <2>8, <1>1, MessageSlots, SMTT(30) DEF Numbered, Recognized
  <2>10. Numbered'
    BY <1>2, <2>7, <2>9, <1>1, MessageSlots, LeaseSlots DEF Numbered, Recognized
  <2> QED
    BY <1>3, <2>6, <2>10
<1>5. CASE link = "hungup"
  <2>1. toBridge' = <<>> /\ toClient' = <<>>
    BY <1>5 DEF Connection
  <2>2. Numbered'
    BY <1>2, <1>5, <2>1, EmptyQueues DEF Numbered
  <2>3. Round'
    BY <1>1, <1>2, <1>5, <2>1, EmptyQueues DEF Round
  <2> QED
    BY <1>3, <2>2, <2>3
<1> QED
  BY <1>4, <1>5

LEMMA ImagesReceiveEvent == IInv /\ ReceiveEvent => ImagesExclusive'
<1> SUFFICES ASSUME IInv, ReceiveEvent  PROVE ImagesExclusive'
  OBVIOUS
<1> USE DEF IInv, ImagesExclusive, ReceiveEvent, renderVars, receiverVars, eyeVars
<1> DEFINE m == Head(toClient)
<1>1. /\ m \in EventMsg /\ m.slot \in Slots /\ toClient' = Tail(toClient)
      /\ 1 \in DOMAIN toClient /\ m = toClient[1]
      /\ DistinctReleases(toClient')
      /\ Returning' = Returning \ (IF m.kind = "release" THEN {m.slot} ELSE {})
      /\ \A i \in DOMAIN toClient' :
            i + 1 \in DOMAIN toClient /\ toClient'[i] = toClient[i + 1]
  BY EventsTail DEF TypeOK, Round, Returning, EventMsg
<1>2. OnDisplay' = OnDisplay /\ InFlight' = InFlight
  BY DEF OnDisplay, InFlight
<1>3. Connection' /\ SamplesHeld' /\ LeasesConsistent'
  BY <1>2 DEF Connection, SamplesHeld, LeasesConsistent
<1>4. Apart(acquired, pool.available, InFlight, OnDisplay, leases.releases, Returning)
  BY DEF Round
<1>5. \A i \in ReleasesOf(toClient') :
         i + 1 \in ReleasesOf(toClient) /\ toClient'[i] = toClient[i + 1]
  BY <1>1 DEF ReleasesOf
<1>6. CASE m.kind = "release"
  <2>1. 1 \in ReleasesOf(toClient) /\ m.slot \in Returning
    BY <1>1, <1>6, MessageSlots DEF ReleasesOf
  <2>2. CanReturn(pool, m.slot, m.frame)
    BY <2>1, <1>1, <1>4 DEF CanReturn, Numbered, Recognized, Apart
  <2>3. pool' = Returned(pool, m.slot)
    BY <1>6, <2>2 DEF PoolAfter
  <2>4. /\ pool'.available = pool.available \cup {m.slot}
        /\ pool'.inherited = pool.inherited \ {m.slot}
        /\ pool'.frames = pool.frames
    BY <2>3 DEF Returned, TypeOK, PoolType
  <2>5. Round'
    BY <1>1, <1>2, <1>6, <2>1, <2>4 DEF Round, Apart
  <2>6. \A s \in Slots : s \in InFlight \cup Returning' \cup OnDisplay \cup leases.releases
                         => s # m.slot
    BY <1>1, <1>4, <1>6, <2>1 DEF Apart
  <2>7. \A i \in ReleasesOf(toClient') : toClient'[i].slot \in Returning'
    BY DEF Returning, ReturnedBy
  <2>8. \A i \in ReleasesOf(toClient') :
           /\ toClient'[i].frame # 0
           /\ Recognized(toClient[i].slot, toClient[i].frame)'
    <3> SUFFICES ASSUME NEW i \in ReleasesOf(toClient')
                 PROVE  /\ toClient'[i].frame # 0
                        /\ Recognized(toClient[i].slot, toClient[i].frame)'
      OBVIOUS
    <3>1. i + 1 \in ReleasesOf(toClient) /\ toClient'[i] = toClient[i + 1]
      BY <1>5
    <3>2. /\ toClient[i + 1].slot \in Slots /\ toClient[i + 1].frame \in Nat
          /\ toClient[i + 1].frame # 0
          /\ Recognized(toClient[i + 1].slot, toClient[i + 1].frame)
      BY <3>1, MessageSlots DEF Numbered
    <3>3. toClient[i + 1].slot # m.slot
      BY <2>6, <2>7, <3>1, <3>2
    <3> QED
      BY <2>4, <3>1, <3>2, <3>3 DEF Recognized
  <2>9. \A i \in DOMAIN toBridge :
            toBridge[i].frame # 0 /\ Recognized(toBridge[i].slot, toBridge[i].frame)'
    BY <2>4, <2>6, MessageSlots DEF Numbered, Recognized
  <2>10. \A slot \in OnDisplay \cup leases.releases :
            leases.frames[slot] # 0 /\ Recognized(slot, leases.frames[slot])'
    BY <2>4, <2>6, LeaseSlots DEF Numbered, Recognized
  <2>11. Numbered'
    BY <1>2, <2>8, <2>9, <2>10 DEF Numbered, Recognized
  <2> QED
    BY <1>3, <2>5, <2>11
<1>7. CASE m.kind # "release"
  <2>1. pool' = pool
    BY <1>7 DEF PoolAfter
  <2>2. Round'
    BY <1>1, <1>2, <1>7, <2>1 DEF Round, Apart
  <2>3. \A i \in ReleasesOf(toClient') :
           /\ toClient'[i].frame # 0
           /\ Recognized(toClient'[i].slot, toClient'[i].frame)
    BY <1>5 DEF Numbered
  <2>4. Numbered'
    BY <1>2, <2>1, <2>3, ZenonT(30) DEF Numbered, Recognized
  <2> QED
    BY <1>3, <2>2, <2>4
<1> QED
  BY <1>6, <1>7

LEMMA ImagesClose == IInv /\ Close => ImagesExclusive'
<1> SUFFICES ASSUME IInv, Close  PROVE ImagesExclusive'
  OBVIOUS
<1> USE DEF IInv, ImagesExclusive, Close, renderVars, receiverVars, eyeVars
<1>1. OnDisplay' = OnDisplay
  BY DEF OnDisplay
<1>2. Connection' /\ SamplesHeld' /\ LeasesConsistent'
  BY <1>1 DEF Connection, SamplesHeld, LeasesConsistent
<1>3. Round'
  BY EmptyQueues DEF Round
<1>4. Numbered'
  BY <1>1, EmptyQueues DEF Numbered
<1> QED
  BY <1>2, <1>3, <1>4

LEMMA PublishFields ==
  ASSUME NEW l \in LeasesType, NEW slot \in Slots, NEW f \in Nat
  PROVE  LET p == Publish(l, slot, f)
         IN /\ p.held = l.held /\ p.pending = slot
            /\ p.available = (l.available \cup ({l.pending} \ {NoSlot})) \ {slot}
            /\ p.releases = l.releases \cup ({l.pending} \ {NoSlot})
            /\ p.frames[slot] = f
            /\ \A s \in Slots \ {slot} : p.frames[s] = l.frames[s]
<1> DEFINE r == Released(l, l.pending)
<1>1. /\ r \in LeasesType
      /\ r.held = l.held /\ r.frames = l.frames
      /\ r.available = l.available \cup ({l.pending} \ {NoSlot})
      /\ r.releases = l.releases \cup ({l.pending} \ {NoSlot})
  BY DEF Released, LeasesType
<1> HIDE DEF r
<1> QED
  BY <1>1 DEF Publish, LeasesType, r

LEMMA AdoptFields ==
  ASSUME NEW l \in LeasesType, l.pending # NoSlot
  PROVE  LET a == Adopt(l)
         IN /\ a.held = l.pending /\ a.pending = NoSlot
            /\ a.available = l.available \cup ({l.held} \ {NoSlot})
            /\ a.releases = l.releases \cup ({l.held} \ {NoSlot})
            /\ a.frames = l.frames
<1> DEFINE r == Released(l, l.held)
<1>1. /\ r \in LeasesType
      /\ r.frames = l.frames
      /\ r.available = l.available \cup ({l.held} \ {NoSlot})
      /\ r.releases = l.releases \cup ({l.held} \ {NoSlot})
  BY DEF Released, LeasesType
<1> HIDE DEF r
<1> QED
  BY <1>1 DEF Adopt, LeasesType, r

\* Steps that only move threads, or take a connection whose peer is gone.
LEMMA ImagesQuiet ==
  ASSUME IInv, UNCHANGED <<imageVars, link, hello, texture, reading, eyes>>,
         client' = "live" <=> client = "live"
  PROVE  ImagesExclusive'
<1> USE DEF IInv, ImagesExclusive
<1>1. UNCHANGED imageVars /\ LeasesConsistent' /\ Round' /\ Numbered'
  BY ImagesStay
<1>2. Connection' /\ SamplesHeld'
  BY <1>1 DEF imageVars, Connection, SamplesHeld
<1> QED
  BY <1>1, <1>2

LEMMA ImagesHangUp ==
  ASSUME IInv, HangUp, UNCHANGED <<renderVars, hello, leases, eyeVars>>
  PROVE  ImagesExclusive'
<1> USE DEF IInv, ImagesExclusive, HangUp, renderVars, eyeVars
<1>1. OnDisplay' = OnDisplay
  BY DEF OnDisplay
<1>2. toBridge' = <<>> /\ toClient' = <<>> /\ leases' = leases
      /\ acquired' = acquired /\ pool' = pool
  OBVIOUS
<1>3. Connection' /\ SamplesHeld' /\ LeasesConsistent'
  BY <1>1 DEF Connection, SamplesHeld, LeasesConsistent
<1>4. link' # "up"
  OBVIOUS
<1>5. Round'
  BY <1>1, <1>2, <1>4, EmptyQueues DEF Round, Apart
<1>6. Numbered'
  BY <1>1, <1>2, <1>4, EmptyQueues DEF Numbered
<1> QED
  BY <1>3, <1>5, <1>6

LEMMA ImagesReadPresent == IInv /\ ReadPresent => ImagesExclusive'
<1> SUFFICES ASSUME IInv, ReadPresent  PROVE ImagesExclusive'
  OBVIOUS
<1> USE DEF IInv, ImagesExclusive, ReadPresent, renderVars, receiverVars, eyeVars
<1> DEFINE m == Head(toBridge)
<1>1. /\ m \in PresentMsg /\ m.slot \in Slots /\ m.frame \in Nat
      /\ 1 \in DOMAIN toBridge /\ m = toBridge[1]
      /\ m.slot \in InFlight
      /\ \A i \in DOMAIN Tail(toBridge) :
            i + 1 \in DOMAIN toBridge /\ Tail(toBridge)[i] = toBridge[i + 1]
      /\ Distinct(Tail(toBridge))
      /\ SlotsOf(Tail(toBridge)) = InFlight \ {m.slot}
  BY PresentsTail DEF TypeOK, Round, InFlight, PresentMsg
<1>2. link = "up"
  BY DEF Connection
<1>3. Apart(acquired, pool.available, InFlight, OnDisplay, leases.releases, Returning)
  BY <1>2 DEF Round
<1>4. m.frame # 0 /\ Recognized(m.slot, m.frame)
  BY <1>1 DEF Numbered
<1>5. CanPublish(leases, m.slot, m.frame)
  BY <1>1, <1>3, <1>4 DEF CanPublish, LeasesConsistent, Apart
<1>6. /\ leases' = Publish(leases, m.slot, m.frame)
      /\ toBridge' = Tail(toBridge)
      /\ UNCHANGED <<link, hello, toClient, client, pool, acquired>>
  BY <1>5
<1> DEFINE superseded == {leases.pending} \ {NoSlot}
<1>7. /\ leases'.held = leases.held /\ leases'.pending = m.slot
      /\ leases'.available = (leases.available \cup superseded) \ {m.slot}
      /\ leases'.releases = leases.releases \cup superseded
      /\ leases'.frames[m.slot] = m.frame
      /\ \A s \in Slots \ {m.slot} : leases'.frames[s] = leases.frames[s]
  BY <1>1, <1>6, PublishFields DEF TypeOK
<1>8. /\ InFlight' = InFlight \ {m.slot} /\ Returning' = Returning
      /\ OnDisplay = ({leases.held} \ {NoSlot}) \cup superseded
      /\ OnDisplay' = ({leases.held} \ {NoSlot}) \cup {m.slot}
  BY <1>1, <1>6, <1>7, NoSlotApart DEF InFlight, Returning, OnDisplay
<1>9. m.slot \notin OnDisplay /\ m.slot \notin leases.releases
  BY <1>1, <1>3 DEF Apart
<1>10. Connection'
  BY <1>2, <1>6 DEF Connection
<1>11. SamplesHeld'
  BY <1>7 DEF SamplesHeld
<1>12. ({leases.held} \ {NoSlot}) \cap superseded = {}
  BY DEF LeasesConsistent
<1> HIDE DEF m, superseded
<1>13. LeasesConsistent'
  <2>1. leases'.available = Slots \ OnDisplay'
    BY <1>1, <1>7, <1>8, <1>9, <1>12, LeaseSlots DEF LeasesConsistent
  <2>2. leases'.held = leases'.pending => leases'.held = NoSlot
    BY <1>7, <1>8, <1>9
  <2>3. leases'.releases \subseteq leases'.available
    BY <1>7, <1>8, <1>9 DEF LeasesConsistent
  <2> QED
    BY <2>1, <2>2, <2>3 DEF LeasesConsistent
<1>14. Round'
  BY <1>1, <1>2, <1>6, <1>7, <1>8, <1>12 DEF Round, Apart
<1>15. \A i \in DOMAIN toBridge' :
          toBridge'[i].frame # 0 /\ Recognized(toBridge'[i].slot, toBridge'[i].frame)
  BY <1>1, <1>6 DEF Numbered
<1>16. \A slot \in OnDisplay' \cup leases'.releases :
          leases'.frames[slot] # 0 /\ Recognized(slot, leases'.frames[slot])
  BY <1>1, <1>2, <1>4, <1>7, <1>8, <1>9, LeaseSlots DEF Numbered
<1>17. Numbered'
  BY <1>6, <1>15, <1>16 DEF Numbered, Recognized
<1> QED
  BY <1>10, <1>11, <1>13, <1>14, <1>17

LEMMA ImagesAccept == IInv /\ Accept => ImagesExclusive'
<1> SUFFICES ASSUME IInv, Accept  PROVE ImagesExclusive'
  OBVIOUS
<1> USE DEF IInv, ImagesExclusive, Accept, renderVars, receiverVars, eyeVars
<1>1. /\ leases'.held = leases.held /\ leases'.pending = NoSlot
      /\ leases'.releases = {} /\ leases'.accepted = {}
      /\ leases'.frames = leases.frames
      /\ leases'.available = Slots \ {leases.held}
  BY DEF Reconnect, TypeOK, LeasesType
<1>2. OnDisplay' \subseteq OnDisplay /\ OnDisplay' = {leases.held} \ {NoSlot}
  BY <1>1 DEF OnDisplay
<1>3. link # "up" /\ link' # "up" /\ toBridge' = <<>> /\ toClient' = <<>>
  BY DEF Connection
<1>4. LeasesConsistent' /\ SamplesHeld'
  BY <1>1, <1>2, LeaseSlots, NoSlotApart DEF LeasesConsistent, SamplesHeld
<1>5. Connection'
  BY <1>1, <1>3 DEF Connection
<1>6. Round'
  BY <1>2, <1>3, EmptyQueues DEF Round
<1>7. Numbered'
  BY <1>1, <1>2, <1>3, EmptyQueues DEF Numbered
<1> QED
  BY <1>4, <1>5, <1>6, <1>7

\* Sending an acceptance moves no image.
LEMMA ImagesSendAccepted ==
  ASSUME IInv, Accepting, SendAccepted  PROVE ImagesExclusive'
<1> USE DEF IInv, ImagesExclusive, Accepting, renderVars, receiverVars, eyeVars
<1>1. PICK slot \in leases.accepted :
         /\ leases' = SentAccepted(leases, slot)
         /\ toClient' = Append(toClient, Event("accepted", slot))
  BY DEF SendAccepted
<1> DEFINE m == Event("accepted", slot)
<1>2. /\ slot \in Slots /\ m \in EventMsg /\ toClient \in Seq(EventMsg)
      /\ m.kind = "accepted" /\ link = "up"
  BY LeaseSlots DEF Event, EventMsg, TypeOK, LeasesType, Connection
<1>3. /\ leases'.held = leases.held /\ leases'.pending = leases.pending
      /\ leases'.available = leases.available
      /\ leases'.releases = leases.releases /\ leases'.frames = leases.frames
  BY <1>1 DEF SentAccepted, TypeOK, LeasesType
<1>4. Returning' = Returning /\ DistinctReleases(toClient')
  BY <1>1, <1>2, EventsAppend DEF Returning, Round
<1>5. OnDisplay' = OnDisplay /\ InFlight' = InFlight
  BY <1>3 DEF OnDisplay, InFlight
<1>6. \A i \in ReleasesOf(toClient') :
         i \in ReleasesOf(toClient) /\ toClient'[i] = toClient[i]
  BY <1>1, <1>2 DEF ReleasesOf
<1>7. Connection' /\ LeasesConsistent' /\ SamplesHeld'
  BY <1>2, <1>3, <1>5 DEF Connection, LeasesConsistent, SamplesHeld
<1>8. Round'
  BY <1>3, <1>4, <1>5 DEF Round, Apart
<1>9. \A i \in ReleasesOf(toClient') :
         toClient'[i].frame # 0 /\ Recognized(toClient'[i].slot, toClient'[i].frame)
  BY <1>6 DEF Numbered
<1>10. Numbered'
  BY <1>3, <1>5, <1>9 DEF Numbered, Recognized
<1> QED
  BY <1>7, <1>8, <1>10

\* Sending a release moves an image from owed to under way.
LEMMA ImagesSendRelease ==
  ASSUME IInv, Releasing, SendRelease  PROVE ImagesExclusive'
<1> USE DEF IInv, ImagesExclusive, Releasing, renderVars, receiverVars, eyeVars
<1>1. PICK slot \in leases.releases :
         /\ leases' = SentRelease(leases, slot)
         /\ toClient' = Append(toClient, Event("release", slot))
  BY DEF SendRelease, Releasable
<1> DEFINE m == Event("release", slot)
<1>2. /\ slot \in Slots /\ m \in EventMsg /\ toClient \in Seq(EventMsg)
      /\ m.kind = "release" /\ m.slot = slot /\ m.frame = leases.frames[slot]
  BY LeaseSlots DEF Event, EventMsg, TypeOK
<1>3. /\ leases'.held = leases.held /\ leases'.pending = leases.pending
      /\ leases'.available = leases.available
      /\ leases'.releases = leases.releases \ {slot}
      /\ leases'.frames = leases.frames
  BY <1>1 DEF SentRelease, TypeOK, LeasesType
<1>4. OnDisplay' = OnDisplay /\ InFlight' = InFlight
  BY <1>3 DEF OnDisplay, InFlight
<1>5. CASE link = "up"
  <2>1. slot \notin Returning
    BY <1>5 DEF Round, Apart
  <2>2. Returning' = Returning \cup {slot} /\ DistinctReleases(toClient')
    BY <1>1, <1>2, <2>1, EventsAppend DEF Returning, Round
  <2>3. Connection' /\ LeasesConsistent' /\ SamplesHeld'
    BY <1>3, <1>4, <1>5 DEF Connection, LeasesConsistent, SamplesHeld
  <2>4. Round'
    BY <1>3, <1>4, <1>5, <2>2 DEF Round, Apart
  <2>5. \A i \in ReleasesOf(toClient') :
           \/ i \in ReleasesOf(toClient) /\ toClient'[i] = toClient[i]
           \/ toClient'[i] = m
    BY <1>1, <1>2 DEF ReleasesOf
  <2>6. m.frame # 0 /\ Recognized(m.slot, m.frame)
    BY <1>2, <1>5 DEF Numbered
  <2>7. \A i \in ReleasesOf(toClient') :
           /\ toClient'[i].frame # 0
           /\ Recognized(toClient'[i].slot, toClient'[i].frame)
    BY <2>5, <2>6 DEF Numbered
  <2>8. Numbered'
    BY <1>3, <1>4, <1>5, <2>7 DEF Numbered, Recognized
  <2> QED
    BY <2>3, <2>4, <2>8
<1>6. CASE link # "up"
  <2>1. link = "greeted"
    BY <1>6 DEF Connection
  <2> QED
    BY <2>1 DEF Connection
<1> QED
  BY <1>5, <1>6

LEMMA ImagesPoll == IInv /\ Poll => ImagesExclusive'
<1> SUFFICES ASSUME IInv, Poll  PROVE ImagesExclusive'
  OBVIOUS
<1> USE DEF IInv, ImagesExclusive, Poll, renderVars, receiverVars, eyeVars
<1>1. InFlight' = InFlight /\ Returning' = Returning /\ reading = {} /\ reading' = {}
  BY DEF InFlight, Returning, SamplesHeld
<1>2. CASE leases.pending = NoSlot
  <2>1. leases' = leases
    BY <1>2 DEF Adopt
  <2>2. UNCHANGED imageVars
    BY <2>1 DEF imageVars
  <2>3. LeasesConsistent' /\ Round' /\ Numbered'
    BY <2>2, ImagesStay
  <2>4. Connection' /\ SamplesHeld'
    BY <1>1, <1>2, <2>1 DEF Connection, SamplesHeld
  <2> QED
    BY <2>3, <2>4
<1>3. CASE leases.pending # NoSlot
  <2>1. /\ leases'.held = leases.pending /\ leases'.pending = NoSlot
        /\ leases'.available = leases.available \cup ({leases.held} \ {NoSlot})
        /\ leases'.releases = leases.releases \cup ({leases.held} \ {NoSlot})
        /\ leases'.frames = leases.frames
    BY <1>3, AdoptFields DEF TypeOK
  <2>2. /\ OnDisplay = ({leases.held} \ {NoSlot}) \cup {leases.pending}
        /\ OnDisplay' = {leases.pending}
        /\ leases.pending \notin {leases.held} \ {NoSlot}
        /\ leases.pending \in Slots
    BY <1>3, <2>1, LeaseSlots DEF OnDisplay, LeasesConsistent
  <2>3. LeasesConsistent'
    BY <1>3, <2>1, <2>2, LeaseSlots DEF LeasesConsistent
  <2>4. Connection' /\ SamplesHeld'
    BY <1>1, <1>3, <2>1 DEF Connection, SamplesHeld
  <2>5. Round'
    BY <1>1, <2>1, <2>2 DEF Round, Apart
  <2>6. OnDisplay' \cup leases'.releases = OnDisplay \cup leases.releases
    BY <2>1, <2>2
  <2>7. Numbered'
    BY <2>1, <2>6 DEF Numbered, Recognized
  <2> QED
    BY <2>3, <2>4, <2>5, <2>7
<1> QED
  BY <1>2, <1>3

LEMMA ImagesDraw == IInv /\ (Draw \/ EndFrame \/ Shutdown) => ImagesExclusive'
<1> SUFFICES ASSUME IInv, Draw \/ EndFrame \/ Shutdown  PROVE ImagesExclusive'
  OBVIOUS
<1> USE DEF IInv, ImagesExclusive, Draw, EndFrame, Shutdown, renderVars,
            receiverVars, eyeVars
<1>1. UNCHANGED <<imageVars, link, client, hello, texture>>
  BY DEF imageVars
<1>2. LeasesConsistent' /\ Round' /\ Numbered'
  BY <1>1, ImagesStay
<1>3. Connection' /\ SamplesHeld'
  BY <1>1 DEF imageVars, Connection, SamplesHeld
<1> QED
  BY <1>2, <1>3

LEMMA ImagesStep == IInv /\ [Next]_vars => IInv'
<1> SUFFICES ASSUME IInv, [Next]_vars  PROVE ImagesExclusive'
  BY TypeStep DEF IInv
<1>1. CASE Connect \/ ReadHello \/ ReceiveEvent \/ Close
  BY <1>1, ImagesConnect, ImagesReadHello, ImagesReceiveEvent, ImagesClose
<1>2. CASE \E slot \in Slots : Acquire(slot) \/ Present(slot)
  BY <1>2, ImagesAcquire, ImagesPresent
<1>3. CASE EnterPoll \/ SeeHangup \/ WakeToSend \/ WakeIdle \/ SendFails
  <2>1. UNCHANGED <<imageVars, link, hello, texture, reading, eyes>>
    BY <1>3 DEF EnterPoll, SeeHangup, WakeToSend, WakeIdle, SendFails, imageVars,
                renderVars, receiverVars, eyeVars
  <2>2. client' = "live" <=> client = "live"
    BY <1>3 DEF EnterPoll, SeeHangup, WakeToSend, WakeIdle, SendFails
  <2> QED
    BY <2>1, <2>2, ImagesQuiet
<1>4. CASE Accepting
  <2>1. CASE SendAccepted
    BY <1>4, <2>1, ImagesSendAccepted
  <2>2. CASE UNCHANGED <<leases, toClient>>
    <3>1. UNCHANGED <<imageVars, link, hello, texture, reading, eyes, client>>
      BY <1>4, <2>2 DEF Accepting, imageVars, renderVars, receiverVars, eyeVars
    <3> QED
      BY <3>1, ImagesQuiet
  <2> QED
    BY <1>4, <2>1, <2>2 DEF Accepting
<1>5. CASE Releasing
  <2>1. CASE SendRelease
    BY <1>5, <2>1, ImagesSendRelease
  <2>2. CASE UNCHANGED <<leases, toClient>>
    <3>1. UNCHANGED <<imageVars, link, hello, texture, reading, eyes, client>>
      BY <1>5, <2>2 DEF Releasing, imageVars, renderVars, receiverVars, eyeVars
    <3> QED
      BY <3>1, ImagesQuiet
  <2> QED
    BY <1>5, <2>1, <2>2 DEF Releasing
<1>6. CASE StopReceiving
  BY <1>6, ImagesHangUp DEF StopReceiving, receiverVars
<1>7. CASE ReadPresent \/ Accept
  BY <1>7, ImagesReadPresent, ImagesAccept
<1>8. CASE Eyes
  BY <1>8, ImagesPoll, ImagesDraw DEF Eyes
<1>9. CASE UNCHANGED vars
  <2>1. UNCHANGED <<imageVars, link, hello, texture, reading, eyes, client>>
    BY <1>9 DEF vars, imageVars, renderVars, receiverVars, eyeVars
  <2> QED
    BY <2>1, ImagesQuiet
<1> QED
  BY <1>1, <1>2, <1>3, <1>4, <1>5, <1>6, <1>7, <1>8, <1>9
     DEF Next, Renderer, Receiver, Terminated

LEMMA ImagesAlways == Spec => []IInv
<1>1. Init => IInv
  BY TypeInit, ImagesInit DEF IInv
<1> QED
  BY <1>1, ImagesStep, PTL DEF Spec

\* The renderer never draws into an image that is on display, queued for it,
\* or still sampled by an eye pass: NoTornImage, whatever the number of
\* buffers, the socket's capacity and the images drawn at once.
THEOREM ImagesNeverTorn == Spec => []NoTornImage
<1>1. IInv => NoTornImage
  <2> SUFFICES ASSUME IInv  PROVE NoTornImage
    OBVIOUS
  <2> USE DEF IInv, ImagesExclusive
  <2>1. reading \subseteq OnDisplay
    BY NoSlotApart DEF SamplesHeld, OnDisplay, TypeOK
  <2>2. link \notin {"up", "hungup"} => Drawable = {}
    BY DEF Drawable
  <2>3. link = "up" => Drawable \cap (OnDisplay \cup InFlight) = {}
    BY DEF Drawable, Round, Apart
  <2>4. link = "hungup" => Drawable \cap (OnDisplay \cup InFlight) = {}
    BY EmptyQueues DEF Drawable, Round, Connection, InFlight
  <2> QED
    BY <2>1, <2>2, <2>3, <2>4 DEF NoTornImage
<1> QED
  BY <1>1, ImagesAlways, PTL

\* No image is lost or handed out twice on its way through pool, renderer,
\* socket, leases and back: OneImageOnePlace.
THEOREM ImagesConserved == Spec => []OneImageOnePlace
<1>1. IInv => OneImageOnePlace
  <2> SUFFICES ASSUME IInv, link = "up", NEW slot \in Slots
               PROVE  \E place \in DOMAIN Places :
                        /\ slot \in Places[place]
                        /\ \A other \in DOMAIN Places :
                             slot \in Places[other] => other = place
    BY DEF OneImageOnePlace
  <2>1. DOMAIN Places = 1 .. 6
    BY DEF Places
  <2>2. /\ Places[1] = pool.available /\ Places[2] = acquired
        /\ Places[3] = InFlight /\ Places[4] = OnDisplay
        /\ Places[5] = leases.releases /\ Places[6] = Returning
    BY DEF Places
  <2>3. Apart(acquired, pool.available, InFlight, OnDisplay, leases.releases,
              Returning)
    BY DEF IInv, ImagesExclusive, Round
  <2>4. slot \in acquired \cup pool.available \cup InFlight \cup OnDisplay
                 \cup leases.releases \cup Returning
    BY DEF IInv, ImagesExclusive, Round
  <2>5. \A a, b \in 1 .. 6 : slot \in Places[a] /\ slot \in Places[b] => a = b
    BY <2>2, <2>3 DEF Apart
  <2>6. \E place \in 1 .. 6 : slot \in Places[place]
    BY <2>2, <2>4
  <2> QED
    BY <2>1, <2>5, <2>6
<1> QED
  BY <1>1, ImagesAlways, PTL

\* The bridge never meets a present it must refuse, nor the renderer a
\* release: NothingRefused, the protocol half of "the surface is not lost".
THEOREM ProtocolAgrees == Spec => []NothingRefused
<1>1. IInv => NothingRefused
  <2> SUFFICES ASSUME IInv  PROVE NothingRefused
    OBVIOUS
  <2> USE DEF IInv, ImagesExclusive
  <2>1. ASSUME client = "live", toBridge # <<>>
        PROVE  CanPublish(leases, Head(toBridge).slot, Head(toBridge).frame)
    <3>1. Head(toBridge) = toBridge[1] /\ 1 \in DOMAIN toBridge
      BY <2>1, PresentsTail DEF TypeOK
    <3>2. Head(toBridge).slot \in InFlight \cap Slots /\ Head(toBridge).frame # 0
      BY <3>1, MessageSlots DEF Numbered
    <3>3. link = "up"
      BY <2>1 DEF Connection
    <3> QED
      BY <3>2, <3>3 DEF CanPublish, LeasesConsistent, Round, Apart
  <2>2. ASSUME link = "up", toClient # <<>>, Head(toClient).kind = "release"
        PROVE  CanReturn(pool, Head(toClient).slot, Head(toClient).frame)
    <3>1. Head(toClient) = toClient[1] /\ 1 \in ReleasesOf(toClient)
      BY <2>2, EventsTail DEF TypeOK, ReleasesOf
    <3>2. /\ Head(toClient).slot \in Returning /\ Head(toClient).frame # 0
          /\ Recognized(Head(toClient).slot, Head(toClient).frame)
      BY <3>1, MessageSlots DEF Numbered
    <3> QED
      BY <2>2, <3>2 DEF CanReturn, Recognized, Round, Apart
  <2> QED
    BY <2>1, <2>2 DEF NothingRefused
<1> QED
  BY <1>1, ImagesAlways, PTL

\* Both together, as the runs check them: ImagesRound.
THEOREM ImagesGoRound == Spec => []ImagesRound
BY ImagesNeverTorn, ImagesConserved, PTL DEF ImagesRound

-----------------------------------------------------------------------------
(* Frames go forward and acceptances come first: SInv is inductive.        *)

LEMMA AcceptancesAppend ==
  ASSUME NEW q \in Seq(EventMsg), NEW m \in EventMsg, AcceptsFirst(q),
         m.kind = "accepted" => m.slot \notin AcceptedBy(q) \cup ReturnedBy(q)
  PROVE  /\ AcceptsFirst(Append(q, m))
         /\ AcceptedBy(Append(q, m)) =
              AcceptedBy(q) \cup (IF m.kind = "accepted" THEN {m.slot} ELSE {})
         /\ \A i \in AcceptancesOf(Append(q, m)) :
              \/ i \in AcceptancesOf(q) /\ Append(q, m)[i] = q[i]
              \/ m.kind = "accepted" /\ Append(q, m)[i] = m
<1> DEFINE r == Append(q, m)
<1>1. DOMAIN q = 1 .. Len(q) /\ DOMAIN r = 1 .. Len(q) + 1 /\ Len(q) \in Nat
  OBVIOUS
<1>2. \A i \in DOMAIN q : i \in DOMAIN r /\ r[i] = q[i]
  OBVIOUS
<1>3. r[Len(q) + 1] = m
  OBVIOUS
<1>4. \A i \in DOMAIN r : i \in DOMAIN q \/ i = Len(q) + 1
  BY <1>1
<1> HIDE DEF r
<1>5. AcceptsFirst(r)
  BY <1>1, <1>2, <1>3, <1>4
     DEF AcceptsFirst, AcceptancesOf, AcceptedBy, ReleasesOf, ReturnedBy
<1>6. AcceptedBy(r) =
        AcceptedBy(q) \cup (IF m.kind = "accepted" THEN {m.slot} ELSE {})
  BY <1>1, <1>2, <1>3, <1>4 DEF AcceptedBy, AcceptancesOf
<1>7. \A i \in AcceptancesOf(r) : \/ i \in AcceptancesOf(q) /\ r[i] = q[i]
                                  \/ m.kind = "accepted" /\ r[i] = m
  BY <1>2, <1>3, <1>4 DEF AcceptancesOf
<1> QED
  BY <1>5, <1>6, <1>7 DEF r

LEMMA AcceptancesTail ==
  ASSUME NEW q \in Seq(EventMsg), q # <<>>, AcceptsFirst(q)
  PROVE  /\ AcceptsFirst(Tail(q))
         /\ AcceptedBy(Tail(q)) \subseteq AcceptedBy(q)
         /\ ReturnedBy(Tail(q)) \subseteq ReturnedBy(q)
         /\ \A i \in AcceptancesOf(Tail(q)) :
              i + 1 \in AcceptancesOf(q) /\ Tail(q)[i] = q[i + 1]
         /\ Head(q).kind = "release" => Head(q).slot \notin AcceptedBy(Tail(q))
<1> DEFINE r == Tail(q)
<1>1. Len(q) \in Nat \ {0} /\ DOMAIN q = 1 .. Len(q) /\ DOMAIN r = 1 .. Len(q) - 1
  OBVIOUS
<1>2. \A i \in DOMAIN r : i + 1 \in DOMAIN q /\ r[i] = q[i + 1]
  BY <1>1
<1>3. Head(q) = q[1] /\ 1 \in DOMAIN q
  BY <1>1
<1> HIDE DEF r
<1>4. \A i \in AcceptancesOf(r) : i + 1 \in AcceptancesOf(q) /\ r[i] = q[i + 1]
  BY <1>2 DEF AcceptancesOf
<1>5. \A i \in ReleasesOf(r) : i + 1 \in ReleasesOf(q) /\ r[i] = q[i + 1]
  BY <1>2 DEF ReleasesOf
<1>6. \A i \in AcceptancesOf(r) \cup ReleasesOf(r) : i \in Nat \ {0}
  BY <1>1 DEF AcceptancesOf, ReleasesOf
<1>7. AcceptsFirst(r)
  <2>1. \A i, j \in AcceptancesOf(r) : r[i].slot = r[j].slot => i = j
    BY <1>4, <1>6 DEF AcceptsFirst
  <2>2. \A i \in AcceptancesOf(r), j \in ReleasesOf(r) :
           r[i].slot = r[j].slot => i < j
    <3> SUFFICES ASSUME NEW i \in AcceptancesOf(r), NEW j \in ReleasesOf(r),
                        r[i].slot = r[j].slot
                 PROVE  i < j
      OBVIOUS
    <3>1. i + 1 < j + 1
      BY <1>4, <1>5 DEF AcceptsFirst
    <3> QED
      BY <3>1, <1>6
  <2> QED
    BY <2>1, <2>2 DEF AcceptsFirst
<1>8. AcceptedBy(r) \subseteq AcceptedBy(q) /\ ReturnedBy(r) \subseteq ReturnedBy(q)
  BY <1>4, <1>5 DEF AcceptedBy, ReturnedBy
<1>9. ASSUME Head(q).kind = "release"  PROVE Head(q).slot \notin AcceptedBy(r)
  <2> SUFFICES ASSUME NEW i \in AcceptancesOf(r), r[i].slot = q[1].slot
               PROVE  FALSE
    BY <1>3 DEF AcceptedBy
  <2>1. 1 \in ReleasesOf(q)
    BY <1>3, <1>9 DEF ReleasesOf
  <2>2. i + 1 < 1
    BY <2>1, <1>4 DEF AcceptsFirst
  <2> QED
    BY <2>2, <1>6
<1> QED
  BY <1>4, <1>7, <1>8, <1>9 DEF r

LEMMA NothingAccepted ==
  AcceptsFirst(<<>>) /\ AcceptedBy(<<>>) = {} /\ AcceptancesOf(<<>>) = {}
<1>1. DOMAIN <<>> = {}
  OBVIOUS
<1> QED
  BY <1>1 DEF AcceptsFirst, AcceptedBy, AcceptancesOf

LEMMA SendsInit == Init => HeardFirst /\ FramesForward
<1> SUFFICES ASSUME Init  PROVE HeardFirst /\ FramesForward
  OBVIOUS
<1> USE DEF Init, NoLeases, NoPool
<1>1. HeardFirst
  BY NothingAccepted DEF HeardFirst
<1>2. SessionCounts
  BY DEF SessionCounts
<1>3. PresentsForward /\ LeasesForward
  BY NothingAccepted, EmptyQueues DEF PresentsForward, LeasesForward
<1>4. IdsForward
  BY DEF IdsForward
<1> QED
  BY <1>1, <1>2, <1>3, <1>4 DEF FramesForward

\* What is counted, beside the images.
countVars == <<frame, presented, presentIds, published, shown, abandoned>>

\* Steps that move neither images nor counts.
LEMMA SendsStay ==
  ASSUME SInv, UNCHANGED <<imageVars, countVars, link>>
  PROVE  HeardFirst' /\ FramesForward'
<1> USE DEF SInv, imageVars, countVars
<1>1. Returning' = Returning /\ InFlight' = InFlight
  BY DEF Returning, InFlight
<1>2. HeardFirst'
  BY <1>1 DEF HeardFirst
<1>3. SessionCounts' /\ PresentsForward' /\ LeasesForward' /\ IdsForward'
  BY DEF FramesForward, SessionCounts, PresentsForward, LeasesForward, IdsForward
<1> QED
  BY <1>2, <1>3 DEF FramesForward

\* Steps that cut the connection or find none.
LEMMA SendsCut ==
  ASSUME SInv, link' # "up", toBridge' = <<>>, toClient' = <<>>,
         UNCHANGED <<leases, published, shown>>
  PROVE  HeardFirst' /\ PresentsForward' /\ LeasesForward'
  BY NothingAccepted, EmptyQueues
     DEF SInv, HeardFirst, FramesForward, PresentsForward, LeasesForward

LEMMA SendsConnect == SInv /\ Connect => HeardFirst' /\ FramesForward'
<1> SUFFICES ASSUME SInv, Connect  PROVE HeardFirst' /\ FramesForward'
  OBVIOUS
<1> USE DEF SInv, Connect, renderVars
<1>1. toBridge' = <<>> /\ toClient' = <<>>
  BY DEF IInv, ImagesExclusive, Connection
<1>2. HeardFirst' /\ PresentsForward' /\ LeasesForward'
  BY <1>1, SendsCut
<1>3. SessionCounts' /\ IdsForward'
  BY DEF FramesForward, SessionCounts, IdsForward
<1> QED
  BY <1>2, <1>3 DEF FramesForward

LEMMA SendsReadHello == SInv /\ ReadHello => HeardFirst' /\ FramesForward'
<1> SUFFICES ASSUME SInv, ReadHello  PROVE HeardFirst' /\ FramesForward'
  OBVIOUS
<1> USE DEF SInv, ReadHello
<1>1. /\ toBridge' = <<>> /\ toClient' = <<>> /\ acquired' = acquired
      /\ leases' = leases /\ leases.accepted = {} /\ leases.pending = NoSlot
  BY DEF IInv, ImagesExclusive, Connection
<1>2. HeardFirst'
  BY <1>1, NothingAccepted DEF HeardFirst
<1>3. SessionCounts'
  BY DEF FramesForward, SessionCounts, IInv, TypeOK
<1>4. PresentsForward' /\ LeasesForward'
  BY <1>1, NothingAccepted, EmptyQueues DEF PresentsForward, LeasesForward
<1>5. IdsForward'
  BY DEF IdsForward, PoolOf, NoPool
<1> QED
  BY <1>2, <1>3, <1>4, <1>5 DEF FramesForward

LEMMA SendsAcquire ==
  ASSUME SInv, NEW slot \in Slots, Acquire(slot)  PROVE HeardFirst' /\ FramesForward'
<1> USE DEF SInv, Acquire
<1>1. /\ slot \in pool.available
      /\ pool'.available = pool.available \ {slot}
      /\ pool'.frames[slot] = 0
      /\ \A s \in Slots \ {slot} : pool'.frames[s] = pool.frames[s]
  BY DEF IsNextSlot, Acquired, IInv, TypeOK, PoolType
<1>2. Returning' = Returning /\ InFlight' = InFlight
  BY DEF Returning, InFlight
<1>3. HeardFirst'
  BY <1>1, <1>2 DEF HeardFirst
<1>4. SessionCounts' /\ PresentsForward' /\ LeasesForward'
  BY DEF FramesForward, SessionCounts, PresentsForward, LeasesForward
<1>5. IdsForward'
  BY <1>1 DEF FramesForward, IdsForward
<1> QED
  BY <1>3, <1>4, <1>5 DEF FramesForward

LEMMA SendsPresent ==
  ASSUME SInv, NEW slot \in Slots, Present(slot)  PROVE HeardFirst' /\ FramesForward'
<1> USE DEF SInv, Present
<1>0. TypeOK /\ frame \in Nat
  BY DEF IInv, TypeOK
<1>1. /\ slot \in acquired /\ acquired' = acquired \ {slot} /\ frame' = frame + 1
      /\ pool'.available = pool.available
      /\ pool'.frames[slot] = frame + 1
      /\ \A s \in Slots \ {slot} : pool'.frames[s] = pool.frames[s]
      /\ presentIds'[slot] \in {0, frame + 1}
      /\ \A s \in Slots \ {slot} : presentIds'[s] = presentIds[s]
  BY <1>0 DEF Submitted, TypeOK, PoolType
<1>2. IdsForward'
  BY <1>0, <1>1 DEF FramesForward, IdsForward
<1>3. SessionCounts'
  BY <1>0, <1>1 DEF FramesForward, SessionCounts, TypeOK
<1>4. LeasesForward'
  BY DEF FramesForward, LeasesForward
<1>5. CASE link = "up"
  <2> DEFINE present == [slot |-> slot, frame |-> frame + 1]
  <2>1. present \in PresentMsg
    BY <1>0 DEF PresentMsg
  <2>2. toBridge' = Append(toBridge, present) /\ toBridge \in Seq(PresentMsg)
    BY <1>0, <1>5 DEF TypeOK
  <2>3. InFlight' = InFlight \cup {slot} /\ Returning' = Returning
    BY <2>1, <2>2, PresentsAppend DEF InFlight, Returning
  <2>4. HeardFirst'
    BY <1>1, <1>5, <2>3 DEF HeardFirst
  <2>5. /\ DOMAIN toBridge = 1 .. Len(toBridge) /\ Len(toBridge) \in Nat
        /\ DOMAIN toBridge' = 1 .. Len(toBridge) + 1
        /\ \A i \in DOMAIN toBridge : toBridge'[i] = toBridge[i]
        /\ toBridge'[Len(toBridge) + 1].frame = frame + 1
    BY <2>1, <2>2
  <2>6. /\ published \in Nat /\ published <= frame /\ published' = published
        /\ \A i \in DOMAIN toBridge : toBridge[i].frame \in Nat
    BY <1>0, <1>5, MessageSlots DEF FramesForward, SessionCounts, TypeOK
  <2>7. PresentsForward'
    <3>1. \A i \in DOMAIN toBridge' :
             i \in DOMAIN toBridge \/ i = Len(toBridge) + 1
      BY <2>5
    <3>2. \A i \in DOMAIN toBridge' :
             published < toBridge'[i].frame /\ toBridge'[i].frame <= frame + 1
      BY <1>0, <2>5, <2>6, <3>1 DEF FramesForward, PresentsForward
    <3>3. \A i \in DOMAIN toBridge :
             toBridge'[i].frame < toBridge'[Len(toBridge) + 1].frame
      BY <1>0, <2>5, <2>6 DEF FramesForward, PresentsForward
    <3>4. \A i, j \in DOMAIN toBridge' :
             i < j => toBridge'[i].frame < toBridge'[j].frame
      <4> SUFFICES ASSUME NEW i \in DOMAIN toBridge', NEW j \in DOMAIN toBridge',
                          i < j
                   PROVE  toBridge'[i].frame < toBridge'[j].frame
        OBVIOUS
      <4>1. i \in DOMAIN toBridge
        BY <2>5
      <4>2. CASE j \in DOMAIN toBridge
        BY <4>1, <4>2, <2>5 DEF FramesForward, PresentsForward
      <4> QED
        BY <3>1, <3>3, <4>1, <4>2
    <3> QED
      BY <1>1, <2>6, <3>2, <3>4 DEF PresentsForward
  <2> QED
    BY <1>2, <1>3, <1>4, <2>4, <2>7 DEF FramesForward
<1>6. CASE link = "hungup"
  <2>1. toBridge' = <<>> /\ toClient' = <<>>
    BY <1>6 DEF IInv, ImagesExclusive, Connection
  <2>2. HeardFirst' /\ PresentsForward'
    BY <1>6, <2>1, SendsCut
  <2> QED
    BY <1>2, <1>3, <1>4, <2>2 DEF FramesForward
<1> QED
  BY <1>5, <1>6

LEMMA SendsReceiveEvent == SInv /\ ReceiveEvent => HeardFirst' /\ FramesForward'
<1> SUFFICES ASSUME SInv, ReceiveEvent  PROVE HeardFirst' /\ FramesForward'
  OBVIOUS
<1> USE DEF SInv, ReceiveEvent
<1> DEFINE m == Head(toClient)
<1>0. TypeOK
  BY DEF IInv
<1>1. /\ m \in EventMsg /\ m.slot \in Slots /\ m.frame \in Nat
      /\ 1 \in DOMAIN toClient /\ m = toClient[1]
  BY <1>0, EventsTail DEF TypeOK, EventMsg
<1>2. /\ AcceptsFirst(toClient')
      /\ AcceptedBy(toClient') \subseteq AcceptedBy(toClient)
      /\ Returning' \subseteq Returning
      /\ \A i \in AcceptancesOf(toClient') :
           i + 1 \in AcceptancesOf(toClient) /\ toClient'[i] = toClient[i + 1]
      /\ m.kind = "release" => m.slot \notin AcceptedBy(toClient')
  BY <1>0, AcceptancesTail DEF TypeOK, HeardFirst, Returning
<1>3. /\ pool'.available \subseteq
           pool.available \cup (IF m.kind = "release" THEN {m.slot} ELSE {})
      /\ pool'.frames = pool.frames
  BY <1>0 DEF PoolAfter, Returned, TypeOK, PoolType
<1>4. HeardFirst'
  <2>1. InFlight' = InFlight
    BY DEF InFlight
  <2>2. m.kind = "release" => m.slot \in Returning
    BY <1>1 DEF Returning, ReturnedBy, ReleasesOf
  <2>3. m.kind = "release" => m.slot \notin leases.accepted
    BY <2>2 DEF HeardFirst
  <2> QED
    BY <1>2, <1>3, <2>1, <2>3 DEF HeardFirst
<1>5. presented' \in Nat /\ presented' <= published
  <2>1. presented \in Nat /\ published \in Nat /\ presented <= published
    BY <1>0 DEF FramesForward, SessionCounts, TypeOK
  <2>2. ASSUME m.kind = "accepted", Matches(pool, m.slot, m.frame)
        PROVE  presentIds[m.slot] \in Nat /\ presentIds[m.slot] <= published
    <3>1. m.frame <= published
      BY <1>1, <2>2 DEF FramesForward, LeasesForward, AcceptancesOf
    <3>2. presentIds[m.slot] <= m.frame
      BY <1>1, <2>2 DEF FramesForward, IdsForward, Matches
    <3>3. presentIds[m.slot] \in Nat
      BY <1>0, <1>1 DEF TypeOK
    <3> QED
      BY <1>1, <2>1, <3>1, <3>2, <3>3
  <2> QED
    BY <2>1, <2>2 DEF PresentedAfter
<1>6. SessionCounts'
  BY <1>5 DEF FramesForward, SessionCounts
<1>7. PresentsForward' /\ LeasesForward' /\ IdsForward'
  BY <1>2, <1>3 DEF FramesForward, PresentsForward, LeasesForward, IdsForward
<1> QED
  BY <1>4, <1>6, <1>7 DEF FramesForward

LEMMA SendsClose == SInv /\ Close => HeardFirst' /\ FramesForward'
<1> SUFFICES ASSUME SInv, Close  PROVE HeardFirst' /\ FramesForward'
  OBVIOUS
<1> USE DEF SInv, Close
<1>1. HeardFirst' /\ PresentsForward' /\ LeasesForward'
  BY SendsCut
<1>2. SessionCounts'
  BY DEF FramesForward, SessionCounts
<1>3. IdsForward'
  BY DEF IdsForward, NoPool
<1> QED
  BY <1>1, <1>2, <1>3 DEF FramesForward

LEMMA SendsHangUp ==
  ASSUME SInv, HangUp, UNCHANGED <<countVars, pool, leases>>
  PROVE  HeardFirst' /\ FramesForward'
<1> USE DEF SInv, HangUp, countVars
<1>1. HeardFirst' /\ PresentsForward' /\ LeasesForward'
  BY SendsCut
<1>2. SessionCounts' /\ IdsForward'
  BY DEF FramesForward, SessionCounts, IdsForward
<1> QED
  BY <1>1, <1>2 DEF FramesForward

LEMMA SendsReadPresent == SInv /\ ReadPresent => HeardFirst' /\ FramesForward'
<1> SUFFICES ASSUME SInv, ReadPresent  PROVE HeardFirst' /\ FramesForward'
  OBVIOUS
<1> USE DEF SInv, ReadPresent, renderVars
<1>0. TypeOK /\ link = "up" /\ IInv
  BY DEF IInv, ImagesExclusive, Connection
<1> DEFINE m == Head(toBridge)
<1>1. CASE ~CanPublish(leases, m.slot, m.frame)
  <2>1. HangUp /\ UNCHANGED <<countVars, pool, leases>>
    BY <1>1 DEF countVars
  <2> QED
    BY <2>1, SendsHangUp
<1>2. CASE CanPublish(leases, m.slot, m.frame)
  <2>1. /\ m.slot \in Slots /\ m.frame \in Nat /\ m.slot \in InFlight
        /\ 1 \in DOMAIN toBridge /\ m = toBridge[1]
        /\ \A i \in DOMAIN Tail(toBridge) :
              i + 1 \in DOMAIN toBridge /\ Tail(toBridge)[i] = toBridge[i + 1]
        /\ SlotsOf(Tail(toBridge)) = InFlight \ {m.slot}
    BY <1>0, PresentsTail
       DEF TypeOK, IInv, ImagesExclusive, Round, InFlight, PresentMsg
  <2>2. /\ leases' = Publish(leases, m.slot, m.frame)
        /\ published' = m.frame /\ toBridge' = Tail(toBridge)
        /\ UNCHANGED <<link, toClient, pool, acquired, frame, presented,
                       presentIds, abandoned, shown>>
    BY <1>2
  <2>3. /\ leases'.pending = m.slot /\ leases'.held = leases.held
        /\ leases'.accepted = leases.accepted \cup {m.slot}
        /\ leases'.frames[m.slot] = m.frame
        /\ \A s \in Slots \ {m.slot} : leases'.frames[s] = leases.frames[s]
    <3>1. leases'.accepted = leases.accepted \cup {m.slot}
      BY <1>0, <2>1, <2>2 DEF Publish, Released, TypeOK, LeasesType
    <3> QED
      BY <1>0, <2>1, <2>2, <3>1, PublishFields DEF TypeOK
  <2>4. published \in Nat /\ shown \in Nat /\ published < m.frame /\ m.frame <= frame
        /\ shown <= published /\ frame \in Nat /\ presented \in Nat
        /\ presented <= published
    BY <1>0, <2>1 DEF FramesForward, SessionCounts, PresentsForward, TypeOK
  <2>5. Returning' = Returning /\ InFlight' = InFlight \ {m.slot}
    BY <2>1, <2>2 DEF Returning, InFlight
  <2>6. m.slot \notin acquired \cup pool.available \cup Returning
    BY <1>0, <2>1 DEF IInv, ImagesExclusive, Round, Apart
  <2> HIDE DEF m
  <2>7. HeardFirst'
    <3>1. AcceptsFirst(toClient') /\ AcceptedBy(toClient') = AcceptedBy(toClient)
      BY <2>2 DEF HeardFirst
    <3>2. m.slot \notin AcceptedBy(toClient)
      BY <1>0, <2>1 DEF HeardFirst
    <3>3. acquired' = acquired /\ pool' = pool /\ toClient' = toClient
      BY <2>2
    <3> QED
      BY <1>0, <2>3, <2>5, <2>6, <3>1, <3>2, <3>3 DEF HeardFirst
  <2>8. SessionCounts'
    <3>1. /\ published' = m.frame /\ shown' = shown /\ link' = link
          /\ presented' = presented /\ frame' = frame /\ abandoned' = abandoned
      BY <2>2
    <3>2. m.frame \in Nat /\ ~abandoned
      BY <1>0, <2>1 DEF FramesForward, SessionCounts
    <3> QED
      BY ONLY <1>0, <2>4, <3>1, <3>2 DEF SessionCounts
  <2>9. PresentsForward'
    <3>0. DOMAIN toBridge \subseteq Nat /\ DOMAIN toBridge' \subseteq Nat \ {0}
      BY <1>0, <2>2, PresentsTail DEF TypeOK
    <3>1. \A i \in DOMAIN toBridge' :
             published' < toBridge'[i].frame /\ toBridge'[i].frame <= frame'
      <4> SUFFICES ASSUME NEW i \in DOMAIN toBridge'
                   PROVE  published' < toBridge'[i].frame /\ toBridge'[i].frame <= frame
        BY <2>2
      <4>1. i + 1 \in DOMAIN toBridge /\ toBridge'[i] = toBridge[i + 1] /\ 1 < i + 1
        BY <2>1, <2>2, <3>0
      <4> QED
        BY <4>1, <2>1, <2>2 DEF FramesForward, PresentsForward
    <3>2. \A i, j \in DOMAIN toBridge' :
             i < j => toBridge'[i].frame < toBridge'[j].frame
      <4> SUFFICES ASSUME NEW i \in DOMAIN toBridge', NEW j \in DOMAIN toBridge', i < j
                   PROVE  toBridge'[i].frame < toBridge'[j].frame
        OBVIOUS
      <4>1. /\ i + 1 \in DOMAIN toBridge /\ toBridge'[i] = toBridge[i + 1]
            /\ j + 1 \in DOMAIN toBridge /\ toBridge'[j] = toBridge[j + 1]
            /\ i + 1 < j + 1
        BY <2>1, <2>2, <3>0
      <4> QED
        BY <4>1 DEF FramesForward, PresentsForward
    <3> QED
      BY <3>1, <3>2 DEF PresentsForward
  <2>10. LeasesForward'
    <3>1. \A slot \in leases.accepted : slot \in Slots /\ leases.frames[slot] \in Nat
      BY <1>0 DEF TypeOK, LeasesType
    <3>2. \A slot \in leases'.accepted : leases'.frames[slot] <= published'
      BY <2>1, <2>2, <2>3, <2>4, <3>1 DEF FramesForward, LeasesForward
    <3>3. \A i \in AcceptancesOf(toClient') : toClient'[i].frame <= published'
      <4>1. \A i \in DOMAIN toClient : toClient[i] \in EventMsg
        BY <1>0 DEF TypeOK
      <4>2. \A i \in AcceptancesOf(toClient) : toClient[i].frame \in Nat
        BY <4>1 DEF EventMsg, AcceptancesOf
      <4> QED
        BY <4>2, <2>1, <2>2, <2>4 DEF FramesForward, LeasesForward
    <3> QED
      BY <2>1, <2>2, <2>3, <2>4, <3>2, <3>3 DEF LeasesForward
  <2>11. IdsForward'
    BY <2>2 DEF FramesForward, IdsForward
  <2> QED
    BY <2>7, <2>8, <2>9, <2>10, <2>11 DEF FramesForward
<1> QED
  BY <1>1, <1>2

LEMMA SendsAccept == SInv /\ Accept => HeardFirst' /\ FramesForward'
<1> SUFFICES ASSUME SInv, Accept  PROVE HeardFirst' /\ FramesForward'
  OBVIOUS
<1> USE DEF SInv, Accept, renderVars
<1>1. /\ leases'.held = leases.held /\ leases'.pending = NoSlot
      /\ leases'.accepted = {}
  BY DEF Reconnect, IInv, TypeOK, LeasesType
<1>2. /\ link \in {"none", "queued"} /\ link' # "up"
      /\ toBridge' = <<>> /\ toClient' = <<>>
  BY DEF IInv, TypeOK, ImagesExclusive, Connection, FramesForward, SessionCounts
<1>3. HeardFirst'
  BY <1>1, <1>2, NothingAccepted DEF HeardFirst
<1>4. SessionCounts'
  BY <1>2 DEF FramesForward, SessionCounts
<1>5. PresentsForward' /\ LeasesForward'
  BY <1>1, <1>2, NothingAccepted, EmptyQueues DEF PresentsForward, LeasesForward
<1>6. IdsForward'
  BY DEF FramesForward, IdsForward
<1> QED
  BY <1>3, <1>4, <1>5, <1>6 DEF FramesForward

LEMMA SendsSendAccepted ==
  ASSUME SInv, Accepting, SendAccepted  PROVE HeardFirst' /\ FramesForward'
<1> USE DEF SInv, Accepting, renderVars
<1>0. TypeOK /\ link = "up"
  <2>1. PICK slot \in leases.accepted : TRUE
    BY DEF SendAccepted
  <2> QED
    BY <2>1 DEF IInv, ImagesExclusive, Connection
<1>1. PICK slot \in leases.accepted :
         /\ leases' = SentAccepted(leases, slot)
         /\ toClient' = Append(toClient, Event("accepted", slot))
  BY DEF SendAccepted
<1> DEFINE m == Event("accepted", slot)
<1>2. /\ slot \in Slots /\ m \in EventMsg /\ toClient \in Seq(EventMsg)
      /\ m.kind = "accepted" /\ m.slot = slot /\ m.frame = leases.frames[slot]
      /\ toClient' = Append(toClient, m)
  BY <1>0, <1>1, LeaseSlots DEF Event, EventMsg, TypeOK, LeasesType
<1> HIDE DEF m
<1>3. /\ leases'.held = leases.held /\ leases'.pending = leases.pending
      /\ leases'.accepted = leases.accepted \ {slot}
      /\ leases'.frames = leases.frames
  BY <1>0, <1>1 DEF SentAccepted, TypeOK, LeasesType
<1>4. slot \notin AcceptedBy(toClient) \cup Returning
  BY <1>0 DEF HeardFirst
<1>5. /\ AcceptsFirst(toClient')
      /\ AcceptedBy(toClient') = AcceptedBy(toClient) \cup {slot}
      /\ \A i \in AcceptancesOf(toClient') :
           \/ i \in AcceptancesOf(toClient) /\ toClient'[i] = toClient[i]
           \/ toClient'[i] = m
  <2>1. AcceptsFirst(toClient) /\ slot \notin AcceptedBy(toClient) \cup ReturnedBy(toClient)
    BY <1>4 DEF HeardFirst, Returning
  <2> DEFINE r == Append(toClient, m)
  <2>2. /\ AcceptsFirst(r)
        /\ AcceptedBy(r) = AcceptedBy(toClient) \cup {slot}
        /\ \A i \in AcceptancesOf(r) :
             \/ i \in AcceptancesOf(toClient) /\ r[i] = toClient[i]
             \/ r[i] = m
    BY ONLY <1>2, <2>1, AcceptancesAppend
  <2> QED
    BY <1>2, <2>2
<1>6. Returning' = Returning /\ InFlight' = InFlight
  BY <1>2, EventsAppend DEF Returning, InFlight
<1>7. HeardFirst'
  BY <1>3, <1>4, <1>5, <1>6 DEF HeardFirst
<1>8. SessionCounts' /\ PresentsForward' /\ IdsForward'
  BY DEF FramesForward, SessionCounts, PresentsForward, IdsForward
<1>9. LeasesForward'
  BY <1>2, <1>3, <1>5 DEF FramesForward, LeasesForward
<1> QED
  BY <1>7, <1>8, <1>9 DEF FramesForward

LEMMA SendsSendRelease ==
  ASSUME SInv, Releasing, SendRelease  PROVE HeardFirst' /\ FramesForward'
<1> USE DEF SInv, Releasing, renderVars
<1>0. TypeOK
  BY DEF IInv
<1>1. PICK slot \in Releasable :
         /\ leases' = SentRelease(leases, slot)
         /\ toClient' = Append(toClient, Event("release", slot))
  BY DEF SendRelease
<1> DEFINE m == Event("release", slot)
<1>2. /\ slot \in Slots /\ m \in EventMsg /\ toClient \in Seq(EventMsg)
      /\ m.kind = "release" /\ m.slot = slot /\ slot \notin leases.accepted
      /\ toClient' = Append(toClient, m)
  BY <1>0, <1>1, LeaseSlots DEF Event, EventMsg, TypeOK, Releasable
<1> HIDE DEF m
<1>3. /\ leases'.held = leases.held /\ leases'.pending = leases.pending
      /\ leases'.accepted = leases.accepted /\ leases'.frames = leases.frames
  BY <1>0, <1>1 DEF SentRelease, TypeOK, LeasesType
<1>4. /\ AcceptsFirst(toClient')
      /\ AcceptedBy(toClient') = AcceptedBy(toClient)
      /\ \A i \in AcceptancesOf(toClient') :
           i \in AcceptancesOf(toClient) /\ toClient'[i] = toClient[i]
  <2>1. AcceptsFirst(toClient)
    BY DEF HeardFirst
  <2> DEFINE r == Append(toClient, m)
  <2>2. m.kind # "accepted"
    BY <1>2
  <2>3. /\ AcceptsFirst(r)
        /\ AcceptedBy(r) =
             AcceptedBy(toClient) \cup (IF m.kind = "accepted" THEN {m.slot} ELSE {})
        /\ \A i \in AcceptancesOf(r) :
             \/ i \in AcceptancesOf(toClient) /\ r[i] = toClient[i]
             \/ m.kind = "accepted" /\ r[i] = m
    BY ONLY <1>2, <2>1, <2>2, AcceptancesAppend, Zenon
  <2> HIDE DEF r
  <2>4. AcceptedBy(r) = AcceptedBy(toClient)
    BY <2>2, <2>3
  <2> QED
    BY <1>2, <2>2, <2>3, <2>4 DEF r
<1>5. Returning' = Returning \cup {slot} /\ InFlight' = InFlight
  BY <1>2, EventsAppend DEF Returning, InFlight
<1>6. HeardFirst'
  BY <1>2, <1>3, <1>4, <1>5 DEF HeardFirst
<1>7. SessionCounts' /\ PresentsForward' /\ IdsForward'
  BY DEF FramesForward, SessionCounts, PresentsForward, IdsForward
<1>8. LeasesForward'
  BY <1>3, <1>4 DEF FramesForward, LeasesForward
<1> QED
  BY <1>6, <1>7, <1>8 DEF FramesForward

LEMMA SendsPoll == SInv /\ Poll => HeardFirst' /\ FramesForward'
<1> SUFFICES ASSUME SInv, Poll  PROVE HeardFirst' /\ FramesForward'
  OBVIOUS
<1> USE DEF SInv, Poll, renderVars
<1>1. CASE leases.pending = NoSlot
  <2>1. UNCHANGED <<imageVars, countVars, link>>
    BY <1>1 DEF Adopt, imageVars, countVars
  <2> QED
    BY <2>1, SendsStay
<1>2. CASE leases.pending # NoSlot
  <2>1. /\ leases'.pending = NoSlot /\ leases'.frames = leases.frames
        /\ leases'.accepted = leases.accepted
    <3>1. leases'.accepted = leases.accepted
      BY <1>2 DEF Adopt, Released, IInv, TypeOK, LeasesType
    <3> QED
      BY <1>2, <3>1, AdoptFields DEF IInv, TypeOK
  <2>2. shown' = leases.frames[leases.pending] /\ shown' <= published
    BY <1>2 DEF FramesForward, LeasesForward
  <2>3. Returning' = Returning /\ InFlight' = InFlight
    BY DEF Returning, InFlight
  <2>4. HeardFirst'
    BY <2>1, <2>3 DEF HeardFirst
  <2>5. SessionCounts'
    BY <2>2 DEF FramesForward, SessionCounts
  <2>6. PresentsForward' /\ IdsForward'
    BY DEF FramesForward, PresentsForward, IdsForward
  <2>7. LeasesForward'
    BY <2>1 DEF FramesForward, LeasesForward
  <2> QED
    BY <2>4, <2>5, <2>6, <2>7 DEF FramesForward
<1> QED
  BY <1>1, <1>2

LEMMA SendsStep == SInv /\ [Next]_vars => SInv'
<1> SUFFICES ASSUME SInv, [Next]_vars  PROVE HeardFirst' /\ FramesForward'
  BY ImagesStep DEF SInv
<1>1. CASE Connect \/ ReadHello \/ ReceiveEvent \/ Close
  BY <1>1, SendsConnect, SendsReadHello, SendsReceiveEvent, SendsClose
<1>2. CASE \E slot \in Slots : Acquire(slot) \/ Present(slot)
  BY <1>2, SendsAcquire, SendsPresent
<1>3. CASE EnterPoll \/ SeeHangup \/ WakeToSend \/ WakeIdle \/ SendFails
  <2>1. UNCHANGED <<imageVars, countVars, link>>
    BY <1>3 DEF EnterPoll, SeeHangup, WakeToSend, WakeIdle, SendFails, imageVars,
                countVars, renderVars
  <2> QED
    BY <2>1, SendsStay
<1>4. CASE Accepting
  <2>1. CASE UNCHANGED <<leases, toClient>>
    <3>1. UNCHANGED <<imageVars, countVars, link>>
      BY <1>4, <2>1 DEF Accepting, imageVars, countVars, renderVars
    <3> QED
      BY <3>1, SendsStay
  <2> QED
    BY <1>4, <2>1, SendsSendAccepted DEF Accepting
<1>5. CASE Releasing
  <2>1. CASE UNCHANGED <<leases, toClient>>
    <3>1. UNCHANGED <<imageVars, countVars, link>>
      BY <1>5, <2>1 DEF Releasing, imageVars, countVars, renderVars
    <3> QED
      BY <3>1, SendsStay
  <2> QED
    BY <1>5, <2>1, SendsSendRelease DEF Releasing
<1>6. CASE StopReceiving
  <2>1. HangUp /\ UNCHANGED <<countVars, pool, leases>>
    BY <1>6 DEF StopReceiving, countVars, renderVars
  <2> QED
    BY <2>1, SendsHangUp
<1>7. CASE ReadPresent \/ Accept
  BY <1>7, SendsReadPresent, SendsAccept
<1>8. CASE Draw \/ EndFrame \/ Shutdown \/ UNCHANGED vars
  <2>1. UNCHANGED <<imageVars, countVars, link>>
    BY <1>8 DEF Draw, EndFrame, Shutdown, vars, imageVars, countVars, renderVars
  <2> QED
    BY <2>1, SendsStay
<1> QED
  BY <1>1, <1>2, <1>3, <1>4, <1>5, <1>6, <1>7, <1>8, SendsPoll
     DEF Next, Renderer, Receiver, Eyes, Terminated

LEMMA SendsAlways == Spec => []SInv
<1>1. Init => SInv
  BY TypeInit, ImagesInit, SendsInit DEF IInv, SInv
<1> QED
  BY <1>1, SendsStep, PTL DEF Spec

\* A sequence whose entries are told apart by one of n numbers has at most n.
LEMMA AtMost ==
  ASSUME NEW n \in Nat, NEW len \in Nat, NEW f \in [1 .. len -> 0 .. n - 1],
         \A i, j \in 1 .. len : f[i] = f[j] => i = j
  PROVE  len <= n
<1> SUFFICES ASSUME len > n  PROVE FALSE
  OBVIOUS
<1>1. IsFiniteSet(1 .. len) /\ Cardinality(1 .. len) = len
  BY FS_Interval
<1>2. IsFiniteSet(0 .. n - 1) /\ Cardinality(0 .. n - 1) = n
  <2>1. n - 1 \in Int /\ (IF 0 > n - 1 THEN 0 ELSE n - 1 - 0 + 1) = n
    OBVIOUS
  <2> QED
    BY <2>1, FS_Interval
<1>3. \E i, j \in 1 .. len : i # j /\ f[i] = f[j]
  <2>1. Cardinality(0 .. n - 1) < Cardinality(1 .. len)
    BY <1>1, <1>2
  <2> QED
    BY <1>1, <1>2, <2>1, FS_PigeonHole
<1> QED
  BY <1>3

\* Neither direction of the socket ever holds more than its images allow: a
\* present per image one way, an acceptance and a release the other.
LEMMA SocketsBounded == SInv => SocketNeverFills
<1> SUFFICES ASSUME SInv  PROVE SocketNeverFills
  OBVIOUS
<1> USE DEF SInv
<1>0. TypeOK /\ Buffers \in Nat
  BY BuffersAssumption DEF IInv
<1>1. Len(toBridge) <= Buffers
  <2> DEFINE f == [i \in 1 .. Len(toBridge) |-> toBridge[i].slot]
  <2>1. Len(toBridge) \in Nat /\ DOMAIN toBridge = 1 .. Len(toBridge)
    BY <1>0 DEF TypeOK
  <2>2. f \in [1 .. Len(toBridge) -> 0 .. Buffers - 1]
    BY <1>0, <2>1, MessageSlots DEF Slots
  <2>3. \A i, j \in 1 .. Len(toBridge) : f[i] = f[j] => i = j
    BY <2>1 DEF IInv, ImagesExclusive, Round, Distinct
  <2> HIDE DEF f
  <2> QED
    BY <1>0, <2>1, <2>2, <2>3, AtMost
<1>2. Len(toClient) <= 2 * Buffers
  <2> DEFINE len == Len(toClient)
             f == [i \in 1 .. len |-> IF toClient[i].kind = "accepted"
                                      THEN 2 * toClient[i].slot
                                      ELSE 2 * toClient[i].slot + 1]
  <2>1. len \in Nat /\ DOMAIN toClient = 1 .. len
    BY <1>0 DEF TypeOK
  <2>2. \A i \in 1 .. len : /\ toClient[i].slot \in 0 .. Buffers - 1
                            /\ toClient[i].kind \in {"accepted", "release"}
    <3>1. \A i \in 1 .. len : toClient[i] \in EventMsg
      BY <1>0, <2>1 DEF TypeOK
    <3> QED
      BY <3>1 DEF EventMsg, Slots
  <2>3. f \in [1 .. len -> 0 .. 2 * Buffers - 1]
    BY <1>0, <2>2
  <2>4. ASSUME NEW i \in 1 .. len, NEW j \in 1 .. len, f[i] = f[j]  PROVE i = j
    <3>1. toClient[i].slot = toClient[j].slot /\ toClient[i].kind = toClient[j].kind
      BY <1>0, <2>2, <2>4, SMTT(30)
    <3>2. toClient[i].kind = "accepted" => i \in AcceptancesOf(toClient)
                                           /\ j \in AcceptancesOf(toClient)
      BY <2>1, <3>1 DEF AcceptancesOf
    <3>3. toClient[i].kind = "release" => i \in ReleasesOf(toClient)
                                          /\ j \in ReleasesOf(toClient)
      BY <2>1, <3>1 DEF ReleasesOf
    <3> QED
      BY <2>2, <3>1, <3>2, <3>3
         DEF HeardFirst, AcceptsFirst, IInv, ImagesExclusive, Round, DistinctReleases
  <2> HIDE DEF f
  <2>5. 2 * Buffers \in Nat
    BY <1>0
  <2> QED
    BY <2>1, <2>3, <2>4, <2>5, AtMost
<1> QED
  BY <1>1, <1>2 DEF SocketNeverFills

\* A present id is reported only once Android has taken that frame, and no send
\* of either side ever finds the socket full: SendsAreSafe, whatever capacity
\* the socket has.
THEOREM SendsStaySafe == Spec => []SendsAreSafe
<1>1. SInv => SendsAreSafe
  BY SocketsBounded
     DEF SInv, FramesForward, SessionCounts, SendsAreSafe, PresentedIsPublished
<1> QED
  BY <1>1, SendsAlways, PTL

-----------------------------------------------------------------------------
(* The path keeps the promise of ImageOwnership: every step starts, stops, *)
(* submits, returns, shows or renumbers there, or does nothing there.      *)

\* What ImageOwnership sees.
ownershipVars == <<Drawable, leases.held, shown>>

LEMMA OwnershipInit == Init => Ownership!Init
  BY DEF Init, NoLeases, Drawable, Ownership!Init

\* What may be drawn into is none of what waits or is on screen.
LEMMA DrawnApart == IInv => Drawable \cap OnDisplay = {} /\ Drawable \subseteq Slots
<1> SUFFICES ASSUME IInv
             PROVE  Drawable \cap OnDisplay = {} /\ Drawable \subseteq Slots
  OBVIOUS
<1>1. Drawable \cap OnDisplay = {}
  BY DEF Drawable, IInv, ImagesExclusive, Round, Apart
<1>2. Drawable \subseteq Slots
  BY DEF Drawable, IInv, TypeOK, PoolType
<1> QED
  BY <1>1, <1>2

LEMMA OwnershipRenderer ==
  ASSUME SInv, Renderer
  PROVE  Ownership!Next \/ UNCHANGED ownershipVars
<1> USE DEF SInv, ownershipVars
<1>0. IInv /\ TypeOK
  BY DEF IInv
<1>1. CASE Connect
  BY <1>1 DEF Connect, Drawable
<1>2. CASE ReadHello
  <2>1. Drawable = {} /\ acquired' = {} /\ hello = Slots \ {leases.held}
    BY <1>2 DEF ReadHello, Drawable, IInv, ImagesExclusive, Connection
  <2>2. pool'.available = hello /\ link' \in {"up", "hungup"}
    BY <1>2 DEF ReadHello, PoolOf, NoPool
  <2>3. Drawable' = Slots \ {leases.held}
    BY <2>1, <2>2 DEF Drawable
  <2>4. Ownership!Start
    BY <1>2, <2>1, <2>3 DEF ReadHello, Ownership!Start
  <2> QED
    BY <2>4 DEF Ownership!Next
<1>3. CASE ReceiveEvent
  <2> DEFINE m == Head(toClient)
  <2>1. /\ m.slot \in Slots /\ 1 \in DOMAIN toClient /\ m = toClient[1]
    BY <1>0, <1>3, EventsTail DEF ReceiveEvent, TypeOK, EventMsg
  <2>2. UNCHANGED <<link, acquired, leases, shown>> /\ link = "up"
    BY <1>3 DEF ReceiveEvent
  <2>3. CASE pool' = pool
    BY <2>2, <2>3 DEF Drawable
  <2>4. CASE pool' # pool
    <3>1. m.kind = "release" /\ pool'.available = pool.available \cup {m.slot}
      BY <1>0, <1>3, <2>4 DEF ReceiveEvent, PoolAfter, Returned, TypeOK, PoolType
    <3>2. m.slot \in Returning
      BY <2>1, <3>1 DEF Returning, ReturnedBy, ReleasesOf
    <3>3. m.slot # leases.held
      BY <2>1, <2>2, <3>2, NoSlotApart DEF IInv, ImagesExclusive, Round, Apart, OnDisplay
    <3>4. Drawable' = Drawable \cup {m.slot}
      BY <2>2, <3>1 DEF Drawable
    <3>5. Ownership!Return(m.slot)
      BY <2>2, <3>3, <3>4 DEF Ownership!Return
    <3> QED
      BY <2>1, <3>5 DEF Ownership!Next
  <2> QED
    BY <2>3, <2>4
<1>4. CASE Close
  <2>1. Ownership!Stop
    BY <1>4 DEF Close, Drawable, Ownership!Stop
  <2> QED
    BY <2>1 DEF Ownership!Next
<1>5. ASSUME NEW slot \in Slots, Acquire(slot)  PROVE UNCHANGED ownershipVars
  <2>1. slot \in pool.available /\ pool'.available = pool.available \ {slot}
    BY <1>0, <1>5 DEF Acquire, IsNextSlot, Acquired, TypeOK, PoolType
  <2> QED
    BY <1>5, <2>1 DEF Acquire, Drawable
<1>6. ASSUME NEW slot \in Slots, Present(slot)
      PROVE  Ownership!Next \/ UNCHANGED ownershipVars
  <2>1. /\ pool'.available = pool.available /\ acquired' = acquired \ {slot}
        /\ slot \in Drawable /\ link' = link
        /\ UNCHANGED <<leases, shown>>
    BY <1>0, <1>6 DEF Present, Submitted, Drawable, TypeOK, PoolType
  <2>2. CASE slot \in pool.available
    BY <2>1, <2>2 DEF Drawable
  <2>3. CASE slot \notin pool.available
    <3>1. Drawable' = Drawable \ {slot}
      BY <2>1, <2>3 DEF Drawable
    <3>2. Ownership!Submit(slot)
      BY <2>1, <3>1 DEF Ownership!Submit
    <3> QED
      BY <3>2 DEF Ownership!Next
  <2> QED
    BY <2>2, <2>3
<1> QED
  BY <1>1, <1>2, <1>3, <1>4, <1>5, <1>6 DEF Renderer

LEMMA OwnershipReceiver ==
  ASSUME SInv, Receiver
  PROVE  Ownership!Next \/ UNCHANGED ownershipVars
<1> USE DEF SInv, ownershipVars
<1>0. TypeOK
  BY DEF IInv
<1>1. CASE EnterPoll \/ SeeHangup \/ WakeToSend \/ WakeIdle \/ SendFails
  BY <1>1 DEF EnterPoll, SeeHangup, WakeToSend, WakeIdle, SendFails, renderVars, Drawable
<1>2. CASE ReadPresent
  <2>1. leases'.held = leases.held /\ shown' = shown
    BY <1>0, <1>2 DEF ReadPresent, Publish, Released, TypeOK, LeasesType
  <2>2. Drawable' = Drawable
    BY <1>2 DEF ReadPresent, HangUp, renderVars, Drawable
  <2> QED
    BY <2>1, <2>2
<1>3. CASE Accept
  <2>1. leases'.held = leases.held /\ shown' = 0
    BY <1>0, <1>3 DEF Accept, Reconnect, TypeOK, LeasesType
  <2>2. link \in {"none", "queued"} /\ link' \notin {"up", "hungup"}
    BY <1>0, <1>3 DEF Accept, Polling, TypeOK, IInv, ImagesExclusive, Connection,
                      FramesForward, SessionCounts
  <2>3. Drawable = {} /\ Drawable' = {}
    BY <2>2 DEF Drawable
  <2>4. Ownership!Renumber
    BY <2>1, <2>3 DEF Ownership!Renumber
  <2> QED
    BY <2>4 DEF Ownership!Next
<1>4. CASE Accepting \/ Releasing
  <2>1. leases'.held = leases.held
    BY <1>0, <1>4 DEF Accepting, Releasing, SendAccepted, SendRelease, SentAccepted,
                      SentRelease, TypeOK, LeasesType
  <2> QED
    BY <1>4, <2>1 DEF Accepting, Releasing, renderVars, Drawable
<1>5. CASE StopReceiving
  BY <1>5 DEF StopReceiving, HangUp, renderVars, Drawable
<1> QED
  BY <1>1, <1>2, <1>3, <1>4, <1>5 DEF Receiver

LEMMA OwnershipEyes ==
  ASSUME SInv, Eyes
  PROVE  Ownership!Next \/ UNCHANGED ownershipVars
<1> USE DEF SInv, ownershipVars
<1>0. IInv /\ TypeOK
  BY DEF IInv
<1>1. CASE Draw \/ EndFrame \/ Shutdown
  BY <1>1 DEF Draw, EndFrame, Shutdown, renderVars, Drawable
<1>2. CASE Poll /\ leases.pending = NoSlot
  BY <1>2 DEF Poll, Adopt, renderVars, Drawable
<1>3. CASE Poll /\ leases.pending # NoSlot
  <2>1. /\ leases.pending \in Slots /\ leases.pending \in OnDisplay
        /\ leases'.held = leases.pending
        /\ shown' = leases.frames[leases.pending] /\ shown < shown'
        /\ shown \in Nat /\ shown' \in Nat
    BY <1>0, <1>3, AdoptFields, LeaseSlots
       DEF Poll, OnDisplay, TypeOK, FramesForward, LeasesForward
  <2>2. Drawable' = Drawable /\ leases.pending \notin Drawable
    BY <1>0, <1>3, <2>1, DrawnApart DEF Poll, renderVars, Drawable
  <2>3. Ownership!Show(leases.pending)
    BY <2>1, <2>2 DEF Ownership!Show
  <2> QED
    BY <2>1, <2>3 DEF Ownership!Next
<1> QED
  BY <1>1, <1>2, <1>3 DEF Eyes

LEMMA OwnershipStep ==
  SInv /\ [Next]_vars => [Ownership!Next]_(Ownership!vars)
<1> SUFFICES ASSUME SInv, [Next]_vars
             PROVE  Ownership!Next \/ UNCHANGED ownershipVars
  BY DEF Ownership!vars, ownershipVars
<1>1. CASE Terminated \/ UNCHANGED vars
  BY <1>1 DEF Terminated, vars, renderVars, ownershipVars, Drawable
<1> QED
  BY <1>1, OwnershipRenderer, OwnershipReceiver, OwnershipEyes DEF Next

\* With all its sockets, threads, hangups and new renderers, the path does
\* what ImageOwnership allows: an image is drawn into or shown, never both, and
\* what is shown goes forward while a session lasts: ImplementsOwnership.
THEOREM OwnershipKept == Spec => ImplementsOwnership
<1> QED
  BY OwnershipInit, OwnershipStep, SendsAlways, PTL
     DEF Spec, ImplementsOwnership, Ownership!Spec

=============================================================================
