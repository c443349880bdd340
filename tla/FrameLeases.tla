----------------------------- MODULE FrameLeases -----------------------------
(***************************************************************************)
(* quest::FrameLeases of gpu_frames.h: what the Android side knows of each *)
(* image.  The masks are sets of slots; the class is a record and each     *)
(* method an operator that returns the new record.                         *)
(***************************************************************************)
EXTENDS GpuProtocol

LeasesType ==
  [held      : Slots \cup {NoSlot},   \* on screen, sampled by the eye passes
   pending   : Slots \cup {NoSlot},   \* newest published, not yet adopted
   available : SUBSET Slots,          \* may be published by the renderer
   releases  : SUBSET Slots,          \* RELEASE messages still to be sent
   accepted  : SUBSET Slots,          \* ACCEPTED messages still to be sent
   frames    : [Slots -> Nat]]        \* last published frame of each slot

NoLeases ==
  [held |-> NoSlot, pending |-> NoSlot, available |-> Slots,
   releases |-> {}, accepted |-> {}, frames |-> [s \in Slots |-> 0]]

\* Mutant: the new renderer is offered the displayed image too.
ReconnectOffersHeld(l) ==
  [l EXCEPT !.pending = NoSlot, !.releases = {}, !.accepted = {},
            !.available = Slots]

\* A new renderer inherits only the displayed image's lease.
Reconnect(l) ==
  [l EXCEPT !.pending = NoSlot, !.releases = {}, !.accepted = {},
            !.available = Slots \ {l.held}]

CanPublish(l, slot, frame) == frame # 0 /\ slot \in l.available

\* The private release(): the slot becomes free and owes a RELEASE message.
Released(l, slot) ==
  IF slot = NoSlot THEN l
  ELSE [l EXCEPT !.available = @ \cup {slot}, !.releases = @ \cup {slot}]

\* Mutant: the superseded image is never released.
PublishForgetsPending(l, slot, frame) ==
  [l EXCEPT !.available = @ \ {slot}, !.frames[slot] = frame, !.pending = slot,
            !.accepted = @ \cup {slot}]

\* publish(), for a frame CanPublish admits: an unread pending image is
\* superseded at once.
Publish(l, slot, frame) ==
  [Released(l, l.pending) EXCEPT
     !.available = @ \ {slot}, !.frames[slot] = frame, !.pending = slot,
     !.accepted = @ \cup {slot}]

\* adopt(): the pending image goes on screen and the one it replaces is
\* released.  A no-op when nothing is pending.
Adopt(l) ==
  IF l.pending = NoSlot THEN l
  ELSE [Released(l, l.held) EXCEPT !.held = l.pending, !.pending = NoSlot]

SentRelease(l, slot)  == [l EXCEPT !.releases = @ \ {slot}]
SentAccepted(l, slot) == [l EXCEPT !.accepted = @ \ {slot}]

=============================================================================
