------------------------------ MODULE FramePool ------------------------------
(***************************************************************************)
(* quest::FramePool of gpu_frames.h: what the Linux swapchain knows of     *)
(* each image.                                                             *)
(***************************************************************************)
EXTENDS GpuProtocol

PoolType ==
  [available : SUBSET Slots,      \* may be acquired
   inherited : SUBSET Slots,      \* still on screen from an earlier session
   next      : Slots,             \* where the round robin resumes
   frames    : [Slots -> Nat]]    \* frame submitted in each slot, 0: none

\* A Swapchain whose hello has not been read.
NoPool ==
  [available |-> {}, inherited |-> {}, next |-> 0,
   frames |-> [s \in Slots |-> 0]]

\* initialize(): hello.available_mask gives the free images.
PoolOf(mask) == [NoPool EXCEPT !.available = mask, !.inherited = Slots \ mask]

\* How far slot is from the place the round robin resumes at.
Distance(p, slot) == (slot - p.next) % Buffers

\* The slot acquire() returns: the first available one from next on.
IsNextSlot(p, slot) ==
  /\ slot \in p.available
  /\ \A other \in p.available : Distance(p, slot) <= Distance(p, other)

\* acquire() takes the slot; no frame is in it until submitted().
Acquired(p, slot) ==
  [p EXCEPT !.available = @ \ {slot}, !.frames[slot] = 0,
            !.next = (slot + 1) % Buffers]

Submitted(p, slot, frame) == [p EXCEPT !.frames[slot] = frame]

Matches(p, slot, frame) == frame # 0 /\ p.frames[slot] = frame

\* Mutant: an inherited image too must come back with a frame of this session.
CanReturnOwn(p, slot, frame) ==
  /\ frame # 0
  /\ slot \notin p.available
  /\ p.frames[slot] = frame

\* release() refuses an image it already has, and a frame that is not the
\* one it submitted unless the image is inherited.
CanReturn(p, slot, frame) ==
  /\ frame # 0
  /\ slot \notin p.available
  /\ slot \in p.inherited \/ p.frames[slot] = frame

Returned(p, slot) ==
  [p EXCEPT !.inherited = @ \ {slot}, !.available = @ \cup {slot}]

=============================================================================
