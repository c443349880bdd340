----------------------------- MODULE GpuProtocol -----------------------------
(***************************************************************************)
(* What the Linux renderer (quest_wsi.cpp) and the Android GPU bridge      *)
(* (gpu_bridge.cpp) share: the numbered GPU images and the fixed-size      *)
(* records that travel over gpu.sock (gpu_bridge.h).  Pixels, formats,     *)
(* eye poses and the magic numbers' values are abstracted away; a frame is *)
(* its frame_id, which the renderer numbers from 1 in every session.       *)
(***************************************************************************)
EXTENDS Integers, Sequences

CONSTANT Buffers   \* QUEST_GPU_BUFFERS

\* A display image and an image to draw the next frame into are the least
\* the protocol makes sense with; the code fixes Buffers to 3.
ASSUME BuffersAssumption == Buffers \in Nat /\ Buffers >= 2

Slots == 0 .. Buffers - 1

\* The -1 that held, pending and current start with.
NoSlot == -1

\* QuestGpuPresent: Linux -> Android.
PresentMsg == [slot : Slots, frame : Nat]

\* QuestGpuRelease: Android -> Linux.  Its magic tells an acknowledgement
\* (QUEST_GPU_ACCEPTED_MAGIC) from the return of the image (QUEST_GPU_MAGIC).
EventMsg == [kind : {"accepted", "release"}, slot : Slots, frame : Nat]

=============================================================================
