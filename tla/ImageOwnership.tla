--------------------------- MODULE ImageOwnership ---------------------------
(***************************************************************************)
(* What the presentation path promises, with sockets, threads, leases and  *)
(* reconnects left out: an image is drawn into or shown, never both, and   *)
(* what is shown only goes forward while one renderer lives.               *)
(***************************************************************************)
EXTENDS Integers

CONSTANTS Slots, NoSlot

VARIABLES
  linux,    \* images the renderer may draw into
  screen,   \* image on display
  shown     \* number of the frame on display, 0 at the start of a session

vars == <<linux, screen, shown>>

Init == linux = {} /\ screen = NoSlot /\ shown = 0

\* A renderer comes: every image but the displayed one is its own.
Start == linux = {} /\ linux' = Slots \ {screen} /\ UNCHANGED <<screen, shown>>

\* It goes, and with it every claim on the images.
Stop == linux' = {} /\ UNCHANGED <<screen, shown>>

\* It hands an image over, or gets one back that is not on display.
Submit(slot) ==
  /\ slot \in linux
  /\ linux' = linux \ {slot}
  /\ UNCHANGED <<screen, shown>>

Return(slot) ==
  /\ slot # screen
  /\ linux' = linux \cup {slot}
  /\ UNCHANGED <<screen, shown>>

\* A handed over image replaces the displayed one by a later frame.
Show(slot) ==
  /\ slot \notin linux
  /\ screen' = slot
  /\ shown' > shown
  /\ UNCHANGED linux

\* The frame numbers start over while nobody draws.
Renumber == linux = {} /\ shown' = 0 /\ UNCHANGED <<linux, screen>>

Next ==
  \/ Start \/ Stop \/ Renumber
  \/ \E slot \in Slots : Submit(slot) \/ Return(slot) \/ Show(slot)

Spec == Init /\ [][Next]_vars
=============================================================================
