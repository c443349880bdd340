------------------------------ MODULE VmDriver ------------------------------
(***************************************************************************)
(* SteamVR's driver inside the test virtual machine (fake_tracking.cpp): a  *)
(* headset and two controllers that are not there.  The right controller    *)
(* takes QEMU's keyboard and mouse, which the kernel reports as queues of   *)
(* events that may overflow, and opens the dashboard once by itself; on     *)
(* request it also confirms first-run pages at a fixed cadence.             *)
(***************************************************************************)
EXTENDS Naturals, Sequences, FiniteSets

CONSTANTS Inputs,     \* the QEMU input devices by number, the same keys on each
          Buffer,     \* events that the kernel keeps for a reader
          OpenFrom, OpenTo,                    \* 180, 240: the dashboard pulse
          SelectFrom, SelectEvery, SelectFor,  \* 600, 600, 60: the selections
          Presses     \* key presses, a bound of the model

ASSUME DriverAssumption ==
  /\ IsFiniteSet(Inputs) /\ Inputs \subseteq Nat
  /\ Buffer \in Nat \ {0, 1} /\ {OpenFrom, OpenTo, SelectFrom, SelectEvery, Presses} \subseteq Nat
  /\ 0 < OpenFrom /\ OpenFrom < OpenTo /\ OpenTo <= SelectFrom
  /\ SelectFor \in 1..(SelectEvery - 1)

Keys == {"F1", "LEFT"}              \* KEY_F1 and BTN_LEFT
Devices == {"hmd", "left", "right"}
NoDropped == [key |-> "SYN_DROPPED", down |-> FALSE]

VARIABLES
  events,     \* the kernel's queue of each input device
  down,       \* the keys that are really held: pairs <<input, key>>
  presses,    \* presses so far
  opened,     \* vm_input holds the devices open
  keys,       \* keys_
  exists,     \* hmd_, left_ and right_ are set
  activated,  \* devices that vrserver has activated
  automatic,  \* [select, open]: auto_select_ and open_dashboard_
  frames,     \* frame_count_ of the right controller, folded to one period
  out,        \* the right controller's components, system and trigger
  rises       \* edges of the system button since activation, F1 not held (history)

kernel == <<events, down, presses>>
driver == <<kernel, opened, keys, exists, activated, automatic, frames, out, rises>>

-----------------------------------------------------------------------------
(* The keyboard and the mouse *)

(* When a queue is full, the kernel drops it and keeps the newest event.    *)
Emit(i, event) ==
  IF ~opened THEN events
  ELSE [events EXCEPT ![i] = IF Len(@) < Buffer THEN Append(@, event) ELSE <<NoDropped, event>>]

Press(i, k) ==
  /\ <<i, k>> \notin down /\ presses < Presses
  /\ down' = down \cup {<<i, k>>}
  /\ presses' = presses + 1
  /\ events' = Emit(i, [key |-> k, down |-> TRUE])
  /\ UNCHANGED <<opened, keys, exists, activated, automatic, frames, out, rises>>

Release(i, k) ==
  /\ <<i, k>> \in down
  /\ down' = down \ {<<i, k>>}
  /\ events' = Emit(i, [key |-> k, down |-> FALSE])
  /\ UNCHANGED <<presses, opened, keys, exists, activated, automatic, frames, out, rises>>

-----------------------------------------------------------------------------
(* VmInput.  The devices are read in their order, each until its queue is   *)
(* empty, so for every key the last event about it decides.  A queue that   *)
(* overflowed says nothing about the keys: all are taken for released.      *)

\* Mutant: an overflow is not noticed.
AboutOnly(q, k) == {n \in DOMAIN q : q[n].key = k}

About(q, k) == {n \in DOMAIN q : q[n] = NoDropped \/ q[n].key = k}

Says(q, k) == \E n \in About(q, k) : q[n].down /\ \A m \in About(q, k) : m <= n

Speakers(k) == {i \in Inputs : About(events[i], k) # {}}

Read ==
  {k \in Keys : IF Speakers(k) = {} THEN k \in keys
                ELSE \E i \in Speakers(k) : Says(events[i], k) /\ \A j \in Speakers(k) : j <= i}

Open == opened' = TRUE /\ keys' = {} /\ events' = [i \in Inputs |-> <<>>]
Close == opened' = FALSE /\ keys' = {} /\ events' = [i \in Inputs |-> <<>>]

-----------------------------------------------------------------------------
(* FakeProvider *)

(* vrserver may refuse any of the three devices; then none is left.         *)
InitProvider(added) ==
  /\ exists = {}
  /\ IF added = Devices THEN exists' = Devices /\ Open ELSE exists' = {} /\ Close
  /\ UNCHANGED <<down, presses, activated, automatic, frames, out, rises>>

Cleanup ==
  /\ exists # {}
  /\ exists' = {} /\ activated' = {}
  /\ Close
  /\ UNCHANGED <<down, presses, automatic, frames, out, rises>>

ActivateHmd(proximity) ==   \* fails without the proximity sensor
  /\ "hmd" \in exists \ activated
  /\ activated' = activated \cup (IF proximity THEN {"hmd"} ELSE {})
  /\ UNCHANGED <<kernel, opened, keys, exists, automatic, frames, out, rises>>

(* Activation makes the components anew and starts counting.                *)
ActivateController(d) ==
  /\ d \in (exists \ activated) \ {"hmd"}
  /\ activated' = activated \cup {d}
  /\ IF d = "right" THEN frames' = 0 /\ out' = {} /\ rises' = 0
     ELSE UNCHANGED <<frames, out, rises>>
  /\ UNCHANGED <<kernel, opened, keys, exists, automatic>>

Deactivate(d) ==
  /\ d \in activated
  /\ activated' = activated \ {d}
  /\ UNCHANGED <<kernel, opened, keys, exists, automatic, frames, out, rises>>

-----------------------------------------------------------------------------
(* One frame: the events are read, then every activated device is updated.  *)

NextFrame == IF frames + 1 = SelectFrom + SelectEvery THEN SelectFrom ELSE frames + 1

Opens(f) == automatic.open /\ f >= OpenFrom /\ f < OpenTo
Selects(f) == automatic.select /\ f >= SelectFrom /\ (f - SelectFrom) % SelectEvery < SelectFor

RunController(held, f) ==
  (IF "F1" \in held \/ Opens(f) THEN {"system"} ELSE {})
    \cup (IF "LEFT" \in held \/ Selects(f) THEN {"trigger"} ELSE {})

RunFrame ==
  LET pressed == RunController(Read, NextFrame)
      rose == "system" \in pressed \ out /\ "F1" \notin Read
  IN  /\ exists # {}
      /\ keys' = Read
      /\ events' = [i \in Inputs |-> <<>>]
      /\ IF "right" \in activated
         THEN /\ frames' = NextFrame
              /\ out' = pressed
              /\ rises' = IF rose THEN rises + 1 ELSE rises
         ELSE UNCHANGED <<frames, out, rises>>
      /\ UNCHANGED <<down, presses, opened, exists, activated, automatic>>

-----------------------------------------------------------------------------
DriverInit ==
  /\ events = [i \in Inputs |-> <<>>] /\ down = {} /\ presses = 0
  /\ opened = FALSE /\ keys = {} /\ exists = {} /\ activated = {}
  /\ automatic \in {[select |-> FALSE, open |-> FALSE], [select |-> FALSE, open |-> TRUE],
                    [select |-> TRUE, open |-> TRUE]}   \* selections imply the dashboard
  /\ frames = 0 /\ out = {} /\ rises = 0

DriverNext ==
  \/ \E i \in Inputs, k \in Keys : Press(i, k) \/ Release(i, k)
  \/ \E added \in SUBSET Devices : InitProvider(added)
  \/ Cleanup
  \/ \E proximity \in BOOLEAN : ActivateHmd(proximity)
  \/ \E d \in Devices : ActivateController(d) \/ Deactivate(d)
  \/ RunFrame

DriverSpec == DriverInit /\ [][DriverNext]_driver

-----------------------------------------------------------------------------
(* Properties *)

(* No key sticks: one that the driver takes for held is held, or its        *)
(* release is on its way, also when queues overflow and two devices have    *)
(* the key.                                                                 *)
NoStuckKey ==
  \A k \in keys : \/ \E i \in Inputs : <<i, k>> \in down
                  \/ \E i \in Inputs, n \in 1..Buffer :
                       n <= Len(events[i]) /\ events[i][n] \in {NoDropped, [key |-> k, down |-> FALSE]}

(* "Open the real SteamVR dashboard once" (fake_tracking.cpp:543): between  *)
(* two activations the controller presses the system button by itself at    *)
(* most once, whatever the user presses in between.                         *)
DashboardOnce == rises <= 1
=============================================================================
