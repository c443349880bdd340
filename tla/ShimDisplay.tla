----------------------------- MODULE ShimDisplay -----------------------------
(***************************************************************************)
(* The display that the preloaded Vulkan layer (vulkan_wsi_shim.c) emulates *)
(* for SteamVR's compositor, which presents to a headset's display and not  *)
(* to a window.  VK_KHR_display is added to the instance extensions, one    *)
(* display with one plane and one mode is shown, and a surface on it        *)
(* becomes an XCB surface of a window that the layer opens itself.          *)
(***************************************************************************)
EXTENDS Naturals, SequencesExt

CONSTANTS Loaders,    \* the instance extensions a host may have: sequences
          Windows,    \* windows that the layer may create, a bound of the model
          Arrays,     \* the capacities of the queries' arrays
          Uncounted   \* a query with a null array, which asks for the count

\* The instance extensions that matter here; a host names each at most once.
InstanceExtensions == {"surface", "display", "xlib", "xcb"}

ASSUME DisplayAssumption ==
  /\ \A l \in Loaders : l \in Seq(InstanceExtensions) /\ IsInjective(l)
  /\ Arrays \subseteq Nat

IncompleteList == 5
Plane == 0

VARIABLES
  provides, \* the instance extensions of the host
  xdisplay, xwindow, \* x_display is open; x_window: 0 or the window
  windows,  \* windows created so far (history)
  listed,   \* the extensions of the last complete list (history)
  known,    \* the handles that the application has been given (history)
  running,  \* an instance exists
  reply     \* the last completed call

displays == <<provides, xdisplay, xwindow, windows, listed, known, running, reply>>
server == <<xdisplay, xwindow, windows>>

-----------------------------------------------------------------------------
(* Queries in two calls.  "whole" is all there is to tell.                  *)

Listing(whole, capacity) ==
  LET n == IF capacity = Uncounted \/ capacity > Len(whole) THEN Len(whole) ELSE capacity
  IN  [fn |-> "list", whole |-> whole, capacity |-> capacity, count |-> n,
       list |-> IF capacity = Uncounted THEN <<>> ELSE SubSeq(whole, 1, n),
       result |-> IF n < Len(whole) THEN IncompleteList ELSE 0]

(* The host fills the array first; VK_KHR_display goes behind its answer if *)
(* there is room and the host has not named it.                             *)
WithDisplay(own, capacity) ==
  LET real == Listing(own, capacity)
      whole == IF Contains(own, "display") THEN own ELSE Append(own, "display")
  IN  IF Contains(real.list, "display") THEN real
      ELSE IF capacity = Uncounted THEN [real EXCEPT !.whole = whole, !.count = @ + 1]
      ELSE IF capacity <= real.count
      THEN [real EXCEPT !.whole = whole, !.count = capacity, !.result = IncompleteList]
      ELSE [real EXCEPT !.whole = whole, !.count = @ + 1, !.list = Append(@, "display")]

vkEnumerateInstanceExtensionProperties(capacity) ==
  LET r == WithDisplay(provides, capacity)
  IN  /\ reply' = r
      /\ listed' = IF r.list # <<>> /\ r.result = 0 THEN ToSet(r.list) ELSE listed
      /\ UNCHANGED <<provides, server, known, running>>

(* The displays, the planes, the displays of a plane, the modes of a        *)
(* display: one each, none for another plane or display.                    *)
FakeQueries == [displays |-> "display", planes |-> "display",
                supported |-> "display", modes |-> "mode"]
Applies(query, plane, display) == /\ query = "supported" => plane = Plane
                                  /\ query = "modes" => display = "display"

fake_query(query, plane, display, capacity) ==
  LET r == Listing(IF Applies(query, plane, display) THEN <<FakeQueries[query]>> ELSE <<>>, capacity)
  IN  /\ running
      /\ reply' = r
      /\ known' = known \cup ToSet(r.list)
      /\ UNCHANGED <<provides, server, listed, running>>

(* Calls on one handle: capabilities of a mode, a mode made to order, the   *)
(* display taken over from the kernel or X, events (never supported).       *)
Accepts(call, handle, plane) ==
  CASE call = "capabilities" -> handle = "mode" /\ plane = Plane
    [] call = "createMode"  -> handle = "display"
    [] call \in {"acquire", "release", "power"} -> TRUE
    [] call = "event" -> FALSE

fake_call(call, handle, plane) ==
  /\ running
  /\ reply' = [fn |-> call, given |-> <<handle, plane>>, legal |-> handle \in known,
               ok |-> Accepts(call, handle, plane)]
  /\ known' = known \cup (IF call = "createMode" /\ Accepts(call, handle, plane) THEN {"mode"} ELSE {})
  /\ UNCHANGED <<provides, server, listed, running>>

-----------------------------------------------------------------------------
(* Instances and surfaces *)

(* Before the host sees the request, display is taken out, and XCB takes    *)
(* the place of Xlib.                                                       *)
Translated(exts) == (exts \ {"display", "xlib"}) \cup {"xcb"}

vkCreateInstance(exts) ==
  LET seen == Translated(exts)
  IN  /\ exts # {} => exts \subseteq listed
      /\ running' = (running \/ seen \subseteq ToSet(provides))
      /\ reply' = [fn |-> "instance", seen |-> seen, legal |-> TRUE,
                   ok |-> seen \subseteq ToSet(provides)]
      /\ UNCHANGED <<provides, server, listed, known>>

(* Any Xlib window becomes an XCB surface; "bridged" is whether libX11-xcb  *)
(* and the host's surfaces do their part.                                   *)
Surface(window, bridged) ==
  [fn |-> "surface", window |-> window, bridged |-> bridged, legal |-> TRUE,
   ok |-> window # 0 /\ bridged]

vkCreateXlibSurfaceKHR(window, bridged) ==
  /\ running
  /\ reply' = Surface(IF window # 0 THEN window ELSE xwindow, bridged)
  /\ UNCHANGED <<provides, server, listed, known, running>>

\* Mutant: every attempt makes a window.
AlwaysFresh(opens, creates) == (xdisplay \/ opens) /\ creates

(* A window is made when there is a display and no window yet.              *)
Fresh(opens, creates) == (xdisplay \/ opens) /\ xwindow = 0 /\ creates

(* The X display and the window are opened once and kept, also when a later *)
(* step fails: the next attempt goes on from there.                         *)
fake_create_display_surface(opens, creates, bridged) ==
  LET connected == xdisplay \/ opens
      fresh == Fresh(opens, creates)
  IN  /\ running
      /\ fresh => windows < Windows
      /\ xdisplay' = connected
      /\ windows' = IF fresh THEN windows + 1 ELSE windows
      /\ xwindow' = IF fresh THEN windows' ELSE xwindow
      /\ reply' = Surface(IF connected THEN xwindow' ELSE 0, bridged)
      /\ UNCHANGED <<provides, listed, known, running>>

-----------------------------------------------------------------------------
DisplayInit ==
  /\ provides \in Loaders
  /\ xdisplay = FALSE /\ xwindow = 0 /\ windows = 0
  /\ listed = {} /\ known = {} /\ running = FALSE
  /\ reply = [fn |-> "none"]

DisplayNext ==
  \/ \E capacity \in Arrays : vkEnumerateInstanceExtensionProperties(capacity)
  \/ \E exts \in SUBSET (listed \cap {"surface", "display", "xlib"}) : vkCreateInstance(exts)
  \/ \E query \in DOMAIN FakeQueries, plane \in {Plane, 1}, display \in {"display", "other"},
        capacity \in Arrays : fake_query(query, plane, display, capacity)
  \/ \E call \in {"capabilities", "createMode", "acquire", "release", "power", "event"},
        handle \in {"display", "mode", "other"}, plane \in {Plane, 1} : fake_call(call, handle, plane)
  \/ \E window \in {0, Windows + 1}, bridged \in BOOLEAN : vkCreateXlibSurfaceKHR(window, bridged)
  \/ \E opens, creates, bridged \in BOOLEAN : fake_create_display_surface(opens, creates, bridged)

DisplaySpec == DisplayInit /\ [][DisplayNext]_displays

-----------------------------------------------------------------------------
(* Properties *)

(* The count is enough for everything, a list tells no more than fits and   *)
(* says INCOMPLETE exactly when it left something out, and nothing is named *)
(* twice, also when the host has displays of its own.                       *)
ListsHonest ==
  reply.fn = "list" =>
    IF reply.capacity = Uncounted THEN reply.count >= Len(reply.whole) /\ reply.result = 0
    ELSE /\ reply.count = Len(reply.list) /\ reply.count <= reply.capacity
         /\ IsPrefix(reply.list, reply.whole) /\ IsInjective(reply.list)
         /\ (reply.result = 0) = (reply.list = reply.whole)

(* What the application was shown it can use.  On a host with XCB surfaces, *)
(* an instance with any of the listed extensions is created; the handles    *)
(* that queries gave are accepted where they belong; a surface is made      *)
(* whenever there is a window.                                              *)
ShownIsUsable ==
  /\ reply.fn = "instance" /\ Contains(provides, "xcb") => reply.ok
  /\ reply.fn \in {"acquire", "release", "power"} => reply.ok
  /\ reply.fn = "capabilities" /\ reply.legal /\ reply.given = <<"mode", Plane>> => reply.ok
  /\ reply.fn = "createMode" /\ reply.legal /\ reply.given[1] = "display" => reply.ok
  /\ reply.fn = "surface" /\ reply.bridged /\ xwindow # 0 => reply.ok

(* However many attempts fail half-way, the compositor gets one window, and *)
(* never a surface on a window that is not there.                           *)
OneWindow ==
  /\ windows <= 1
  /\ xwindow # 0 => xdisplay
  /\ reply.fn = "surface" /\ reply.ok => reply.window \in {xwindow, Windows + 1} \ {0}
=============================================================================
