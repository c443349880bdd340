---------------------------- MODULE VirtualMachine ---------------------------
(***************************************************************************)
(* The virtual machine's own code as a whole: the preloaded Vulkan layer    *)
(* (what the application is shown of the devices, how entry points are      *)
(* found, the emulated display, exported semaphores) and SteamVR's driver.  *)
(* The five share no state and cannot disturb each other, so a behaviour is *)
(* about one of them, its "part": their states add up and do not multiply.  *)
(***************************************************************************)
EXTENDS VulkanShim, ShimDispatch, ShimDisplay, TimelineBridge, VmDriver

VARIABLE part

machineVars == <<part, vars, dispatch, displays, bridgeVars, driver>>

(* What a part leaves open at its start is fixed while it is not the part   *)
(* of the behaviour.                                                        *)
MachineInit ==
  /\ part \in {"devices", "dispatch", "display", "timeline", "driver"}
  /\ Init /\ DispatchInit /\ DisplayInit /\ BridgeInit /\ DriverInit
  /\ part # "devices"  => bridge /\ \A p \in Physical : host[p] = CHOOSE h \in Hosts[p] : TRUE
  /\ part # "dispatch" => linked /\ installed /\ interposed /\ wanted = "CreateInstance"
  /\ part # "display"  => provides = CHOOSE l \in Loaders : TRUE
  /\ part # "timeline" => gated /\ enabled
  /\ part # "driver"   => automatic.select

MachineNext ==
  \/ part = "devices"  /\ Next         /\ UNCHANGED <<part, dispatch, displays, bridgeVars, driver>>
  \/ part = "dispatch" /\ DispatchNext /\ UNCHANGED <<part, vars, displays, bridgeVars, driver>>
  \/ part = "display"  /\ DisplayNext  /\ UNCHANGED <<part, vars, dispatch, bridgeVars, driver>>
  \/ part = "timeline" /\ BridgeNext   /\ UNCHANGED <<part, vars, dispatch, displays, driver>>
  \/ part = "driver"   /\ DriverNext   /\ UNCHANGED <<part, vars, dispatch, displays, bridgeVars>>

(* Only the workers and the GPU are taken to go on; none of their actions   *)
(* is enabled at the start.                                                 *)
MachineSpec == MachineInit /\ [][MachineNext]_machineVars /\ BridgeFairness

-----------------------------------------------------------------------------
(* Properties of more than one query or part *)

(* Whatever is enumerated in two calls (instance and device extensions,     *)
(* queue families, displays, planes, modes), the answer tells no more than  *)
(* fits, says INCOMPLETE exactly when something was left out and names      *)
(* nothing twice.                                                           *)
EveryListHonest == EnumerationHonest /\ ListsHonest

(* A wrapper never calls itself and, with a loader whose tables are its     *)
(* own, finds the function that it hides.                                   *)
WrappersWork == NeverItself /\ HandedOutWorks

(* The emulated display works with what its queries gave, in one window.    *)
DisplayUsable == ShownIsUsable /\ OneWindow

(* The right controller presses what the user presses, and the dashboard    *)
(* button by itself at most once.                                           *)
InputGenuine == NoStuckKey /\ DashboardOnce
=============================================================================
