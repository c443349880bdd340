---------------------------- MODULE ShimDispatch ----------------------------
(***************************************************************************)
(* How the preloaded Vulkan layer (vulkan_wsi_shim.c) finds the functions   *)
(* it hides.  An application can ask for an entry point with dlsym on any   *)
(* handle, with vkGetInstanceProcAddr or with vkGetDeviceProcAddr, in any   *)
(* order, before or after the library's constructor; each is answered with  *)
(* a wrapper and may set or clear the cached pointer to the real function.  *)
(* A cached pointer is Null, the host's function, or the wrapper itself,    *)
(* which a preloaded library meets when it looks for its own name.          *)
(* The names are independent of each other except for the two lookup        *)
(* functions: a behaviour looks for those and for one other name, "wanted". *)
(***************************************************************************)
EXTENDS Naturals

Null == "null"
Host == "host"
Shim == "shim"

Global    == {"CreateInstance", "EnumerateInstanceExtensions"}
Instance1 == {"CreateDevice", "EnumerateDeviceExtensions", "Features2",
              "QueueFamilies", "QueueFamilies2"}
Cached    == {"GetDeviceQueue", "GetDeviceQueue2", "CreateCommandPool", "QueuePresent"}
Uncached  == {"QueueSubmit", "CreateSemaphore"}  \* looked up again at every call
Lookups   == {"GetInstanceProcAddr", "GetDeviceProcAddr"}
Names     == Global \cup Instance1 \cup Cached \cup Uncached
Pointers  == (Names \ Uncached) \cup Lookups

VARIABLES
  linked,     \* the application itself is linked with a Vulkan loader
  installed,  \* dlopen finds libvulkan.so.1; at least one of the two holds
  interposed, \* the loader's own tables name the preloaded functions
  wanted,
  started,    \* the constructor has run
  found,      \* [real, loader]: the real_* pointers, vulkan_loader_handle is open
  active,     \* active_vulkan_instance and active_vulkan_device: [instance, device]
  pretends,   \* synthetic present ids or a queue alias have been announced
  handed,     \* names of which the application holds the wrapper
  outcome     \* the last call of a wrapper and where it ended

environment == <<linked, installed, interposed, wanted>>
dispatch == <<environment, started, found, active, pretends, handed, outcome>>

-----------------------------------------------------------------------------
(* What the system's lookups answer; a null function answers nothing.       *)

Dlsym(handle, n) ==
  CASE handle = "loader"  -> IF installed THEN Host ELSE Null
    [] handle = "next"    -> IF linked THEN Host ELSE Null
    [] handle = "default" -> Shim
    [] handle = "other"   -> Null
Table == IF interposed THEN Shim ELSE Host
AskInstance(s, instance, n) ==
  IF s.real.GetInstanceProcAddr = Host /\ (instance \/ n \in Global) THEN Table ELSE Null
AskDevice(s, n) == IF s.real.GetDeviceProcAddr = Host THEN Table ELSE Null

Store(s, n, p) == [s EXCEPT !.real[n] = p]
\* Mutant: the result of a lookup is kept without a look at what it is.
ForeignUnchecked(s, n, p) == Store(s, n, p)

Foreign(s, n, p) == IF p = Shim THEN s ELSE Store(s, n, p)          \* proc != &wrapper
Better(s, n, p)  == IF p \in {Shim, Null} THEN s ELSE Store(s, n, p)
Forget(s, n) == IF s.real[n] = Shim THEN Store(s, n, Null) ELSE s
Missing(s, n) == s.real[n] = Null

-----------------------------------------------------------------------------
(* Resolving, as functions of the pointers. *)

resolve_vulkan_loader(s) ==
  IF ~installed THEN s
  ELSE [loader |-> TRUE,
        real |-> [n \in Pointers |->
          IF n \in Global \cup Lookups \cup {"EnumerateDeviceExtensions", "Features2"}
          THEN Dlsym("loader", n) ELSE s.real[n]]]

FromLoader(s, n) == IF Missing(s, n) /\ s.loader THEN Foreign(s, n, Dlsym("loader", n)) ELSE s
FromInstance(s, n, instance) ==
  IF Missing(s, n) /\ instance THEN Foreign(s, n, AskInstance(s, instance, n)) ELSE s
OpenFor(s, n) == IF Missing(s, n) /\ ~s.loader THEN resolve_vulkan_loader(s) ELSE s

resolve_real_vk_get_device_proc_addr(s) ==
  LET n == "GetDeviceProcAddr"
  IN  FromLoader(FromInstance(OpenFor(Forget(s, n), n), n, active.instance), n)

resolve_real_vk_get_device_queue(s, n, device) ==
  LET t == FromLoader(OpenFor(Forget(s, n), n), n)
      u == resolve_real_vk_get_device_proc_addr(t)
  IN  IF Missing(t, n) /\ device THEN Foreign(u, n, AskDevice(u, n)) ELSE t
resolve_real_vk_get_device_queue2(s, device) ==
  resolve_real_vk_get_device_queue(s, "GetDeviceQueue2", device)
resolve_real_vk_create_command_pool(s, device) ==
  resolve_real_vk_get_device_queue(s, "CreateCommandPool", device)
resolve_real_vk_queue_present(s, device) ==
  resolve_real_vk_get_device_queue(s, "QueuePresent", device)
Cache(s, n, device) ==
  CASE n = "GetDeviceQueue"    -> resolve_real_vk_get_device_queue(s, n, device)
    [] n = "GetDeviceQueue2"   -> resolve_real_vk_get_device_queue2(s, device)
    [] n = "CreateCommandPool" -> resolve_real_vk_create_command_pool(s, device)
    [] n = "QueuePresent"      -> resolve_real_vk_queue_present(s, device)

resolve_queue_family_properties(s, n, instance) ==
  FromLoader(FromInstance(Forget(s, n), n, instance), n)
resolve_queue_family_properties2(s, instance) ==
  resolve_queue_family_properties(s, "QueueFamilies2", instance)
QueueFamilies(s, n, instance) ==
  IF n = "QueueFamilies" THEN resolve_queue_family_properties(s, n, instance)
  ELSE resolve_queue_family_properties2(s, instance)

resolve_real_vk_create_device(s, instance) ==
  LET n == "CreateDevice"
      t == IF s.loader THEN Forget(s, n) ELSE resolve_vulkan_loader(Forget(s, n))
  IN  FromLoader(FromInstance(t, n, instance), n)

resolve_create_instance(s) ==
  LET n == "CreateInstance"
      t == resolve_vulkan_loader(Forget(Forget(s, n), "GetInstanceProcAddr"))
      u == IF Missing(t, n) THEN Foreign(t, n, AskInstance(t, FALSE, n)) ELSE t
  IN  IF Missing(u, n) THEN Foreign(u, n, Dlsym("next", n)) ELSE u

(* An uncached name: the device's function, or the loader's when that is    *)
(* the wrapper.  Semaphores ask the loader first.                           *)
Opened(s) == IF s.loader THEN s ELSE resolve_vulkan_loader(s)
resolve_real_queue_proc(s, n) ==
  LET t == resolve_real_vk_get_device_proc_addr(s)
  IN  IF ~active.device \/ Missing(t, "GetDeviceProcAddr") THEN <<t, Null>>
      ELSE IF AskDevice(t, n) # Shim THEN <<t, AskDevice(t, n)>>
      ELSE <<Opened(t), IF Opened(t).loader THEN Dlsym("loader", n) ELSE Null>>
resolve_real_loader_proc(s, n) ==
  IF Opened(s).loader THEN <<Opened(s), Dlsym("loader", n)>>
  ELSE resolve_real_queue_proc(Opened(s), n)

-----------------------------------------------------------------------------
(* Lookups by the application: the pointers afterwards and what it is given.*)

Wrap(n, p) == IF p = Null THEN Null ELSE Shim   \* wrap_queue_api, wrap_semaphore_create_api

Given(s, n) == <<s, IF Missing(s, n) THEN Null ELSE Shim>>
Own(s, n, p) == Forget(Store(s, n, p), n)       \* the pointer, or null for the wrapper

DlsymAnswer(n, p) ==
  LET taken == IF p = Shim THEN resolve_vulkan_loader(found) ELSE Store(found, n, p)
  IN  CASE n \in Uncached -> <<found, Wrap(n, p)>>
        [] n = "QueuePresent" /\ p # Null -> <<Foreign(found, n, p), Shim>>
        [] n = "QueuePresent" /\ p = Null ->
             IF pretends THEN Given(Cache(Store(found, n, p), n, FALSE), n) ELSE <<found, Null>>
        [] n \in {"EnumerateInstanceExtensions", "EnumerateDeviceExtensions"} ->
             IF Missing(taken, n) THEN <<taken, p>> ELSE <<taken, Shim>>
        [] n \in {"Features2", "CreateInstance"} -> <<taken, Shim>>
        [] n = "QueueFamilies" ->
             Given(QueueFamilies(Own(found, n, p), n, active.instance), n)
        [] n = "QueueFamilies2" ->
             LET t == QueueFamilies(Own(found, n, p), n, active.instance)
             IN  IF Missing(t, n) THEN <<t, p>> ELSE <<t, Shim>>
        [] n = "GetInstanceProcAddr" -> <<resolve_vulkan_loader(Own(found, n, p)), Shim>>
        [] n = "GetDeviceProcAddr" ->
             <<resolve_real_vk_get_device_proc_addr(Own(found, n, p)), Shim>>
        [] n \in Cached \ {"QueuePresent"} -> Given(Cache(Own(found, n, p), n, FALSE), n)
        [] n = "CreateDevice" ->
             LET t == Own(found, n, p)
                 u == IF Missing(t, n) THEN resolve_real_vk_create_device(t, FALSE) ELSE t
             IN  IF Missing(u, n) THEN <<u, IF p = Shim THEN Null ELSE p>> ELSE <<u, Shim>>

InstanceAnswer(instance, n) ==
  LET asked == AskInstance(found, instance, n)
  IN  CASE n \in {"EnumerateInstanceExtensions", "EnumerateDeviceExtensions"} ->
             Given(IF Missing(found, n) THEN Foreign(found, n, asked) ELSE found, n)
        [] n = "Features2" ->
             Given(IF Missing(found, n) THEN Better(found, n, asked) ELSE found, n)
        [] n \in {"QueueFamilies", "QueueFamilies2"} ->
             Given(QueueFamilies(found, n, instance), n)
        [] n = "CreateInstance" ->   \* stored without a look at what it is
             <<IF Missing(found, n) THEN Store(found, n, AskInstance(found, FALSE, n)) ELSE found, Shim>>
        [] n = "CreateDevice" -> Given(resolve_real_vk_create_device(found, instance), n)
        [] n = "GetDeviceProcAddr" -> <<resolve_real_vk_get_device_proc_addr(found), Shim>>
        [] n = "QueuePresent" /\ pretends -> Given(Cache(found, n, FALSE), n)
        [] OTHER -> <<found, IF n \in Uncached \cup {"QueuePresent"} THEN Wrap(n, asked) ELSE asked>>

DeviceAnswer(n) ==
  LET t == resolve_real_vk_get_device_proc_addr(found)
  IN  IF n \in Cached /\ (n = "QueuePresent" => pretends) THEN Given(Cache(found, n, TRUE), n)
      ELSE <<t, IF Missing(t, "GetDeviceProcAddr") THEN Null
                ELSE IF n \in Uncached \cup {"QueuePresent"} THEN Wrap(n, AskDevice(t, n))
                ELSE AskDevice(t, n)>>

Hand(n, answer) ==
  /\ found' = answer[1]
  /\ handed' = IF answer[2] = Shim THEN handed \cup {n} ELSE handed
  /\ outcome' = <<>>
  /\ UNCHANGED <<environment, started, active, pretends>>

dlsym(handle, n) ==
  /\ handle = "next" => linked
  /\ Hand(n, DlsymAnswer(n, Dlsym(handle, n)))
vkGetInstanceProcAddr(instance, n) ==
  /\ "GetInstanceProcAddr" \in handed /\ (instance => active.instance)
  /\ Hand(n, InstanceAnswer(instance, n))
vkGetDeviceProcAddr(n) ==
  /\ "GetDeviceProcAddr" \in handed /\ active.device /\ n \notin Global \cup Instance1
  /\ Hand(n, DeviceAnswer(n))

-----------------------------------------------------------------------------
(* Calls of the wrappers. *)

End(n, s, p) ==
  /\ found' = s
  /\ outcome' = <<n, p>>
  /\ UNCHANGED <<environment, started, pretends, handed>>

cache_vk_create_device(s) ==
  LET t == resolve_real_vk_create_device(s, TRUE)
      u == Better(t, "EnumerateDeviceExtensions", AskInstance(t, TRUE, "EnumerateDeviceExtensions"))
  IN  Better(u, "Features2", AskInstance(u, TRUE, "Features2"))

CallCreateInstance ==
  LET s == resolve_create_instance(found)
      p == s.real.CreateInstance
  IN  /\ "CreateInstance" \in handed \/ linked
      /\ active' = [active EXCEPT !.instance = @ \/ p = Host]
      /\ End("CreateInstance", IF p = Host THEN cache_vk_create_device(s) ELSE s, p)

\* The pointer is used as it is, and the call fails without one.
CallCreateDevice ==
  LET p == Forget(found, "CreateDevice").real.CreateDevice
  IN  /\ active.instance /\ ("CreateDevice" \in handed \/ linked)
      /\ active' = [active EXCEPT !.device = @ \/ p = Host]
      /\ End("CreateDevice", found, p)

(* The functions of an instance: the extension queries and features ask     *)
(* again when their pointer is null.                                        *)
CallInstance(n) ==
  LET again == IF Missing(found, n) THEN Better(found, n, AskInstance(found, TRUE, n)) ELSE found
      s == CASE n = "EnumerateInstanceExtensions" ->
                  IF found.real[n] = Host THEN found ELSE resolve_vulkan_loader(found)
             [] n \in {"EnumerateDeviceExtensions", "Features2"} -> again
             [] OTHER -> QueueFamilies(found, n, TRUE)
  IN  /\ n \in handed /\ n # "CreateDevice" /\ (n \in Instance1 => active.instance)
      /\ End(n, s, s.real[n])
      /\ UNCHANGED active

CallDevice(n) ==
  LET s == Cache(found, n, n # "QueuePresent")
      direct == IF n = "QueueSubmit" THEN resolve_real_queue_proc(found, n)
                ELSE resolve_real_loader_proc(found, n)
  IN  /\ n \in handed /\ active.device
      /\ IF n \in Cached THEN End(n, s, s.real[n]) ELSE End(n, direct[1], direct[2])
      /\ UNCHANGED active

(* The constructor: it replaces what earlier lookups have found.            *)
stearlight_wsi_shim_init ==
  /\ ~started
  /\ started' = TRUE
  /\ found' = [found EXCEPT !.real.GetInstanceProcAddr = Dlsym("next", "GetInstanceProcAddr"),
                            !.real.GetDeviceProcAddr = Dlsym("next", "GetDeviceProcAddr")]
  /\ UNCHANGED <<environment, active, pretends, handed, outcome>>

Announce ==
  /\ active.instance /\ ~pretends
  /\ pretends' = TRUE
  /\ UNCHANGED <<environment, started, found, active, handed, outcome>>

-----------------------------------------------------------------------------
DispatchInit ==
  /\ linked \in BOOLEAN /\ installed \in BOOLEAN /\ interposed \in BOOLEAN
  /\ linked \/ installed
  /\ wanted \in Names
  /\ started = FALSE
  /\ found = [real |-> [n \in Pointers |-> Null], loader |-> FALSE]
  /\ active = [instance |-> FALSE, device |-> FALSE]
  /\ pretends = FALSE
  /\ handed = {}
  /\ outcome = <<>>

DispatchNext ==
  \/ stearlight_wsi_shim_init
  \/ \E n \in Lookups \cup {wanted} :
       \/ \E handle \in {"loader", "next", "default", "other"} : dlsym(handle, n)
       \/ \E instance \in BOOLEAN : vkGetInstanceProcAddr(instance, n)
       \/ vkGetDeviceProcAddr(n)
  \/ CallCreateInstance
  \/ CallCreateDevice
  \/ wanted \in (Global \cup Instance1) \ {"CreateInstance", "CreateDevice"} /\ CallInstance(wanted)
  \/ wanted \in Cached \cup Uncached /\ CallDevice(wanted)
  \/ Announce

DispatchSpec == DispatchInit /\ [][DispatchNext]_dispatch

-----------------------------------------------------------------------------
(* Properties *)

(* No wrapper takes itself for the function it hides, whatever the lookups  *)
(* before have left in the cached pointers: it would call itself for ever.  *)
NeverItself == outcome # <<>> => outcome[2] # Shim

(* With a loader whose tables are its own, a wrapper that the application   *)
(* was given finds its function, also after lookups that cleared or         *)
(* replaced the cached pointers.                                            *)
HandedOutWorks == started /\ ~interposed /\ installed /\ outcome # <<>> => outcome[2] = Host
=============================================================================
