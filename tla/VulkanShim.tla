----------------------------- MODULE VulkanShim -----------------------------
(***************************************************************************)
(* The Vulkan layer that the virtual machine preloads into SteamVR's        *)
(* compositor (vulkan_wsi_shim.c).  It stands between the application and   *)
(* the loader and pretends more than the host has: a second, compute-only   *)
(* queue family backed by the only real one, and the extensions present_id, *)
(* present_wait, global_priority and external_semaphore_fd.                 *)
(* Whatever it pretends it has to take out again before the host sees it.   *)
(* Flags and caches are static variables of the process: they describe the  *)
(* physical device asked last.  How the entry points are found is the       *)
(* subject of ShimDispatch, the emulated display that of ShimDisplay, and   *)
(* exported semaphores that of TimelineBridge.                              *)
(***************************************************************************)
EXTENDS Naturals, SequencesExt, TLC

CONSTANTS Physical,   \* physical devices
          Threads,    \* application threads that use queues
          Hosts,      \* Hosts[p]: what physical device p may be: [exts, families], both sequences
          Capacities, \* Capacities[p]: the arrays of the queries, NoArray for a null one
          Requests,   \* Requests[p]: what vkCreateDevice is asked: [exts, queues, chain]
          Presents,   \* the chains of vkQueuePresentKHR
          MaxPNext,   \* MAX_PNEXT_RESTORE, also the longest chain that is walked
          MaxCalls    \* queue calls of one thread, a bound of the model

None == "none"

ASSUME ShimAssumption == MaxPNext \in Nat \ {0} /\ MaxCalls \in Nat /\ None \notin Physical

\* The device extensions that matter here; a host names each at most once.
DeviceExtensions == {"swapchain", "present_id", "present_wait", "global_priority",
                     "timeline", "semaphore_fd"}

ASSUME HostAssumption ==
  \A p \in Physical :
    /\ \A h \in Hosts[p] : /\ h.exts \in Seq(DeviceExtensions) /\ IsInjective(h.exts)
                           /\ h.families \in Seq([combined : BOOLEAN, graphics : BOOLEAN])
    /\ Capacities[p] \subseteq Nat

\* The structures of a chain, the made-up ones told from any other.
Structures == {"idFeature", "waitFeature", "timelineFeature", "priority", "other"}

ASSUME RequestAssumption ==
  \A p \in Physical : \A r \in Requests[p] :
    /\ r.exts \subseteq DeviceExtensions /\ r.chain \in Seq(Structures)
    /\ r.queues \in Seq([family : Nat, flags : BOOLEAN, chain : Seq(Structures)])

\* What HostUnderstands asks of the application: each family once, one of its
\* queues without flags, and chains that the walks of the shim see whole.
ASSUME OrdinaryRequests ==
  \A p \in Physical : \A r \in Requests[p] :
    /\ IsInjective([i \in DOMAIN r.queues |-> r.queues[i].family])
    /\ \E i \in DOMAIN r.queues : ~r.queues[i].flags
    /\ Len(r.chain) <= MaxPNext /\ "priority" \notin ToSet(r.chain)
    /\ \A i \in DOMAIN r.queues : /\ Len(r.queues[i].chain) <= MaxPNext
                                  /\ ToSet(r.queues[i].chain) \subseteq {"priority", "other"}

\* A chain of vkQueuePresentKHR: present ids, and whatever else it may hold.
ASSUME PresentAssumption == Presents \subseteq Seq({"presentId", "other"})

NoArray == 99                     \* a query with a null array asks for the count
Backing == 0                      \* queue_alias_backing_family
Alias   == 1                      \* queue_alias_family
Incomplete == 5
NotPermitted == "notPermitted"   \* VK_ERROR_NOT_PERMITTED_EXT, -1000174001

NoDevice == [exts |-> {}, asked |-> {}, made |-> {}]
NoQueue  == [own |-> <<>>, real |-> <<>>]
NoCall == [fn |-> "none"]

VARIABLES
  host,      \* the physical devices of this machine
  bridge,    \* STEARLIGHT_TIMELINE_BRIDGE is 1
  instance,  \* active_vulkan_instance is set
  alias,     \* queue_alias_*: [pd, available]; pd = None before the first check
  synth,     \* synthetic_present_id, _present_wait and _global_priority_available
  device,    \* device[p]: the queue families asked for and created
  handle,    \* handle[t]: the queue t uses, as it and as the host know it
  pc, lock, locked,  \* the spin lock around host queue calls, and who took it
  calls,
  last,      \* the last completed call, with what the host saw of it
  told,      \* told[p]: the extensions the application was shown, once it has seen all (history)
  asked      \* the physical devices the application asked about (history)

shim == <<alias, synth>>
threads == <<handle, pc, lock, locked, calls>>
machine == <<host, bridge>>
history == <<told, asked>>
vars == <<machine, instance, shim, device, threads, last, history>>

-----------------------------------------------------------------------------
Exts(p) == ToSet(host[p].exts)

(* vkCreateInstance has succeeded; the entry points of the host are found.  *)
CreateInstance ==
  /\ ~instance
  /\ instance' = TRUE
  /\ UNCHANGED <<machine, shim, device, threads, last, history>>

-----------------------------------------------------------------------------
(* The compute alias *)

Aliasable(p) == /\ instance
                /\ Len(host[p].families) = 1
                /\ host[p].families[1].combined

Refreshed(p) == IF alias.pd = p THEN alias
                ELSE [pd |-> p, available |-> Aliasable(p)]

refresh_compute_queue_alias(p) == alias' = Refreshed(p)

\* Mutant: the alias goes to the host as it is.
Unmapped(a, f) == f

Mapped(a, f) == IF a.available /\ f = Alias THEN Backing ELSE f

(* What the application is shown: the host's families and the alias. *)
Families(p) ==
  IF Refreshed(p).available
  THEN Append(host[p].families, [combined |-> FALSE, graphics |-> FALSE])
  ELSE host[p].families

-----------------------------------------------------------------------------
(* Queries in two calls, the first for the count and the second to fill.    *)
(* "whole" is all there is to tell; the property compares it with "list".   *)

Fits(whole, capacity) ==
  IF capacity = NoArray \/ capacity > Len(whole) THEN Len(whole) ELSE capacity

\* Mutant: a list that was cut short is reported as complete.
AnswerComplete(fn, whole, capacity) ==
  [fn |-> fn, whole |-> whole, capacity |-> capacity, count |-> Fits(whole, capacity),
   list |-> IF capacity = NoArray THEN <<>> ELSE SubSeq(whole, 1, Fits(whole, capacity)),
   result |-> 0]

Answer(fn, whole, capacity) ==
  LET n == Fits(whole, capacity)
  IN  [fn |-> fn, whole |-> whole, capacity |-> capacity, count |-> n,
       list |-> IF capacity = NoArray THEN <<>> ELSE SubSeq(whole, 1, n),
       result |-> IF n < Len(whole) THEN Incomplete ELSE 0]

Optional(wanted, e) == IF wanted THEN <<e>> ELSE <<>>

device_extension_hidden(e) == ~bridge /\ e = "timeline"

Synthetic(p, available) ==
  LET has(e) == e \in Exts(p)
      id == ~has("present_id") /\ has("swapchain")
  IN  [id       |-> id,
       wait     |-> ~has("present_wait") /\ has("swapchain") /\ (has("present_id") \/ id),
       priority |-> ~has("global_priority") /\ available]

\* The extensions of the host, without the one that may be hidden.
Visible(exts) ==
  IF \E i \in DOMAIN exts : device_extension_hidden(exts[i])
  THEN RemoveAt(exts, CHOOSE i \in DOMAIN exts : device_extension_hidden(exts[i]))
  ELSE exts

Advertised(p, s) ==
  Visible(host[p].exts)
    \o Optional(bridge /\ "semaphore_fd" \notin Exts(p), "semaphore_fd")
    \o Optional(s.id, "present_id")
    \o Optional(s.wait, "present_wait")
    \o Optional(s.priority, "global_priority")

vkEnumerateDeviceExtensionProperties(p, capacity) ==
  /\ instance
  /\ LET s == Synthetic(p, Refreshed(p).available)
     IN  /\ synth' = s
         /\ last' = Answer("deviceExtensions", Advertised(p, s), capacity)
  /\ told' = [told EXCEPT ![p] = IF last'.result = 0 /\ capacity # NoArray
                                 THEN ToSet(last'.list) ELSE @]
  /\ IF "global_priority" \in Exts(p) THEN UNCHANGED alias
     ELSE refresh_compute_queue_alias(p)
  /\ asked' = asked \cup {p}
  /\ UNCHANGED <<machine, instance, device, threads>>

vkGetPhysicalDeviceQueueFamilyProperties(p, capacity) ==
  /\ instance
  /\ refresh_compute_queue_alias(p)
  /\ asked' = asked \cup {p}
  /\ last' = [Answer("queueFamilies", Families(p), capacity) EXCEPT !.result = 0]
  /\ UNCHANGED <<machine, instance, synth, device, threads, told>>

(* The second form fills larger records by the same rules. *)
vkGetPhysicalDeviceQueueFamilyProperties2(p, capacity) ==
  vkGetPhysicalDeviceQueueFamilyProperties(p, capacity)

(* The host's features, the synthetic ones set and timeline masked. *)
Features(p) ==
  [id       |-> synth.id \/ "present_id" \in Exts(p),
   wait     |-> synth.wait \/ "present_wait" \in Exts(p),
   timeline |-> bridge /\ "timeline" \in Exts(p)]

vkGetPhysicalDeviceFeatures2(p) ==
  /\ instance
  /\ last' = [fn |-> "features", pd |-> p, features |-> Features(p)]
  /\ UNCHANGED <<machine, instance, shim, device, threads, history>>

-----------------------------------------------------------------------------
(* Chains of structures.  A chain is a sequence of kinds in the memory of   *)
(* the application: node i links to next[i], the last one to 0.             *)

Links(chain) == [i \in DOMAIN chain |-> IF i < Len(chain) THEN i + 1 ELSE 0]

(* The nodes from head on.  A link never goes back.                         *)
Walk(chain, next, head) ==
  LET seen[i \in 0 .. Len(chain)] ==
        IF i = 0 THEN [list |-> <<>>, at |-> head]
        ELSE IF i = seen[i - 1].at
        THEN [list |-> Append(seen[i - 1].list, chain[i]), at |-> next[i]]
        ELSE seen[i - 1]
  IN  seen[Len(chain)].list

First(chain) == IF chain = <<>> THEN 0 ELSE 1

(* Unlinks the nodes of the given kinds.  A node at the head is left out by *)
(* answering another head, one behind a kept node by changing the memory of *)
(* the application, which "saved" remembers.                                *)
StripStart(head, next) == [at |-> head, head |-> head, prev |-> 0, next |-> next, saved |-> <<>>]

StripStep(chain, kinds, s) ==
  LET behind == s.next[s.at]
  IN  IF s.at = 0 THEN s
      ELSE IF chain[s.at] \notin kinds THEN [s EXCEPT !.at = behind, !.prev = s.at]
      ELSE IF s.prev = 0 THEN [s EXCEPT !.at = behind, !.head = behind]
      ELSE IF Len(s.saved) < MaxPNext
      THEN [s EXCEPT !.at = behind, !.next[s.prev] = behind,
                     !.saved = Append(@, <<s.prev, s.next[s.prev]>>)]
      ELSE [s EXCEPT !.at = behind, !.prev = s.at]

StripWalk(chain, head, next, kinds) ==   \* what each node of the walk leaves
  LET after[i \in 0 .. Len(chain)] ==
        IF i = 0 THEN StripStart(head, next) ELSE StripStep(chain, kinds, after[i - 1])
  IN  after

strip_synthetic_pnext_structures(chain, head, next, kinds) ==
  StripWalk(chain, head, next, kinds)[IF Len(chain) < MaxPNext THEN Len(chain) ELSE MaxPNext]

\* Mutant: the oldest change is undone first.
RestoreForwards(next, saved) ==
  FoldLeft(LAMBDA n, change : [n EXCEPT ![change[1]] = change[2]], next, saved)

(* Puts the links back, the youngest change first. *)
Undone(next, saved) ==   \* the links when so many changes are undone
  LET n == Len(saved)
      links[k \in 0 .. n] ==
        IF k = 0 THEN next
        ELSE [links[k - 1] EXCEPT ![saved[n - k + 1][1]] = saved[n - k + 1][2]]
  IN  links

restore_pnext(next, saved) == Undone(next, saved)[Len(saved)]

is_synthetic_present_feature(s) ==
  (IF s.id THEN {"idFeature"} ELSE {}) \cup (IF s.wait THEN {"waitFeature"} ELSE {})

is_synthetic_global_priority_structure(s) == IF s.priority THEN {"priority"} ELSE {}

\* Of a request for a device or for a queue, as the application made it.
Strip(r, kinds) ==
  strip_synthetic_pnext_structures(r.chain, First(r.chain), Links(r.chain), kinds)
Seen(r, stripped) == Walk(r.chain, stripped.next, stripped.head)

-----------------------------------------------------------------------------
(* Devices.  A request for a queue is [family, flags, chain].               *)

\* The elements of s that are in S, in their order.
Retained(s, S) ==
  LET kept[i \in 0 .. Len(s)] ==
        IF i = 0 THEN <<>>
        ELSE IF s[i] \in S THEN Append(kept[i - 1], s[i]) ELSE kept[i - 1]
  IN  kept[Len(s)]

(* Whether the host is given the requests as they have been rewritten; if   *)
(* not, only the links in memory have changed.                              *)
Maps(queues) == \E i \in DOMAIN queues : queues[i].family = Alias \/ ~queues[i].flags

QueueStrip(q, queues, s) ==
  LET st == Strip(q, is_synthetic_global_priority_structure(s))
  IN  IF Maps(queues) THEN st ELSE [st EXCEPT !.head = First(q.chain)]

(* The queues the host is asked for when there is an alias: requests lose   *)
(* the synthetic priority, an alias that nobody asked for is added, and     *)
(* the alias becomes the backing family or is dropped when that is asked    *)
(* for as well.                                                             *)
MappedQueues(queues, s) ==
  LET plain == [i \in DOMAIN queues |->
                 [queues[i] EXCEPT !.chain = Seen(queues[i], QueueStrip(queues[i], queues, s))]]
      asksFor(f) == \E i \in DOMAIN queues : queues[i].family = f
      models == {i \in DOMAIN plain : ~plain[i].flags}
      model == plain[CHOOSE i \in models : \A j \in models : i <= j]
      all == IF asksFor(Alias) \/ models = {} THEN plain
             ELSE Append(plain, [model EXCEPT !.family = Alias])
      kept == Retained(all, {q \in ToSet(all) : ~(q.family = Alias /\ asksFor(Backing))})
  IN  [i \in DOMAIN kept |-> [kept[i] EXCEPT !.family = IF @ = Alias THEN Backing ELSE @]]

FilteredExtensions(p, exts) ==
  {e \in exts : e \in Exts(p) /\ ~device_extension_hidden(e)}

(* What the host sees. *)
Effective(p, r, a, s) ==
  [exts   |-> FilteredExtensions(p, r.exts),
   queues |-> IF a.available THEN MappedQueues(r.queues, s) ELSE r.queues,
   chain  |-> Seen(r, Strip(r, is_synthetic_present_feature(s))),
   timeline |-> bridge /\ "timelineFeature" \in ToSet(r.chain)]

(* The host may refuse a queue of raised priority; with the timeline bridge *)
(* the shim asks again without.                                             *)
Retried(e) ==
  [e EXCEPT !.queues = [i \in DOMAIN e.queues |->
     [e.queues[i] EXCEPT !.chain = Seen(e.queues[i], Strip(e.queues[i], {"priority"}))]]]

(* The links between the application's structures after the call.  A second *)
(* attempt edits what the first has left, and undoes its changes before     *)
(* those are undone.  The one value that the call edits as well, the        *)
(* timeline feature that is cleared without the bridge and set again at the *)
(* end, is not in the model.                                                *)
MemoryAfter(r, a, s, again) ==
  LET features == Strip(r, is_synthetic_present_feature(s))
      queue(q) ==
        LET one == IF a.available THEN QueueStrip(q, r.queues, s) ELSE Strip(q, {})
            two == IF again THEN strip_synthetic_pnext_structures(q.chain, one.head, one.next, {"priority"})
                   ELSE StripStart(one.head, one.next)
        IN  restore_pnext(restore_pnext(two.next, two.saved), one.saved)
  IN  <<restore_pnext(features.next, features.saved),
        [i \in DOMAIN r.queues |-> queue(r.queues[i])]>>

AsksPriority(e) == \E i \in DOMAIN e.queues : Contains(e.queues[i].chain, "priority")

Kinds(r) == ToSet(r.chain) \cup UNION {ToSet(r.queues[i].chain) : i \in DOMAIN r.queues}
Needs == [idFeature |-> "present_id", waitFeature |-> "present_wait",
          priority |-> "global_priority", timelineFeature |-> "timeline"]

vkCreateDevice(p, r, result, second) ==
  LET a == Refreshed(p)
      first == Effective(p, r, a, synth)
      again == result = NotPermitted /\ bridge /\ AsksPriority(first)
      seen == IF again THEN Retried(first) ELSE first
      final == IF again THEN second ELSE result
  IN  /\ instance
      /\ device[p] = NoDevice
      /\ \A i \in DOMAIN r.queues : r.queues[i].family < Len(Families(p))
      \* structures are added for the extensions the application was shown
      /\ \A k \in Kinds(r) : k \in DOMAIN Needs => Needs[k] \in told[p]
      /\ result = NotPermitted => AsksPriority(first)
      /\ refresh_compute_queue_alias(p)
      /\ asked' = asked \cup {p}
      /\ device' = [device EXCEPT ![p] =
           IF final = "ok"
           THEN [exts  |-> r.exts,
                 asked |-> {r.queues[i].family : i \in DOMAIN r.queues},
                 made |-> {seen.queues[i].family : i \in DOMAIN seen.queues}]
           ELSE NoDevice]
      /\ last' = [fn |-> "vkCreateDevice", pd |-> p, request |-> r, seen |-> seen,
                  result |-> final,
                  before |-> <<Links(r.chain), [i \in DOMAIN r.queues |-> Links(r.queues[i].chain)]>>,
                  after |-> MemoryAfter(r, a, synth, again)]
      /\ UNCHANGED <<machine, instance, synth, threads, told>>

-----------------------------------------------------------------------------
(* Queues.  The application names a family, the host hears the mapped one.  *)

ToHost(fn, p, f) == [fn |-> fn, pd |-> p, family |-> Mapped(alias, f)]

vkGetDeviceQueue(t, p, f) ==
  /\ handle[t] = NoQueue
  /\ device[p] # NoDevice
  /\ f \in device[p].asked
  \* the application serialises the calls on a queue of its own
  /\ \A u \in Threads : handle[u] # NoQueue => handle[u].own # <<p, f>>
  /\ last' = ToHost("vkGetDeviceQueue", p, f)
  /\ handle' = [handle EXCEPT ![t] = [own |-> <<p, f>>, real |-> <<p, Mapped(alias, f)>>]]
  /\ UNCHANGED <<machine, instance, shim, device, pc, lock, locked,
                 calls, history>>

vkGetDeviceQueue2(t, p, f) == vkGetDeviceQueue(t, p, f)

vkCreateCommandPool(p, f) ==
  /\ device[p] # NoDevice
  /\ f \in device[p].asked
  /\ last' = ToHost("vkCreateCommandPool", p, f)
  /\ UNCHANGED <<machine, instance, shim, device, threads, history>>

(* A queue call decides whether to lock by the alias it finds at its start. *)
Call(t) ==
  /\ pc[t] = "idle" /\ handle[t] # NoQueue /\ calls[t] < MaxCalls
  /\ calls' = [calls EXCEPT ![t] = @ + 1]
  /\ pc' = [pc EXCEPT ![t] = IF alias.available THEN "spin" ELSE "host"]
  /\ locked' = [locked EXCEPT ![t] = FALSE]
  /\ last' = NoCall
  /\ UNCHANGED <<machine, instance, shim, device, handle, lock, history>>

lock_aliased_queue_operations(t) ==
  /\ pc[t] = "spin" /\ ~lock
  /\ lock' = TRUE
  /\ locked' = [locked EXCEPT ![t] = TRUE]
  /\ pc' = [pc EXCEPT ![t] = "host"]
  /\ UNCHANGED <<machine, instance, shim, device, handle, calls, last, history>>

\* Mutant: whether to unlock is decided by the alias of the moment.
UnlockByAlias(t) == lock' = IF alias.available THEN FALSE ELSE lock

unlock_aliased_queue_operations(t) == lock' = IF locked[t] THEN FALSE ELSE lock

(* The host's call returns. *)
Return(t) ==
  /\ pc[t] = "host"
  /\ pc' = [pc EXCEPT ![t] = "idle"]
  /\ unlock_aliased_queue_operations(t)
  /\ UNCHANGED <<machine, instance, shim, device, handle, locked, calls,
                 last, history>>

(* A present id at the head of the chain is taken out when it is synthetic; *)
(* behind another structure it is not looked for.                           *)
Leads(chain) == chain # <<>> /\ Head(chain) = "presentId"
PresentChain(chain) == IF synth.id /\ Leads(chain) THEN Tail(chain) ELSE chain

vkQueuePresentKHR(t, chain) ==
  LET p == handle[t].own[1]
  IN  /\ pc[t] = "host"
      /\ "presentId" \in ToSet(chain) => "present_id" \in device[p].exts \cap told[p]
      /\ last' = [fn |-> "vkQueuePresentKHR", pd |-> p, chain |-> chain,
                  seen |-> PresentChain(chain)]
      /\ pc' = [pc EXCEPT ![t] = "idle"]
      /\ unlock_aliased_queue_operations(t)
      /\ UNCHANGED <<machine, instance, shim, device, handle, locked, calls, history>>

(* A synthetic wait succeeds at once, the host is asked for any other.      *)
vkWaitForPresentKHR(p) ==
  /\ device[p] # NoDevice /\ "present_wait" \in device[p].exts \cap told[p]
  /\ last' = [fn |-> "vkWaitForPresentKHR", pd |-> p, toHost |-> ~synth.wait]
  /\ UNCHANGED <<machine, instance, shim, device, threads, history>>

-----------------------------------------------------------------------------
Init ==
  /\ host \in {h \in [Physical -> UNION {Hosts[p] : p \in Physical}] :
             \A p \in Physical : h[p] \in Hosts[p]}
  /\ bridge \in BOOLEAN
  /\ instance = FALSE
  /\ alias = [pd |-> None, available |-> FALSE]
  /\ synth = [id |-> FALSE, wait |-> FALSE, priority |-> FALSE]
  /\ device = [p \in Physical |-> NoDevice]
  /\ handle = [t \in Threads |-> NoQueue]
  /\ pc = [t \in Threads |-> "idle"]
  /\ lock = FALSE
  /\ locked = [t \in Threads |-> FALSE]
  /\ calls = [t \in Threads |-> 0]
  /\ last = NoCall
  /\ told = [p \in Physical |-> {}]
  /\ asked = {}

Families2 == {Backing, Alias}
Ask ==
  \/ CreateInstance
  \/ \E p \in Physical : \E capacity \in Capacities[p] :
       \/ vkEnumerateDeviceExtensionProperties(p, capacity)
       \/ vkGetPhysicalDeviceQueueFamilyProperties(p, capacity)
       \/ vkGetPhysicalDeviceQueueFamilyProperties2(p, capacity)
  \/ \E p \in Physical :
       \/ vkGetPhysicalDeviceFeatures2(p)
       \/ vkWaitForPresentKHR(p)
       \/ \E f \in Families2 : vkCreateCommandPool(p, f)
       \/ \E r \in Requests[p], result \in {"ok", "failed"} :
            \/ vkCreateDevice(p, r, result, "unused")
            \/ vkCreateDevice(p, r, NotPermitted, result)

Use(t) ==
  \/ \E p \in Physical, f \in Families2 : vkGetDeviceQueue(t, p, f) \/ vkGetDeviceQueue2(t, p, f)
  \/ Call(t)
  \/ lock_aliased_queue_operations(t)
  \/ Return(t)
  \/ \E chain \in Presents : vkQueuePresentKHR(t, chain)

Next == Ask \/ \E t \in Threads : Use(t)

Spec == Init /\ [][Next]_vars

-----------------------------------------------------------------------------
(* Properties *)

(* The flags describe the physical device asked last: what follows is       *)
(* promised to an application that keeps to one.                            *)
OnePhysical == \A p, q \in asked : p = q

(* Every query in two calls tells no more than fits, says INCOMPLETE        *)
(* exactly when it left something out, never names a thing twice, and the   *)
(* count it gives for a null array is enough for everything, whether the    *)
(* entry is the host's or made up by the shim.                              *)
EnumerationHonest ==
  "whole" \in DOMAIN last =>
    IF last.capacity = NoArray
    THEN last.count >= Len(last.whole) /\ last.result = 0
    ELSE /\ last.count = Len(last.list) /\ last.count <= last.capacity
         /\ IsPrefix(last.list, last.whole)
         /\ last.fn # "queueFamilies" =>
              /\ IsInjective(last.list)
              /\ (last.result = 0) = (last.list = last.whole)
         /\ last.capacity >= Len(last.whole) => last.list = last.whole

(* What the shim only pretends to have does not get through to the host:    *)
(* it sees its own extensions and families, each family once, the chain of  *)
(* the application without the made-up structures and otherwise complete    *)
(* and in order, and queues only of families it has made.  One made-up      *)
(* structure is exempt: of a present id the code looks at the head of the   *)
(* chain alone, so behind another structure it reaches a host that does not *)
(* have it.  At the head it goes exactly when the host lacks it, and the    *)
(* rest of the chain stays as it is.  All this for one physical device.     *)
Pretended(p) == {Needs[k] : k \in DOMAIN Needs} \ Exts(p)
Real(p, k) == k \in DOMAIN Needs => Needs[k] \notin Pretended(p)

HostUnderstands ==
  OnePhysical =>
    /\ last.fn = "vkCreateDevice" =>
         LET p == last.pd
             q == last.seen.queues
         IN  /\ last.seen.exts \subseteq Exts(p)
             /\ \A i \in DOMAIN q : /\ q[i].family < Len(host[p].families)
                                    /\ \A k \in ToSet(q[i].chain) : Real(p, k)
             /\ IsInjective([i \in DOMAIN q |-> q[i].family])
             /\ last.seen.chain = Retained(last.request.chain, {k \in Structures : Real(p, k)})
             /\ last.seen.timeline => "timeline" \in Exts(p)
    /\ last.fn \in {"vkGetDeviceQueue", "vkCreateCommandPool"} =>
         last.family \in device[last.pd].made
    /\ last.fn = "vkQueuePresentKHR" =>
         last.seen = IF Leads(last.chain) /\ "present_id" \notin Exts(last.pd)
                     THEN Tail(last.chain) ELSE last.chain
    /\ last.fn = "vkWaitForPresentKHR" =>
         (last.toHost => "present_wait" \in Exts(last.pd))

(* vkCreateDevice edits structures of the application while it asks the     *)
(* host, once or twice; when it returns they are linked as the application  *)
(* linked them, however many neighbouring structures were taken out.        *)
(* (Links only: the timeline feature's value is not modelled.)              *)
MemoryRestored == last.fn = "vkCreateDevice" => last.after = last.before

(* The application serialises each of its queues, but knows nothing of the  *)
(* queue behind two of them: the shim keeps the host's queue to one thread. *)
(* The lock is taken exactly while a call that took it is in the host, so   *)
(* nobody spins for ever, also when the alias comes or goes meanwhile.      *)
LockReturned == lock = \E t \in Threads : locked[t] /\ pc[t] = "host"
HostQueueExclusive ==
  /\ LockReturned
  /\ OnePhysical =>
       \A t, u \in Threads :
         t # u /\ pc[t] = "host" /\ pc[u] = "host" => handle[t].real # handle[u].real
=============================================================================
