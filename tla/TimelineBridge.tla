---------------------------- MODULE TimelineBridge ----------------------------
(***************************************************************************)
(* Timeline semaphores that cross processes inside the virtual machine      *)
(* (vulkan_timeline_bridge.inc and the semaphore functions of               *)
(* vulkan_wsi_shim.c).  The host's driver cannot export them, so the        *)
(* preloaded layer keeps the exported value in a shared page, the payload:  *)
(* one worker per semaphore copies what the GPU completed into the page and *)
(* signals its own semaphore when the page is ahead.                        *)
(* A payload has the name of the semaphore that was exported first.         *)
(***************************************************************************)
EXTENDS Naturals, FiniteSets

CONSTANTS Semaphores,
          Process,    \* Process[s]: the process that a semaphore belongs to
          MaxValue,   \* values that are signalled, a bound of the model
          Faults      \* times that the driver refuses a query, a bound of the model

NoPayload == "no payload"

ASSUME BridgeAssumption == /\ MaxValue \in Nat /\ Faults \in Nat
                           /\ NoPayload \notin Semaphores /\ "nobody" \notin Semaphores

Processes == {Process[s] : s \in Semaphores}

VARIABLES
  gated,    \* the application's submissions wait for the value before their own
  enabled,  \* STEARLIGHT_TIMELINE_BRIDGE is 1
  semaphore,\* none, timeline, exportable, binary (downgraded), destroyed
  counter,  \* the value of the driver's semaphore
  queued,   \* submissions to the GPU: [on, after, value]
  payload,  \* the shared pages
  pages,    \* the semaphores that a page was made for; a descriptor keeps it alive
  shared,   \* entry->shared: the page that a semaphore is attached to
  worker,   \* the thread of a semaphore: where it is
  seen,     \* its "completed"
  loaded,   \* its "shared"
  stop,     \* entry->stop
  removing, \* timeline_lock: the semaphore that is being removed, per process
  faults,
  done      \* values that a GPU has completed for a page (history)

setting == <<gated, enabled>>
page == <<payload, pages, shared>>
thread == <<worker, seen, loaded>>
gpu == <<counter, queued, done>>
bridgeVars == <<setting, semaphore, gpu, page, thread, stop, removing, faults>>

Free(s) == removing[Process[s]] = "nobody"
Bridged(s) == semaphore[s] \in {"timeline", "exportable"}
Attached(s) == shared[s] # NoPayload
Page(s) == IF Attached(s) THEN shared[s] ELSE s
Upper(a, b) == IF a > b THEN a ELSE b

-----------------------------------------------------------------------------
(* The application and its GPU *)

(* With the bridge, the driver never sees the export of a timeline          *)
(* semaphore; without, it sees a binary one in its place.                   *)
vkCreateSemaphore(s, exports) ==
  /\ semaphore[s] = "none" /\ (enabled => Free(s))
  /\ semaphore' = [semaphore EXCEPT ![s] =
       IF ~exports THEN "timeline" ELSE IF enabled THEN "exportable" ELSE "binary"]
  /\ UNCHANGED <<setting, gpu, page, thread, stop, removing, faults>>

(* The values signalled on a page grow from submission to submission; a     *)
(* semaphore that is being destroyed is not used.                           *)
Used(p) == {0} \cup done[p] \cup {q.value : q \in {r \in queued : Page(r.on) = p}}
Newest(p) == {v \in Used(p) : \A u \in Used(p) : u <= v}

Submit(s) ==
  \E newest \in Newest(Page(s)) :
    /\ Bridged(s) /\ newest < MaxValue /\ removing[Process[s]] # s
    /\ \E after \in IF gated THEN {newest} ELSE {0, newest} :
         queued' = queued \cup {[on |-> s, after |-> after, value |-> newest + 1]}
    /\ UNCHANGED <<setting, semaphore, counter, done, page, thread, stop, removing, faults>>

Complete(s) ==
  \E q \in queued :
    /\ q.on = s /\ counter[s] >= q.after /\ counter[s] < q.value
    /\ counter' = [counter EXCEPT ![s] = q.value]
    /\ done' = [done EXCEPT ![Page(s)] = @ \cup {q.value}]
    /\ queued' = queued \ {q}
    /\ UNCHANGED <<setting, semaphore, page, thread, stop, removing, faults>>

\* Mutant: the value of the newest submission is taken for completed.
Submitted(s) == CHOOSE v \in Newest(Page(s)) : TRUE

(* vkGetSemaphoreCounterValue of the driver's semaphore.                    *)
Completed(s) == counter[s]

-----------------------------------------------------------------------------
(* Export, import and removal, each under timeline_lock *)

timeline_start(s) == /\ worker' = [worker EXCEPT ![s] = "query"]
                     /\ stop' = [stop EXCEPT ![s] = FALSE]

(* The first export makes the page with the value of the moment.            *)
timeline_export(s) ==
  /\ enabled /\ semaphore[s] = "exportable" /\ Free(s) /\ ~Attached(s)
  /\ payload' = [payload EXCEPT ![s] = Completed(s)]
  /\ pages' = pages \cup {s}
  /\ shared' = [shared EXCEPT ![s] = s]
  /\ timeline_start(s)
  /\ UNCHANGED <<setting, semaphore, gpu, seen, loaded, removing, faults>>

(* Only a fresh semaphore takes over a payload; the descriptor keeps it     *)
(* alive, also when its exporter is gone.                                   *)
timeline_import(s, p) ==
  /\ enabled /\ Bridged(s) /\ Free(s) /\ s # p
  /\ p \in pages
  /\ ~Attached(s) /\ counter[s] = 0 /\ \A q \in queued : q.on # s
  /\ shared' = [shared EXCEPT ![s] = p]
  /\ timeline_start(s)
  /\ UNCHANGED <<setting, semaphore, gpu, payload, pages, seen, loaded, removing, faults>>

(* vkDestroySemaphore, legal once no submission uses it.  The worker is     *)
(* stopped and joined under the lock.                                       *)
timeline_remove(s) ==
  /\ enabled /\ Bridged(s) /\ Free(s) /\ \A q \in queued : q.on # s
  /\ removing' = [removing EXCEPT ![Process[s]] = s]
  /\ stop' = [stop EXCEPT ![s] = TRUE]
  /\ UNCHANGED <<setting, semaphore, gpu, page, thread, faults>>

(* Its last completion is published for those who keep the page.            *)
timeline_release(s) ==
  /\ removing[Process[s]] = s /\ worker[s] \in {"off", "ended", "failed"}
  /\ \/ Attached(s) /\ payload' = [payload EXCEPT ![shared[s]] = Upper(@, Completed(s))] /\ UNCHANGED faults
     \/ Attached(s) /\ faults < Faults /\ faults' = faults + 1 /\ UNCHANGED payload
     \/ ~Attached(s) /\ UNCHANGED <<payload, faults>>
  /\ shared' = [shared EXCEPT ![s] = NoPayload]
  /\ worker' = [worker EXCEPT ![s] = "off"]
  /\ semaphore' = [semaphore EXCEPT ![s] = "destroyed"]
  /\ removing' = [removing EXCEPT ![Process[s]] = "nobody"]
  /\ UNCHANGED <<setting, gpu, pages, seen, loaded, stop>>

-----------------------------------------------------------------------------
(* timeline_worker, step by step *)

Goto(s, to) == worker' = [worker EXCEPT ![s] = to]
Only(s) == UNCHANGED <<setting, semaphore, queued, done, pages, shared, stop, removing>>

(* A round ends, and its two local values with it.                          *)
EndRound(s, to) == /\ Goto(s, to)
                   /\ seen' = [seen EXCEPT ![s] = 0]
                   /\ loaded' = [loaded EXCEPT ![s] = 0]

Query(s) ==
  /\ worker[s] = "query" /\ Only(s) /\ UNCHANGED <<counter, payload>>
  /\ \/ stop[s] /\ EndRound(s, "ended") /\ UNCHANGED faults
     \/ /\ ~stop[s] /\ Goto(s, "load")
        /\ seen' = [seen EXCEPT ![s] = Completed(s)]
        /\ UNCHANGED <<loaded, faults>>
     \/ /\ ~stop[s] /\ faults < Faults
        /\ faults' = faults + 1 /\ EndRound(s, "failed")

Load(s) ==
  /\ worker[s] = "load" /\ Only(s) /\ UNCHANGED <<counter, payload, seen, faults>>
  /\ loaded' = [loaded EXCEPT ![s] = payload[shared[s]]]
  /\ Goto(s, "swap")

\* Mutant: a plain store in place of the compare-and-exchange.
StoreBlindly(s) ==
  /\ worker[s] = "swap" /\ Only(s) /\ UNCHANGED <<counter, seen, loaded, faults>>
  /\ payload' = [payload EXCEPT ![shared[s]] = IF seen[s] > loaded[s] THEN seen[s] ELSE @]
  /\ Goto(s, "compare")

(* A compare-and-exchange that fails has loaded the newer value.            *)
Swap(s) ==
  LET p == shared[s]
  IN  /\ worker[s] = "swap" /\ Only(s) /\ UNCHANGED <<counter, seen, faults>>
      /\ \/ seen[s] <= loaded[s] /\ Goto(s, "compare") /\ UNCHANGED <<payload, loaded>>
         \/ /\ seen[s] > loaded[s] /\ payload[p] = loaded[s]
            /\ payload' = [payload EXCEPT ![p] = seen[s]]
            /\ Goto(s, "compare") /\ UNCHANGED loaded
         \/ /\ seen[s] > loaded[s] /\ payload[p] # loaded[s]
            /\ loaded' = [loaded EXCEPT ![s] = payload[p]]
            /\ UNCHANGED <<payload, worker>>

(* Whether another process is ahead.                                        *)
Compare(s) ==
  LET ahead == payload[shared[s]]
  IN  /\ worker[s] = "compare" /\ Only(s) /\ UNCHANGED <<counter, payload, faults>>
      /\ IF ahead > seen[s]
         THEN loaded' = [loaded EXCEPT ![s] = ahead] /\ Goto(s, "signal") /\ UNCHANGED seen
         ELSE EndRound(s, "query")

\* Mutant: the worker ends with its first signal.
SignalOnce(s) ==
  /\ worker[s] = "signal" /\ Only(s) /\ UNCHANGED <<payload, faults>>
  /\ counter' = [counter EXCEPT ![s] = Upper(@, loaded[s])]
  /\ EndRound(s, "ended")

(* The driver refuses a value that is not ahead of its counter.             *)
Signal(s) ==
  /\ worker[s] = "signal" /\ Only(s) /\ UNCHANGED <<payload, faults>>
  /\ IF loaded[s] > counter[s]
     THEN counter' = [counter EXCEPT ![s] = loaded[s]] /\ EndRound(s, "query")
     ELSE EndRound(s, "failed") /\ UNCHANGED counter

timeline_worker(s) == Query(s) \/ Load(s) \/ Swap(s) \/ Compare(s) \/ Signal(s)

-----------------------------------------------------------------------------
BridgeInit ==
  /\ gated \in BOOLEAN /\ enabled \in BOOLEAN
  /\ semaphore = [s \in Semaphores |-> "none"]
  /\ counter = [s \in Semaphores |-> 0]
  /\ queued = {}
  /\ done = [s \in Semaphores |-> {}]
  /\ payload = [s \in Semaphores |-> 0]
  /\ pages = {}
  /\ shared = [s \in Semaphores |-> NoPayload]
  /\ worker = [s \in Semaphores |-> "off"]
  /\ seen = [s \in Semaphores |-> 0] /\ loaded = [s \in Semaphores |-> 0]
  /\ stop = [s \in Semaphores |-> FALSE]
  /\ removing = [p \in Processes |-> "nobody"]
  /\ faults = 0

BridgeNext ==
  \E s \in Semaphores :
    \/ \E exports \in BOOLEAN : vkCreateSemaphore(s, exports)
    \/ Submit(s) \/ Complete(s)
    \/ timeline_export(s)
    \/ \E p \in Semaphores : timeline_import(s, p)
    \/ timeline_remove(s) \/ timeline_release(s)
    \/ timeline_worker(s)

BridgeSpec == BridgeInit /\ [][BridgeNext]_bridgeVars

(* Threads run, and the GPU finishes what it may start.                     *)
BridgeFairness == \A s \in Semaphores : /\ WF_bridgeVars(timeline_worker(s))
                                        /\ WF_bridgeVars(Complete(s))
                                        /\ WF_bridgeVars(timeline_release(s))
BridgeFairSpec == BridgeSpec /\ BridgeFairness

-----------------------------------------------------------------------------
(* Properties *)

(* "Values are published only after the backing Vulkan semaphore            *)
(* completes" (vulkan_timeline_bridge.inc:2): a value in a page, or in any  *)
(* semaphore that shares it, has been completed by a GPU for that page, so  *)
(* no wait returns early.                                                   *)
PublishedIsDone ==
  \A s \in Semaphores :
    /\ payload[s] \in done[s] \cup {0}
    /\ semaphore[s] # "destroyed" => counter[s] \in done[Page(s)] \cup {0}

(* A page and a semaphore never go back, whichever worker writes last.      *)
Forward == \A s \in Semaphores : payload'[s] >= payload[s] /\ counter'[s] >= counter[s]
NeverBack == [][Forward]_bridgeVars

(* While submissions wait for their predecessors, the worker never signals  *)
(* a value that the GPU has overtaken; only a refused query ends it.        *)
WorkersLast == gated /\ faults = 0 => \A s \in Semaphores : worker[s] # "failed"

(* "Publish its last actual GPU completion before dropping our mapping"     *)
(* (vulkan_timeline_bridge.inc:106): once nobody is attached to a page, it  *)
(* holds the newest value that was completed for it, unless a query failed. *)
LastKept ==
  \A p \in pages : faults = 0 /\ (\A s \in Semaphores : shared[s] # p) =>
    \A v \in done[p] : v <= payload[p]

(* Timeline values are those that a GPU has completed, the last one is not  *)
(* lost with its semaphore, and the workers that carry them go on.          *)
ValuesCompleted == PublishedIsDone /\ LastKept /\ WorkersLast

(* What was completed anywhere reaches every semaphore that shares the      *)
(* page: a semaphore and its page come into step, unless the worker has     *)
(* failed or the semaphore is removed.                                      *)
InStep(s) == Attached(s) => counter[s] = payload[shared[s]]
Delivered ==
  \A s \in Semaphores : gated /\ ~InStep(s) ~> InStep(s) \/ stop[s] \/ faults > 0
-----------------------------------------------------------------------------
(* The invariant that the proofs rest on *)

BridgeTypeOK ==
  /\ gated \in BOOLEAN /\ enabled \in BOOLEAN /\ faults \in Nat
  /\ semaphore \in [Semaphores -> {"none", "timeline", "exportable", "binary", "destroyed"}]
  /\ counter \in [Semaphores -> Nat]
  /\ queued \subseteq [on : Semaphores, after : Nat, value : Nat]
  /\ done \in [Semaphores -> SUBSET Nat]
  /\ payload \in [Semaphores -> Nat] /\ pages \subseteq Semaphores
  /\ shared \in [Semaphores -> Semaphores \cup {NoPayload}]
  /\ worker \in [Semaphores -> {"off", "query", "load", "swap", "compare", "signal", "ended", "failed"}]
  /\ seen \in [Semaphores -> Nat] /\ loaded \in [Semaphores -> Nat]
  /\ stop \in [Semaphores -> BOOLEAN]
  /\ removing \in [Processes -> Semaphores \cup {"nobody"}]

(* A page is made once and outlives its maker; workers run on a page.       *)
Lives ==
  \A s \in Semaphores :
    /\ semaphore[s] = "destroyed" => ~Attached(s)
    /\ Attached(s) => shared[s] \in pages
    /\ s \in pages => semaphore[s] = "destroyed" \/ shared[s] = s
    /\ s \notin pages => payload[s] = 0
    /\ worker[s] \in {"query", "load", "swap", "compare", "signal"} => Attached(s)
    /\ worker[s] \in {"off", "query", "ended", "failed"} => seen[s] = 0 /\ loaded[s] = 0

(* Whatever a worker has read has been completed.                           *)
ReadIsDone ==
  \A s \in Semaphores : seen[s] \in done[Page(s)] \cup {0} /\ loaded[s] \in done[Page(s)] \cup {0}

(* Submissions are on semaphores that live, for values of their own.        *)
QueueSound ==
  \A q \in queued :
    /\ Bridged(q.on) /\ removing[Process[q.on]] # q.on
    /\ q.value \notin done[Page(q.on)]
    /\ gated => q.value = q.after + 1
    /\ \A r \in queued : Page(r.on) = Page(q.on) /\ r.value = q.value => r = q

(* A completion is in the page, or someone who is attached will bring it.   *)
Carried ==
  \A s \in Semaphores :
    /\ s \in pages /\ faults = 0 => \A v \in done[s] :
         v <= payload[s] \/ \E t \in Semaphores : shared[t] = s /\ v <= counter[t]
    /\ s \notin pages => \A v \in done[s] : v <= counter[s]

(* What a semaphore completed since its worker looked is known to nobody    *)
(* else; and a value that is about to be signalled is still ahead.          *)
Unpublished(s) == {v \in Nat : seen[s] < v /\ v <= counter[s]}
KnowsAlone(s) ==
  /\ seen[s] <= counter[s]
  /\ Unpublished(s) \subseteq done[Page(s)]
  /\ payload[Page(s)] \notin Unpublished(s)
  /\ \A t \in Semaphores \ {s} : shared[t] = shared[s] =>
       {counter[t], seen[t], loaded[t]} \cap Unpublished(s) = {}
Ahead ==
  gated => \A s \in Semaphores :
    /\ worker[s] \in {"load", "swap", "compare"} => KnowsAlone(s)
    /\ worker[s] = "signal" => loaded[s] > counter[s]

BridgeInvariant ==
  BridgeTypeOK /\ Lives /\ PublishedIsDone /\ ReadIsDone /\ QueueSound /\ Carried /\ Ahead /\ WorkersLast
=============================================================================
