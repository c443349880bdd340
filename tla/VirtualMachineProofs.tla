------------------------- MODULE VirtualMachineProofs -------------------------
(***************************************************************************)
(* Proofs about the parts of the virtual machine, for any devices, threads, *)
(* semaphores, processes and inputs.  Each part has an inductive invariant, *)
(* proved with a lemma for each action, and a behaviour of the whole is one *)
(* of every part.                                                           *)
(***************************************************************************)
EXTENDS VirtualMachine, FiniteSetTheorems, WellFoundedInduction, TLAPS

-----------------------------------------------------------------------------
(* Exported semaphores (TimelineBridge).  BridgeInvariant has one step for  *)
(* each of its conjuncts under every action.                                *)

LEMMA CreateKeeps ==
  ASSUME BridgeInvariant, NEW s \in Semaphores, NEW exports \in BOOLEAN, vkCreateSemaphore(s, exports)
  PROVE  BridgeInvariant'
<1> USE BridgeAssumption DEF setting, page, thread, gpu, Bridged, Attached, Page, Free, Processes,
        vkCreateSemaphore
<1>1. BridgeTypeOK'
  BY DEF BridgeInvariant, BridgeTypeOK
<1>2. Lives'
  BY DEF BridgeInvariant, BridgeTypeOK, Lives
<1>3. PublishedIsDone'
  BY DEF BridgeInvariant, BridgeTypeOK, PublishedIsDone, Lives, ReadIsDone, QueueSound
<1>4. ReadIsDone'
  BY DEF BridgeInvariant, BridgeTypeOK, PublishedIsDone, Lives, ReadIsDone
<1>5. QueueSound'
  BY DEF BridgeInvariant, BridgeTypeOK, QueueSound, Lives
<1>6. Carried'
  BY DEF BridgeInvariant, BridgeTypeOK, Carried, Lives, QueueSound
<1>7. Ahead'
  BY DEF BridgeInvariant, BridgeTypeOK, Ahead, KnowsAlone, Unpublished, Lives, QueueSound, PublishedIsDone, ReadIsDone
<1>8. WorkersLast'
  BY DEF BridgeInvariant, BridgeTypeOK, WorkersLast, Ahead
<1> QED BY <1>1, <1>2, <1>3, <1>4, <1>5, <1>6, <1>7, <1>8 DEF BridgeInvariant

LEMMA SubmitKeeps ==
  ASSUME BridgeInvariant, NEW s \in Semaphores, Submit(s)
  PROVE  BridgeInvariant'
<1> USE BridgeAssumption DEF setting, page, thread, gpu, Bridged, Attached, Page, Free, Processes,
        Submit, Newest, Used
<1>1. BridgeTypeOK'
  BY DEF BridgeInvariant, BridgeTypeOK
<1>2. Lives'
  BY DEF BridgeInvariant, BridgeTypeOK, Lives
<1>3. PublishedIsDone'
  BY DEF BridgeInvariant, BridgeTypeOK, PublishedIsDone, Lives, ReadIsDone, QueueSound
<1>4. ReadIsDone'
  BY DEF BridgeInvariant, BridgeTypeOK, PublishedIsDone, Lives, ReadIsDone
<1>5. QueueSound'
  BY DEF BridgeInvariant, BridgeTypeOK, QueueSound, Lives
<1>6. Carried'
  BY DEF BridgeInvariant, BridgeTypeOK, Carried, Lives, QueueSound
<1>7. Ahead'
  BY DEF BridgeInvariant, BridgeTypeOK, Ahead, KnowsAlone, Unpublished, Lives, QueueSound, PublishedIsDone, ReadIsDone
<1>8. WorkersLast'
  BY DEF BridgeInvariant, BridgeTypeOK, WorkersLast, Ahead
<1> QED BY <1>1, <1>2, <1>3, <1>4, <1>5, <1>6, <1>7, <1>8 DEF BridgeInvariant

LEMMA CompleteKeeps ==
  ASSUME BridgeInvariant, NEW s \in Semaphores, Complete(s)
  PROVE  BridgeInvariant'
<1> USE BridgeAssumption DEF setting, page, thread, gpu, Bridged, Attached, Page, Free, Processes,
        Complete
<1>1. BridgeTypeOK'
  BY DEF BridgeInvariant, BridgeTypeOK
<1>2. Lives'
  BY DEF BridgeInvariant, BridgeTypeOK, Lives
<1>3. PublishedIsDone'
  BY DEF BridgeInvariant, BridgeTypeOK, PublishedIsDone, Lives, ReadIsDone, QueueSound
<1>4. ReadIsDone'
  BY DEF BridgeInvariant, BridgeTypeOK, PublishedIsDone, Lives, ReadIsDone
<1>5. QueueSound'
  BY DEF BridgeInvariant, BridgeTypeOK, QueueSound, Lives
<1>6. Carried'
  BY DEF BridgeInvariant, BridgeTypeOK, Carried, Lives, QueueSound
<1>7. Ahead'
  <2>1. PICK q \in queued : /\ q.on = s /\ counter[s] >= q.after /\ counter[s] < q.value
                           /\ counter' = [counter EXCEPT ![s] = q.value]
                           /\ done' = [done EXCEPT ![Page(s)] = @ \cup {q.value}]
    OBVIOUS
  <2>2. UNCHANGED <<gated, payload, pages, shared, worker, seen, loaded>>
    OBVIOUS
  <2>3. /\ q.value \in Nat /\ q.after \in Nat /\ q.value \notin done[Page(s)]
        /\ gated => q.value = q.after + 1
    BY <2>1 DEF BridgeInvariant, BridgeTypeOK, QueueSound
  <2>4. \A v \in Nat : gated => (v \in counter[s] + 1 .. q.value => v = q.value)
    BY <2>1, <2>3 DEF BridgeInvariant, BridgeTypeOK
  <2>5. ASSUME gated, NEW t \in Semaphores, worker[t] \in {"load", "swap", "compare"}
        PROVE  KnowsAlone(t)'
    <3>b. semaphore[s] # "destroyed" /\ Page(s) \in Semaphores
      BY <2>1 DEF BridgeInvariant, BridgeTypeOK, QueueSound
    <3>c. KnowsAlone(t)
      <4>1. Ahead
        BY DEF BridgeInvariant
      <4> QED BY <4>1, <2>5 DEF Ahead
    <3>d. Attached(t)
      BY <2>5 DEF BridgeInvariant, Lives
    <3>1. KnowsAlone(t) /\ Attached(t) /\ semaphore[s] # "destroyed" /\ Page(s) \in Semaphores
      BY <3>b, <3>c, <3>d
    <3> DEFINE P == Page(s)
    <3>a. /\ Page(s)' = P /\ Page(t)' = Page(t) /\ done'[P] = done[P] \cup {q.value}
          /\ done[P] \subseteq Nat /\ q.value > 0 /\ counter[s] \in Nat /\ seen[s] \in Nat
      BY <2>1, <2>2, <2>3, <3>1 DEF BridgeInvariant, BridgeTypeOK
    <3>2. CASE t = s
      <4>1. /\ counter'[s] = q.value /\ seen'[s] = seen[s] /\ seen[s] <= counter[s]
            /\ payload'[P] = payload[P] /\ payload[P] \in done[P] \cup {0}
        BY <2>1, <2>2, <3>1, <3>2 DEF BridgeInvariant, BridgeTypeOK, KnowsAlone, PublishedIsDone
      <4>2. Unpublished(s)' \subseteq Unpublished(s) \cup {q.value}
        BY <2>4, <2>5, <2>3, <3>a, <4>1 DEF Unpublished
      <4>3. \A u \in Semaphores \ {s} : shared[u] = shared[s] =>
              {counter[u], seen[u], loaded[u]} \subseteq done[P] \cup {0}
        BY <3>1, <3>2 DEF BridgeInvariant, BridgeTypeOK, PublishedIsDone, ReadIsDone, Lives
      <4>4. \A u \in Semaphores \ {s} : counter'[u] = counter[u]
        BY <2>1 DEF BridgeInvariant, BridgeTypeOK
      <4>5. q.value \notin done[P] \cup {0}
        BY <2>3, <3>a
      <4> HIDE DEF P
      <4>6. Unpublished(s)' \subseteq done'[P]
        BY <3>1, <3>2, <3>a, <4>2 DEF KnowsAlone, P
      <4>7. payload'[P] \notin Unpublished(s)'
        BY <3>1, <3>2, <4>1, <4>2, <4>5 DEF KnowsAlone, P
      <4>8. \A u \in Semaphores \ {s} : shared'[u] = shared'[s] =>
              {counter'[u], seen'[u], loaded'[u]} \cap Unpublished(s)' = {}
        BY <2>2, <3>1, <3>2, <4>2, <4>3, <4>4, <4>5 DEF KnowsAlone
      <4> QED BY <2>1, <2>3, <3>a, <3>2, <4>1, <4>6, <4>7, <4>8 DEF KnowsAlone
    <3>3. CASE t # s
      <4>1. Unpublished(t)' = Unpublished(t)
        BY <2>1, <2>2, <3>3 DEF BridgeInvariant, BridgeTypeOK, Unpublished
      <4>2. done[Page(t)] \subseteq done'[Page(t)]
        BY <2>1, <3>1 DEF BridgeInvariant, BridgeTypeOK
      <4>3. shared[s] = shared[t] => q.value \notin Unpublished(t)
        BY <2>3, <3>1 DEF KnowsAlone
      <4>4. /\ \A u \in Semaphores \ {s} : counter'[u] = counter[u]
            /\ counter'[s] = q.value
        BY <2>1 DEF BridgeInvariant, BridgeTypeOK
      <4> QED BY <2>2, <3>1, <3>3, <3>a, <4>1, <4>2, <4>3, <4>4 DEF KnowsAlone
    <3> QED BY <3>2, <3>3
  <2>6. ASSUME gated, NEW t \in Semaphores, worker[t] = "signal"
        PROVE  loaded[t] > counter'[t]
    <3>1. loaded[t] > counter[t] /\ loaded[t] \in done[Page(t)] /\ loaded[t] \in Nat
      BY <2>6 DEF BridgeInvariant, BridgeTypeOK, Ahead, ReadIsDone
    <3> QED BY <2>1, <2>3, <2>4, <2>6, <3>1 DEF BridgeInvariant, BridgeTypeOK
  <2> QED BY <2>2, <2>5, <2>6 DEF Ahead
<1>8. WorkersLast'
  BY DEF BridgeInvariant, BridgeTypeOK, WorkersLast, Ahead
<1> QED BY <1>1, <1>2, <1>3, <1>4, <1>5, <1>6, <1>7, <1>8 DEF BridgeInvariant

LEMMA ExportKeeps ==
  ASSUME BridgeInvariant, NEW s \in Semaphores, timeline_export(s)
  PROVE  BridgeInvariant'
<1> USE BridgeAssumption DEF setting, page, thread, gpu, Bridged, Attached, Page, Free, Processes,
        timeline_export, timeline_start, Completed
<1>1. BridgeTypeOK'
  BY DEF BridgeInvariant, BridgeTypeOK
<1>2. Lives'
  BY DEF BridgeInvariant, BridgeTypeOK, Lives
<1>3. PublishedIsDone'
  BY DEF BridgeInvariant, BridgeTypeOK, PublishedIsDone, Lives, ReadIsDone, QueueSound
<1>4. ReadIsDone'
  BY DEF BridgeInvariant, BridgeTypeOK, PublishedIsDone, Lives, ReadIsDone
<1>5. QueueSound'
  BY DEF BridgeInvariant, BridgeTypeOK, QueueSound, Lives
<1>6. Carried'
  BY DEF BridgeInvariant, BridgeTypeOK, Carried, Lives, QueueSound
<1>7. Ahead'
  BY DEF BridgeInvariant, BridgeTypeOK, Ahead, KnowsAlone, Unpublished, Lives, QueueSound, PublishedIsDone, ReadIsDone
<1>8. WorkersLast'
  BY DEF BridgeInvariant, BridgeTypeOK, WorkersLast, Ahead
<1> QED BY <1>1, <1>2, <1>3, <1>4, <1>5, <1>6, <1>7, <1>8 DEF BridgeInvariant

LEMMA ImportKeeps ==
  ASSUME BridgeInvariant, NEW s \in Semaphores, NEW p \in Semaphores, timeline_import(s, p)
  PROVE  BridgeInvariant'
<1> USE BridgeAssumption DEF setting, page, thread, gpu, Bridged, Attached, Page, Free, Processes,
        timeline_import, timeline_start
<1>1. BridgeTypeOK'
  BY DEF BridgeInvariant, BridgeTypeOK
<1>2. Lives'
  BY DEF BridgeInvariant, BridgeTypeOK, Lives
<1>3. PublishedIsDone'
  BY DEF BridgeInvariant, BridgeTypeOK, PublishedIsDone, Lives, ReadIsDone, QueueSound
<1>4. ReadIsDone'
  BY DEF BridgeInvariant, BridgeTypeOK, PublishedIsDone, Lives, ReadIsDone
<1>5. QueueSound'
  BY DEF BridgeInvariant, BridgeTypeOK, QueueSound, Lives
<1>6. Carried'
  BY DEF BridgeInvariant, BridgeTypeOK, Carried, Lives, QueueSound
<1>7. Ahead'
  BY DEF BridgeInvariant, BridgeTypeOK, Ahead, KnowsAlone, Unpublished, Lives, QueueSound, PublishedIsDone, ReadIsDone
<1>8. WorkersLast'
  BY DEF BridgeInvariant, BridgeTypeOK, WorkersLast, Ahead
<1> QED BY <1>1, <1>2, <1>3, <1>4, <1>5, <1>6, <1>7, <1>8 DEF BridgeInvariant

LEMMA RemoveKeeps ==
  ASSUME BridgeInvariant, NEW s \in Semaphores, timeline_remove(s)
  PROVE  BridgeInvariant'
<1> USE BridgeAssumption DEF setting, page, thread, gpu, Bridged, Attached, Page, Free, Processes,
        timeline_remove
<1>1. BridgeTypeOK'
  BY DEF BridgeInvariant, BridgeTypeOK
<1>2. Lives'
  BY DEF BridgeInvariant, BridgeTypeOK, Lives
<1>3. PublishedIsDone'
  BY DEF BridgeInvariant, BridgeTypeOK, PublishedIsDone, Lives, ReadIsDone, QueueSound
<1>4. ReadIsDone'
  BY DEF BridgeInvariant, BridgeTypeOK, PublishedIsDone, Lives, ReadIsDone
<1>5. QueueSound'
  BY DEF BridgeInvariant, BridgeTypeOK, QueueSound, Lives
<1>6. Carried'
  BY DEF BridgeInvariant, BridgeTypeOK, Carried, Lives, QueueSound
<1>7. Ahead'
  BY DEF BridgeInvariant, BridgeTypeOK, Ahead, KnowsAlone, Unpublished, Lives, QueueSound, PublishedIsDone, ReadIsDone
<1>8. WorkersLast'
  BY DEF BridgeInvariant, BridgeTypeOK, WorkersLast, Ahead
<1> QED BY <1>1, <1>2, <1>3, <1>4, <1>5, <1>6, <1>7, <1>8 DEF BridgeInvariant

LEMMA ReleaseKeeps ==
  ASSUME BridgeInvariant, NEW s \in Semaphores, timeline_release(s)
  PROVE  BridgeInvariant'
<1> USE BridgeAssumption DEF setting, page, thread, gpu, Bridged, Attached, Page, Free, Processes,
        timeline_release, Upper, Completed
<1>1. BridgeTypeOK'
  BY DEF BridgeInvariant, BridgeTypeOK
<1>2. Lives'
  BY DEF BridgeInvariant, BridgeTypeOK, Lives
<1>3. PublishedIsDone'
  BY DEF BridgeInvariant, BridgeTypeOK, PublishedIsDone, Lives, ReadIsDone, QueueSound
<1>4. ReadIsDone'
  BY DEF BridgeInvariant, BridgeTypeOK, PublishedIsDone, Lives, ReadIsDone
<1>5. QueueSound'
  BY DEF BridgeInvariant, BridgeTypeOK, QueueSound, Lives
<1>6. Carried'
  BY DEF BridgeInvariant, BridgeTypeOK, Carried, Lives, QueueSound
<1>7. Ahead'
  BY SMTT(30) DEF BridgeInvariant, BridgeTypeOK, Ahead, KnowsAlone, Unpublished, Lives, QueueSound, PublishedIsDone, ReadIsDone
<1>8. WorkersLast'
  BY DEF BridgeInvariant, BridgeTypeOK, WorkersLast, Ahead
<1> QED BY <1>1, <1>2, <1>3, <1>4, <1>5, <1>6, <1>7, <1>8 DEF BridgeInvariant

LEMMA QueryKeeps ==
  ASSUME BridgeInvariant, NEW s \in Semaphores, Query(s)
  PROVE  BridgeInvariant'
<1> USE BridgeAssumption DEF setting, page, thread, gpu, Bridged, Attached, Page, Free, Processes,
        Query, Only, EndRound, Goto, Completed
<1>1. BridgeTypeOK'
  BY DEF BridgeInvariant, BridgeTypeOK
<1>2. Lives'
  BY DEF BridgeInvariant, BridgeTypeOK, Lives
<1>3. PublishedIsDone'
  BY DEF BridgeInvariant, BridgeTypeOK, PublishedIsDone, Lives, ReadIsDone, QueueSound
<1>4. ReadIsDone'
  BY DEF BridgeInvariant, BridgeTypeOK, PublishedIsDone, Lives, ReadIsDone
<1>5. QueueSound'
  BY DEF BridgeInvariant, BridgeTypeOK, QueueSound, Lives
<1>6. Carried'
  BY DEF BridgeInvariant, BridgeTypeOK, Carried, Lives, QueueSound
<1>7. Ahead'
  BY DEF BridgeInvariant, BridgeTypeOK, Ahead, KnowsAlone, Unpublished, Lives, QueueSound, PublishedIsDone, ReadIsDone
<1>8. WorkersLast'
  BY DEF BridgeInvariant, BridgeTypeOK, WorkersLast, Ahead
<1> QED BY <1>1, <1>2, <1>3, <1>4, <1>5, <1>6, <1>7, <1>8 DEF BridgeInvariant

LEMMA LoadKeeps ==
  ASSUME BridgeInvariant, NEW s \in Semaphores, Load(s)
  PROVE  BridgeInvariant'
<1> USE BridgeAssumption DEF setting, page, thread, gpu, Bridged, Attached, Page, Free, Processes,
        Load, Only, Goto
<1>1. BridgeTypeOK'
  BY DEF BridgeInvariant, BridgeTypeOK, Lives
<1>2. Lives'
  BY DEF BridgeInvariant, BridgeTypeOK, Lives
<1>3. PublishedIsDone'
  BY DEF BridgeInvariant, BridgeTypeOK, PublishedIsDone, Lives, ReadIsDone, QueueSound
<1>4. ReadIsDone'
  BY DEF BridgeInvariant, BridgeTypeOK, PublishedIsDone, Lives, ReadIsDone
<1>5. QueueSound'
  BY DEF BridgeInvariant, BridgeTypeOK, QueueSound, Lives
<1>6. Carried'
  BY DEF BridgeInvariant, BridgeTypeOK, Carried, Lives, QueueSound
<1>7. Ahead'
  BY DEF BridgeInvariant, BridgeTypeOK, Ahead, KnowsAlone, Unpublished, Lives, QueueSound, PublishedIsDone, ReadIsDone
<1>8. WorkersLast'
  BY DEF BridgeInvariant, BridgeTypeOK, WorkersLast, Ahead
<1> QED BY <1>1, <1>2, <1>3, <1>4, <1>5, <1>6, <1>7, <1>8 DEF BridgeInvariant

LEMMA SwapKeeps ==
  ASSUME BridgeInvariant, NEW s \in Semaphores, Swap(s)
  PROVE  BridgeInvariant'
<1> USE BridgeAssumption DEF setting, page, thread, gpu, Bridged, Attached, Page, Free, Processes,
        Swap, Only, Goto
<1>1. BridgeTypeOK'
  BY DEF BridgeInvariant, BridgeTypeOK, Lives
<1>2. Lives'
  BY DEF BridgeInvariant, BridgeTypeOK, Lives
<1>3. PublishedIsDone'
  BY DEF BridgeInvariant, BridgeTypeOK, PublishedIsDone, Lives, ReadIsDone, QueueSound
<1>4. ReadIsDone'
  BY DEF BridgeInvariant, BridgeTypeOK, PublishedIsDone, Lives, ReadIsDone
<1>5. QueueSound'
  BY DEF BridgeInvariant, BridgeTypeOK, QueueSound, Lives
<1>6. Carried'
  BY DEF BridgeInvariant, BridgeTypeOK, Carried, Lives, QueueSound
<1>7. Ahead'
  BY DEF BridgeInvariant, BridgeTypeOK, Ahead, KnowsAlone, Unpublished, Lives, QueueSound, PublishedIsDone, ReadIsDone
<1>8. WorkersLast'
  BY DEF BridgeInvariant, BridgeTypeOK, WorkersLast, Ahead
<1> QED BY <1>1, <1>2, <1>3, <1>4, <1>5, <1>6, <1>7, <1>8 DEF BridgeInvariant

LEMMA CompareKeeps ==
  ASSUME BridgeInvariant, NEW s \in Semaphores, Compare(s)
  PROVE  BridgeInvariant'
<1> USE BridgeAssumption DEF setting, page, thread, gpu, Bridged, Attached, Page, Free, Processes,
        Compare, Only, EndRound, Goto
<1>1. BridgeTypeOK'
  BY DEF BridgeInvariant, BridgeTypeOK, Lives
<1>2. Lives'
  BY DEF BridgeInvariant, BridgeTypeOK, Lives
<1>3. PublishedIsDone'
  BY DEF BridgeInvariant, BridgeTypeOK, PublishedIsDone, Lives, ReadIsDone, QueueSound
<1>4. ReadIsDone'
  BY DEF BridgeInvariant, BridgeTypeOK, PublishedIsDone, Lives, ReadIsDone
<1>5. QueueSound'
  BY DEF BridgeInvariant, BridgeTypeOK, QueueSound, Lives
<1>6. Carried'
  BY DEF BridgeInvariant, BridgeTypeOK, Carried, Lives, QueueSound
<1>7. Ahead'
  <2>1. UNCHANGED <<gated, counter, payload, pages, shared, done>> /\ worker[s] = "compare"
    OBVIOUS
  <2>2. ASSUME gated  PROVE Attached(s) /\ KnowsAlone(s)
    <3>1. KnowsAlone(s)
      <4>1. Ahead
        BY DEF BridgeInvariant
      <4> QED BY <4>1, <2>1, <2>2 DEF Ahead
    <3>2. Attached(s)
      BY <2>1 DEF BridgeInvariant, Lives
    <3> QED BY <3>1, <3>2
  <2>3. ASSUME gated, worker'[s] = "signal"  PROVE loaded'[s] > counter[s]
    BY <2>1, <2>2, <2>3 DEF BridgeInvariant, BridgeTypeOK, KnowsAlone, Unpublished
  <2>4. worker'[s] \in {"query", "signal"}
    BY DEF BridgeInvariant, BridgeTypeOK
  <2>5. /\ seen'[s] \in {seen[s], 0} /\ loaded'[s] \in {payload[Page(s)], 0}
        /\ \A t \in Semaphores \ {s} :
              worker'[t] = worker[t] /\ seen'[t] = seen[t] /\ loaded'[t] = loaded[t]
    BY DEF BridgeInvariant, BridgeTypeOK, Lives
  <2>6. ASSUME gated, NEW t \in Semaphores \ {s}, worker[t] \in {"load", "swap", "compare"}
        PROVE  KnowsAlone(t)'
    <3>1. KnowsAlone(t)
      <4>1. Ahead
        BY DEF BridgeInvariant
      <4> QED BY <4>1, <2>6 DEF Ahead
    <3>2. Attached(t)
      BY <2>6 DEF BridgeInvariant, Lives
    <3>3. Unpublished(t)' = Unpublished(t) /\ 0 \notin Unpublished(t)
      BY <2>1, <2>5, <2>6 DEF BridgeInvariant, BridgeTypeOK, Unpublished
    <3> QED BY <2>1, <2>5, <2>6, <3>1, <3>2, <3>3 DEF KnowsAlone
  <2> QED BY <2>1, <2>3, <2>4, <2>5, <2>6 DEF BridgeInvariant, Ahead
<1>8. WorkersLast'
  BY DEF BridgeInvariant, BridgeTypeOK, WorkersLast, Ahead
<1> QED BY <1>1, <1>2, <1>3, <1>4, <1>5, <1>6, <1>7, <1>8 DEF BridgeInvariant

LEMMA SignalKeeps ==
  ASSUME BridgeInvariant, NEW s \in Semaphores, Signal(s)
  PROVE  BridgeInvariant'
<1> USE BridgeAssumption DEF setting, page, thread, gpu, Bridged, Attached, Page, Free, Processes,
        Signal, Only, EndRound, Goto
<1>1. BridgeTypeOK'
  BY DEF BridgeInvariant, BridgeTypeOK, Lives
<1>2. Lives'
  BY DEF BridgeInvariant, BridgeTypeOK, Lives
<1>3. PublishedIsDone'
  BY DEF BridgeInvariant, BridgeTypeOK, PublishedIsDone, Lives, ReadIsDone, QueueSound
<1>4. ReadIsDone'
  BY DEF BridgeInvariant, BridgeTypeOK, PublishedIsDone, Lives, ReadIsDone
<1>5. QueueSound'
  BY DEF BridgeInvariant, BridgeTypeOK, QueueSound, Lives
<1>6. Carried'
  <2>1. \A t \in Semaphores : counter'[t] \in Nat /\ counter'[t] >= counter[t]
    BY <1>1 DEF BridgeInvariant, BridgeTypeOK
  <2>2. UNCHANGED <<done, payload, pages, shared, faults>>
    BY DEF BridgeInvariant, Lives
  <2> QED BY <2>1, <2>2 DEF BridgeInvariant, BridgeTypeOK, Carried
<1>7. Ahead'
  BY DEF BridgeInvariant, BridgeTypeOK, Ahead, KnowsAlone, Unpublished, Lives, QueueSound, PublishedIsDone, ReadIsDone
<1>8. WorkersLast'
  BY DEF BridgeInvariant, BridgeTypeOK, WorkersLast, Ahead
<1> QED BY <1>1, <1>2, <1>3, <1>4, <1>5, <1>6, <1>7, <1>8 DEF BridgeInvariant

(* The shared pages: every step of every process keeps the invariant.       *)
LEMMA BridgeStep == BridgeInvariant /\ [BridgeNext]_bridgeVars => BridgeInvariant'
<1> SUFFICES ASSUME BridgeInvariant, [BridgeNext]_bridgeVars  PROVE BridgeInvariant'
  OBVIOUS
<1>1. CASE UNCHANGED bridgeVars
  BY <1>1 DEF bridgeVars, setting, page, thread, gpu, BridgeInvariant, BridgeTypeOK, Lives,
              PublishedIsDone, ReadIsDone, QueueSound, Carried, Ahead, KnowsAlone, Unpublished,
              WorkersLast, Page, Attached, Bridged, Processes
<1>2. CASE BridgeNext
  BY <1>2, CreateKeeps, SubmitKeeps, CompleteKeeps, ExportKeeps, ImportKeeps, RemoveKeeps,
     ReleaseKeeps, QueryKeeps, LoadKeeps, SwapKeeps, CompareKeeps, SignalKeeps
     DEF BridgeNext, timeline_worker
<1> QED BY <1>1, <1>2

LEMMA BridgeStart == BridgeInit => BridgeInvariant
BY BridgeAssumption
   DEF BridgeInit, BridgeInvariant, BridgeTypeOK, Lives, PublishedIsDone, ReadIsDone, QueueSound,
       Carried, Ahead, WorkersLast, Page, Attached, Processes

LEMMA BridgeInvariantHolds == BridgeSpec => []BridgeInvariant
BY BridgeStart, BridgeStep, PTL DEF BridgeSpec

\* No wait on a bridged semaphore ends before a GPU has completed the value,
\* what was completed outlives the semaphore it was completed on, and with
\* ordered submissions no worker gives up, for any number of semaphores,
\* processes and values: ValuesCompleted.
THEOREM BridgedValuesAreTrue == BridgeSpec => []ValuesCompleted
<1>1. BridgeInvariant => ValuesCompleted
  BY DEF BridgeInvariant, ValuesCompleted, LastKept, Carried, BridgeTypeOK
<1> QED BY <1>1, BridgeInvariantHolds, PTL

\* Neither a shared page nor a semaphore goes back, whoever writes last:
\* NeverBack.
THEOREM BridgedValuesGrow == BridgeSpec => NeverBack
<1>1. BridgeInvariant /\ [BridgeNext]_bridgeVars => [Forward]_bridgeVars
  <2> SUFFICES ASSUME BridgeInvariant, BridgeNext  PROVE Forward
    OBVIOUS
  <2> USE DEF setting, page, thread, gpu, Bridged, Attached, Page, Free, BridgeInvariant, BridgeTypeOK, Forward
  <2>1. CASE \E s \in Semaphores : \/ \E exports \in BOOLEAN : vkCreateSemaphore(s, exports)
                                   \/ Submit(s) \/ timeline_remove(s)
                                   \/ \E p \in Semaphores : timeline_import(s, p)
    BY <2>1 DEF vkCreateSemaphore, Submit, timeline_remove, timeline_import
  <2>2. ASSUME NEW s \in Semaphores, Complete(s)  PROVE Forward
    BY <2>2 DEF Complete
  <2>3. ASSUME NEW s \in Semaphores, timeline_export(s)  PROVE Forward
    <3>1. semaphore[s] = "exportable" /\ shared[s] = NoPayload
      BY <2>3 DEF timeline_export
    <3>3. s \notin pages /\ payload[s] = 0
      BY <3>1, BridgeAssumption DEF Lives
    <3>2. payload' = [payload EXCEPT ![s] = counter[s]] /\ counter' = counter
      BY <2>3 DEF timeline_export, Completed
    <3> QED BY <3>2, <3>3
  <2>4. ASSUME NEW s \in Semaphores, timeline_release(s)  PROVE Forward
    BY <2>4 DEF timeline_release, Upper, Completed
  <2>5. ASSUME NEW s \in Semaphores, timeline_worker(s)  PROVE Forward
    BY <2>5 DEF timeline_worker, Query, Load, Swap, Compare, Signal, Only, EndRound, Goto
  <2> QED BY <2>1, <2>2, <2>3, <2>4, <2>5 DEF BridgeNext
<1> QED BY <1>1, BridgeInvariantHolds, PTL DEF BridgeSpec, NeverBack

-----------------------------------------------------------------------------
(* Queues (VulkanShim).  With one physical device the alias never changes   *)
(* once a device is made, so calls lock exactly when two queues of the      *)
(* application may be one of the host's.                                    *)

QueueTypes == /\ handle = [t \in Threads |-> handle[t]]
              /\ pc \in [Threads -> {"idle", "spin", "host"}]
              /\ locked \in [Threads -> BOOLEAN] /\ lock \in BOOLEAN
              /\ device = [p \in Physical |-> device[p]]

Checked == alias.pd # None   \* the alias has been looked for
OneAsked == Checked => alias.pd \in asked
DevicesAsked == \A p \in Physical : device[p] # NoDevice => p \in asked /\ Checked

HandlesMapped ==
  \A t \in Threads : handle[t] # NoQueue =>
    /\ Checked
    /\ \E p \in asked, f \in Families2 :
         /\ handle[t].own = <<p, f>>
         /\ OnePhysical => handle[t].real = <<p, Mapped(alias, f)>>
HandlesDiffer ==
  \A t, u \in Threads : t # u /\ handle[t] # NoQueue => handle[t].own # handle[u].own

CallersHave == \A t \in Threads : pc[t] # "idle" => handle[t] # NoQueue
Inside(t) == locked[t] /\ pc[t] = "host"
OneInside == \A t, u \in Threads : Inside(t) /\ Inside(u) => t = u
AliasLocks == OnePhysical /\ alias.available => \A t \in Threads : pc[t] = "host" => locked[t]

QueueInv == /\ QueueTypes /\ OneAsked /\ DevicesAsked /\ HandlesMapped /\ HandlesDiffer
            /\ CallersHave /\ LockReturned /\ OneInside /\ AliasLocks

LEMMA QueueExclusive == QueueInv => HostQueueExclusive
<1> SUFFICES ASSUME QueueInv, OnePhysical, NEW t \in Threads, NEW u \in Threads,
                    t # u, pc[t] = "host", pc[u] = "host"
             PROVE  handle[t].real # handle[u].real
  BY DEF HostQueueExclusive, QueueInv
<1>1. ~alias.available
  BY DEF QueueInv, AliasLocks, OneInside, Inside
<1>2. PICK p \in asked, f \in Families2 : handle[t].own = <<p, f>> /\ handle[t].real = <<p, f>>
  BY <1>1 DEF QueueInv, CallersHave, HandlesMapped, Mapped
<1>3. PICK q \in asked, g \in Families2 : handle[u].own = <<q, g>> /\ handle[u].real = <<q, g>>
  BY <1>1 DEF QueueInv, CallersHave, HandlesMapped, Mapped
<1> QED BY <1>2, <1>3 DEF QueueInv, HandlesDiffer, CallersHave

\* What the queues depend on.
queues == <<handle, pc, lock, locked>>

(* A query or a device: the alias changes only while there is no device, or *)
(* when several devices are asked about.                                    *)
LEMMA AskedKeeps ==
  ASSUME QueueInv, UNCHANGED queues, NEW p \in Physical, asked' = asked \cup {p},
         \/ alias' = alias /\ UNCHANGED device
         \/ /\ refresh_compute_queue_alias(p)
            /\ \/ UNCHANGED device
               \/ \E d : device' = [device EXCEPT ![p] = d]
  PROVE  QueueInv'
<1> USE DEF queues
<1>1. \/ alias' = alias
      \/ alias' = [pd |-> p, available |-> Aliasable(p)] /\ alias.pd # p
  BY DEF refresh_compute_queue_alias, Refreshed
<1>2. /\ Checked => Checked'
      /\ OnePhysical' => OnePhysical /\ (Checked => alias' = alias)
  <2>1. p # None
    BY ShimAssumption
  <2> QED BY <1>1, <2>1 DEF OnePhysical, QueueInv, OneAsked, Checked
<1>3. ~Checked => \A t \in Threads : handle[t] = NoQueue /\ pc[t] = "idle"
  BY DEF QueueInv, HandlesMapped, CallersHave
<1>4. QueueTypes' /\ OneAsked'
  BY <1>1 DEF QueueInv, QueueTypes, OneAsked, Checked
<1>5. DevicesAsked'
  <2>1. CASE UNCHANGED device
    BY <1>2, <2>1 DEF QueueInv, DevicesAsked
  <2>2. CASE refresh_compute_queue_alias(p) /\ \E d : device' = [device EXCEPT ![p] = d]
    <3>1. Checked'
      BY <2>2, ShimAssumption DEF Checked, refresh_compute_queue_alias, Refreshed
    <3> QED BY <2>2, <3>1 DEF QueueInv, QueueTypes, DevicesAsked
  <2> QED BY <2>1, <2>2
<1>6. HandlesMapped'
  BY <1>2, <1>3 DEF QueueInv, HandlesMapped, Mapped
<1>7. AliasLocks'
  BY <1>2, <1>3 DEF QueueInv, AliasLocks
<1>8. HandlesDiffer' /\ CallersHave' /\ LockReturned' /\ OneInside'
  BY DEF QueueInv, HandlesDiffer, CallersHave, LockReturned, OneInside, Inside
<1> QED BY <1>4, <1>5, <1>6, <1>7, <1>8 DEF QueueInv

LEMMA SameQueues ==
  ASSUME QueueInv, UNCHANGED queues, UNCHANGED <<alias, asked, device>>
  PROVE  QueueInv'
<1> USE DEF queues, QueueInv
<1>1. QueueTypes'
  BY DEF QueueTypes
<1>2. OneAsked' /\ DevicesAsked' /\ HandlesDiffer' /\ CallersHave'
  BY DEF OneAsked, DevicesAsked, HandlesDiffer, CallersHave, Checked
<1>3. HandlesMapped' /\ AliasLocks'
  BY DEF HandlesMapped, OnePhysical, Mapped, AliasLocks, Checked
<1>4. LockReturned' /\ OneInside'
  BY DEF LockReturned, OneInside, Inside
<1> QED BY <1>1, <1>2, <1>3, <1>4

LEMMA AskKeepsQueues == QueueInv /\ Ask => QueueInv'
<1> SUFFICES ASSUME QueueInv, Ask  PROVE QueueInv'
  OBVIOUS
<1> USE DEF threads, shim, history, queues
<1>1. CASE CreateInstance
  BY <1>1, SameQueues DEF CreateInstance
<1>2. ASSUME NEW p \in Physical, NEW capacity, vkEnumerateDeviceExtensionProperties(p, capacity)
      PROVE  QueueInv'
  BY <1>2, AskedKeeps DEF vkEnumerateDeviceExtensionProperties
<1>3. ASSUME NEW p \in Physical, NEW capacity, vkGetPhysicalDeviceQueueFamilyProperties(p, capacity)
      PROVE  QueueInv'
  BY <1>3, AskedKeeps DEF vkGetPhysicalDeviceQueueFamilyProperties
<1>4. ASSUME NEW p \in Physical, \/ vkGetPhysicalDeviceFeatures2(p) \/ vkWaitForPresentKHR(p)
                                 \/ \E f \in Families2 : vkCreateCommandPool(p, f)
      PROVE  QueueInv'
  BY <1>4, SameQueues DEF vkGetPhysicalDeviceFeatures2, vkWaitForPresentKHR, vkCreateCommandPool
<1>5. ASSUME NEW p \in Physical, NEW r, NEW result, NEW second, vkCreateDevice(p, r, result, second)
      PROVE  QueueInv'
  <2>1. refresh_compute_queue_alias(p) /\ asked' = asked \cup {p} /\ UNCHANGED queues
    BY <1>5 DEF vkCreateDevice
  <2>2. \E d : device' = [device EXCEPT ![p] = d]
    BY <1>5 DEF vkCreateDevice
  <2> QED BY <2>1, <2>2, AskedKeeps
<1> QED BY <1>1, <1>2, <1>3, <1>4, <1>5 DEF Ask, vkGetPhysicalDeviceQueueFamilyProperties2

LEMMA GetKeepsQueues ==
  ASSUME QueueInv, NEW t \in Threads, NEW p \in Physical, NEW f \in Families2, vkGetDeviceQueue(t, p, f)
  PROVE  QueueInv'
<1> USE DEF vkGetDeviceQueue, shim, history, machine
<1>1. Checked /\ p \in asked /\ pc[t] = "idle" /\ UNCHANGED <<alias, asked, device, pc, lock, locked>>
  BY DEF QueueInv, QueueTypes, DevicesAsked, CallersHave
<1>2. /\ handle' = [handle EXCEPT ![t] = [own |-> <<p, f>>, real |-> <<p, Mapped(alias, f)>>]]
      /\ \A u \in Threads : handle[u] # NoQueue => handle[u].own # <<p, f>>
  OBVIOUS
<1>3. QueueTypes' /\ OneAsked' /\ DevicesAsked' /\ AliasLocks' /\ OneInside' /\ LockReturned'
  <2>1. QueueTypes'
    BY <1>1, <1>2 DEF QueueInv, QueueTypes
  <2>2. OneAsked' /\ DevicesAsked'
    BY <1>1 DEF QueueInv, OneAsked, DevicesAsked, Checked
  <2>3. AliasLocks' /\ OneInside' /\ LockReturned'
    BY <1>1 DEF QueueInv, OnePhysical, AliasLocks, OneInside, Inside, LockReturned
  <2> QED BY <2>1, <2>2, <2>3
<1>4. CallersHave'
  BY <1>1, <1>2 DEF QueueInv, QueueTypes, CallersHave
<1>5. HandlesMapped'
  <2> SUFFICES ASSUME NEW u \in Threads, handle'[u] # NoQueue
               PROVE  \E q \in asked, g \in Families2 :
                        /\ handle'[u].own = <<q, g>>
                        /\ OnePhysical => handle'[u].real = <<q, Mapped(alias, g)>>
    BY <1>1 DEF HandlesMapped, OnePhysical, Mapped, Checked
  <2>1. CASE u = t
    BY <1>1, <1>2, <2>1 DEF QueueInv, QueueTypes
  <2>2. CASE u # t
    BY <1>1, <1>2, <2>2 DEF QueueInv, QueueTypes, HandlesMapped
  <2> QED BY <2>1, <2>2
<1>6. HandlesDiffer'
  BY <1>1, <1>2 DEF QueueInv, QueueTypes, HandlesDiffer, NoQueue
<1> QED BY <1>3, <1>4, <1>5, <1>6 DEF QueueInv

(* A call enters, takes the lock or leaves: only the thread moves.          *)
LEMMA MoveKeepsQueues ==
  ASSUME QueueInv, NEW t \in Threads, UNCHANGED <<alias, asked, device, handle>>,
         \/ Call(t) \/ lock_aliased_queue_operations(t)
         \/ /\ pc[t] = "host" /\ pc' = [pc EXCEPT ![t] = "idle"]
            /\ unlock_aliased_queue_operations(t) /\ UNCHANGED locked
  PROVE  QueueInv'
<1> USE DEF QueueInv, QueueTypes
<1>1. QueueTypes'
  BY DEF Call, lock_aliased_queue_operations, unlock_aliased_queue_operations
<1>5. OneAsked' /\ DevicesAsked' /\ HandlesDiffer'
  BY DEF OneAsked, DevicesAsked, HandlesDiffer, Checked
<1>6. HandlesMapped'
  BY DEF HandlesMapped, OnePhysical, Mapped, Checked
<1>2. CallersHave'
  BY DEF Call, lock_aliased_queue_operations, CallersHave
<1>3. LockReturned' /\ OneInside'
  <2> USE DEF LockReturned, OneInside, Inside
  <2>1. CASE Call(t)
    BY <2>1 DEF Call
  <2>2. CASE lock_aliased_queue_operations(t)
    BY <2>2 DEF lock_aliased_queue_operations
  <2>3. CASE /\ pc[t] = "host" /\ pc' = [pc EXCEPT ![t] = "idle"]
             /\ unlock_aliased_queue_operations(t) /\ UNCHANGED locked
    <3>1. CASE locked[t]
      BY <2>3, <3>1 DEF unlock_aliased_queue_operations
    <3>2. CASE ~locked[t]
      BY <2>3, <3>2 DEF unlock_aliased_queue_operations
    <3> QED BY <3>1, <3>2
  <2> QED BY <2>1, <2>2, <2>3
<1>4. AliasLocks'
  BY DEF Call, lock_aliased_queue_operations, AliasLocks, OnePhysical
<1> QED BY <1>1, <1>2, <1>3, <1>4, <1>5, <1>6

LEMMA QueueStep == QueueInv /\ [Next]_vars => QueueInv'
<1> SUFFICES ASSUME QueueInv, [Next]_vars  PROVE QueueInv'
  OBVIOUS
<1> USE DEF shim, history, threads, queues
<1>1. CASE UNCHANGED vars
  BY <1>1, SameQueues DEF vars
<1>2. CASE Ask
  BY <1>2, AskKeepsQueues
<1>3. ASSUME NEW t \in Threads, Use(t)
      PROVE  QueueInv'
  BY <1>3, GetKeepsQueues, MoveKeepsQueues
     DEF Use, vkGetDeviceQueue2, Call, lock_aliased_queue_operations, Return, vkQueuePresentKHR
<1> QED BY <1>1, <1>2, <1>3 DEF Next

LEMMA QueueStart == Init => QueueInv
<1> SUFFICES ASSUME Init  PROVE QueueInv
  OBVIOUS
<1> USE DEF Init
<1>1. QueueTypes
  BY DEF QueueTypes
<1>2. OneAsked /\ DevicesAsked /\ CallersHave
  BY DEF OneAsked, DevicesAsked, CallersHave, Checked
<1>3. HandlesMapped /\ HandlesDiffer
  BY DEF HandlesMapped, HandlesDiffer
<1>4. LockReturned /\ OneInside /\ AliasLocks
  BY DEF LockReturned, OneInside, Inside, AliasLocks
<1> QED BY <1>1, <1>2, <1>3, <1>4 DEF QueueInv

\* On one physical device, whatever its families and however many threads
\* call: two threads are never in the host's same queue, and the spin lock is
\* held exactly while a call that took it is in the host: HostQueueExclusive.
THEOREM HostQueuesExclusive == Spec => []HostQueueExclusive
BY QueueStart, QueueStep, QueueExclusive, PTL DEF Spec

-----------------------------------------------------------------------------
(* Entry points (ShimDispatch).  Whatever was looked up before: only the    *)
(* pointer to vkCreateInstance may be the wrapper, an open loader is one    *)
(* that is installed, and with a linked one vkGetInstanceProcAddr is found. *)

Answers == {Null, Host, Shim}

Sound(s) ==
  /\ s \in [real : [Pointers -> Answers], loader : BOOLEAN]
  /\ \A n \in Pointers \ {"CreateInstance"} : s.real[n] # Shim
  /\ s.loader => installed
  /\ s.loader /\ linked => s.real["GetInstanceProcAddr"] = Host

Environment == /\ linked \in BOOLEAN /\ installed \in BOOLEAN /\ interposed \in BOOLEAN
               /\ linked \/ installed
               /\ wanted \in Names

\* vkCreateDevice, whose wrapper does not look again, has been found where
\* there is a loader to find it in.
Ready(s) == installed => s.real["CreateDevice"] = Host

\* A lookup leaves the pointers sound, the loader open and vkCreateDevice found.
Grows(s, t) == Sound(t) /\ (s.loader => t.loader) /\ (Ready(s) => Ready(t))

DispatchInv ==
  /\ Environment
  /\ Sound(found)
  /\ active = [instance |-> active.instance, device |-> active.device]
  /\ "CreateInstance" \in handed => wanted = "CreateInstance"
  /\ active.instance /\ installed
       => found.loader /\ Ready(found) /\ (linked \/ wanted = "CreateInstance")
  /\ outcome # <<>> => /\ outcome[2] # Shim
                       /\ installed /\ ~interposed => outcome[2] = Host

LEMMA Lookup ==
  ASSUME NEW s, NEW n, NEW inst
  PROVE  AskInstance(s, inst, n) \in Answers /\ AskDevice(s, n) \in Answers
BY DEF AskInstance, AskDevice, Table, Answers

LEMMA NullHostShim == Null # Host /\ Null # Shim /\ Host # Shim
BY DEF Null, Host, Shim

LEMMA StoreSound ==
  ASSUME NEW s, Sound(s), NEW n \in Pointers, n # "GetInstanceProcAddr",
         NEW p \in Answers, p = Shim => n = "CreateInstance"
  PROVE  /\ Sound(Store(s, n, p)) /\ Store(s, n, p).loader = s.loader /\ Store(s, n, p).real[n] = p
         /\ \A m \in Pointers \ {n} : Store(s, n, p).real[m] = s.real[m]
BY DEF Sound, Store

LEMMA ReadyKnown == "CreateDevice" \in Pointers
BY DEF Pointers, Names, Global, Instance1, Cached, Uncached, Lookups

LEMMA ForgetSound ==
  ASSUME NEW s, Sound(s), NEW n \in Pointers
  PROVE  Grows(s, Forget(s, n)) /\ Forget(s, n).loader = s.loader /\ Forget(s, n).real[n] # Shim
<1>1. s.real[n] = Shim => n # "GetInstanceProcAddr"
  BY DEF Sound
<1>2. CASE s.real[n] = Shim
  <2>1. Forget(s, n) = Store(s, n, Null) /\ Null \in Answers /\ Null # Shim
    BY <1>2, NullHostShim DEF Forget, Answers
  <2>2. n = "CreateDevice" /\ installed => ~ Ready(s)
    BY <1>2, NullHostShim DEF Ready
  <2> QED BY <1>1, <1>2, <2>1, <2>2, StoreSound, ReadyKnown, NullHostShim DEF Grows, Ready
<1>3. CASE s.real[n] # Shim
  BY <1>3 DEF Forget, Grows
<1> QED BY <1>2, <1>3

LEMMA ForeignSound ==
  ASSUME NEW s, Sound(s), NEW n \in Pointers, n # "GetInstanceProcAddr", NEW p \in Answers
  PROVE  /\ Sound(Foreign(s, n, p)) /\ Foreign(s, n, p).loader = s.loader
         /\ Sound(Better(s, n, p)) /\ Better(s, n, p).loader = s.loader
         /\ s.real[n] # Shim => Foreign(s, n, p).real[n] # Shim
         /\ p # Shim => Foreign(s, n, p).real[n] = p
         /\ p = Host => Better(s, n, p).real[n] = Host
         /\ n # "CreateDevice" \/ Missing(s, n)
              => Grows(s, Foreign(s, n, p)) /\ Grows(s, Better(s, n, p))
<1>1. CASE p = Shim
  BY <1>1, NullHostShim DEF Foreign, Better, Grows
<1>2. CASE p # Shim
  <2>1. /\ Foreign(s, n, p) = Store(s, n, p)
        /\ Better(s, n, p) = IF p = Null THEN s ELSE Store(s, n, p)
    BY <1>2 DEF Foreign, Better
  <2>2. Missing(s, n) /\ n = "CreateDevice" /\ installed => ~ Ready(s)
    BY NullHostShim DEF Missing, Ready
  <2>3. n # "CreateDevice" \/ Missing(s, n) => (Ready(s) => Ready(Store(s, n, p)))
    BY <1>2, <2>2, StoreSound, ReadyKnown DEF Ready
  <2>4. Sound(Store(s, n, p)) /\ Store(s, n, p).loader = s.loader /\ Store(s, n, p).real[n] = p
    BY <1>2, StoreSound
  <2> QED BY <1>2, <2>1, <2>3, <2>4, NullHostShim DEF Grows
<1> QED BY <1>1, <1>2

LEMMA OwnSound ==
  ASSUME NEW s, Sound(s), NEW n \in Pointers, n # "GetInstanceProcAddr", NEW p \in Answers
  PROVE  /\ Sound(Own(s, n, p)) /\ Own(s, n, p).loader = s.loader /\ Own(s, n, p).real[n] # Shim
         /\ n # "CreateDevice" => Grows(s, Own(s, n, p))
         /\ Own(s, n, p).real[n] \in {Null, p}
<1>1. \E q \in Answers \ {Shim} : Own(s, n, p) = Store(s, n, q) /\ q \in {Null, p}
  <2>1. Store(s, n, p).real[n] = p
    BY DEF Sound, Store
  <2>2. CASE p = Shim
    <3>1. Own(s, n, p) = Store(s, n, Null)
      BY <2>1, <2>2 DEF Own, Forget, Store
    <3> QED BY <3>1, NullHostShim DEF Answers
  <2>3. CASE p # Shim
    BY <2>1, <2>3 DEF Own, Forget
  <2> QED BY <2>2, <2>3
<1>2. PICK q \in Answers \ {Shim} : Own(s, n, p) = Store(s, n, q) /\ q \in {Null, p}
  BY <1>1
<1> QED BY <1>2, StoreSound, ReadyKnown DEF Grows, Ready

\* The names that the loader's library is asked for.
Opening == Global \cup Lookups \cup {"EnumerateDeviceExtensions", "Features2"}

LEMMA LoaderSound ==
  ASSUME NEW s, Sound(s)
  PROVE  /\ Grows(s, resolve_vulkan_loader(s))
         /\ installed => /\ resolve_vulkan_loader(s).loader
                         /\ \A n \in Opening : resolve_vulkan_loader(s).real[n] = Host
         /\ \A n \in Pointers : s.real[n] # Shim => resolve_vulkan_loader(s).real[n] # Shim
<1>1. CASE ~installed
  BY <1>1 DEF resolve_vulkan_loader, Grows, Sound
<1>2. CASE installed
  <2>1. \A n : Dlsym("loader", n) = Host
    BY <1>2 DEF Dlsym
  <2>2. Opening \subseteq Pointers /\ "GetInstanceProcAddr" \in Opening
    BY DEF Opening, Pointers, Names, Global, Instance1, Cached, Uncached, Lookups
  <2>4. "CreateDevice" \notin Opening /\ "CreateDevice" \in Pointers
    BY ReadyKnown DEF Opening, Global, Lookups
  <2>3. resolve_vulkan_loader(s) =
          [loader |-> TRUE, real |-> [n \in Pointers |-> IF n \in Opening THEN Host ELSE s.real[n]]]
    BY <1>2, <2>1 DEF resolve_vulkan_loader, Opening
  <2> QED BY <1>2, <2>2, <2>3, <2>4, NullHostShim DEF Grows, Ready, Sound, Answers
<1> QED BY <1>1, <1>2

LEMMA OpenedSound ==
  ASSUME NEW s, Sound(s)
  PROVE  Grows(s, Opened(s)) /\ (installed => Opened(s).loader)
BY LoaderSound DEF Opened, Grows

\* The names other than the two that are stored differently.
Plain == Pointers \ {"CreateInstance", "GetInstanceProcAddr"}

LEMMA FromLoaderSound ==
  ASSUME NEW s, Sound(s), NEW n \in Plain
  PROVE  Grows(s, FromLoader(s, n)) /\ (s.loader => FromLoader(s, n).real[n] = Host)
<1>1. s.real[n] \in {Null, Host} /\ n \in Pointers /\ n # "GetInstanceProcAddr"
  BY DEF Sound, Plain, Answers
<1>2. CASE Missing(s, n) /\ s.loader
  <2>1. FromLoader(s, n) = Foreign(s, n, Host) /\ Host \in Answers
    BY <1>2 DEF FromLoader, Sound, Dlsym, Answers
  <2> QED BY <2>1, <1>1, <1>2, ForeignSound, NullHostShim DEF Grows
<1>3. CASE ~(Missing(s, n) /\ s.loader)
  BY <1>1, <1>3 DEF FromLoader, Grows, Missing
<1> QED BY <1>2, <1>3

LEMMA FromInstanceSound ==
  ASSUME NEW s, Sound(s), NEW n \in Plain, NEW inst
  PROVE  Grows(s, FromInstance(s, n, inst))
<1>1. AskInstance(s, inst, n) \in Answers
  BY Lookup
<1> QED BY <1>1, ForeignSound DEF FromInstance, Grows, Plain

LEMMA OpenForSound ==
  ASSUME NEW s, Sound(s), NEW n \in Plain
  PROVE  /\ Grows(s, OpenFor(s, n))
         /\ installed => OpenFor(s, n).loader \/ (OpenFor(s, n) = s /\ s.real[n] = Host)
<1>1. s.real[n] \in {Null, Host}
  BY DEF Sound, Plain, Answers
<1>2. CASE Missing(s, n) /\ ~s.loader
  <2>1. OpenFor(s, n) = resolve_vulkan_loader(s)
    BY <1>2 DEF OpenFor
  <2> QED BY <2>1, LoaderSound
<1>3. CASE ~(Missing(s, n) /\ ~s.loader)
  BY <1>1, <1>3 DEF OpenFor, Grows, Missing
<1> QED BY <1>2, <1>3

LEMMA NamesKnown ==
  /\ Cached \subseteq Plain
  /\ {"QueueFamilies", "QueueFamilies2", "CreateDevice", "EnumerateDeviceExtensions", "Features2",
      "EnumerateInstanceExtensions", "GetDeviceProcAddr"}
       \subseteq Plain
  /\ "CreateInstance" \in Pointers /\ "GetInstanceProcAddr" \in Pointers
BY DEF Plain, Pointers, Names, Global, Instance1, Cached, Uncached, Lookups

\* The functions that ask, in turn, an open or newly opened loader and the
\* instance: with a loader installed they find the host's function.
LEMMA ProcAddrSound ==
  ASSUME NEW s, Sound(s)
  PROVE  /\ Grows(s, resolve_real_vk_get_device_proc_addr(s))
         /\ installed => resolve_real_vk_get_device_proc_addr(s).real["GetDeviceProcAddr"] = Host
<1> DEFINE n == "GetDeviceProcAddr"
           t == Forget(s, n)
           u == OpenFor(t, n)
           v == FromInstance(u, n, active.instance)
<1> HIDE DEF n
<1>n. n \in Plain /\ n \in Pointers
  BY NamesKnown DEF n, Plain
<1>1. Grows(s, t) /\ Sound(t)
  BY <1>n, ForgetSound DEF Grows
<1>2. Grows(t, u) /\ (installed => u.loader \/ (u = t /\ t.real[n] = Host))
  BY <1>n, <1>1, OpenForSound
<1>3. Grows(u, v)
  BY <1>n, <1>2, FromInstanceSound DEF Grows
<1>4. Grows(v, FromLoader(v, n)) /\ (v.loader => FromLoader(v, n).real[n] = Host)
  BY <1>n, <1>3, FromLoaderSound DEF Grows
<1>5. resolve_real_vk_get_device_proc_addr(s) = FromLoader(v, n)
  BY DEF resolve_real_vk_get_device_proc_addr, n
<1>6. Grows(s, FromLoader(v, n))
  BY <1>1, <1>2, <1>3, <1>4 DEF Grows
<1>7. ASSUME installed  PROVE FromLoader(v, n).real[n] = Host
  <2>1. CASE u.loader
    BY <2>1, <1>3, <1>4 DEF Grows
  <2>2. CASE u = t /\ t.real[n] = Host
    BY <2>2, NullHostShim DEF FromInstance, FromLoader, Missing
  <2> QED BY <2>1, <2>2, <1>2, <1>7
<1> QED BY <1>5, <1>6, <1>7 DEF n

LEMMA CacheSound ==
  ASSUME NEW s, Sound(s), NEW n \in Cached, NEW dev \in BOOLEAN
  PROVE  Grows(s, Cache(s, n, dev)) /\ (installed => Cache(s, n, dev).real[n] = Host)
<1> DEFINE f == Forget(s, n)
           o == OpenFor(f, n)
           t == FromLoader(o, n)
           u == resolve_real_vk_get_device_proc_addr(t)
           r == resolve_real_vk_get_device_queue(s, n, dev)
<1>n. n \in Plain /\ n \in Pointers
  BY NamesKnown DEF Plain
<1>1. Grows(s, f) /\ Sound(f)
  BY <1>n, ForgetSound DEF Grows
<1>2. Grows(f, o) /\ (installed => o.loader \/ (o = f /\ f.real[n] = Host))
  BY <1>n, <1>1, OpenForSound
<1>3. Grows(o, t) /\ (o.loader => t.real[n] = Host)
  BY <1>n, <1>2, FromLoaderSound DEF Grows
<1>4. installed => t.real[n] = Host
  <2>1. CASE o = f /\ f.real[n] = Host
    BY <2>1, NullHostShim DEF FromLoader, Missing
  <2> QED BY <2>1, <1>2, <1>3
<1>5. Grows(s, t) /\ Grows(t, u)
  BY <1>1, <1>2, <1>3, ProcAddrSound DEF Grows
<1>6. Grows(u, Foreign(u, n, AskDevice(u, n)))
  <2>1. AskDevice(u, n) \in Answers /\ n # "CreateDevice"
    BY Lookup DEF Cached
  <2> QED BY <2>1, <1>5, <1>n, ForeignSound DEF Grows, Plain
<1>7. r = IF Missing(t, n) /\ dev THEN Foreign(u, n, AskDevice(u, n)) ELSE t
  BY DEF resolve_real_vk_get_device_queue
<1>8. Grows(s, r) /\ (installed => r.real[n] = Host)
  BY <1>4, <1>5, <1>6, <1>7, NullHostShim DEF Grows, Missing
<1>9. Cache(s, n, dev) = r
  BY DEF Cache, Cached, resolve_real_vk_get_device_queue2, resolve_real_vk_create_command_pool,
         resolve_real_vk_queue_present
<1> QED BY <1>8, <1>9

LEMMA FamiliesSound ==
  ASSUME NEW s, Sound(s), NEW n \in {"QueueFamilies", "QueueFamilies2"}, NEW inst
  PROVE  /\ Grows(s, QueueFamilies(s, n, inst))
         /\ s.loader => QueueFamilies(s, n, inst).real[n] = Host
<1> DEFINE t == Forget(s, n)
           u == FromInstance(t, n, inst)
<1>n. n \in Plain /\ n \in Pointers
  BY NamesKnown DEF Plain
<1>1. Grows(s, t) /\ Sound(t)
  BY <1>n, ForgetSound DEF Grows
<1>2. Grows(t, u)
  BY <1>n, <1>1, FromInstanceSound
<1>3. Grows(u, FromLoader(u, n)) /\ (u.loader => FromLoader(u, n).real[n] = Host)
  BY <1>n, <1>2, FromLoaderSound DEF Grows
<1>4. QueueFamilies(s, n, inst) = FromLoader(u, n)
  BY DEF QueueFamilies, resolve_queue_family_properties, resolve_queue_family_properties2
<1> QED BY <1>1, <1>2, <1>3, <1>4 DEF Grows

LEMMA CreateDeviceSound ==
  ASSUME NEW s, Sound(s), NEW inst
  PROVE  /\ Grows(s, resolve_real_vk_create_device(s, inst))
         /\ installed => resolve_real_vk_create_device(s, inst).real["CreateDevice"] = Host
<1> DEFINE n == "CreateDevice"
           f == Forget(s, n)
           t == IF s.loader THEN f ELSE resolve_vulkan_loader(f)
           u == FromInstance(t, n, inst)
<1> HIDE DEF n
<1>n. n \in Plain /\ n \in Pointers
  BY NamesKnown DEF n, Plain
<1>1. Grows(s, f) /\ Sound(f)
  BY <1>n, ForgetSound DEF Grows
<1>2. Grows(s, t) /\ (installed => t.loader)
  BY <1>1, LoaderSound DEF Grows
<1>3. Grows(t, u)
  BY <1>n, <1>2, FromInstanceSound DEF Grows
<1>4. Grows(u, FromLoader(u, n)) /\ (u.loader => FromLoader(u, n).real[n] = Host)
  BY <1>n, <1>3, FromLoaderSound DEF Grows
<1>5. resolve_real_vk_create_device(s, inst) = FromLoader(u, n)
  BY DEF resolve_real_vk_create_device, n
<1> QED BY <1>2, <1>3, <1>4, <1>5 DEF Grows, n

LEMMA CreateInstanceSound ==
  ASSUME NEW s, Sound(s), linked \/ installed
  PROVE  /\ Grows(s, resolve_create_instance(s)) /\ (installed => resolve_create_instance(s).loader)
         /\ resolve_create_instance(s).real["CreateInstance"] = Host
<1> DEFINE n == "CreateInstance"
           f == Forget(Forget(s, n), "GetInstanceProcAddr")
           t == resolve_vulkan_loader(f)
           u == IF Missing(t, n) THEN Foreign(t, n, AskInstance(t, FALSE, n)) ELSE t
           r == IF Missing(u, n) THEN Foreign(u, n, Dlsym("next", n)) ELSE u
<1> HIDE DEF n
<1>n. n \in Pointers /\ n \notin {"GetInstanceProcAddr", "CreateDevice"} /\ n \in Opening /\ "GetInstanceProcAddr" \in Pointers
  BY NamesKnown DEF n, Opening, Global
<1>1. Grows(s, Forget(s, n)) /\ Sound(Forget(s, n)) /\ Forget(s, n).real[n] # Shim
  BY <1>n, ForgetSound DEF Grows
<1>2. f = Forget(s, n)
  BY <1>1, <1>n DEF Forget, Sound, n
<1>3. /\ Grows(f, t) /\ t.real[n] # Shim
      /\ installed => t.loader /\ t.real[n] = Host
  BY <1>1, <1>2, <1>n, LoaderSound
<1>4. Grows(t, u) /\ u.real[n] # Shim /\ (installed => u.real[n] = Host)
  <2>1. AskInstance(t, FALSE, n) \in Answers
    BY Lookup
  <2>2. Missing(t, n) => ~installed
    BY <1>3, NullHostShim DEF Missing
  <2>3. CASE Missing(t, n)
    <3> DEFINE a == AskInstance(t, FALSE, n)
    <3>0. Sound(t)
      BY <1>3 DEF Grows
    <3>1. u = Foreign(t, n, a)
      BY <2>3
    <3>2. a \in Answers
      BY <2>1
    <3> HIDE DEF t, u, a
    <3>3. Grows(t, u) /\ (t.real[n] # Shim => u.real[n] # Shim)
      BY <3>0, <3>1, <3>2, <1>n, ForeignSound
    <3> QED BY <2>2, <2>3, <3>3, <1>3
  <2>4. CASE ~Missing(t, n)
    BY <2>4, <1>3 DEF Grows
  <2> QED BY <2>3, <2>4
<1>5. Grows(u, r) /\ r.real[n] = Host
  <2>1. CASE Missing(u, n)
    <3>1. Dlsym("next", n) = Host /\ Host \in Answers
      BY <1>4, <2>1, NullHostShim DEF Missing, Dlsym, Answers
    <3>2. Sound(u) /\ r = Foreign(u, n, Host)
      BY <2>1, <3>1, <1>4 DEF Grows
    <3> HIDE DEF u, r
    <3>3. Grows(u, Foreign(u, n, Host)) /\ Foreign(u, n, Host).real[n] = Host
      BY <3>1, <3>2, <1>n, ForeignSound, NullHostShim
    <3> QED BY <3>2, <3>3
  <2>2. CASE ~Missing(u, n)
    BY <2>2, <1>4, <1>n DEF Missing, Grows, Sound, Answers
  <2> QED BY <2>1, <2>2
<1>6. resolve_create_instance(s) = r
  BY DEF resolve_create_instance, n
<1>7. Grows(s, r) /\ (installed => r.loader)
  <2> HIDE DEF f, t, u, r
  <2> QED BY <1>1, <1>2, <1>3, <1>4, <1>5 DEF Grows
<1> QED BY <1>5, <1>6, <1>7 DEF n

LEMMA ProcSound ==
  ASSUME NEW s, Sound(s), NEW n
  PROVE  /\ Grows(s, resolve_real_queue_proc(s, n)[1]) /\ Grows(s, resolve_real_loader_proc(s, n)[1])
         /\ resolve_real_queue_proc(s, n)[2] # Shim /\ resolve_real_loader_proc(s, n)[2] # Shim
         /\ installed /\ active.device =>
              resolve_real_queue_proc(s, n)[2] = Host /\ resolve_real_loader_proc(s, n)[2] = Host
<1>1. Dlsym("loader", n) # Shim /\ (installed => Dlsym("loader", n) = Host)
  BY NullHostShim DEF Dlsym
<1>2. ASSUME NEW v, Sound(v)
      PROVE  /\ Grows(v, resolve_real_queue_proc(v, n)[1]) /\ resolve_real_queue_proc(v, n)[2] # Shim
             /\ installed /\ active.device => resolve_real_queue_proc(v, n)[2] = Host
  <2> DEFINE t == resolve_real_vk_get_device_proc_addr(v)
  <2>1. Grows(v, t) /\ (installed => t.real["GetDeviceProcAddr"] = Host)
    BY <1>2, ProcAddrSound
  <2>2. Grows(t, Opened(t)) /\ (installed => Opened(t).loader)
    BY <2>1, OpenedSound DEF Grows
  <2>3. installed => AskDevice(t, n) \in {Host, Shim}
    BY <2>1 DEF AskDevice, Table
  <2> HIDE DEF t
  <2>4. resolve_real_queue_proc(v, n) =
          IF ~active.device \/ Missing(t, "GetDeviceProcAddr") THEN <<t, Null>>
          ELSE IF AskDevice(t, n) # Shim THEN <<t, AskDevice(t, n)>>
          ELSE <<Opened(t), IF Opened(t).loader THEN Dlsym("loader", n) ELSE Null>>
    BY DEF resolve_real_queue_proc, t
  <2>5. CASE ~active.device \/ Missing(t, "GetDeviceProcAddr")
    BY <2>1, <2>4, <2>5, NullHostShim DEF Missing
  <2>6. CASE ~(~active.device \/ Missing(t, "GetDeviceProcAddr")) /\ AskDevice(t, n) # Shim
    BY <2>1, <2>3, <2>4, <2>6
  <2>7. CASE ~(~active.device \/ Missing(t, "GetDeviceProcAddr")) /\ AskDevice(t, n) = Shim
    BY <2>1, <2>2, <2>4, <2>7, <1>1, NullHostShim DEF Grows
  <2> QED BY <2>5, <2>6, <2>7
<1>3. Grows(s, Opened(s)) /\ (installed => Opened(s).loader)
  BY OpenedSound
<1>4. CASE Opened(s).loader
  <2>1. resolve_real_loader_proc(s, n) = <<Opened(s), Dlsym("loader", n)>>
    BY <1>4 DEF resolve_real_loader_proc
  <2> QED BY <2>1, <1>1, <1>2, <1>3
<1>5. CASE ~Opened(s).loader
  <2>1. resolve_real_loader_proc(s, n) = resolve_real_queue_proc(Opened(s), n)
    BY <1>5 DEF resolve_real_loader_proc
  <2>2. Sound(Opened(s))
    BY <1>3 DEF Grows
  <2> QED BY <2>1, <2>2, <1>2, <1>3, <1>5 DEF Grows
<1> QED BY <1>4, <1>5

-----------------------------------------------------------------------------
\* Looking up the wrapper's own name.
LEMMA DlsymSound ==
  ASSUME Sound(found), NEW n \in Names \cup Lookups, NEW p \in Answers
  PROVE  Grows(found, DlsymAnswer(n, p)[1])
<1> USE DEF DlsymAnswer, Given, Names, Global, Instance1, Cached, Uncached, Lookups
<1>0. Grows(found, found)
  BY DEF Grows
<1>1. CASE n \in Uncached
  BY <1>0, <1>1
<1>2. CASE n = "QueuePresent"
  <2>1. Grows(found, Foreign(found, n, p))
    BY <1>2, ForeignSound, NamesKnown DEF Grows, Plain
  <2>2. CASE p = Null
    <3>0. n \in Pointers /\ n # "GetInstanceProcAddr" /\ p # Shim
      BY <1>2, <2>2, NamesKnown, NullHostShim DEF Plain
    <3>1. Grows(found, Store(found, n, p)) /\ Sound(Store(found, n, p))
      BY <1>2, <3>0, StoreSound, ReadyKnown DEF Grows, Ready
    <3>2. Grows(found, Cache(Store(found, n, p), n, FALSE))
      BY <1>2, <3>1, CacheSound DEF Grows
    <3> QED BY <1>0, <1>2, <2>2, <3>2
  <2> QED BY <1>2, <2>1, <2>2
<1>3. CASE n \in {"EnumerateInstanceExtensions", "EnumerateDeviceExtensions", "Features2", "CreateInstance"}
  <2> DEFINE taken == IF p = Shim THEN resolve_vulkan_loader(found) ELSE Store(found, n, p)
  <2>1. Grows(found, taken)
    <3>1. n \in Pointers /\ n # "GetInstanceProcAddr"
      BY <1>3, NamesKnown DEF Plain
    <3>2. CASE p = Shim
      BY <3>2, LoaderSound
    <3>3. CASE p # Shim
      <4>1. n # "CreateDevice"
        BY <1>3
      <4> QED BY <3>1, <3>3, <4>1, StoreSound, ReadyKnown DEF Grows, Ready
    <3> QED BY <3>2, <3>3
  <2> HIDE DEF taken
  <2>2. DlsymAnswer(n, p)[1] = taken
    BY <1>3 DEF taken
  <2> QED BY <2>1, <2>2
<1>4. CASE n \in {"QueueFamilies", "QueueFamilies2"}
  <2>1. Grows(found, Own(found, n, p))
    BY <1>4, OwnSound, NamesKnown DEF Plain
  <2>2. Grows(found, QueueFamilies(Own(found, n, p), n, active.instance))
    BY <1>4, <2>1, FamiliesSound DEF Grows
  <2>3. DlsymAnswer(n, p)[1] = QueueFamilies(Own(found, n, p), n, active.instance)
    BY <1>4
  <2> QED BY <2>2, <2>3
<1>5. CASE n = "GetInstanceProcAddr"
  <2> DEFINE v == Own(found, n, p)
  <2>1. /\ v \in [real : [Pointers -> Answers], loader : BOOLEAN] /\ v.loader = found.loader
        /\ \A m \in Pointers \ {"CreateInstance"} : v.real[m] # Shim
        /\ v.real["CreateDevice"] = found.real["CreateDevice"]
    BY <1>5, NamesKnown, ReadyKnown, NullHostShim DEF Own, Forget, Store, Sound, Answers
  <2> HIDE DEF v
  <2>2. CASE installed
    <3>1. \A m : Dlsym("loader", m) = Host
      BY <2>2 DEF Dlsym
    <3>2. resolve_vulkan_loader(v) = [loader |-> TRUE, real |-> [m \in Pointers |->
            IF m \in Opening THEN Host ELSE v.real[m]]]
      BY <2>2, <3>1 DEF resolve_vulkan_loader, Opening
    <3>3. Grows(found, resolve_vulkan_loader(v))
      BY <2>1, <2>2, <3>2, NamesKnown, ReadyKnown, NullHostShim
         DEF Grows, Ready, Sound, Answers, Opening
    <3> QED BY <1>5, <3>3 DEF v
  <2>3. CASE ~installed
    <3>1. resolve_vulkan_loader(v) = v /\ Sound(v)
      BY <2>1, <2>3 DEF resolve_vulkan_loader, Sound
    <3> QED BY <1>5, <2>1, <3>1 DEF v, Grows, Ready
  <2> QED BY <2>2, <2>3
<1>6. CASE n = "GetDeviceProcAddr"
  <2>1. Grows(found, Own(found, n, p))
    BY <1>6, OwnSound, NamesKnown DEF Plain
  <2>2. Grows(found, resolve_real_vk_get_device_proc_addr(Own(found, n, p)))
    BY <2>1, ProcAddrSound DEF Grows
  <2> QED BY <1>6, <2>2
<1>7. CASE n \in Cached \ {"QueuePresent"}
  <2>1. Grows(found, Own(found, n, p))
    BY <1>7, OwnSound, NamesKnown DEF Plain
  <2>2. Grows(found, Cache(Own(found, n, p), n, FALSE))
    BY <1>7, <2>1, CacheSound DEF Grows
  <2>3. DlsymAnswer(n, p)[1] = Cache(Own(found, n, p), n, FALSE)
    BY <1>7
  <2> QED BY <2>2, <2>3
<1>8. CASE n = "CreateDevice"
  <2> DEFINE t == Own(found, n, p)
             u == IF Missing(t, n) THEN resolve_real_vk_create_device(t, FALSE) ELSE t
  <2>0. n \in Pointers /\ n # "GetInstanceProcAddr"
    BY <1>8, ReadyKnown
  <2>1. Sound(t) /\ t.loader = found.loader /\ t.real[n] \in {Null, p} /\ t.real[n] # Shim
    BY <2>0, OwnSound
  <2>2. Grows(found, u)
    <3>1. CASE Missing(t, n)
      <4>1. Grows(t, u) /\ Ready(u)
        BY <3>1, <2>1, CreateDeviceSound DEF Ready
      <4> QED BY <4>1, <2>1 DEF Grows
    <3>2. CASE ~ Missing(t, n)
      <4>1. u = t /\ t.real[n] = Host
        BY <3>2, <2>1 DEF Missing, Answers
      <4> QED BY <4>1, <2>1, <1>8 DEF Grows, Ready
    <3> QED BY <3>1, <3>2
  <2> HIDE DEF u
  <2>3. DlsymAnswer(n, p)[1] = u
    BY <1>8 DEF u
  <2> QED BY <2>2, <2>3
<1> QED BY <1>1, <1>2, <1>3, <1>4, <1>5, <1>6, <1>7, <1>8

LEMMA InstanceSound ==
  ASSUME Sound(found), NEW n \in Names \cup Lookups, NEW inst \in BOOLEAN
  PROVE  Grows(found, InstanceAnswer(inst, n)[1])
<1> DEFINE p == AskInstance(found, inst, n)
<1> USE DEF InstanceAnswer, Given, Names, Global, Instance1, Cached, Uncached, Lookups
<1>0. Grows(found, found) /\ p \in Answers
  BY Lookup DEF Grows
<1>1. CASE n \in {"EnumerateInstanceExtensions", "EnumerateDeviceExtensions"}
  <2>1. Grows(found, Foreign(found, n, p))
    <3>1. n \in Pointers /\ n \notin {"GetInstanceProcAddr", "CreateDevice"}
      BY <1>1, NamesKnown DEF Plain
    <3> QED BY <1>0, <3>1, ForeignSound
  <2> QED BY <1>0, <1>1, <2>1
<1>2. CASE n = "Features2"
  <2>1. Grows(found, Foreign(found, n, p))
    <3>1. n \in Pointers /\ n \notin {"GetInstanceProcAddr", "CreateDevice"}
      BY <1>2, NamesKnown DEF Plain
    <3> QED BY <1>0, <3>1, ForeignSound
  <2>2. Better(found, n, p) = found \/ Better(found, n, p) = Foreign(found, n, p)
    BY DEF Better, Foreign
  <2>3. InstanceAnswer(inst, n)[1] = IF Missing(found, n) THEN Better(found, n, p) ELSE found
    BY <1>2
  <2> HIDE DEF p
  <2> QED BY <1>0, <2>1, <2>2, <2>3
<1>3. CASE n \in {"QueueFamilies", "QueueFamilies2"}
  BY <1>3, FamiliesSound
<1>4. CASE n = "CreateInstance"
  <2>1. AskInstance(found, FALSE, n) \in Answers
    BY Lookup
  <2>2. Grows(found, Store(found, n, AskInstance(found, FALSE, n)))
    <3> DEFINE q == AskInstance(found, FALSE, n)
    <3> HIDE DEF q
    <3>1. q \in Answers
      BY <2>1 DEF q
    <3>2. n \in Pointers /\ n \notin {"GetInstanceProcAddr", "CreateDevice"}
      BY <1>4, NamesKnown
    <3>3. Grows(found, Store(found, n, q))
      BY <1>4, <3>1, <3>2, StoreSound, ReadyKnown DEF Grows, Ready
    <3> QED BY <3>3 DEF q
  <2> QED BY <1>0, <1>4, <2>2
<1>5. CASE n = "CreateDevice"
  BY <1>5, CreateDeviceSound
<1>6. CASE n = "GetDeviceProcAddr"
  BY <1>6, ProcAddrSound
<1>7. CASE n = "QueuePresent" /\ pretends
  BY <1>7, CacheSound
<1>8. CASE \/ n = "QueuePresent" /\ ~pretends
           \/ n \in (Cached \ {"QueuePresent"}) \cup Uncached \cup {"GetInstanceProcAddr"}
  BY <1>0, <1>8
<1> QED BY <1>1, <1>2, <1>3, <1>4, <1>5, <1>6, <1>7, <1>8

LEMMA DeviceSound ==
  ASSUME Sound(found), NEW n
  PROVE  Grows(found, DeviceAnswer(n)[1])
<1> DEFINE t == resolve_real_vk_get_device_proc_addr(found)
<1>1. Grows(found, t)
  BY ProcAddrSound
<1>2. CASE n \in Cached /\ (n = "QueuePresent" => pretends)
  BY <1>2, CacheSound DEF DeviceAnswer, Given
<1>3. CASE ~(n \in Cached /\ (n = "QueuePresent" => pretends))
  BY <1>1, <1>3 DEF DeviceAnswer
<1> QED BY <1>2, <1>3

\* The environment and the pointers, and what they promise.
LEMMA LookupKeeps ==
  ASSUME DispatchInv, NEW n \in Lookups \cup {wanted}, NEW answer,
         Grows(found, answer[1]), Hand(n, answer)
  PROVE  DispatchInv'
<1> USE DEF Hand, environment
<1>1. UNCHANGED <<linked, installed, interposed, wanted, active>> /\ found' = answer[1]
      /\ handed' \subseteq handed \cup {n} /\ outcome' = <<>>
  OBVIOUS
<1>2. Sound(found)' /\ (found.loader => found'.loader) /\ (Ready(found) => Ready(found)')
  BY <1>1 DEF Grows, Sound, Ready
<1>3. n = "CreateInstance" => wanted = "CreateInstance"
  BY DEF Lookups
<1> QED BY <1>1, <1>2, <1>3 DEF DispatchInv, Environment

LEMMA DlsymKeeps ==
  ASSUME DispatchInv, NEW n \in Lookups \cup {wanted},
         NEW h \in {"loader", "next", "default", "other"}, dlsym(h, n)
  PROVE  DispatchInv'
<1>1. n \in Names \cup Lookups /\ Sound(found)
  BY DEF DispatchInv, Environment
<1>2. Dlsym(h, n) \in Answers
  BY DEF Dlsym, Answers
<1>3. Grows(found, DlsymAnswer(n, Dlsym(h, n))[1])
  BY <1>1, <1>2, DlsymSound
<1> QED BY <1>3, LookupKeeps DEF dlsym

LEMMA AddressKeeps ==
  ASSUME DispatchInv, NEW n \in Lookups \cup {wanted},
         \/ \E inst \in BOOLEAN : vkGetInstanceProcAddr(inst, n)
         \/ vkGetDeviceProcAddr(n)
  PROVE  DispatchInv'
<1>1. n \in Names \cup Lookups /\ Sound(found)
  BY DEF DispatchInv, Environment
<1>2. Grows(found, DeviceAnswer(n)[1]) /\ \A inst \in BOOLEAN : Grows(found, InstanceAnswer(inst, n)[1])
  BY <1>1, InstanceSound, DeviceSound
<1> QED BY <1>2, LookupKeeps DEF vkGetInstanceProcAddr, vkGetDeviceProcAddr

\* A wrapper ends in a function of the host, whenever there is one.
LEMMA EndKeeps ==
  ASSUME DispatchInv, NEW n, NEW s, NEW p, Grows(found, s), End(n, s, p),
         p # Shim, installed /\ ~interposed => p = Host,
         active' = [active EXCEPT !.instance = active'.instance, !.device = active'.device],
         active'.instance /\ installed
           => s.loader /\ Ready(s) /\ (linked \/ wanted = "CreateInstance")
  PROVE  DispatchInv'
<1> USE DEF End, environment
<1>1. UNCHANGED <<linked, installed, interposed, wanted, handed>> /\ found' = s /\ outcome' = <<n, p>>
  OBVIOUS
<1>2. Sound(found)' /\ (Ready(s) => Ready(found)')
  BY <1>1 DEF Grows, Sound, Ready
<1>3. active' = [instance |-> active'.instance, device |-> active'.device]
  BY DEF DispatchInv
<1> QED BY <1>1, <1>2, <1>3 DEF DispatchInv, Environment

LEMMA CreateInstanceKeeps == DispatchInv /\ CallCreateInstance => DispatchInv'
<1> SUFFICES ASSUME DispatchInv, CallCreateInstance  PROVE DispatchInv'
  OBVIOUS
<1> DEFINE s == resolve_create_instance(found)
           t == resolve_real_vk_create_device(s, TRUE)
           u == Better(t, "EnumerateDeviceExtensions", AskInstance(t, TRUE, "EnumerateDeviceExtensions"))
           v == Better(u, "Features2", AskInstance(u, TRUE, "Features2"))
<1>1. Sound(found) /\ (linked \/ installed)
  BY DEF DispatchInv, Environment
<1>2. Grows(found, s) /\ (installed => s.loader) /\ s.real["CreateInstance"] = Host
  BY <1>1, CreateInstanceSound
<1> HIDE DEF s
<1>3. Grows(s, t) /\ Ready(t)
  BY <1>2, CreateDeviceSound DEF Grows, Ready
<1> HIDE DEF t
<1>4. Grows(t, u)
  <2>1. AskInstance(t, TRUE, "EnumerateDeviceExtensions") \in Answers
    BY Lookup
  <2> QED BY <1>3, <2>1, ForeignSound, NamesKnown DEF Grows, Plain
<1> HIDE DEF u
<1>5. Grows(u, v)
  <2>1. AskInstance(u, TRUE, "Features2") \in Answers
    BY Lookup
  <2> QED BY <1>4, <2>1, ForeignSound, NamesKnown DEF Grows, Plain
<1> HIDE DEF v
<1>6. cache_vk_create_device(s) = v
  BY DEF cache_vk_create_device, t, u, v
<1>7. End("CreateInstance", v, Host) /\ active' = [active EXCEPT !.instance = TRUE]
      /\ ("CreateInstance" \in handed \/ linked)
  BY <1>2, <1>6 DEF CallCreateInstance, s
<1>8. Grows(found, v) /\ (installed => v.loader) /\ Ready(v)
  BY <1>2, <1>3, <1>4, <1>5 DEF Grows
<1>9. active' = [active EXCEPT !.instance = active'.instance, !.device = active'.device]
  BY <1>7 DEF DispatchInv
<1> QED BY <1>7, <1>8, <1>9, EndKeeps, NullHostShim DEF DispatchInv

LEMMA CreateDeviceKeeps == DispatchInv /\ CallCreateDevice => DispatchInv'
<1> SUFFICES ASSUME DispatchInv, CallCreateDevice  PROVE DispatchInv'
  OBVIOUS
<1> DEFINE p == Forget(found, "CreateDevice").real["CreateDevice"]
<1>1. Sound(found) /\ Grows(found, Forget(found, "CreateDevice")) /\ p # Shim
  BY ForgetSound, ReadyKnown DEF DispatchInv
<1>2. /\ End("CreateDevice", found, p) /\ active.instance
      /\ active' = [active EXCEPT !.device = @ \/ p = Host]
  BY DEF CallCreateDevice
<1>3. installed => p = Host
  BY <1>1, <1>2 DEF DispatchInv, Grows, Ready
<1>4. active' = [active EXCEPT !.instance = active'.instance, !.device = active'.device]
      /\ active'.instance = active.instance
  BY <1>2 DEF DispatchInv
<1>5. /\ active'.instance /\ installed
           => found.loader /\ Ready(found) /\ (linked \/ wanted = "CreateInstance")
      /\ Grows(found, found)
  BY <1>1, <1>4 DEF DispatchInv, Grows
<1> HIDE DEF p
<1> QED BY <1>1, <1>2, <1>3, <1>4, <1>5, EndKeeps

LEMMA InstanceKeeps ==
  DispatchInv /\ wanted \in (Global \cup Instance1) \ {"CreateInstance", "CreateDevice"}
    /\ CallInstance(wanted) => DispatchInv'
<1> SUFFICES ASSUME DispatchInv, wanted \in (Global \cup Instance1) \ {"CreateInstance", "CreateDevice"},
                    CallInstance(wanted)
             PROVE  DispatchInv'
  OBVIOUS
<1> DEFINE n == wanted
           again == IF Missing(found, n) THEN Better(found, n, AskInstance(found, TRUE, n)) ELSE found
           s == CASE n = "EnumerateInstanceExtensions" ->
                       IF found.real[n] = Host THEN found ELSE resolve_vulkan_loader(found)
                  [] n \in {"EnumerateDeviceExtensions", "Features2"} -> again
                  [] OTHER -> QueueFamilies(found, n, TRUE)
<1>1. Sound(found) /\ (active.instance /\ installed => found.loader /\ linked) /\ Grows(found, found)
  BY DEF DispatchInv, Global, Instance1, Grows
<1>2. n \in Plain
  BY NamesKnown DEF Global, Instance1
<1>3. CallInstance(wanted) => /\ n \in Instance1 => active.instance
                              /\ End(n, s, s.real[n]) /\ UNCHANGED active
  BY DEF CallInstance
<1>4. Grows(found, s) /\ (installed /\ ~interposed => s.real[n] = Host)
  <2>1. CASE n = "EnumerateInstanceExtensions"
    <3>1. Grows(found, resolve_vulkan_loader(found))
          /\ (installed => resolve_vulkan_loader(found).real[n] = Host)
      BY <1>1, <2>1, LoaderSound DEF Opening, Global
    <3> QED BY <1>1, <2>1, <3>1
  <2>2. CASE n \in {"EnumerateDeviceExtensions", "Features2"}
    <3>1. Grows(found, Better(found, n, AskInstance(found, TRUE, n)))
          /\ (AskInstance(found, TRUE, n) = Host => Better(found, n, AskInstance(found, TRUE, n)).real[n] = Host)
      <4> DEFINE m == n
                 a == AskInstance(found, TRUE, n)
      <4>1. a \in Answers
        BY Lookup
      <4> HIDE DEF a, m
      <4>2. m \in Pointers /\ m \notin {"GetInstanceProcAddr", "CreateDevice"}
        BY <1>2, <2>2 DEF Plain, m
      <4>3. /\ Grows(found, Better(found, m, a))
            /\ a = Host => Better(found, m, a).real[m] = Host
        BY <4>1, <4>2, <1>1, ForeignSound
      <4> QED BY <4>3 DEF a, m
    <3>2. installed /\ ~interposed => AskInstance(found, TRUE, n) = Host
      BY <1>1, <1>3, <2>2 DEF Sound, AskInstance, Table, Instance1
    <3>3. found.real[n] \in {Null, Host}
      BY <1>1, <1>2 DEF Sound, Plain, Answers
    <3>4. s = again
      BY <2>2
    <3> QED BY <1>1, <3>1, <3>2, <3>3, <3>4 DEF Missing
  <2>3. CASE n \in {"QueueFamilies", "QueueFamilies2"}
    <3>1. Grows(found, QueueFamilies(found, n, TRUE))
          /\ (installed => QueueFamilies(found, n, TRUE).real[n] = Host)
      BY <1>1, <1>3, <2>3, FamiliesSound DEF Instance1
    <3> QED BY <2>3, <3>1
  <2> QED BY <2>1, <2>2, <2>3 DEF Global, Instance1
<1>5. s.real[n] # Shim
  BY <1>2, <1>4 DEF Grows, Sound, Plain
<1> HIDE DEF s
<1>6. active' = [active EXCEPT !.instance = active'.instance, !.device = active'.device]
  BY <1>3 DEF DispatchInv
<1>7. active'.instance /\ installed => s.loader /\ Ready(s) /\ (linked \/ wanted = "CreateInstance")
  BY <1>3, <1>4 DEF DispatchInv, Grows
<1> QED BY <1>3, <1>4, <1>5, <1>6, <1>7, EndKeeps

LEMMA DeviceKeeps ==
  DispatchInv /\ wanted \in Cached \cup Uncached /\ CallDevice(wanted) => DispatchInv'
<1> SUFFICES ASSUME DispatchInv, wanted \in Cached \cup Uncached, CallDevice(wanted)
             PROVE  DispatchInv'
  OBVIOUS
<1> DEFINE n == wanted
           c == Cache(found, n, n # "QueuePresent")
           d == IF n = "QueueSubmit" THEN resolve_real_queue_proc(found, n)
                ELSE resolve_real_loader_proc(found, n)
<1>1. PICK s, p : End(n, s, p) /\ Grows(found, s) /\ p # Shim /\ (installed => p = Host)
  <2>1. CASE n \in Cached
    <3>1. Grows(found, c) /\ (installed => c.real[n] = Host)
      BY <2>1, CacheSound DEF DispatchInv
    <3>2. c.real[n] # Shim
      BY <2>1, <3>1, NamesKnown DEF Grows, Sound, Plain
    <3>3. End(n, c, c.real[n])
      BY <2>1 DEF CallDevice
    <3> QED BY <3>1, <3>2, <3>3
  <2>2. CASE n \notin Cached
    <3>1. active.device /\ Sound(found)
      BY DEF CallDevice, DispatchInv
    <3>2. Grows(found, d[1]) /\ d[2] # Shim /\ (installed => d[2] = Host)
      BY <3>1, ProcSound
    <3>3. End(n, d[1], d[2])
      BY <2>2 DEF CallDevice
    <3> QED BY <3>2, <3>3
  <2> QED BY <2>1, <2>2
<1>2. UNCHANGED active
  BY DEF CallDevice
<1>3. active' = [active EXCEPT !.instance = active'.instance, !.device = active'.device]
  BY <1>2 DEF DispatchInv
<1>4. active'.instance /\ installed => s.loader /\ Ready(s) /\ (linked \/ wanted = "CreateInstance")
  BY <1>1, <1>2 DEF DispatchInv, Grows
<1> QED BY <1>1, <1>3, <1>4, EndKeeps

LEMMA ConstructorKeeps == DispatchInv /\ stearlight_wsi_shim_init => DispatchInv'
<1> SUFFICES ASSUME DispatchInv, stearlight_wsi_shim_init  PROVE DispatchInv'
  OBVIOUS
<1> DEFINE p == IF linked THEN Host ELSE Null
<1>1. found' = [found EXCEPT !.real["GetInstanceProcAddr"] = p, !.real["GetDeviceProcAddr"] = p]
      /\ UNCHANGED <<linked, installed, interposed, wanted, active, handed, outcome>>
  BY DEF stearlight_wsi_shim_init, environment, Dlsym
<1>2. p \in Answers /\ p # Shim
  BY NullHostShim DEF Answers
<1>3. Sound(found)' /\ found'.loader = found.loader /\ (Ready(found) => Ready(found)')
  BY <1>1, <1>2, NamesKnown, ReadyKnown DEF DispatchInv, Sound, Ready, Plain
<1> QED BY <1>1, <1>3 DEF DispatchInv, Environment

LEMMA DispatchStep == DispatchInv /\ [DispatchNext]_dispatch => DispatchInv'
<1> SUFFICES ASSUME DispatchInv, [DispatchNext]_dispatch  PROVE DispatchInv'
  OBVIOUS
<1>1. CASE UNCHANGED dispatch
  BY <1>1 DEF dispatch, environment, DispatchInv, Environment, Sound, Ready
<1>2. CASE Announce
  BY <1>2 DEF Announce, environment, DispatchInv, Environment, Sound, Ready
<1>3. ASSUME NEW n \in Lookups \cup {wanted},
             \/ \E h \in {"loader", "next", "default", "other"} : dlsym(h, n)
             \/ \E inst \in BOOLEAN : vkGetInstanceProcAddr(inst, n)
             \/ vkGetDeviceProcAddr(n)
      PROVE  DispatchInv'
  BY <1>3, DlsymKeeps, AddressKeeps
<1> QED BY <1>1, <1>2, <1>3, ConstructorKeeps, CreateInstanceKeeps, CreateDeviceKeeps, InstanceKeeps, DeviceKeeps
        DEF DispatchNext

LEMMA DispatchStart == DispatchInit => DispatchInv
BY NamesKnown, NullHostShim DEF DispatchInit, DispatchInv, Environment, Sound, Answers

\* In every order of lookups by dlsym, by the instance and by the device, before
\* or after the constructor: no wrapper ends in itself and, with a loader of its
\* own tables, each ends in the host's function: WrappersWork.
THEOREM WrappersAlwaysWork == DispatchSpec => []WrappersWork
<1>1. DispatchInv => WrappersWork
  BY DEF DispatchInv, WrappersWork, NeverItself, HandedOutWorks
<1> QED BY <1>1, DispatchStart, DispatchStep, PTL DEF DispatchSpec

-----------------------------------------------------------------------------
(* The emulated display (ShimDisplay).  One window, made on a display that  *)
(* was opened before it, and no more listed than the host has and the       *)
(* layer adds.                                                              *)

DisplayInv ==
  /\ provides \in Loaders
  /\ xwindow = windows /\ windows \in {0, 1}
  /\ xdisplay \in BOOLEAN /\ (xwindow # 0 => xdisplay)
  /\ listed \subseteq ToSet(provides) \cup {"display"}
  /\ DisplayUsable /\ ListsHonest

\* What an array of the given size can take of a list.
LEMMA PrefixOf ==
  ASSUME NEW S, NEW s \in Seq(S), NEW n \in Nat, n <= Len(s)
  PROVE  /\ SubSeq(s, 1, n) \in Seq(S) /\ Len(SubSeq(s, 1, n)) = n
         /\ \A i \in 1..n : SubSeq(s, 1, n)[i] = s[i]
         /\ IsPrefix(SubSeq(s, 1, n), s)
         /\ IsInjective(s) => IsInjective(SubSeq(s, 1, n))
         /\ n = Len(s) => SubSeq(s, 1, n) = s
<1> DEFINE l == SubSeq(s, 1, n)
<1>1. l \in Seq(S) /\ Len(l) = n /\ \A i \in 1..n : l[i] = s[i]
  OBVIOUS
<1>2. IsPrefix(l, s)
  <2>1. SubSeq(l, 1, Len(l)) = l
    BY <1>1
  <2> QED BY <2>1, <1>1 DEF IsPrefix
<1>3. IsInjective(s) => IsInjective(l)
  <2>1. DOMAIN l = 1..n /\ DOMAIN s = 1..Len(s)
    BY <1>1
  <2>2. \A a \in DOMAIN l : a \in DOMAIN s /\ l[a] = s[a]
    BY <1>1, <2>1
  <2> HIDE DEF l
  <2> QED BY <2>2 DEF IsInjective
<1>4. n = Len(s) => l = s
  BY <1>1
<1> QED BY <1>1, <1>2, <1>3, <1>4

LEMMA ListingIsHonest ==
  ASSUME NEW S, NEW whole \in Seq(S), IsInjective(whole), NEW capacity \in Nat
  PROVE  LET r == Listing(whole, capacity)
         IN  /\ r.list \in Seq(S) /\ r.count \in Nat /\ ToSet(r.list) \subseteq ToSet(whole)
             /\ r.fn = "list" /\ r.whole = whole /\ r.capacity = capacity
             /\ capacity = Uncounted => r.count = Len(whole) /\ r.result = 0 /\ r.list = <<>>
             /\ capacity # Uncounted =>
                  /\ r.count = Len(r.list) /\ r.count <= capacity /\ r.count <= Len(whole)
                  /\ IsPrefix(r.list, whole) /\ IsInjective(r.list)
                  /\ r.count = Len(whole) => r.list = whole /\ r.result = 0
                  /\ r.count < Len(whole) => r.list # whole /\ r.result = IncompleteList /\ r.count = capacity
<1> DEFINE n == IF capacity = Uncounted \/ capacity > Len(whole) THEN Len(whole) ELSE capacity
<1>1. n \in Nat /\ n <= Len(whole) /\ (capacity # Uncounted => n <= capacity)
      /\ (capacity # Uncounted /\ n < Len(whole) => n = capacity)
  OBVIOUS
<1>2. /\ SubSeq(whole, 1, n) \in Seq(S) /\ Len(SubSeq(whole, 1, n)) = n
      /\ \A i \in 1..n : SubSeq(whole, 1, n)[i] = whole[i]
      /\ IsPrefix(SubSeq(whole, 1, n), whole) /\ IsInjective(SubSeq(whole, 1, n))
      /\ n = Len(whole) => SubSeq(whole, 1, n) = whole
  BY <1>1, PrefixOf
<1>3. ToSet(SubSeq(whole, 1, n)) \subseteq ToSet(whole)
  BY <1>1, <1>2 DEF ToSet
<1>4. Listing(whole, capacity) =
        [fn |-> "list", whole |-> whole, capacity |-> capacity, count |-> n,
         list |-> IF capacity = Uncounted THEN <<>> ELSE SubSeq(whole, 1, n),
         result |-> IF n < Len(whole) THEN IncompleteList ELSE 0]
  BY DEF Listing
<1>5. CASE capacity = Uncounted
  BY <1>4, <1>5 DEF ToSet
<1>6. CASE capacity # Uncounted
  <2> HIDE DEF n
  <2> QED BY <1>1, <1>2, <1>3, <1>4, <1>6
<1> QED BY <1>5, <1>6

Honest(r) ==
  IF r.capacity = Uncounted THEN r.count >= Len(r.whole) /\ r.result = 0
  ELSE /\ r.count = Len(r.list) /\ r.count <= r.capacity
       /\ IsPrefix(r.list, r.whole) /\ IsInjective(r.list)
       /\ (r.result = 0) = (r.list = r.whole)

\* The layer's own entry behind a list that does not have it.
LEMMA WithDisplayIsHonest ==
  ASSUME NEW own \in Seq(InstanceExtensions), IsInjective(own), NEW capacity \in Nat
  PROVE  LET r == WithDisplay(own, capacity)
         IN  r.fn = "list" /\ Honest(r) /\ ToSet(r.list) \subseteq ToSet(own) \cup {"display"}
<1> DEFINE real == Listing(own, capacity)
           whole == IF Contains(own, "display") THEN own ELSE Append(own, "display")
           r == WithDisplay(own, capacity)
<1>1. /\ real.list \in Seq(InstanceExtensions) /\ real.count \in Nat /\ ToSet(real.list) \subseteq ToSet(own)
      /\ real.fn = "list" /\ real.whole = own /\ real.capacity = capacity
      /\ capacity = Uncounted => real.count = Len(own) /\ real.result = 0 /\ real.list = <<>>
      /\ capacity # Uncounted =>
           /\ real.count = Len(real.list) /\ real.count <= capacity /\ real.count <= Len(own)
           /\ IsPrefix(real.list, own) /\ IsInjective(real.list)
           /\ real.count = Len(own) => real.list = own /\ real.result = 0
           /\ real.count < Len(own) => /\ real.list # own /\ real.result = IncompleteList
                                      /\ real.count = capacity
  BY ListingIsHonest
<1>2. real = [fn |-> real.fn, whole |-> real.whole, capacity |-> real.capacity, count |-> real.count,
              list |-> real.list, result |-> real.result]
  BY DEF Listing
<1>3. whole \in Seq(InstanceExtensions) /\ Len(whole) \in {Len(own), Len(own) + 1}
  BY DEF InstanceExtensions
<1> HIDE DEF real
<1>4. r = IF Contains(real.list, "display") THEN real
          ELSE IF capacity = Uncounted THEN [real EXCEPT !.whole = whole, !.count = @ + 1]
          ELSE IF capacity <= real.count
          THEN [real EXCEPT !.whole = whole, !.count = capacity, !.result = IncompleteList]
          ELSE [real EXCEPT !.whole = whole, !.count = @ + 1, !.list = Append(@, "display")]
  BY DEF WithDisplay, real
<1> HIDE DEF r, whole
<1>5. CASE Contains(real.list, "display")
  <2>1. r = real /\ capacity # Uncounted
    BY <1>1, <1>4, <1>5 DEF Contains
  <2>2. Honest(r)
    BY <1>1, <2>1 DEF Honest, IncompleteList
  <2> QED BY <1>1, <2>1, <2>2 DEF r
<1>6. CASE ~Contains(real.list, "display") /\ capacity = Uncounted
  <2>1. r = [real EXCEPT !.whole = whole, !.count = @ + 1]
    BY <1>4, <1>6
  <2>2. Honest(r) /\ r.fn = "list" /\ ToSet(r.list) \subseteq ToSet(own)
    BY <1>1, <1>2, <1>3, <1>6, <2>1 DEF Honest
  <2> QED BY <2>2 DEF r
<1>7. CASE ~Contains(real.list, "display") /\ capacity # Uncounted /\ capacity <= real.count
  <2>1. r = [real EXCEPT !.whole = whole, !.count = capacity, !.result = IncompleteList]
        /\ real.count = capacity
    BY <1>1, <1>4, <1>7
  <2>2. r.fn = "list" /\ r.list = real.list /\ r.whole = whole /\ r.capacity = capacity
        /\ r.count = capacity /\ r.result = IncompleteList
    BY <1>1, <1>2, <2>1
  <2>3. IsPrefix(real.list, whole) /\ real.list # whole
    <3>1. CASE Contains(own, "display")
      <4>1. whole = own /\ real.list # own
        BY <1>7, <3>1 DEF whole
      <4> QED BY <4>1, <1>1, <1>7
    <3>2. CASE ~Contains(own, "display")
      <4>1. whole = Append(own, "display") /\ Len(whole) = Len(own) + 1
        BY <3>2 DEF whole
      <4>2. SubSeq(whole, 1, Len(real.list)) = SubSeq(own, 1, Len(real.list))
        BY <4>1, <1>1, <1>7
      <4> QED BY <4>1, <4>2, <1>1, <1>7 DEF IsPrefix
    <3> QED BY <3>1, <3>2
  <2>4. Honest(r)
    BY <1>1, <1>7, <2>2, <2>3, <2>1 DEF Honest, IncompleteList
  <2> QED BY <1>1, <2>2, <2>4 DEF r
<1>8. CASE ~Contains(real.list, "display") /\ capacity # Uncounted /\ ~(capacity <= real.count)
  <2>1. real.list = own /\ real.count = Len(own) /\ Len(own) < capacity /\ real.result = 0
    BY <1>1, <1>8
  <2>2. whole = Append(own, "display")
    BY <1>8, <2>1 DEF whole
  <2>3. r = [real EXCEPT !.whole = whole, !.count = @ + 1, !.list = Append(@, "display")]
    BY <1>4, <1>8
  <2>4. r.fn = "list" /\ r.list = whole /\ r.whole = whole /\ r.capacity = capacity
        /\ r.count = Len(own) + 1 /\ r.result = 0
    BY <1>1, <1>2, <2>1, <2>2, <2>3
  <2>5. IsInjective(whole) /\ ToSet(whole) = ToSet(own) \cup {"display"}
    <3>1. Len(whole) = Len(own) + 1 /\ whole[Len(own) + 1] = "display"
          /\ (\A i \in 1..Len(own) : whole[i] = own[i] /\ own[i] # "display")
      BY <2>1, <2>2, <1>8 DEF Contains
    <3>2. DOMAIN whole = 1..(Len(own) + 1) /\ DOMAIN own = 1..Len(own)
      BY <3>1, <1>3
    <3>3. IsInjective(whole)
      BY <3>1, <3>2 DEF IsInjective
    <3>4. ToSet(whole) = ToSet(own) \cup {"display"}
      BY <3>1, <3>2 DEF ToSet
    <3> QED BY <3>3, <3>4
  <2>6. IsPrefix(whole, whole) /\ Len(whole) = Len(own) + 1
    BY <1>3, <2>2 DEF IsPrefix
  <2>7. Honest(r)
    BY <1>8, <2>1, <2>4, <2>5, <2>6 DEF Honest
  <2> QED BY <2>4, <2>5, <2>7 DEF r
<1> QED BY <1>5, <1>6, <1>7, <1>8

LEMMA ListKeeps ==
  ASSUME DisplayInv, NEW capacity \in Arrays, vkEnumerateInstanceExtensionProperties(capacity)
  PROVE  DisplayInv'
<1> DEFINE r == WithDisplay(provides, capacity)
<1>1. r.fn = "list" /\ Honest(r) /\ ToSet(r.list) \subseteq ToSet(provides) \cup {"display"}
  BY WithDisplayIsHonest, DisplayAssumption DEF DisplayInv
<1>2. /\ reply' = r /\ listed' \in {ToSet(r.list), listed}
      /\ UNCHANGED <<provides, xdisplay, xwindow, windows>>
  BY DEF vkEnumerateInstanceExtensionProperties, server
<1> HIDE DEF r
<1>3. ListsHonest'
  BY <1>1, <1>2 DEF ListsHonest, Honest
<1>4. DisplayUsable'
  BY <1>1, <1>2 DEF DisplayInv, DisplayUsable, ShownIsUsable, OneWindow
<1> QED BY <1>1, <1>2, <1>3, <1>4 DEF DisplayInv

LEMMA QueryKeepsDisplay ==
  ASSUME DisplayInv, NEW query \in DOMAIN FakeQueries, NEW plane, NEW display, NEW capacity \in Arrays,
         fake_query(query, plane, display, capacity)
  PROVE  DisplayInv'
<1> DEFINE whole == IF Applies(query, plane, display) THEN <<FakeQueries[query]>> ELSE <<>>
           r == Listing(whole, capacity)
<1>1. whole \in Seq({"display", "mode"}) /\ IsInjective(whole)
  <2>1. FakeQueries[query] \in {"display", "mode"}
    BY DEF FakeQueries
  <2>2. CASE whole = <<>>
    BY <2>2 DEF IsInjective
  <2>3. CASE whole = <<FakeQueries[query]>>
    <3> DEFINE e == FakeQueries[query]
    <3> HIDE DEF e, whole
    <3>1. whole = <<e>> /\ e \in {"display", "mode"}
      BY <2>1, <2>3 DEF e
    <3>2. DOMAIN whole = {1}
      BY <3>1
    <3> QED BY <3>1, <3>2 DEF IsInjective
  <2> QED BY <2>2, <2>3
<1> HIDE DEF whole
<1>2. r.fn = "list" /\ Honest(r)
  BY <1>1, ListingIsHonest, DisplayAssumption DEF Honest, IncompleteList
<1> HIDE DEF r
<1>3. reply' = r /\ UNCHANGED <<provides, xdisplay, xwindow, windows, listed>>
  BY DEF fake_query, server, r, whole
<1>4. ListsHonest'
  BY <1>2, <1>3 DEF ListsHonest, Honest
<1>5. DisplayUsable'
  BY <1>2, <1>3 DEF DisplayInv, DisplayUsable, ShownIsUsable, OneWindow
<1> QED BY <1>3, <1>4, <1>5 DEF DisplayInv

LEMMA CallKeepsDisplay ==
  ASSUME DisplayInv, NEW call \in {"capabilities", "createMode", "acquire", "release", "power", "event"},
         NEW handl, NEW plane, fake_call(call, handl, plane)
  PROVE  DisplayInv'
<1>1. /\ reply' = [fn |-> call, given |-> <<handl, plane>>, legal |-> handl \in known,
                   ok |-> Accepts(call, handl, plane)]
      /\ UNCHANGED <<provides, xdisplay, xwindow, windows, listed>>
  BY DEF fake_call, server
<1>2. ListsHonest' /\ OneWindow'
  BY <1>1 DEF DisplayInv, ListsHonest, DisplayUsable, OneWindow
<1>3. ShownIsUsable'
  BY <1>1 DEF ShownIsUsable, Accepts
<1> QED BY <1>1, <1>2, <1>3 DEF DisplayInv, DisplayUsable

LEMMA InstanceKeepsDisplay ==
  ASSUME DisplayInv, NEW exts \in SUBSET (listed \cap {"surface", "display", "xlib"}), vkCreateInstance(exts)
  PROVE  DisplayInv'
<1> DEFINE given == Translated(exts)
<1>1. /\ reply' = [fn |-> "instance", seen |-> given, legal |-> TRUE, ok |-> given \subseteq ToSet(provides)]
      /\ UNCHANGED <<provides, xdisplay, xwindow, windows, listed>>
  BY DEF vkCreateInstance, server
<1>2. ListsHonest' /\ OneWindow'
  BY <1>1 DEF DisplayInv, ListsHonest, DisplayUsable, OneWindow
<1>3. Contains(provides, "xcb") => given \subseteq ToSet(provides)
  <2>1. Contains(provides, "xcb") => "xcb" \in ToSet(provides)
    BY DisplayAssumption DEF DisplayInv, Contains, ToSet
  <2> QED BY <2>1 DEF DisplayInv, Translated
<1>4. ShownIsUsable'
  BY <1>1, <1>3 DEF ShownIsUsable
<1> QED BY <1>1, <1>2, <1>4 DEF DisplayInv, DisplayUsable

LEMMA SurfaceKeepsDisplay ==
  ASSUME DisplayInv,
         \/ \E window \in {0, Windows + 1}, bridged \in BOOLEAN : vkCreateXlibSurfaceKHR(window, bridged)
         \/ \E opens, creates, bridged \in BOOLEAN : fake_create_display_surface(opens, creates, bridged)
  PROVE  DisplayInv'
<1>1. PICK window, bridged :
        /\ provides' = provides /\ listed' = listed
        /\ xwindow' = windows' /\ windows' \in {0, 1} /\ xdisplay' \in BOOLEAN /\ (xwindow' # 0 => xdisplay')
        /\ bridged \in BOOLEAN /\ reply' = Surface(window, bridged)
        /\ window \in {0, Windows + 1, xwindow'}
        /\ window # 0 \/ xwindow' = 0
  <2>1. ASSUME NEW w \in {0, Windows + 1}, NEW b \in BOOLEAN, vkCreateXlibSurfaceKHR(w, b)
        PROVE  /\ UNCHANGED <<provides, listed, xdisplay, xwindow, windows>>
               /\ reply' = Surface(IF w # 0 THEN w ELSE xwindow, b)
    BY <2>1 DEF vkCreateXlibSurfaceKHR, server
  <2>2. ASSUME NEW opens \in BOOLEAN, NEW creates \in BOOLEAN, NEW b \in BOOLEAN,
               fake_create_display_surface(opens, creates, b)
        PROVE  /\ provides' = provides /\ listed' = listed
               /\ xwindow' = windows' /\ windows' \in {0, 1} /\ xdisplay' \in BOOLEAN /\ (xwindow' # 0 => xdisplay')
               /\ reply' = Surface(IF xdisplay' THEN xwindow' ELSE 0, b)
    BY <2>2 DEF DisplayInv, fake_create_display_surface, Fresh
  <2>3. CASE \E w \in {0, Windows + 1}, b \in BOOLEAN : vkCreateXlibSurfaceKHR(w, b)
    <3>1. PICK w \in {0, Windows + 1}, b \in BOOLEAN : vkCreateXlibSurfaceKHR(w, b)
      BY <2>3
    <3>2. /\ UNCHANGED <<provides, listed, xdisplay, xwindow, windows>>
          /\ reply' = Surface(IF w # 0 THEN w ELSE xwindow, b)
      BY <3>1, <2>1
    <3> WITNESS IF w # 0 THEN w ELSE xwindow, b
    <3> QED BY <3>2 DEF DisplayInv
  <2>4. CASE \E opens, creates, b \in BOOLEAN : fake_create_display_surface(opens, creates, b)
    <3>1. PICK opens \in BOOLEAN, creates \in BOOLEAN, b \in BOOLEAN :
            fake_create_display_surface(opens, creates, b)
      BY <2>4
    <3>2. /\ provides' = provides /\ listed' = listed
          /\ xwindow' = windows' /\ windows' \in {0, 1} /\ xdisplay' \in BOOLEAN /\ (xwindow' # 0 => xdisplay')
          /\ reply' = Surface(IF xdisplay' THEN xwindow' ELSE 0, b)
      BY <3>1, <2>2
    <3> WITNESS IF xdisplay' THEN xwindow' ELSE 0, b
    <3> QED BY <3>2
  <2> QED BY <2>3, <2>4
<1> DEFINE made == window # 0 /\ bridged
<1>2. reply' = [fn |-> "surface", window |-> window, bridged |-> bridged, legal |-> TRUE, ok |-> made]
  BY <1>1 DEF Surface
<1> HIDE DEF made
<1>6. reply'.fn = "surface" /\ reply'.window = window /\ reply'.bridged = bridged
      /\ reply'.ok = made
  BY <1>2
<1>7. made <=> window # 0 /\ bridged
  BY DEF made
<1>3. ListsHonest' /\ OneWindow'
  BY <1>1, <1>6, <1>7 DEF ListsHonest, OneWindow
<1>4. ShownIsUsable'
  BY <1>1, <1>6, <1>7 DEF ShownIsUsable
<1>5. listed' \subseteq ToSet(provides') \cup {"display"} /\ provides' \in Loaders
  BY <1>1 DEF DisplayInv
<1> QED BY <1>1, <1>3, <1>4, <1>5 DEF DisplayInv, DisplayUsable

LEMMA DisplayStep == DisplayInv /\ [DisplayNext]_displays => DisplayInv'
<1> SUFFICES ASSUME DisplayInv, [DisplayNext]_displays  PROVE DisplayInv'
  OBVIOUS
<1>1. CASE UNCHANGED displays
  BY <1>1 DEF displays, DisplayInv, DisplayUsable, ShownIsUsable, OneWindow, ListsHonest
<1>2. CASE DisplayNext
  BY <1>2, ListKeeps, QueryKeepsDisplay, CallKeepsDisplay, InstanceKeepsDisplay, SurfaceKeepsDisplay
     DEF DisplayNext
<1> QED BY <1>1, <1>2

LEMMA DisplayStart == DisplayInit => DisplayInv
<1> SUFFICES ASSUME DisplayInit  PROVE DisplayInv
  OBVIOUS
<1>1. reply = [fn |-> "none"] /\ reply.fn = "none"
  BY DEF DisplayInit
<1>2. xwindow = 0 /\ windows = 0 /\ xdisplay = FALSE /\ listed = {} /\ provides \in Loaders
  BY DEF DisplayInit
<1>3. ShownIsUsable /\ OneWindow /\ ListsHonest
  BY <1>1, <1>2 DEF ShownIsUsable, OneWindow, ListsHonest
<1> QED BY <1>2, <1>3 DEF DisplayInv, DisplayUsable

\* For any list of extensions that a host has and any arrays: what the queries
\* gave is usable, and however many attempts fail half-way, the compositor has
\* one window: DisplayUsable.
THEOREM DisplayAlwaysUsable == DisplaySpec => []DisplayUsable
<1>1. DisplayInv => DisplayUsable
  BY DEF DisplayInv
<1> QED BY <1>1, DisplayStart, DisplayStep, PTL DEF DisplaySpec

\* Every list of the emulated display is honest: ListsHonest, a part of
\* EveryListHonest.
LEMMA DisplayListsHonest == DisplaySpec => []ListsHonest
<1>1. DisplayInv => ListsHonest
  BY DEF DisplayInv
<1> QED BY <1>1, DisplayStart, DisplayStep, PTL DEF DisplaySpec

-----------------------------------------------------------------------------
(* Lists of extensions and queue families (VulkanShim).                     *)

LEMMA VisibleOnce ==
  ASSUME NEW exts \in Seq(DeviceExtensions), IsInjective(exts)
  PROVE  /\ Visible(exts) \in Seq(DeviceExtensions) /\ IsInjective(Visible(exts))
         /\ ToSet(Visible(exts)) \subseteq ToSet(exts)
<1> DEFINE i == CHOOSE i \in DOMAIN exts : device_extension_hidden(exts[i])
           v == RemoveAt(exts, i)
<1>1. CASE \E j \in DOMAIN exts : device_extension_hidden(exts[j])
  <2>1. i \in 1..Len(exts)
    BY <1>1
  <2> HIDE DEF i
  <2> DEFINE a == SubSeq(exts, 1, i - 1)
             b == SubSeq(exts, i + 1, Len(exts))
  <2>a. a \in Seq(DeviceExtensions) /\ Len(a) = i - 1 /\ \A j \in 1..(i - 1) : a[j] = exts[j]
    BY <2>1
  <2>b. /\ b \in Seq(DeviceExtensions) /\ Len(b) = Len(exts) - i
        /\ \A j \in 1..(Len(exts) - i) : b[j] = exts[j + i]
    BY <2>1
  <2>c. v = a \o b
    BY DEF RemoveAt
  <2> HIDE DEF a, b
  <2>d. Len(exts) \in Nat
    OBVIOUS
  <2>2. v \in Seq(DeviceExtensions) /\ Len(v) = Len(exts) - 1
    BY <2>1, <2>a, <2>b, <2>c, <2>d
  <2>3. \A j \in 1..Len(v) : v[j] = IF j < i THEN exts[j] ELSE exts[j + 1]
    <3> SUFFICES ASSUME NEW j \in 1..Len(v)  PROVE v[j] = IF j < i THEN exts[j] ELSE exts[j + 1]
      OBVIOUS
    <3>1. v[j] = IF j <= Len(a) THEN a[j] ELSE b[j - Len(a)]
      BY <2>2, <2>a, <2>b, <2>c
    <3>2. CASE j < i
      BY <2>1, <2>2, <2>a, <3>1, <3>2
    <3>3. CASE ~(j < i)
      <4>1. j - (i - 1) \in 1..(Len(exts) - i) /\ (j - (i - 1)) + i = j + 1
        BY <2>1, <2>2, <2>d, <3>3
      <4>2. b[j - (i - 1)] = exts[(j - (i - 1)) + i]
        BY <2>b, <4>1
      <4> QED BY <2>1, <2>2, <2>a, <3>1, <3>3, <4>1, <4>2
    <3> QED BY <3>2, <3>3
  <2>4. Visible(exts) = v
    BY <1>1 DEF Visible, i
  <2> HIDE DEF v
  <2>5. DOMAIN v = 1..Len(v) /\ DOMAIN exts = 1..Len(exts) /\ Len(v) + 1 = Len(exts)
        /\ Len(v) \in Nat /\ Len(exts) \in Nat
    BY <2>2
  <2>6. IsInjective(v)
    <3> SUFFICES ASSUME NEW x \in 1..Len(v), NEW y \in 1..Len(v), v[x] = v[y]  PROVE x = y
      BY <2>5 DEF IsInjective
    <3> DEFINE at(j) == IF j < i THEN j ELSE j + 1
    <3>1. at(x) \in DOMAIN exts /\ at(y) \in DOMAIN exts /\ exts[at(x)] = exts[at(y)]
      BY <2>1, <2>3, <2>5
    <3>2. at(x) = at(y)
      BY <3>1 DEF IsInjective
    <3> QED BY <2>1, <3>2
  <2>7. ToSet(v) \subseteq ToSet(exts)
    BY <2>1, <2>3, <2>5 DEF ToSet
  <2> QED BY <2>2, <2>4, <2>6, <2>7
<1>2. CASE ~\E j \in DOMAIN exts : device_extension_hidden(exts[j])
  BY <1>2 DEF Visible
<1> QED BY <1>1, <1>2

LEMMA OptionalOnce ==
  ASSUME NEW s \in Seq(DeviceExtensions), IsInjective(s), NEW e \in DeviceExtensions, NEW want \in BOOLEAN,
         want => e \notin ToSet(s)
  PROVE  /\ s \o Optional(want, e) \in Seq(DeviceExtensions) /\ IsInjective(s \o Optional(want, e))
         /\ ToSet(s \o Optional(want, e)) \subseteq ToSet(s) \cup (IF want THEN {e} ELSE {})
<1>1. CASE ~want
  <2>1. s \o <<>> = s
    OBVIOUS
  <2> QED BY <1>1, <2>1 DEF Optional
<1>2. CASE want
  <2> DEFINE t == s \o <<e>>
  <2>1. t \in Seq(DeviceExtensions) /\ Len(t) = Len(s) + 1 /\ t[Len(s) + 1] = e
        /\ \A i \in 1..Len(s) : t[i] = s[i]
    OBVIOUS
  <2> HIDE DEF t
  <2>2. DOMAIN t = 1..(Len(s) + 1) /\ DOMAIN s = 1..Len(s) /\ Len(s) \in Nat
    BY <2>1
  <2>3. \A i \in 1..Len(s) : s[i] # e
    BY <1>2, <2>2 DEF ToSet
  <2>4. IsInjective(t)
    BY <2>1, <2>2, <2>3 DEF IsInjective
  <2>5. ToSet(t) \subseteq ToSet(s) \cup {e}
    BY <2>1, <2>2 DEF ToSet
  <2> QED BY <1>2, <2>1, <2>4, <2>5 DEF Optional, t
<1> QED BY <1>1, <1>2

\* The host's own extensions and those that the shim makes up are told apart.
LEMMA AdvertisedOnce ==
  ASSUME NEW p, host[p].exts \in Seq(DeviceExtensions), IsInjective(host[p].exts), bridge \in BOOLEAN,
         NEW available \in BOOLEAN
  PROVE  LET s == Synthetic(p, available)
             whole == Advertised(p, s)
         IN  /\ whole \in Seq(DeviceExtensions) /\ IsInjective(whole)
             /\ ToSet(whole) \subseteq Exts(p) \cup {"semaphore_fd"}
                  \cup (IF s.id THEN {"present_id"} ELSE {}) \cup (IF s.wait THEN {"present_wait"} ELSE {})
                  \cup (IF s.priority THEN {"global_priority"} ELSE {})
<1> DEFINE s == Synthetic(p, available)
           fd == bridge /\ "semaphore_fd" \notin Exts(p)
           v0 == Visible(host[p].exts)
           v1 == v0 \o Optional(fd, "semaphore_fd")
           v2 == v1 \o Optional(s.id, "present_id")
           v3 == v2 \o Optional(s.wait, "present_wait")
           v4 == v3 \o Optional(s.priority, "global_priority")
<1>1. /\ s.id \in BOOLEAN /\ s.wait \in BOOLEAN /\ s.priority \in BOOLEAN /\ fd \in BOOLEAN
      /\ s.id => "present_id" \notin Exts(p)
      /\ s.wait => "present_wait" \notin Exts(p)
      /\ s.priority => "global_priority" \notin Exts(p)
      /\ fd => "semaphore_fd" \notin Exts(p)
  BY DEF Synthetic
<1>2. {"semaphore_fd", "present_id", "present_wait", "global_priority"} \subseteq DeviceExtensions
  BY DEF DeviceExtensions
<1> HIDE DEF s, fd
<1>3. v0 \in Seq(DeviceExtensions) /\ IsInjective(v0) /\ ToSet(v0) \subseteq Exts(p)
  BY VisibleOnce DEF Exts
<1> HIDE DEF v0
<1> DEFINE w1 == Exts(p) \cup {"semaphore_fd"}
           w2 == w1 \cup (IF s.id THEN {"present_id"} ELSE {})
           w3 == w2 \cup (IF s.wait THEN {"present_wait"} ELSE {})
           w4 == w3 \cup (IF s.priority THEN {"global_priority"} ELSE {})
<1>4. v1 \in Seq(DeviceExtensions) /\ IsInjective(v1) /\ ToSet(v1) \subseteq w1
  BY <1>1, <1>2, <1>3, OptionalOnce
<1> HIDE DEF v1
<1>5. v2 \in Seq(DeviceExtensions) /\ IsInjective(v2) /\ ToSet(v2) \subseteq w2
  BY <1>1, <1>2, <1>4, OptionalOnce
<1> HIDE DEF v2
<1>6. v3 \in Seq(DeviceExtensions) /\ IsInjective(v3) /\ ToSet(v3) \subseteq w3
  BY <1>1, <1>2, <1>5, OptionalOnce
<1> HIDE DEF v3
<1>7. v4 \in Seq(DeviceExtensions) /\ IsInjective(v4) /\ ToSet(v4) \subseteq w4
  BY <1>1, <1>2, <1>6, OptionalOnce
<1>8. v4 = Advertised(p, s)
  BY DEF Advertised, v0, v1, v2, v3, fd
<1> QED BY <1>7, <1>8 DEF s

HonestAnswer(r) ==
  IF r.capacity = NoArray
  THEN r.count >= Len(r.whole) /\ r.result = 0
  ELSE /\ r.count = Len(r.list) /\ r.count <= r.capacity
       /\ IsPrefix(r.list, r.whole)
       /\ r.fn # "queueFamilies" => /\ IsInjective(r.list)
                                     /\ (r.result = 0) = (r.list = r.whole)
       /\ r.capacity >= Len(r.whole) => r.list = r.whole

LEMMA AnswerIsHonest ==
  ASSUME NEW S, NEW whole \in Seq(S), NEW capacity \in Nat, NEW fn,
         fn # "queueFamilies" => IsInjective(whole)
  PROVE  /\ HonestAnswer(Answer(fn, whole, capacity))
         /\ fn = "queueFamilies" => HonestAnswer([Answer(fn, whole, capacity) EXCEPT !.result = 0])
<1> DEFINE n == IF capacity = NoArray \/ capacity > Len(whole) THEN Len(whole) ELSE capacity
           list == SubSeq(whole, 1, n)
           result == IF n < Len(whole) THEN Incomplete ELSE 0
           shown == IF capacity = NoArray THEN <<>> ELSE list
           r == Answer(fn, whole, capacity)
           z == [r EXCEPT !.result = 0]
<1>0. Len(whole) \in Nat
  OBVIOUS
<1>1. n \in Nat /\ n <= Len(whole) /\ (capacity # NoArray => n <= capacity)
      /\ (capacity # NoArray /\ n < Len(whole) => n = capacity)
      /\ (capacity = NoArray => n = Len(whole))
  BY <1>0
<1>2. /\ Len(list) = n /\ IsPrefix(list, whole)
      /\ fn # "queueFamilies" => IsInjective(list)
      /\ n = Len(whole) => list = whole
  BY <1>1, PrefixOf
<1>3. r = [fn |-> fn, whole |-> whole, capacity |-> capacity, count |-> n, list |-> shown, result |-> result]
  BY DEF Answer, Fits
<1> HIDE DEF n, r, list, result
<1>4. n < Len(whole) => list # whole
  BY <1>1, <1>2
<1>5. result = IF n < Len(whole) THEN 5 ELSE 0
  BY DEF result, Incomplete
<1>6. /\ r.fn = fn /\ r.whole = whole /\ r.capacity = capacity /\ r.count = n
      /\ r.list = shown /\ r.result = result
      /\ z.fn = fn /\ z.whole = whole /\ z.capacity = capacity /\ z.count = n
      /\ z.list = shown /\ z.result = 0
  BY <1>3
<1> HIDE DEF z
<1>7. capacity >= Len(whole) /\ capacity # NoArray => list = whole
  BY <1>0, <1>1, <1>2
<1>8. CASE capacity = NoArray
  <2>1. HonestAnswer(r) /\ HonestAnswer(z)
    BY <1>0, <1>1, <1>5, <1>6, <1>8 DEF HonestAnswer
  <2> QED BY <2>1 DEF z, r
<1>9. CASE capacity # NoArray
  <2>1. shown = list
    BY <1>9
  <2> HIDE DEF shown
  <2>2. HonestAnswer(r)
    BY <1>1, <1>2, <1>4, <1>5, <1>6, <1>7, <1>9, <2>1 DEF HonestAnswer
  <2>3. fn = "queueFamilies" => HonestAnswer(z)
    BY <1>1, <1>2, <1>4, <1>5, <1>6, <1>7, <1>9, <2>1 DEF HonestAnswer
  <2> QED BY <2>2, <2>3 DEF z, r
<1> QED BY <1>8, <1>9 DEF r, z

\* The machine stays what it is; the last answer was honest.
ListsInv == /\ bridge \in BOOLEAN
            /\ \A p \in Physical : host[p] \in Hosts[p]
            /\ alias.available \in BOOLEAN
            /\ EnumerationHonest

LEMMA QueryKeepsLists ==
  ASSUME ListsInv, NEW p \in Physical, NEW capacity \in Capacities[p],
         \/ vkEnumerateDeviceExtensionProperties(p, capacity)
         \/ vkGetPhysicalDeviceQueueFamilyProperties(p, capacity)
  PROVE  EnumerationHonest'
<1>1. /\ host[p].exts \in Seq(DeviceExtensions) /\ IsInjective(host[p].exts)
      /\ host[p].families \in Seq([combined : BOOLEAN, graphics : BOOLEAN]) /\ capacity \in Nat
  BY HostAssumption DEF ListsInv
<1>2. Refreshed(p).available \in BOOLEAN
  BY DEF Refreshed, Aliasable, ListsInv
<1>3. HonestAnswer(last')
  <2>1. CASE vkEnumerateDeviceExtensionProperties(p, capacity)
    <3> DEFINE whole == Advertised(p, Synthetic(p, Refreshed(p).available))
    <3>1. whole \in Seq(DeviceExtensions) /\ IsInjective(whole)
      BY <1>1, <1>2, AdvertisedOnce DEF ListsInv
    <3>2. last' = Answer("deviceExtensions", whole, capacity)
      BY <2>1 DEF vkEnumerateDeviceExtensionProperties
    <3> HIDE DEF whole
    <3> QED BY <1>1, <3>1, <3>2, AnswerIsHonest
  <2>2. CASE vkGetPhysicalDeviceQueueFamilyProperties(p, capacity)
    <3>1. Families(p) \in Seq([combined : BOOLEAN, graphics : BOOLEAN])
      <4> DEFINE T == [combined : BOOLEAN, graphics : BOOLEAN]
                 e == [combined |-> FALSE, graphics |-> FALSE]
                 f == host[p].families
      <4>1. e \in T /\ f \in Seq(T)
        BY <1>1
      <4>2. Families(p) = IF Refreshed(p).available THEN Append(f, e) ELSE f
        BY DEF Families
      <4> HIDE DEF T, e, f
      <4>3. Append(f, e) \in Seq(T)
        BY <4>1
      <4>4. Families(p) \in Seq(T)
        BY <4>1, <4>2, <4>3
      <4> QED BY <4>4 DEF T
    <3>2. last' = [Answer("queueFamilies", Families(p), capacity) EXCEPT !.result = 0]
      BY <2>2 DEF vkGetPhysicalDeviceQueueFamilyProperties
    <3> QED BY <1>1, <3>1, <3>2, AnswerIsHonest
  <2> QED BY <2>1, <2>2
<1> QED BY <1>3 DEF EnumerationHonest, HonestAnswer

LEMMA ListsStep == ListsInv /\ [Next]_vars => ListsInv'
<1> SUFFICES ASSUME ListsInv, [Next]_vars  PROVE ListsInv'
  OBVIOUS
<1> USE DEF shim, history, threads, machine
<1>1. CASE UNCHANGED vars
  BY <1>1 DEF vars, ListsInv, EnumerationHonest
<1>2. ASSUME NEW p \in Physical,
             \/ \E capacity \in Capacities[p] : \/ vkEnumerateDeviceExtensionProperties(p, capacity)
                                              \/ vkGetPhysicalDeviceQueueFamilyProperties(p, capacity)
             \/ \E r, result, second : vkCreateDevice(p, r, result, second)
      PROVE  ListsInv'
  <2>1. Refreshed(p).available \in BOOLEAN
    BY DEF Refreshed, Aliasable, ListsInv
  <2>2. UNCHANGED <<host, bridge>> /\ (alias' = alias \/ alias' = Refreshed(p))
    <3>1. ASSUME NEW r, NEW result, NEW second, vkCreateDevice(p, r, result, second)
          PROVE  UNCHANGED machine /\ alias' = Refreshed(p)
      BY <3>1 DEF vkCreateDevice, refresh_compute_queue_alias
    <3> QED BY <1>2, <3>1
            DEF vkEnumerateDeviceExtensionProperties, vkGetPhysicalDeviceQueueFamilyProperties,
                refresh_compute_queue_alias
  <2>3. ASSUME NEW r, NEW result, NEW second, vkCreateDevice(p, r, result, second)
        PROVE  EnumerationHonest'
    <3>1. \E given, final, before, after :
            last' = [fn |-> "vkCreateDevice", pd |-> p, request |-> r, seen |-> given, result |-> final,
                     before |-> before, after |-> after]
      BY <2>3 DEF vkCreateDevice
    <3> QED BY <3>1 DEF EnumerationHonest
  <2> QED BY <1>2, <2>1, <2>2, <2>3, QueryKeepsLists DEF ListsInv
<1>3. CASE \/ CreateInstance
           \/ \E t \in Threads : lock_aliased_queue_operations(t) \/ Return(t)
  BY <1>3 DEF CreateInstance, lock_aliased_queue_operations, Return, ListsInv, EnumerationHonest
<1>4. ASSUME NEW p \in Physical,
             \/ vkGetPhysicalDeviceFeatures2(p) \/ vkWaitForPresentKHR(p)
             \/ \E f \in Families2 : vkCreateCommandPool(p, f)
             \/ \E t \in Threads, f \in Families2 : vkGetDeviceQueue(t, p, f)
      PROVE  ListsInv'
  <2>1. UNCHANGED <<host, bridge, alias>>
    BY <1>4 DEF vkGetPhysicalDeviceFeatures2, vkWaitForPresentKHR, vkCreateCommandPool, vkGetDeviceQueue
  <2>2. \/ \E f : last' = [fn |-> "features", pd |-> p, features |-> f]
        \/ \E w : last' = [fn |-> "vkWaitForPresentKHR", pd |-> p, toHost |-> w]
        \/ \E fn, f : last' = [fn |-> fn, pd |-> p, family |-> f]
    BY <1>4 DEF vkGetPhysicalDeviceFeatures2, vkWaitForPresentKHR, vkCreateCommandPool, vkGetDeviceQueue,
                ToHost
  <2> QED BY <2>1, <2>2 DEF ListsInv, EnumerationHonest
<1>5. ASSUME NEW t \in Threads, Call(t) \/ \E chain : vkQueuePresentKHR(t, chain)
      PROVE  ListsInv'
  <2>1. UNCHANGED <<host, bridge, alias>>
    BY <1>5 DEF Call, vkQueuePresentKHR
  <2>2. \/ last' = [fn |-> "none"]
        \/ \E p, b, c : last' = [fn |-> "vkQueuePresentKHR", pd |-> p, chain |-> b, seen |-> c]
    BY <1>5 DEF Call, vkQueuePresentKHR, NoCall
  <2> QED BY <2>1, <2>2 DEF ListsInv, EnumerationHonest
<1> QED BY <1>1, <1>2, <1>3, <1>4, <1>5
        DEF Next, Ask, Use, vkGetPhysicalDeviceQueueFamilyProperties2, vkGetDeviceQueue2

LEMMA ListsStart == Init => ListsInv
BY DEF Init, ListsInv, EnumerationHonest, NoCall

LEMMA DeviceListsHonest == Spec => []EnumerationHonest
<1>1. ListsInv => EnumerationHonest
  BY DEF ListsInv
<1> QED BY <1>1, ListsStart, ListsStep, PTL DEF Spec

-----------------------------------------------------------------------------
(* The memory of the application.  The edits of a chain form a walk, each    *)
(* step of which changes one link and saves what it was; undone from the     *)
(* youngest, the first change of a link is undone last, and that one saved   *)
(* what the application had written.                                         *)

LEMMA Least ==
  ASSUME NEW T, T \subseteq Nat, T # {}
  PROVE  \E x \in T : \A y \in T : x <= y
<1> DEFINE R == {ss \in Nat \X Nat : ss[1] < ss[2]}
<1>1. IsWellFoundedOn(R, Nat)
  BY NatLessThanWellFounded DEF OpToRel
<1>2. \A x, y \in Nat : y < x => <<y, x>> \in R
  OBVIOUS
<1> HIDE DEF R
<1>3. PICK x \in T : \A y \in T : ~(<<y, x>> \in R)
  BY <1>1, WFMin
<1>4. ASSUME NEW y \in T  PROVE x <= y
  <2>1. x \in Nat /\ y \in Nat /\ ~(y < x)
    BY <1>2, <1>3
  <2> QED BY <2>1
<1> QED BY <1>4

\* Whatever holds of 0 and is passed on holds up to n: a set instead of a property.
LEMMA UpTo ==
  ASSUME NEW n \in Nat, NEW G, 0 \in G, \A i \in 1 .. n : i - 1 \in G => i \in G
  PROVE  \A i \in 0 .. n : i \in G
<1> SUFFICES ASSUME NEW j \in 0 .. n, j \notin G  PROVE FALSE
  OBVIOUS
<1> DEFINE T == {i \in 0 .. n : i \notin G}
<1>1. T \subseteq Nat /\ T # {}
  OBVIOUS
<1>2. PICK x \in T : \A y \in T : x <= y
  BY <1>1, Least
<1>3. x \in 1 .. n /\ x - 1 \in 0 .. n /\ x - 1 \notin T
  BY <1>2
<1> QED BY <1>2, <1>3

\* A function defined by its start and a step exists.
Follows(f, n, start, step) == f[0] = start /\ \A i \in 1 .. n : f[i] = step[<<f[i - 1], i>>]

LEMMA Recursion ==
  ASSUME NEW n \in Nat, NEW S, NEW start \in S, NEW step \in [S \X (1 .. n) -> S]
  PROVE  \E f \in [0 .. n -> S] : Follows(f, n, start, step)
<1> DEFINE Reaches(m, f) == Follows(f, m, start, step)
           G == {m \in 0 .. n : \E f \in [0 .. n -> S] : Reaches(m, f)}
<1>1. 0 \in G
  <2>1. [i \in 0 .. n |-> start] \in [0 .. n -> S]
    OBVIOUS
  <2>2. Reaches(0, [i \in 0 .. n |-> start])
    BY DEF Follows
  <2> HIDE DEF Reaches
  <2> QED BY <2>1, <2>2
<1>2. ASSUME NEW m \in 1 .. n, m - 1 \in G  PROVE m \in G
  <2>1. PICK f \in [0 .. n -> S] : Reaches(m - 1, f)
    BY <1>2
  <2> DEFINE g == [i \in 0 .. n |-> IF i = m THEN step[<<f[m - 1], m>>] ELSE f[i]]
  <2>2. g \in [0 .. n -> S]
    <3>1. f[m - 1] \in S
      OBVIOUS
    <3>2. step[<<f[m - 1], m>>] \in S
      BY <3>1
    <3> QED BY <3>2
  <2>3. Reaches(m, g)
    <3>1. g[0] = start
      BY <2>1 DEF Follows
    <3>2. ASSUME NEW i \in 1 .. m  PROVE g[i] = step[<<g[i - 1], i>>]
      <4>1. CASE i = m
        <5>1. m \in 0 .. n /\ m - 1 \in 0 .. n /\ m - 1 # m
          OBVIOUS
        <5> QED BY <4>1, <5>1
      <4>2. CASE i # m
        <5>1. i \in 1 .. (m - 1) /\ i \in 0 .. n /\ i - 1 \in 0 .. n /\ i - 1 # m
          BY <4>2
        <5>2. f[i] = step[<<f[i - 1], i>>]
          BY <2>1, <5>1 DEF Follows
        <5> QED BY <4>2, <5>1, <5>2
      <4> QED BY <4>1, <4>2
    <3> QED BY <3>1, <3>2 DEF Follows
  <2> HIDE DEF g, Reaches
  <2> QED BY <2>2, <2>3
<1> HIDE DEF G
<1>3. n \in G
  BY <1>1, <1>2, UpTo
<1> QED BY <1>3 DEF G

Nodes(chain) == 0 .. Len(chain)
Places(chain) == 1 .. Len(chain)
Changes(chain) == Places(chain) \X Nodes(chain)
Strips(chain) == [at : Nodes(chain), head : Nodes(chain), prev : Nodes(chain),
                  next : [Places(chain) -> Nodes(chain)], saved : Seq(Changes(chain))]

\* A step changes at most one link, and saves what it was.
Edits(chain, s, t) ==
  \/ t.next = s.next /\ t.saved = s.saved
  \/ \E a \in Places(chain) :
       /\ t.saved = Append(s.saved, <<a, s.next[a]>>)
       /\ \A b \in Places(chain) : b # a => t.next[b] = s.next[b]

LEMMA StripSteps ==
  ASSUME NEW S, NEW chain \in Seq(S), NEW kinds, NEW s \in Strips(chain),
         NEW t, t = StripStep(chain, kinds, s)
  PROVE  t \in Strips(chain) /\ Edits(chain, s, t)
<1> DEFINE behind == s.next[s.at]
<1>0. /\ Len(chain) \in Nat /\ s.at \in Nodes(chain)
      /\ s.head \in Nodes(chain) /\ s.prev \in Nodes(chain)
      /\ s.next \in [Places(chain) -> Nodes(chain)] /\ s.saved \in Seq(Changes(chain))
      /\ s = [at |-> s.at, head |-> s.head, prev |-> s.prev, next |-> s.next, saved |-> s.saved]
  BY DEF Strips
<1>1. CASE s.at = 0
  BY <1>1 DEF StripStep, Edits
<1>2. CASE s.at # 0
  <2>0. behind \in Nodes(chain)
    <3>1. s.at \in Places(chain)
      BY <1>0, <1>2 DEF Places, Nodes
    <3> QED BY <1>0, <3>1
  <2>1. \/ t = [s EXCEPT !.at = behind, !.prev = s.at]
        \/ t = [s EXCEPT !.at = behind, !.head = behind]
        \/ /\ s.prev # 0
           /\ t = [s EXCEPT !.at = behind, !.next[s.prev] = behind,
                            !.saved = Append(@, <<s.prev, s.next[s.prev]>>)]
    BY <1>2 DEF StripStep
  <2> HIDE DEF behind
  <2>2. CASE \/ t = [s EXCEPT !.at = behind, !.prev = s.at]
             \/ t = [s EXCEPT !.at = behind, !.head = behind]
    BY <1>0, <2>0, <2>2 DEF Strips, Edits
  <2>3. CASE /\ s.prev # 0
             /\ t = [s EXCEPT !.at = behind, !.next[s.prev] = behind,
                              !.saved = Append(@, <<s.prev, s.next[s.prev]>>)]
    <3>1. s.prev \in Places(chain) /\ s.next[s.prev] \in Nodes(chain)
      <4>1. s.prev \in Places(chain)
        BY <1>0, <2>3 DEF Places, Nodes
      <4> QED BY <1>0, <4>1
    <3>2. t = [at |-> behind, head |-> s.head, prev |-> s.prev,
               next |-> [s.next EXCEPT ![s.prev] = behind],
               saved |-> Append(s.saved, <<s.prev, s.next[s.prev]>>)]
      BY <1>0, <2>3
    <3>3. [s.next EXCEPT ![s.prev] = behind] \in [Places(chain) -> Nodes(chain)]
      BY <1>0, <2>0, <3>1
    <3>4. Append(s.saved, <<s.prev, s.next[s.prev]>>) \in Seq(Changes(chain))
      <4>1. <<s.prev, s.next[s.prev]>> \in Changes(chain)
        BY <3>1 DEF Changes
      <4> QED BY <1>0, <4>1
    <3>5. t \in Strips(chain)
      BY <1>0, <2>0, <3>2, <3>3, <3>4 DEF Strips
    <3>6. /\ t.saved = Append(s.saved, <<s.prev, s.next[s.prev]>>)
          /\ \A b \in Places(chain) : b # s.prev => t.next[b] = s.next[b]
      BY <1>0, <3>2
    <3> QED BY <3>1, <3>5, <3>6 DEF Edits
  <2> QED BY <2>1, <2>2, <2>3
<1> QED BY <1>1, <1>2

\* The walk is what its definition says.
LEMMA StripWalks ==
  ASSUME NEW S, NEW chain \in Seq(S), NEW head \in Nodes(chain),
         NEW next \in [Places(chain) -> Nodes(chain)], NEW kinds,
         NEW w, w = StripWalk(chain, head, next, kinds)
  PROVE  /\ w[0] = StripStart(head, next) /\ StripStart(head, next) \in Strips(chain)
         /\ \A i \in Places(chain) : w[i] = StripStep(chain, kinds, w[i - 1])
<1> DEFINE step == [x \in Strips(chain) \X (1 .. Len(chain)) |-> StripStep(chain, kinds, x[1])]
           start == StripStart(head, next)
           Walks(f) == f = [i \in 0 .. Len(chain) |->
                         IF i = 0 THEN start ELSE StripStep(chain, kinds, f[i - 1])]
<1>0. Len(chain) \in Nat
  OBVIOUS
<1>1. start \in Strips(chain)
  BY DEF StripStart, Strips, Nodes, Places
<1>2. step \in [Strips(chain) \X (1 .. Len(chain)) -> Strips(chain)]
  <2>1. \A s \in Strips(chain) : StripStep(chain, kinds, s) \in Strips(chain)
    BY StripSteps
  <2> QED BY <2>1
<1> HIDE DEF start
<1>3. PICK f \in [0 .. Len(chain) -> Strips(chain)] : Follows(f, Len(chain), start, step)
  <2> HIDE DEF step
  <2> QED BY <1>0, <1>1, <1>2, Recursion
<1>4. Walks(f)
  <2>1. ASSUME NEW i \in 1 .. Len(chain)
        PROVE  f[i] = StripStep(chain, kinds, f[i - 1])
    <3>1. i - 1 \in 0 .. Len(chain)
      BY <1>0
    <3>2. <<f[i - 1], i>> \in Strips(chain) \X (1 .. Len(chain))
      BY <3>1
    <3>3. step[<<f[i - 1], i>>] = StripStep(chain, kinds, f[i - 1])
      BY <3>2
    <3> HIDE DEF step
    <3> QED BY <1>3, <3>3 DEF Follows
  <2> QED BY <1>3, <2>1 DEF Follows
<1>5. Walks(w)
  BY <1>4 DEF StripWalk, start
<1>6. w[0] = start /\ \A i \in 1 .. Len(chain) : w[i] = StripStep(chain, kinds, w[i - 1])
  BY <1>0, <1>5
<1> QED BY <1>1, <1>6 DEF start, Places

\* Whatever was changed first is saved first, with the link it had.
Remembers(chain, next, s) ==
  /\ s \in Strips(chain)
  /\ \A a \in Places(chain) :
       /\ (\A j \in DOMAIN s.saved : s.saved[j][1] # a) => s.next[a] = next[a]
       /\ \A j \in DOMAIN s.saved :
            s.saved[j][1] = a /\ (\A l \in DOMAIN s.saved : l < j => s.saved[l][1] # a)
              => s.saved[j][2] = next[a]

LEMMA StepRemembers ==
  ASSUME NEW S, NEW chain \in Seq(S), NEW next \in [Places(chain) -> Nodes(chain)], NEW kinds,
         NEW s, Remembers(chain, next, s), NEW t, t = StripStep(chain, kinds, s)
  PROVE  Remembers(chain, next, t)
<1>0. s \in Strips(chain) /\ s.saved \in Seq(Changes(chain))
  BY DEF Remembers, Strips
<1>1. t \in Strips(chain)
  BY <1>0, StripSteps
<1>2. CASE t.next = s.next /\ t.saved = s.saved
  BY <1>1, <1>2 DEF Remembers
<1>3. ASSUME NEW a \in Places(chain), t.saved = Append(s.saved, <<a, s.next[a]>>),
             \A b \in Places(chain) : b # a => t.next[b] = s.next[b]
      PROVE  Remembers(chain, next, t)
  <2> DEFINE n == Len(s.saved)
  <2>1. /\ n \in Nat /\ DOMAIN s.saved = 1 .. n /\ DOMAIN t.saved = 1 .. (n + 1)
        /\ \A j \in 1 .. n : t.saved[j] = s.saved[j]
        /\ t.saved[n + 1] = <<a, s.next[a]>>
    BY <1>0, <1>3
  <2>2. t.saved[n + 1][1] = a /\ t.saved[n + 1][2] = s.next[a]
    BY <2>1
  <2>3. \A j \in 1 .. (n + 1) : j = n + 1 \/ (j \in 1 .. n /\ j < n + 1)
    BY <2>1
  <2>4. \A j \in 1 .. n : j \in 1 .. (n + 1) /\ j < n + 1
    BY <2>1
  <2> HIDE DEF n
  <2>5. ASSUME NEW b \in Places(chain), \A j \in DOMAIN t.saved : t.saved[j][1] # b
        PROVE  t.next[b] = next[b]
    <3>1. b # a
      BY <2>1, <2>2, <2>5
    <3>2. \A j \in DOMAIN s.saved : s.saved[j][1] # b
      BY <2>1, <2>4, <2>5
    <3> QED BY <1>3, <3>1, <3>2 DEF Remembers
  <2>6. ASSUME NEW b \in Places(chain), NEW j \in DOMAIN t.saved, t.saved[j][1] = b,
               \A l \in DOMAIN t.saved : l < j => t.saved[l][1] # b
        PROVE  t.saved[j][2] = next[b]
    <3>1. CASE j = n + 1
      <4>1. \A l \in DOMAIN s.saved : s.saved[l][1] # b
        BY <2>1, <2>4, <2>6, <3>1
      <4>2. s.next[b] = next[b]
        BY <4>1 DEF Remembers
      <4> QED BY <2>2, <2>6, <3>1, <4>2
    <3>2. CASE j \in 1 .. n
      <4>1. s.saved[j][1] = b /\ \A l \in DOMAIN s.saved : l < j => s.saved[l][1] # b
        BY <2>1, <2>4, <2>6, <3>2
      <4>2. s.saved[j][2] = next[b]
        BY <2>1, <3>2, <4>1 DEF Remembers
      <4> QED BY <2>1, <3>2, <4>2
    <3> QED BY <2>1, <2>3, <3>1, <3>2
  <2> QED BY <1>1, <2>5, <2>6 DEF Remembers
<1>4. Edits(chain, s, t)
  BY <1>0, StripSteps
<1> QED BY <1>2, <1>3, <1>4 DEF Edits

LEMMA StripRemembers ==
  ASSUME NEW S, NEW chain \in Seq(S), NEW head \in Nodes(chain),
         NEW next \in [Places(chain) -> Nodes(chain)], NEW kinds
  PROVE  Remembers(chain, next, strip_synthetic_pnext_structures(chain, head, next, kinds))
<1> DEFINE w == StripWalk(chain, head, next, kinds)
           G == {i \in 0 .. Len(chain) : Remembers(chain, next, w[i])}
<1>0. Len(chain) \in Nat
  OBVIOUS
<1>1. /\ w[0] = StripStart(head, next) /\ StripStart(head, next) \in Strips(chain)
      /\ \A i \in Places(chain) : w[i] = StripStep(chain, kinds, w[i - 1])
  BY StripWalks
<1> HIDE DEF w
<1>2. 0 \in G
  <2>1. w[0].saved = <<>> /\ w[0].next = next
    BY <1>1 DEF StripStart
  <2>2. DOMAIN <<>> = {}
    OBVIOUS
  <2> QED BY <1>0, <1>1, <2>1, <2>2 DEF Remembers
<1>3. ASSUME NEW i \in 1 .. Len(chain), i - 1 \in G  PROVE i \in G
  <2>1. w[i] = StripStep(chain, kinds, w[i - 1])
    BY <1>1 DEF Places
  <2>2. Remembers(chain, next, w[i])
    BY <1>3, <2>1, StepRemembers
  <2> QED BY <2>2
<1> HIDE DEF G
<1>4. \A i \in 0 .. Len(chain) : i \in G
  BY <1>0, <1>2, <1>3, UpTo
<1>5. (IF Len(chain) < MaxPNext THEN Len(chain) ELSE MaxPNext) \in 0 .. Len(chain)
  BY <1>0, ShimAssumption
<1> QED BY <1>4, <1>5 DEF strip_synthetic_pnext_structures, G, w

LEMMA UndoWalks ==
  ASSUME NEW S, NEW chain \in Seq(S), NEW first \in [Places(chain) -> Nodes(chain)],
         NEW saved \in Seq(Changes(chain)), NEW u, u = Undone(first, saved)
  PROVE  /\ u[0] = first
         /\ \A k \in 1 .. Len(saved) :
              u[k] = [u[k - 1] EXCEPT ![saved[Len(saved) - k + 1][1]] = saved[Len(saved) - k + 1][2]]
         /\ \A k \in 0 .. Len(saved) : u[k] \in [Places(chain) -> Nodes(chain)]
<1> DEFINE n == Len(saved)
           T == [Places(chain) -> Nodes(chain)]
           Undo(x, k) == [x EXCEPT ![saved[n - k + 1][1]] = saved[n - k + 1][2]]
           step == [x \in T \X (1 .. n) |-> Undo(x[1], x[2])]
           Walks(f) == f = [k \in 0 .. n |-> IF k = 0 THEN first ELSE Undo(f[k - 1], k)]
<1>0. n \in Nat /\ first \in T
  OBVIOUS
<1>1. \A k \in 1 .. n : saved[n - k + 1][1] \in Places(chain) /\ saved[n - k + 1][2] \in Nodes(chain)
  <2> SUFFICES ASSUME NEW k \in 1 .. n
               PROVE  saved[n - k + 1][1] \in Places(chain) /\ saved[n - k + 1][2] \in Nodes(chain)
    OBVIOUS
  <2>1. n - k + 1 \in 1 .. n
    BY <1>0
  <2>2. saved[n - k + 1] \in Changes(chain)
    BY <2>1
  <2> QED BY <2>2 DEF Changes
<1>2. \A x \in T, k \in 1 .. n : Undo(x, k) \in T
  BY <1>1
<1> HIDE DEF Undo, T
<1>3. step \in [T \X (1 .. n) -> T]
  BY <1>2
<1>4. PICK f \in [0 .. n -> T] : Follows(f, n, first, step)
  <2> HIDE DEF step, n
  <2> QED BY <1>0, <1>3, Recursion
<1>5. Walks(f)
  <2>1. ASSUME NEW k \in 1 .. n
        PROVE  f[k] = Undo(f[k - 1], k)
    <3>1. k - 1 \in 0 .. n
      BY <1>0
    <3>2. <<f[k - 1], k>> \in T \X (1 .. n)
      BY <3>1
    <3>3. step[<<f[k - 1], k>>] = Undo(f[k - 1], k)
      BY <3>2
    <3> HIDE DEF step
    <3> QED BY <1>4, <3>3 DEF Follows
  <2> QED BY <1>4, <2>1 DEF Follows
<1>6. Walks(u)
  BY <1>5 DEF Undone, Undo
<1>7. u[0] = first /\ \A k \in 1 .. n : u[k] = Undo(u[k - 1], k)
  BY <1>0, <1>6
<1>8. \A k \in 0 .. n : u[k] \in T
  <2> DEFINE G == {k \in 0 .. n : u[k] \in T}
  <2>1. 0 \in G
    BY <1>0, <1>7
  <2>2. \A k \in 1 .. n : k - 1 \in G => k \in G
    BY <1>2, <1>7
  <2> HIDE DEF G
  <2>3. \A k \in 0 .. n : k \in G
    BY <1>0, <2>1, <2>2, UpTo
  <2> QED BY <2>3 DEF G
<1> QED BY <1>7, <1>8 DEF Undo, T

\* Undone, the youngest first, the changes leave every link as it was.
LEMMA Undoes ==
  ASSUME NEW S, NEW chain \in Seq(S), NEW next \in [Places(chain) -> Nodes(chain)],
         NEW s, Remembers(chain, next, s)
  PROVE  restore_pnext(s.next, s.saved) = next
<1> DEFINE saved == s.saved
           n == Len(saved)
           u == Undone(s.next, saved)
           Late(k) == (n - k + 1) .. n
           Kept(k) == \A a \in Places(chain) :
             /\ (\A j \in Late(k) : saved[j][1] # a) => u[k][a] = s.next[a]
             /\ \A j \in Late(k) :
                  saved[j][1] = a /\ (\A l \in Late(k) : l < j => saved[l][1] # a)
                    => u[k][a] = saved[j][2]
           G == {k \in 0 .. n : Kept(k)}
<1>0. /\ n \in Nat /\ saved \in Seq(Changes(chain)) /\ DOMAIN saved = 1 .. n
      /\ s.next \in [Places(chain) -> Nodes(chain)]
  BY DEF Remembers, Strips
<1>1. /\ u[0] = s.next
      /\ \A k \in 1 .. n : u[k] = [u[k - 1] EXCEPT ![saved[n - k + 1][1]] = saved[n - k + 1][2]]
      /\ \A k \in 0 .. n : u[k] \in [Places(chain) -> Nodes(chain)]
  <2> HIDE DEF u, saved
  <2> QED BY <1>0, UndoWalks DEF u
<1> HIDE DEF u, n
<1>2. 0 \in G
  <2>1. Late(0) = {}
    BY <1>0
  <2> QED BY <1>0, <1>1, <2>1
<1>3. ASSUME NEW k \in 1 .. n, k - 1 \in G  PROVE k \in G
  <2> DEFINE m == n - k + 1
  <2>1. /\ m \in Late(k) /\ k - 1 \in 0 .. n
        /\ \A j \in Late(k) : j = m \/ (j \in Late(k - 1) /\ m < j)
        /\ \A j \in Late(k - 1) : j \in Late(k) /\ m < j
    BY <1>0
  <2>2. u[k] = [u[k - 1] EXCEPT ![saved[m][1]] = saved[m][2]]
    BY <1>1
  <2>3. u[k - 1] \in [Places(chain) -> Nodes(chain)]
    BY <1>1, <2>1
  <2> HIDE DEF m, Late
  <2>4. ASSUME NEW a \in Places(chain), \A j \in Late(k) : saved[j][1] # a
        PROVE  u[k][a] = s.next[a]
    <3>1. u[k - 1][a] = s.next[a]
      BY <1>3, <2>1, <2>4
    <3> QED BY <2>1, <2>2, <2>3, <2>4, <3>1
  <2>5. ASSUME NEW a \in Places(chain), NEW j \in Late(k), saved[j][1] = a,
               \A l \in Late(k) : l < j => saved[l][1] # a
        PROVE  u[k][a] = saved[j][2]
    <3>1. CASE j = m
      BY <2>2, <2>3, <2>5, <3>1
    <3>2. CASE j \in Late(k - 1) /\ m < j
      <4>1. saved[m][1] # a
        BY <2>1, <2>5, <3>2
      <4>2. u[k - 1][a] = saved[j][2]
        BY <1>3, <2>1, <2>5, <3>2
      <4> QED BY <2>2, <2>3, <4>1, <4>2
    <3> QED BY <2>1, <3>1, <3>2
  <2>6. k \in 0 .. n
    BY <1>0
  <2> QED BY <2>4, <2>5, <2>6
<1>4. Kept(n)
  <2> HIDE DEF G
  <2>1. \A k \in 0 .. n : k \in G
    BY <1>0, <1>2, <1>3, UpTo
  <2>2. n \in G
    BY <1>0, <2>1
  <2> QED BY <2>2 DEF G
<1>5. Late(n) = 1 .. n
  BY <1>0
<1> HIDE DEF Late
<1>6. ASSUME NEW a \in Places(chain)  PROVE u[n][a] = next[a]
  <2>1. CASE \A j \in 1 .. n : saved[j][1] # a
    BY <1>0, <1>4, <1>5, <2>1 DEF Remembers
  <2>2. CASE \E j \in 1 .. n : saved[j][1] = a
    <3> DEFINE T == {j \in 1 .. n : saved[j][1] = a}
    <3>1. T \subseteq Nat /\ T # {}
      BY <2>2
    <3>2. PICK j \in T : \A l \in T : j <= l
      BY <3>1, Least
    <3>3. j \in 1 .. n /\ saved[j][1] = a /\ \A l \in 1 .. n : l < j => saved[l][1] # a
      BY <1>0, <3>2
    <3>4. u[n][a] = saved[j][2]
      BY <1>4, <1>5, <3>3
    <3>5. saved[j][2] = next[a]
      BY <1>0, <3>3 DEF Remembers
    <3> QED BY <3>4, <3>5
  <2> QED BY <2>1, <2>2
<1>7. u[n] \in [Places(chain) -> Nodes(chain)]
  BY <1>0, <1>1
<1>8. u[n] = next
  BY <1>6, <1>7
<1> QED BY <1>8 DEF restore_pnext, u, n

\* Stripped and restored, a chain has the links it had.
LEMMA ChainRestored ==
  ASSUME NEW S, NEW chain \in Seq(S), NEW head \in Nodes(chain),
         NEW next \in [Places(chain) -> Nodes(chain)], NEW kinds,
         NEW st, st = strip_synthetic_pnext_structures(chain, head, next, kinds)
  PROVE  /\ st \in Strips(chain)
         /\ restore_pnext(st.next, st.saved) = next
<1>1. Remembers(chain, next, st)
  BY StripRemembers
<1> QED BY <1>1, Undoes DEF Remembers

LEMMA LinksOfChain ==
  ASSUME NEW S, NEW chain \in Seq(S)
  PROVE  First(chain) \in Nodes(chain) /\ Links(chain) \in [Places(chain) -> Nodes(chain)]
BY DEF First, Links, Places, Nodes

\* Nothing is left of the edits of one attempt, nor of those of two.
LEMMA QueueRestored ==
  ASSUME NEW q, q.chain \in Seq(Structures), NEW kinds, NEW again \in BOOLEAN,
         NEW one, \/ one = Strip(q, kinds)
                  \/ one = [Strip(q, kinds) EXCEPT !.head = First(q.chain)],
         NEW two, two = IF again
                        THEN strip_synthetic_pnext_structures(q.chain, one.head, one.next, {"priority"})
                        ELSE StripStart(one.head, one.next)
  PROVE  restore_pnext(restore_pnext(two.next, two.saved), one.saved) = Links(q.chain)
<1> DEFINE st == Strip(q, kinds)
<1>0. First(q.chain) \in Nodes(q.chain) /\ Links(q.chain) \in [Places(q.chain) -> Nodes(q.chain)]
  BY LinksOfChain
<1>1. st \in Strips(q.chain) /\ restore_pnext(st.next, st.saved) = Links(q.chain)
  BY <1>0, ChainRestored DEF Strip
<1> HIDE DEF st
<1>2. one.next = st.next /\ one.saved = st.saved /\ one.head \in Nodes(q.chain)
  BY <1>0, <1>1 DEF Strips, st
<1>3. one.next \in [Places(q.chain) -> Nodes(q.chain)]
  BY <1>1, <1>2 DEF Strips
<1>4. restore_pnext(two.next, two.saved) = one.next
  <2>1. CASE again
    BY <1>2, <1>3, <2>1, ChainRestored
  <2>2. CASE ~again
    <3>1. two.next = one.next /\ two.saved = <<>>
      BY <2>2 DEF StripStart
    <3>2. Remembers(q.chain, one.next, two)
      <4>1. two \in Strips(q.chain)
        BY <1>2, <1>3, <2>2 DEF StripStart, Strips, Nodes
      <4>2. DOMAIN <<>> = {}
        OBVIOUS
      <4> QED BY <3>1, <4>1, <4>2 DEF Remembers
    <3> QED BY <1>3, <3>2, Undoes
  <2> QED BY <2>1, <2>2
<1> QED BY <1>1, <1>2, <1>4

\* Both kinds of chains of a request are restored.
LEMMA RequestRestored ==
  ASSUME NEW p \in Physical, NEW r \in Requests[p], NEW a, NEW s, NEW again \in BOOLEAN
  PROVE  MemoryAfter(r, a, s, again)
           = <<Links(r.chain), [i \in DOMAIN r.queues |-> Links(r.queues[i].chain)]>>
<1>1. r.chain \in Seq(Structures) /\ \A i \in DOMAIN r.queues : r.queues[i].chain \in Seq(Structures)
  <2> DEFINE Q == [family : Nat, flags : BOOLEAN, chain : Seq(Structures)]
  <2>1. r.chain \in Seq(Structures) /\ r.queues \in Seq(Q)
    BY RequestAssumption
  <2>2. \A q \in Q : q.chain \in Seq(Structures)
    OBVIOUS
  <2> HIDE DEF Q
  <2>3. \A i \in DOMAIN r.queues : r.queues[i] \in Q
    BY <2>1
  <2> QED BY <2>1, <2>2, <2>3
<1> DEFINE features == Strip(r, is_synthetic_present_feature(s))
           one(q) == IF a.available THEN QueueStrip(q, r.queues, s) ELSE Strip(q, {})
           two(q) == IF again
                     THEN strip_synthetic_pnext_structures(q.chain, one(q).head, one(q).next, {"priority"})
                     ELSE StripStart(one(q).head, one(q).next)
           queue(q) == restore_pnext(restore_pnext(two(q).next, two(q).saved), one(q).saved)
<1>2. restore_pnext(features.next, features.saved) = Links(r.chain)
  BY <1>1, LinksOfChain, ChainRestored DEF Strip
<1>3. ASSUME NEW q, q.chain \in Seq(Structures)
      PROVE  queue(q) = Links(q.chain)
  <2>1. \E kinds : one(q) = Strip(q, kinds) \/ one(q) = [Strip(q, kinds) EXCEPT !.head = First(q.chain)]
    BY DEF QueueStrip
  <2> HIDE DEF one
  <2> QED BY <1>3, <2>1, QueueRestored
<1>4. MemoryAfter(r, a, s, again)
        = <<restore_pnext(features.next, features.saved), [i \in DOMAIN r.queues |-> queue(r.queues[i])]>>
  BY DEF MemoryAfter
<1> HIDE DEF features, queue
<1> QED BY <1>1, <1>2, <1>3, <1>4

LEMMA MemoryStep == MemoryRestored /\ [Next]_vars => MemoryRestored'
<1> SUFFICES ASSUME MemoryRestored, [Next]_vars  PROVE MemoryRestored'
  OBVIOUS
<1>1. CASE last' = last
  BY <1>1 DEF MemoryRestored
<1>2. ASSUME NEW p \in Physical, NEW r \in Requests[p], NEW result, NEW second,
             vkCreateDevice(p, r, result, second)
      PROVE  MemoryRestored'
  <2> DEFINE before == <<Links(r.chain), [i \in DOMAIN r.queues |-> Links(r.queues[i].chain)]>>
             after(again) == MemoryAfter(r, Refreshed(p), synth, again)
  <2>1. \E given, final, again :
          /\ again \in BOOLEAN
          /\ last' = [fn |-> "vkCreateDevice", pd |-> p, request |-> r, seen |-> given, result |-> final,
                      before |-> before, after |-> after(again)]
    <3> DEFINE secondTry == /\ result = NotPermitted /\ bridge
                             /\ AsksPriority(Effective(p, r, Refreshed(p), synth))
    <3> HIDE DEF before, after
    <3>1. secondTry \in BOOLEAN
      OBVIOUS
    <3> QED BY <1>2, <3>1 DEF vkCreateDevice, before, after
  <2>2. \A again \in BOOLEAN : after(again) = before
    BY RequestRestored
  <2> HIDE DEF before, after
  <2> QED BY <2>1, <2>2 DEF MemoryRestored
<1>3. ASSUME last'.fn # "vkCreateDevice"  PROVE MemoryRestored'
  BY <1>3 DEF MemoryRestored
<1>4. ASSUME NEW p \in Physical, NEW capacity,
             \/ vkEnumerateDeviceExtensionProperties(p, capacity)
             \/ vkGetPhysicalDeviceQueueFamilyProperties(p, capacity)
      PROVE  last'.fn # "vkCreateDevice"
  <2>1. \A fn, list : Answer(fn, list, capacity).fn = fn
                     /\ [Answer(fn, list, capacity) EXCEPT !.result = 0].fn = fn
    BY DEF Answer
  <2> QED BY <1>4, <2>1
          DEF vkEnumerateDeviceExtensionProperties, vkGetPhysicalDeviceQueueFamilyProperties
<1>5. ASSUME \/ \E p \in Physical : \/ vkGetPhysicalDeviceFeatures2(p) \/ vkWaitForPresentKHR(p)
                                   \/ \E f \in Families2 : vkCreateCommandPool(p, f)
             \/ \E t \in Threads : \/ \E p \in Physical, f \in Families2 : vkGetDeviceQueue(t, p, f)
                                  \/ Call(t) \/ \E chain : vkQueuePresentKHR(t, chain)
      PROVE  last'.fn # "vkCreateDevice"
  BY <1>5 DEF vkGetPhysicalDeviceFeatures2, vkWaitForPresentKHR, vkCreateCommandPool, vkGetDeviceQueue,
              ToHost, Call, vkQueuePresentKHR, NoCall
<1>6. ASSUME \/ CreateInstance \/ UNCHANGED vars
             \/ \E t \in Threads : lock_aliased_queue_operations(t) \/ Return(t)
      PROVE  last' = last
  BY <1>6 DEF CreateInstance, vars, lock_aliased_queue_operations, Return
<1> QED BY <1>1, <1>2, <1>3, <1>4, <1>5, <1>6
        DEF Next, Ask, Use, vkGetPhysicalDeviceQueueFamilyProperties2, vkGetDeviceQueue2

(* Whatever chains a request has, and however many of their structures are   *)
(* taken out, the application finds them linked as it linked them when the   *)
(* call returns (vkCreateDevice, restore_pnext): MemoryRestored.             *)
THEOREM MemoryAlwaysRestored == Spec => []MemoryRestored
<1>1. Init => MemoryRestored
  BY DEF Init, MemoryRestored, NoCall
<1> QED BY <1>1, MemoryStep, PTL DEF Spec

-----------------------------------------------------------------------------
(* What the host sees.  The flags of the shim describe the device asked last *)
(* and an application that keeps to one was shown what they say, so what is  *)
(* taken out is what is pretended.  That nothing else is taken out is a      *)
(* matter of walks: the links a strip leaves lead from each structure that   *)
(* stays to the next that stays, and a walk over them finds those.           *)

\* A part of a sequence is its elements in S: every one of them, each once.
Retains(T, s, S, o) ==
  /\ o \in [0 .. Len(s) -> Seq(T)]
  /\ Retained(s, S) = o[Len(s)] /\ o[0] = <<>>
  /\ \A i \in 1 .. Len(s) : o[i] = IF s[i] \in S THEN Append(o[i - 1], s[i]) ELSE o[i - 1]

LEMMA RetainedWalks ==
  ASSUME NEW T, NEW s \in Seq(T), NEW S
  PROVE  \E o : Retains(T, s, S, o)
<1> DEFINE n == Len(s)
           Longer(x, i) == IF s[i] \in S THEN Append(x, s[i]) ELSE x
           step == [x \in Seq(T) \X (1 .. n) |-> Longer(x[1], x[2])]
           Walks(f) == f = [i \in 0 .. n |-> IF i = 0 THEN <<>> ELSE Longer(f[i - 1], i)]
           kept == CHOOSE f : Walks(f)
<1>0. n \in Nat /\ <<>> \in Seq(T)
  OBVIOUS
<1>1. \A x \in Seq(T), i \in 1 .. n : Longer(x, i) \in Seq(T)
  OBVIOUS
<1> HIDE DEF Longer
<1>2. step \in [Seq(T) \X (1 .. n) -> Seq(T)]
  BY <1>1
<1>3. PICK f \in [0 .. n -> Seq(T)] : Follows(f, n, <<>>, step)
  <2> HIDE DEF step, n
  <2> QED BY <1>0, <1>2, Recursion
<1>4. Walks(f)
  <2>1. ASSUME NEW i \in 1 .. n
        PROVE  f[i] = Longer(f[i - 1], i)
    <3>1. i - 1 \in 0 .. n
      BY <1>0
    <3>2. <<f[i - 1], i>> \in Seq(T) \X (1 .. n)
      BY <3>1
    <3>3. step[<<f[i - 1], i>>] = Longer(f[i - 1], i)
      BY <3>2
    <3> HIDE DEF step
    <3> QED BY <1>3, <3>3 DEF Follows
  <2> QED BY <1>3, <2>1 DEF Follows
<1>5. Walks(kept)
  BY <1>4
<1>6. Retained(s, S) = kept[n]
  BY DEF Retained, Longer
<1> HIDE DEF kept, n
<1>7. kept[0] = <<>> /\ \A i \in 1 .. n : kept[i] = Longer(kept[i - 1], i)
  BY <1>0, <1>5
<1>8. kept \in [0 .. n -> Seq(T)]
  <2> DEFINE G == {i \in 0 .. n : kept[i] \in Seq(T)}
  <2>1. 0 \in G
    <3>1. kept[0] \in Seq(T)
      <4> HIDE DEF G
      <4> QED BY <1>0, <1>7
    <3>2. 0 \in 0 .. n
      BY <1>0
    <3> QED BY <3>1, <3>2
  <2>2. \A i \in 1 .. n : i - 1 \in G => i \in G
    BY <1>1, <1>7
  <2> HIDE DEF G
  <2>3. \A i \in 0 .. n : i \in G
    BY <1>0, <2>1, <2>2, UpTo
  <2>4. \A i \in 0 .. n : kept[i] \in Seq(T)
    BY <2>3 DEF G
  <2> QED BY <1>5, <2>4
<1>9. Retains(T, s, S, kept)
  BY <1>6, <1>7, <1>8 DEF Retains, Longer, n
<1> QED BY <1>9

\* r is a part of the first i elements of s, and has all of them that are in S.
Picks(s, S, i, r, e) ==
  /\ e \in [1 .. Len(r) -> 1 .. i] /\ IsInjective(e)
  /\ \A j \in 1 .. Len(r) : r[j] = s[e[j]] /\ r[j] \in S
  /\ \A l \in 1 .. i : s[l] \in S => \E j \in 1 .. Len(r) : e[j] = l

LEMMA RetainedPicks ==
  ASSUME NEW T, NEW s \in Seq(T), NEW S
  PROVE  /\ Retained(s, S) \in Seq(T)
         /\ \E e : Picks(s, S, Len(s), Retained(s, S), e)
<1>a. PICK o : Retains(T, s, S, o)
  BY RetainedWalks
<1> DEFINE n == Len(s)
<1>0. n \in Nat /\ \A l \in 1 .. n : s[l] \in T
  OBVIOUS
<1>1. /\ o \in [0 .. n -> Seq(T)] /\ Retained(s, S) = o[n] /\ o[0] = <<>>
      /\ \A i \in 1 .. n : o[i] = IF s[i] \in S THEN Append(o[i - 1], s[i]) ELSE o[i - 1]
  BY <1>a DEF Retains
<1> DEFINE G == {i \in 0 .. n : \E e : Picks(s, S, i, o[i], e)}
<1> HIDE DEF n
<1>2. 0 \in G
  <2>1. Len(<<>>) = 0
    OBVIOUS
  <2>2. Picks(s, S, 0, <<>>, [j \in 1 .. 0 |-> 0])
    BY <2>1 DEF Picks, IsInjective
  <2> QED BY <1>0, <1>1, <2>2
<1>3. ASSUME NEW i \in 1 .. n, i - 1 \in G  PROVE i \in G
  <2> DEFINE r == o[i - 1]
             m == Len(r)
  <2>0. r \in Seq(T) /\ m \in Nat
    <3>1. i - 1 \in 0 .. n
      BY <1>0
    <3>2. r \in Seq(T)
      BY <1>1, <3>1
    <3> QED BY <3>2
  <2>1. PICK e : Picks(s, S, i - 1, r, e)
    BY <1>3
  <2>2. CASE s[i] \notin S
    <3>1. o[i] = r
      BY <1>1, <2>2
    <3>2. Picks(s, S, i, r, e)
      <4>1. \A l \in 1 .. i : s[l] \in S => l \in 1 .. (i - 1)
        BY <2>2
      <4>2. e \in [1 .. m -> 1 .. i]
        BY <2>1 DEF Picks
      <4> HIDE DEF r, m
      <4> QED BY <2>1, <4>1, <4>2 DEF Picks, m
    <3> QED BY <1>0, <3>1, <3>2
  <2>3. CASE s[i] \in S
    <3> DEFINE t == Append(r, s[i])
               g == [j \in 1 .. (m + 1) |-> IF j = m + 1 THEN i ELSE e[j]]
    <3>1. o[i] = t
      BY <1>1, <2>3
    <3>2. s[i] \in T
      BY <1>0
    <3> HIDE DEF r
    <3>3. Len(t) = m + 1 /\ t[m + 1] = s[i] /\ \A j \in 1 .. m : t[j] = r[j]
      BY <2>0, <3>2
    <3> HIDE DEF t, m
    <3>4. /\ e \in [1 .. m -> 1 .. (i - 1)] /\ IsInjective(e)
          /\ \A j \in 1 .. m : r[j] = s[e[j]] /\ r[j] \in S
          /\ \A l \in 1 .. (i - 1) : s[l] \in S => \E j \in 1 .. m : e[j] = l
      BY <2>1 DEF Picks, m
    <3>5. \A j \in 1 .. (m + 1) : j = m + 1 \/ (j \in 1 .. m /\ j # m + 1)
      BY <2>0
    <3>6. /\ \A j \in 1 .. m : j \in 1 .. (m + 1) /\ j # m + 1 /\ g[j] = e[j] /\ e[j] # i /\ e[j] \in 1 .. i
          /\ m + 1 \in 1 .. (m + 1) /\ g[m + 1] = i
      <4>1. \A j \in 1 .. m : j \in 1 .. (m + 1) /\ j # m + 1
        BY <2>0
      <4>2. \A j \in 1 .. m : e[j] # i /\ e[j] \in 1 .. i
        BY <3>4
      <4>3. m + 1 \in 1 .. (m + 1)
        BY <2>0
      <4> QED BY <4>1, <4>2, <4>3
    <3>7. g \in [1 .. (m + 1) -> 1 .. i]
      <4>1. i \in 1 .. i
        OBVIOUS
      <4>2. \A j \in 1 .. (m + 1) : (IF j = m + 1 THEN i ELSE e[j]) \in 1 .. i
        BY <3>5, <3>6, <4>1
      <4> QED BY <4>2
    <3>8. IsInjective(g)
      <4>1. \A a, b \in 1 .. m : g[a] = g[b] => a = b
        BY <3>4, <3>6 DEF IsInjective
      <4>2. \A a \in 1 .. m : g[a] # g[m + 1]
        BY <3>6
      <4>3. DOMAIN g = 1 .. (m + 1)
        OBVIOUS
      <4> HIDE DEF g
      <4> QED BY <3>5, <4>1, <4>2, <4>3 DEF IsInjective
    <3> HIDE DEF g
    <3>9. \A j \in 1 .. (m + 1) : t[j] = s[g[j]] /\ t[j] \in S
      BY <2>3, <3>3, <3>4, <3>5, <3>6
    <3>10. \A l \in 1 .. i : s[l] \in S => \E j \in 1 .. (m + 1) : g[j] = l
      <4>1. \A l \in 1 .. i : l = i \/ l \in 1 .. (i - 1)
        OBVIOUS
      <4> QED BY <3>4, <3>6, <4>1
    <3>11. Picks(s, S, i, t, g)
      BY <3>3, <3>7, <3>8, <3>9, <3>10 DEF Picks
    <3> QED BY <1>0, <3>1, <3>11
  <2> QED BY <2>2, <2>3
<1> HIDE DEF G
<1>4. \A i \in 0 .. n : i \in G
  BY <1>0, <1>2, <1>3, UpTo
<1>5. n \in 0 .. n
  BY <1>0
<1> QED BY <1>1, <1>4, <1>5 DEF G, n

\* x is the first structure behind j that stays, or 0 when none does.
Behind(chain, kinds, j, x) ==
  /\ x \in Nodes(chain)
  /\ x # 0 => j < x /\ chain[x] \notin kinds
  /\ \A l \in Places(chain) : j < l /\ chain[l] \notin kinds => x # 0 /\ x <= l

After(chain, i) == IF i < Len(chain) THEN i + 1 ELSE 0

\* What the first i structures have left: prev is the last that stays.
LeftBy(chain, kinds, i, s) ==
  /\ s \in Strips(chain) /\ s.at = After(chain, i) /\ Len(s.saved) <= i
  /\ s.prev <= i /\ (s.prev # 0 => chain[s.prev] \notin kinds)
  /\ \A l \in Places(chain) : s.prev < l /\ l <= i => chain[l] \in kinds
  /\ IF s.prev = 0 THEN s.head = s.at
     ELSE s.next[s.prev] = s.at /\ Behind(chain, kinds, 0, s.head)
  /\ \A j \in Places(chain) :
       /\ j < s.prev /\ chain[j] \notin kinds => Behind(chain, kinds, j, s.next[j])
       /\ i < j => s.next[j] = After(chain, j)

LEMMA StepLeaves ==
  ASSUME NEW S, NEW chain \in Seq(S), Len(chain) <= MaxPNext, NEW kinds, NEW i \in Places(chain),
         NEW s, LeftBy(chain, kinds, i - 1, s), NEW t, t = StripStep(chain, kinds, s)
  PROVE  LeftBy(chain, kinds, i, t)
<1> DEFINE n == Len(chain)
           behind == s.next[s.at]
<1>0. /\ n \in Nat /\ i \in 1 .. n /\ Places(chain) = 1 .. n /\ Nodes(chain) = 0 .. n
      /\ MaxPNext \in Nat /\ n <= MaxPNext
  BY ShimAssumption DEF Places, Nodes
<1>1. /\ s.at \in Nodes(chain) /\ s.head \in Nodes(chain) /\ s.prev \in Nodes(chain)
      /\ s.next \in [Places(chain) -> Nodes(chain)] /\ s.saved \in Seq(Changes(chain))
      /\ s = [at |-> s.at, head |-> s.head, prev |-> s.prev, next |-> s.next, saved |-> s.saved]
      /\ Len(s.saved) \in Nat
  BY DEF LeftBy, Strips
<1>2. s.at = i /\ behind = After(chain, i) /\ behind \in Nodes(chain)
  <2>1. s.at = i
    BY <1>0 DEF LeftBy, After
  <2>2. s.next[i] = After(chain, i)
    BY <1>0 DEF LeftBy
  <2> QED BY <1>0, <2>1, <2>2 DEF After
<1>3. /\ Len(s.saved) <= i - 1 /\ s.prev <= i - 1
      /\ s.prev # 0 => chain[s.prev] \notin kinds
      /\ \A l \in 1 .. n : s.prev < l /\ l < i => chain[l] \in kinds
      /\ s.prev = 0 => s.head = i
      /\ s.prev # 0 => s.next[s.prev] = i /\ Behind(chain, kinds, 0, s.head)
      /\ \A j \in 1 .. n : /\ j < s.prev /\ chain[j] \notin kinds => Behind(chain, kinds, j, s.next[j])
                           /\ i <= j => s.next[j] = After(chain, j)
  BY <1>0, <1>1, <1>2 DEF LeftBy
<1>4. t \in Strips(chain)
  BY StripSteps DEF LeftBy
<1> HIDE DEF behind, n
<1>5. CASE chain[i] \notin kinds
  <2>1. t = [s EXCEPT !.at = behind, !.prev = i]
    BY <1>0, <1>2, <1>5 DEF StripStep, behind
  <2>2. t.at = behind /\ t.prev = i /\ t.head = s.head /\ t.next = s.next /\ t.saved = s.saved
    BY <1>1, <2>1
  <2>3. Behind(chain, kinds, 0, s.head)
    <3>1. CASE s.prev = 0
      BY <1>0, <1>3, <1>5, <3>1 DEF Behind
    <3> QED BY <1>3, <3>1
  <2>4. ASSUME NEW j \in 1 .. n, j < i, chain[j] \notin kinds
        PROVE  Behind(chain, kinds, j, s.next[j])
    <3>1. j <= s.prev
      BY <1>0, <1>1, <1>3, <2>4
    <3>2. CASE j = s.prev
      <4>1. j # 0 /\ s.next[j] = i
        BY <1>3, <2>4, <3>2
      <4>2. \A l \in 1 .. n : j < l /\ chain[l] \notin kinds => i <= l
        BY <1>0, <1>3, <3>2
      <4> QED BY <1>0, <1>5, <2>4, <4>1, <4>2 DEF Behind
    <3>3. CASE j < s.prev
      BY <1>3, <2>4, <3>3
    <3> QED BY <1>0, <1>1, <3>1, <3>2, <3>3
  <2>5. \A j \in 1 .. n : i < j => s.next[j] = After(chain, j)
    BY <1>0, <1>3
  <2>6. s.next[i] = After(chain, i) /\ i # 0 /\ Len(s.saved) <= i
    BY <1>0, <1>1, <1>2, <1>3 DEF behind
  <2>7. \A l \in 1 .. n : ~(i < l /\ l <= i)
    BY <1>0
  <2> QED BY <1>0, <1>2, <1>4, <1>5, <2>2, <2>3, <2>4, <2>5, <2>6, <2>7 DEF LeftBy
<1>6. CASE chain[i] \in kinds
  <2>1. \A l \in 1 .. n : s.prev < l /\ l <= i => chain[l] \in kinds
    BY <1>0, <1>1, <1>3, <1>6
  <2>2. CASE s.prev = 0
    <3>1. t = [s EXCEPT !.at = behind, !.head = behind]
      BY <1>0, <1>2, <1>6, <2>2 DEF StripStep, behind
    <3>2. t.at = behind /\ t.prev = 0 /\ t.head = behind /\ t.next = s.next /\ t.saved = s.saved
      BY <1>1, <2>2, <3>1
    <3>3. \A j \in 1 .. n : ~(j < 0) /\ (i < j => s.next[j] = After(chain, j))
      BY <1>0, <1>3
    <3>4. Len(s.saved) <= i /\ 0 <= i
      BY <1>0, <1>1, <1>3
    <3> QED BY <1>0, <1>2, <1>4, <2>1, <2>2, <3>2, <3>3, <3>4 DEF LeftBy
  <2>3. CASE s.prev # 0
    <3>1. Len(s.saved) < MaxPNext
      BY <1>0, <1>1, <1>3
    <3>2. t = [s EXCEPT !.at = behind, !.next[s.prev] = behind,
                        !.saved = Append(@, <<s.prev, s.next[s.prev]>>)]
      BY <1>0, <1>2, <1>6, <2>3, <3>1 DEF StripStep, behind
    <3>3. s.prev \in 1 .. n
      BY <1>0, <1>1, <2>3
    <3>4. /\ t.at = behind /\ t.prev = s.prev /\ t.head = s.head
          /\ t.next[s.prev] = behind
          /\ \A j \in 1 .. n : j # s.prev => t.next[j] = s.next[j]
          /\ t.saved = Append(s.saved, <<s.prev, s.next[s.prev]>>)
      BY <1>0, <1>1, <3>2, <3>3
    <3>5. Len(t.saved) <= i
      <4>1. Len(t.saved) = Len(s.saved) + 1
        <5>1. <<s.prev, s.next[s.prev]>> \in Changes(chain)
          BY <1>0, <1>1, <3>3 DEF Changes
        <5> QED BY <1>1, <3>4, <5>1
      <4> QED BY <1>0, <1>1, <1>3, <4>1
    <3>6. \A j \in 1 .. n :
            /\ j < s.prev /\ chain[j] \notin kinds => Behind(chain, kinds, j, t.next[j])
            /\ i < j => t.next[j] = After(chain, j)
      <4> SUFFICES ASSUME NEW j \in 1 .. n
                   PROVE  /\ j < s.prev /\ chain[j] \notin kinds => Behind(chain, kinds, j, t.next[j])
                          /\ i < j => t.next[j] = After(chain, j)
        OBVIOUS
      <4>1. j < s.prev \/ i < j => j # s.prev
        BY <1>0, <1>1, <1>3
      <4>2. j # s.prev => t.next[j] = s.next[j]
        BY <3>4
      <4>3. i < j => s.next[j] = After(chain, j)
        BY <1>0, <1>3
      <4> QED BY <1>3, <4>1, <4>2, <4>3
    <3>7. s.prev <= i /\ chain[s.prev] \notin kinds /\ Behind(chain, kinds, 0, s.head)
      BY <1>0, <1>1, <1>3, <2>3
    <3> QED BY <1>0, <1>2, <1>4, <2>1, <2>3, <3>4, <3>5, <3>6, <3>7 DEF LeftBy
  <2> QED BY <2>2, <2>3
<1> QED BY <1>5, <1>6

\* The head and every structure that stays link to the next that stays.
LEMMA StripLeaves ==
  ASSUME NEW S, NEW chain \in Seq(S), Len(chain) <= MaxPNext, NEW kinds,
         NEW st, st = strip_synthetic_pnext_structures(chain, First(chain), Links(chain), kinds)
  PROVE  /\ st \in Strips(chain) /\ Behind(chain, kinds, 0, st.head)
         /\ \A j \in Places(chain) : chain[j] \notin kinds => Behind(chain, kinds, j, st.next[j])
<1> DEFINE n == Len(chain)
           w == StripWalk(chain, First(chain), Links(chain), kinds)
           G == {i \in 0 .. n : LeftBy(chain, kinds, i, w[i])}
<1>0. n \in Nat /\ Places(chain) = 1 .. n /\ Nodes(chain) = 0 .. n /\ MaxPNext \in Nat /\ n <= MaxPNext
  BY ShimAssumption DEF Places, Nodes
<1>1. First(chain) \in Nodes(chain) /\ Links(chain) \in [Places(chain) -> Nodes(chain)]
  BY LinksOfChain
<1>2. /\ w[0] = StripStart(First(chain), Links(chain)) /\ w[0] \in Strips(chain)
      /\ \A i \in Places(chain) : w[i] = StripStep(chain, kinds, w[i - 1])
  BY <1>1, StripWalks
<1>3. st = w[n]
  BY <1>0 DEF strip_synthetic_pnext_structures
<1> HIDE DEF w
<1>4. 0 \in G
  <2>1. First(chain) = After(chain, 0)
    BY <1>0 DEF First, After
  <2>2. \A j \in 1 .. n : Links(chain)[j] = After(chain, j)
    BY <1>0 DEF Links, After
  <2>3. /\ w[0].at = First(chain) /\ w[0].head = First(chain) /\ w[0].prev = 0
        /\ w[0].next = Links(chain) /\ w[0].saved = <<>>
    BY <1>2 DEF StripStart
  <2>4. Len(<<>>) = 0
    OBVIOUS
  <2>5. \A j \in 1 .. n : ~(j < 0) /\ ~(0 < j /\ j <= 0)
    BY <1>0
  <2>6. LeftBy(chain, kinds, 0, w[0])
    BY <1>0, <1>2, <2>1, <2>2, <2>3, <2>4, <2>5 DEF LeftBy
  <2> QED BY <1>0, <2>6
<1>5. \A i \in 1 .. n : i - 1 \in G => i \in G
  <2> SUFFICES ASSUME NEW i \in 1 .. n, LeftBy(chain, kinds, i - 1, w[i - 1])
               PROVE  LeftBy(chain, kinds, i, w[i])
    BY <1>0
  <2> QED BY <1>0, <1>2, StepLeaves
<1> HIDE DEF G
<1>6. \A i \in 0 .. n : i \in G
  BY <1>0, <1>4, <1>5, UpTo
<1>7. LeftBy(chain, kinds, n, st)
  BY <1>0, <1>3, <1>6 DEF G
<1> HIDE DEF n
<1>8. st.at = 0 /\ st.prev \in 0 .. n /\ st \in Strips(chain)
  <2>1. st.at = 0
    BY <1>0, <1>7 DEF LeftBy, After, n
  <2> QED BY <1>0, <1>7, <2>1 DEF LeftBy, Strips
<1>9. \A l \in 1 .. n : st.prev < l => chain[l] \in kinds
  BY <1>0, <1>7 DEF LeftBy
<1>10. Behind(chain, kinds, 0, st.head)
  <2>1. CASE st.prev = 0
    <3>1. st.head = 0
      BY <1>7, <1>8, <2>1 DEF LeftBy
    <3> QED BY <1>0, <1>9, <2>1, <3>1 DEF Behind
  <2>2. CASE st.prev # 0
    BY <1>7, <2>2 DEF LeftBy
  <2> QED BY <2>1, <2>2
<1>11. ASSUME NEW j \in 1 .. n, chain[j] \notin kinds
       PROVE  Behind(chain, kinds, j, st.next[j])
  <2>1. j <= st.prev
    BY <1>8, <1>9, <1>11
  <2>2. CASE j < st.prev
    BY <1>0, <1>7, <1>11, <2>2 DEF LeftBy
  <2>3. CASE j = st.prev
    <3>1. st.next[j] = 0
      BY <1>7, <1>8, <1>11, <2>3 DEF LeftBy
    <3>2. \A l \in 1 .. n : j < l => chain[l] \in kinds
      BY <1>9, <2>3
    <3> QED BY <1>0, <3>1, <3>2 DEF Behind
  <2> QED BY <1>8, <2>1, <2>2, <2>3
<1> QED BY <1>0, <1>8, <1>10, <1>11

WalkStep(chain, next, i, x) ==
  IF i = x.at THEN [list |-> Append(x.list, chain[i]), at |-> next[i]] ELSE x

Walked(T, chain, next, head, went) ==
  /\ went \in [Nodes(chain) -> [list : Seq(T), at : Nodes(chain)]]
  /\ Walk(chain, next, head) = went[Len(chain)].list
  /\ went[0] = [list |-> <<>>, at |-> head]
  /\ \A i \in Places(chain) : went[i] = WalkStep(chain, next, i, went[i - 1])

LEMMA WalkWalks ==
  ASSUME NEW T, NEW chain \in Seq(T), NEW head \in Nodes(chain), NEW next \in [Places(chain) -> Nodes(chain)]
  PROVE  \E went : Walked(T, chain, next, head, went)
<1> DEFINE n == Len(chain)
           X == [list : Seq(T), at : Nodes(chain)]
           start == [list |-> <<>>, at |-> head]
           step == [x \in X \X (1 .. n) |-> WalkStep(chain, next, x[2], x[1])]
           Walks(f) == f = [i \in 0 .. n |-> IF i = 0 THEN start ELSE WalkStep(chain, next, i, f[i - 1])]
           went == CHOOSE f : Walks(f)
<1>0. n \in Nat /\ Places(chain) = 1 .. n /\ Nodes(chain) = 0 .. n /\ \A i \in 1 .. n : chain[i] \in T
  BY DEF Places, Nodes
<1>1. start \in X
  OBVIOUS
<1>2. ASSUME NEW x \in X, NEW i \in 1 .. n  PROVE WalkStep(chain, next, i, x) \in X
  <2>1. Append(x.list, chain[i]) \in Seq(T) /\ next[i] \in Nodes(chain)
    BY <1>0
  <2>2. [list |-> Append(x.list, chain[i]), at |-> next[i]] \in X
    BY <2>1
  <2> HIDE DEF X
  <2> QED BY <2>2 DEF WalkStep
<1> HIDE DEF X
<1>3. step \in [X \X (1 .. n) -> X]
  BY <1>2
<1> HIDE DEF start
<1>4. PICK f \in [0 .. n -> X] : Follows(f, n, start, step)
  <2> HIDE DEF step, n
  <2> QED BY <1>0, <1>1, <1>3, Recursion
<1>5. Walks(f)
  <2>1. ASSUME NEW i \in 1 .. n
        PROVE  f[i] = WalkStep(chain, next, i, f[i - 1])
    <3>1. i - 1 \in 0 .. n
      BY <1>0
    <3>2. <<f[i - 1], i>> \in X \X (1 .. n)
      BY <3>1
    <3>3. step[<<f[i - 1], i>>] = WalkStep(chain, next, i, f[i - 1])
      BY <3>2
    <3> HIDE DEF step
    <3> QED BY <1>4, <3>3 DEF Follows
  <2> QED BY <1>4, <2>1 DEF Follows
<1>6. Walks(went)
  BY <1>5
<1>7. Walk(chain, next, head) = went[n].list
  BY DEF Walk, WalkStep, start
<1> HIDE DEF went, n
<1>8. went[0] = start /\ \A i \in 1 .. n : went[i] = WalkStep(chain, next, i, went[i - 1])
  BY <1>0, <1>6
<1>9. went \in [0 .. n -> X]
  <2> DEFINE G == {i \in 0 .. n : went[i] \in X}
  <2>1. 0 \in G
    BY <1>0, <1>1, <1>8
  <2>2. \A i \in 1 .. n : i - 1 \in G => i \in G
    BY <1>0, <1>2, <1>8
  <2> HIDE DEF G
  <2>3. \A i \in 0 .. n : i \in G
    BY <1>0, <2>1, <2>2, UpTo
  <2>4. \A i \in 0 .. n : went[i] \in X
    BY <2>3 DEF G
  <2> QED BY <1>6, <2>4
<1>10. Walked(T, chain, next, head, went)
  BY <1>0, <1>7, <1>8, <1>9 DEF Walked, X, start, n
<1> QED BY <1>10

\* A walk finds structures of the chain and nothing else.
LEMMA WalkWithin ==
  ASSUME NEW T, NEW chain \in Seq(T), NEW head \in Nodes(chain), NEW next \in [Places(chain) -> Nodes(chain)]
  PROVE  Walk(chain, next, head) \in Seq(T)
<1>1. PICK went : Walked(T, chain, next, head, went)
  BY WalkWalks
<1>2. Len(chain) \in Nodes(chain)
  BY DEF Nodes
<1> QED BY <1>1, <1>2 DEF Walked

\* Where links lead to the next structure that stays, a walk finds those.
LEMMA WalkRetains ==
  ASSUME NEW T, NEW chain \in Seq(T), NEW head \in Nodes(chain), NEW next \in [Places(chain) -> Nodes(chain)],
         NEW kinds, NEW S, \A x \in T : x \in S <=> x \notin kinds,
         Behind(chain, kinds, 0, head),
         \A j \in Places(chain) : chain[j] \notin kinds => Behind(chain, kinds, j, next[j])
  PROVE  Walk(chain, next, head) = Retained(chain, S)
<1> DEFINE n == Len(chain)
<1>0. n \in Nat /\ Places(chain) = 1 .. n /\ Nodes(chain) = 0 .. n
      /\ \A i \in 1 .. n : chain[i] \in S <=> chain[i] \notin kinds
  BY DEF Places, Nodes
<1>1. PICK went : Walked(T, chain, next, head, went)
  BY WalkWalks
<1>2. PICK o : Retains(T, chain, S, o)
  BY RetainedWalks
<1> DEFINE G == {i \in 0 .. n : went[i].list = o[i] /\ Behind(chain, kinds, i, went[i].at)}
<1> HIDE DEF n
<1>3. /\ went[0] = [list |-> <<>>, at |-> head] /\ o[0] = <<>>
      /\ \A i \in 1 .. n : /\ went[i] = WalkStep(chain, next, i, went[i - 1])
                           /\ o[i] = IF chain[i] \in S THEN Append(o[i - 1], chain[i]) ELSE o[i - 1]
  BY <1>0, <1>1, <1>2 DEF Walked, Retains, n
<1>4. 0 \in G
  <2>1. went[0].list = o[0] /\ went[0].at = head
    BY <1>3
  <2> QED BY <1>0, <2>1
<1>5. ASSUME NEW i \in 1 .. n, i - 1 \in G  PROVE i \in G
  <2> DEFINE x == went[i - 1]
  <2>1. x.list = o[i - 1] /\ Behind(chain, kinds, i - 1, x.at)
    BY <1>5
  <2>2. went[i] = WalkStep(chain, next, i, x)
    BY <1>3
  <2> HIDE DEF x
  <2>3. CASE chain[i] \notin kinds
    <3>1. x.at = i
      <4>1. i - 1 < i /\ i \in Places(chain)
        BY <1>0
      <4>2. x.at # 0 /\ x.at <= i
        BY <2>1, <2>3, <4>1 DEF Behind
      <4>3. x.at \in 0 .. n /\ i - 1 < x.at
        BY <1>0, <2>1, <4>2 DEF Behind
      <4> QED BY <1>0, <4>2, <4>3
    <3>2. went[i] = [list |-> Append(x.list, chain[i]), at |-> next[i]]
      BY <2>2, <3>1 DEF WalkStep
    <3>3. o[i] = Append(o[i - 1], chain[i])
      BY <1>0, <1>3, <2>3
    <3>4. Behind(chain, kinds, i, next[i])
      BY <1>0, <2>3
    <3>5. went[i].list = o[i] /\ went[i].at = next[i]
      BY <2>1, <3>2, <3>3
    <3> QED BY <1>0, <3>4, <3>5
  <2>4. CASE chain[i] \in kinds
    <3>1. x.at # i
      <4>1. x.at # 0 => chain[x.at] \notin kinds
        BY <2>1 DEF Behind
      <4>2. i # 0
        BY <1>0
      <4> QED BY <2>4, <4>1, <4>2
    <3>2. went[i] = x /\ o[i] = o[i - 1]
      BY <1>0, <1>3, <2>2, <2>4, <3>1 DEF WalkStep
    <3>3. Behind(chain, kinds, i, x.at)
      <4>1. x.at # 0 => i < x.at
        BY <1>0, <2>1, <3>1 DEF Behind
      <4>2. \A l \in 1 .. n : i < l => i - 1 < l
        BY <1>0
      <4> QED BY <1>0, <2>1, <4>1, <4>2 DEF Behind
    <3> QED BY <1>0, <2>1, <3>2, <3>3
  <2> QED BY <2>3, <2>4
<1> HIDE DEF G
<1>6. \A i \in 0 .. n : i \in G
  BY <1>0, <1>4, <1>5, UpTo
<1>7. went[n].list = o[n]
  BY <1>0, <1>6 DEF G
<1> QED BY <1>1, <1>2, <1>7 DEF Walked, Retains, n

\* A stripped chain is seen without the kinds that were taken out.
LEMMA StripSeen ==
  ASSUME NEW q, q.chain \in Seq(Structures), Len(q.chain) <= MaxPNext, NEW kinds,
         NEW S, \A x \in ToSet(q.chain) : x \in S <=> x \notin kinds
  PROVE  Seen(q, Strip(q, kinds)) = Retained(q.chain, S)
<1> DEFINE chain == q.chain
           T == ToSet(chain)
           st == Strip(q, kinds)
<1>1. /\ st \in Strips(chain) /\ Behind(chain, kinds, 0, st.head)
      /\ \A j \in Places(chain) : chain[j] \notin kinds => Behind(chain, kinds, j, st.next[j])
  BY StripLeaves DEF Strip
<1> HIDE DEF st
<1>2. st.head \in Nodes(chain) /\ st.next \in [Places(chain) -> Nodes(chain)]
  BY <1>1 DEF Strips
<1>3. chain \in Seq(T) /\ \A x \in T : x \in S <=> x \notin kinds
  BY DEF ToSet
<1> HIDE DEF T, chain
<1>4. Walk(chain, st.next, st.head) = Retained(chain, S)
  BY <1>1, <1>2, <1>3, WalkRetains
<1> QED BY <1>4 DEF Seen, st, chain

\* What the flags are for a device that was asked last, and what was then shown.
SyntheticOf(p) == Synthetic(p, Aliasable(p))
Described == \E q \in asked : synth = SyntheticOf(q)

KnownInv ==
  /\ asked \subseteq Physical /\ (asked # {} => instance) /\ instance \in BOOLEAN
  /\ Checked => alias.available = Aliasable(alias.pd)
  /\ told = [p \in Physical |-> told[p]]
  /\ \A p \in Physical : told[p] # {} =>
       p \in asked /\ told[p] \subseteq ToSet(Advertised(p, SyntheticOf(p))) /\ Described

\* Once looked for, the alias is that of the device asked about.
LEMMA RefreshedAvailable ==
  ASSUME KnownInv, NEW p \in Physical
  PROVE  Refreshed(p).available = Aliasable(p)
<1>1. alias.pd = p => Checked
  BY ShimAssumption DEF Checked
<1> QED BY <1>1 DEF KnownInv, Refreshed

\* A query or a device keeps what is known; so does a step that asks nothing.
LEMMA AskedKeepsKnown ==
  ASSUME KnownInv, NEW p \in Physical, instance, asked' = asked \cup {p},
         UNCHANGED <<host, bridge, instance>>,
         alias' = alias \/ refresh_compute_queue_alias(p),
         \/ UNCHANGED <<synth, told>>
         \/ /\ synth' = SyntheticOf(p)
            /\ \E x \in SUBSET ToSet(Advertised(p, SyntheticOf(p))) :
                 told' = told \/ told' = [told EXCEPT ![p] = x]
  PROVE  KnownInv'
<1>1. /\ \A q : Aliasable(q)' = Aliasable(q) /\ Exts(q)' = Exts(q)
      /\ \A q : SyntheticOf(q)' = SyntheticOf(q)
      /\ \A q, s : Advertised(q, s)' = Advertised(q, s)
  BY DEF Aliasable, SyntheticOf, Synthetic, Exts, Advertised, Visible, device_extension_hidden
<1>2. asked' \subseteq Physical /\ instance'
  BY DEF KnownInv
<1>3. Checked' => alias'.available = Aliasable(alias'.pd)
  <2>1. CASE alias' = alias
    BY <2>1 DEF KnownInv, Checked
  <2>2. CASE refresh_compute_queue_alias(p)
    <3>1. alias' = Refreshed(p)
      BY <2>2 DEF refresh_compute_queue_alias
    <3>2. alias'.available = Aliasable(p)
      BY <3>1, RefreshedAvailable
    <3>3. alias'.pd = p
      BY <3>1 DEF Refreshed
    <3> QED BY <3>2, <3>3
  <2> QED BY <2>1, <2>2
<1>4. told' = [q \in Physical |-> told'[q]]
  BY DEF KnownInv
<1>5. ASSUME NEW q \in Physical, told'[q] # {}
      PROVE  q \in asked' /\ told'[q] \subseteq ToSet(Advertised(q, SyntheticOf(q))) /\ Described'
  <2>1. CASE UNCHANGED <<synth, told>>
    BY <1>1, <1>5, <2>1 DEF KnownInv, Described
  <2>2. CASE synth' = SyntheticOf(p) /\ UNCHANGED told
    BY <1>1, <1>5, <2>2 DEF KnownInv, Described
  <2>3. ASSUME synth' = SyntheticOf(p), NEW x \in SUBSET ToSet(Advertised(p, SyntheticOf(p))),
               told' = [told EXCEPT ![p] = x]
        PROVE  q \in asked' /\ told'[q] \subseteq ToSet(Advertised(q, SyntheticOf(q))) /\ Described'
    <3>1. Described'
      BY <1>1, <2>3 DEF Described
    <3>2. CASE q = p
      BY <2>3, <3>1, <3>2 DEF KnownInv
    <3>3. CASE q # p
      BY <1>5, <2>3, <3>1, <3>3 DEF KnownInv
    <3> QED BY <3>2, <3>3
  <2> QED BY <2>1, <2>2, <2>3
<1>6. \A q \in Physical : ToSet(Advertised(q, SyntheticOf(q)))' = ToSet(Advertised(q, SyntheticOf(q)))
  BY <1>1
<1>7. instance' \in BOOLEAN
  BY DEF KnownInv
<1> QED BY <1>1, <1>2, <1>3, <1>4, <1>5, <1>6, <1>7 DEF KnownInv, Checked

LEMMA SameKnown ==
  ASSUME KnownInv, OneAsked, UNCHANGED <<host, bridge, alias, synth, told, asked>>,
         UNCHANGED instance \/ CreateInstance
  PROVE  KnownInv'
<1>1. CASE UNCHANGED instance
  <2>1. /\ \A q : Aliasable(q)' = Aliasable(q) /\ Exts(q)' = Exts(q)
        /\ \A q : SyntheticOf(q)' = SyntheticOf(q)
        /\ \A q, s : Advertised(q, s)' = Advertised(q, s)
    BY <1>1 DEF Aliasable, SyntheticOf, Synthetic, Exts, Advertised, Visible, device_extension_hidden
  <2>2. \A q \in Physical : ToSet(Advertised(q, SyntheticOf(q)))' = ToSet(Advertised(q, SyntheticOf(q)))
    BY <2>1
  <2> QED BY <1>1, <2>1, <2>2 DEF KnownInv, Checked, Described
<1>2. CASE CreateInstance
  <2>1. asked = {} /\ ~Checked /\ \A q \in Physical : told[q] = {}
    BY <1>2 DEF CreateInstance, KnownInv, OneAsked
  <2>2. instance'
    BY <1>2 DEF CreateInstance
  <2> QED BY <2>1, <2>2 DEF KnownInv, Checked
<1> QED BY <1>1, <1>2

LEMMA KnownStep == QueueInv /\ ListsInv /\ KnownInv /\ [Next]_vars => KnownInv'
<1> SUFFICES ASSUME QueueInv, ListsInv, KnownInv, [Next]_vars  PROVE KnownInv'
  OBVIOUS
<1> USE DEF shim, history, threads, machine
<1>0. OneAsked
  BY DEF QueueInv
<1>1. ASSUME NEW p \in Physical, NEW capacity \in Capacities[p], vkEnumerateDeviceExtensionProperties(p, capacity)
      PROVE  KnownInv'
  <2> DEFINE whole == Advertised(p, SyntheticOf(p))
             got == last'.result = 0 /\ capacity # NoArray
             x == ToSet(last'.list)
  <2>1. /\ synth' = SyntheticOf(p) /\ last' = Answer("deviceExtensions", whole, capacity)
        /\ told' = [told EXCEPT ![p] = IF got THEN x ELSE @]
        /\ instance /\ asked' = asked \cup {p} /\ UNCHANGED <<host, bridge, instance>>
        /\ alias' = alias \/ refresh_compute_queue_alias(p)
    BY <1>1, RefreshedAvailable DEF vkEnumerateDeviceExtensionProperties, SyntheticOf
  <2>2. got => last'.list = whole
    <3>1. EnumerationHonest'
      BY <1>1, QueryKeepsLists
    <3> HIDE DEF whole
    <3>2. /\ "whole" \in DOMAIN last' /\ last'.fn = "deviceExtensions" /\ last'.whole = whole
          /\ last'.capacity = capacity
      BY <2>1 DEF Answer
    <3> QED BY <3>1, <3>2 DEF EnumerationHonest
  <2> HIDE DEF whole
  <2>3. told' = told \/ told' = [told EXCEPT ![p] = ToSet(whole)]
    <3>1. CASE got
      BY <2>1, <2>2, <3>1
    <3>2. CASE ~got
      BY <2>1, <3>2 DEF KnownInv
    <3> QED BY <3>1, <3>2
  <2>4. \E y \in SUBSET ToSet(whole) : told' = told \/ told' = [told EXCEPT ![p] = y]
    BY <2>3
  <2> QED BY <2>1, <2>4, AskedKeepsKnown DEF whole
<1>2. ASSUME NEW p \in Physical,
             \/ \E capacity : vkGetPhysicalDeviceQueueFamilyProperties(p, capacity)
             \/ \E r, result, second : vkCreateDevice(p, r, result, second)
      PROVE  KnownInv'
  <2>1. instance /\ asked' = asked \cup {p} /\ UNCHANGED <<host, bridge, instance, synth, told>>
        /\ refresh_compute_queue_alias(p)
    <3>1. ASSUME NEW r, NEW result, NEW second, vkCreateDevice(p, r, result, second)
          PROVE  instance /\ asked' = asked \cup {p} /\ UNCHANGED <<host, bridge, instance, synth, told>>
                 /\ refresh_compute_queue_alias(p)
      BY <3>1 DEF vkCreateDevice
    <3> QED BY <1>2, <3>1 DEF vkGetPhysicalDeviceQueueFamilyProperties
  <2> QED BY <2>1, AskedKeepsKnown
<1>3. ASSUME \/ CreateInstance \/ UNCHANGED vars
             \/ \E t \in Threads : \/ lock_aliased_queue_operations(t) \/ Return(t) \/ Call(t)
                                  \/ \E chain : vkQueuePresentKHR(t, chain)
                                  \/ \E p \in Physical, f \in Families2 : vkGetDeviceQueue(t, p, f)
             \/ \E p \in Physical : \/ vkGetPhysicalDeviceFeatures2(p) \/ vkWaitForPresentKHR(p)
                                    \/ \E f \in Families2 : vkCreateCommandPool(p, f)
      PROVE  KnownInv'
  <2>1. /\ UNCHANGED <<host, bridge, alias, synth, told, asked>>
        /\ UNCHANGED instance \/ CreateInstance
    BY <1>3 DEF CreateInstance, vars, lock_aliased_queue_operations, Return, Call, vkQueuePresentKHR,
                vkGetDeviceQueue, vkGetPhysicalDeviceFeatures2, vkWaitForPresentKHR, vkCreateCommandPool
  <2> QED BY <1>0, <2>1, SameKnown
<1>4. CASE Ask
  BY <1>1, <1>2, <1>3, <1>4 DEF Ask, vkGetPhysicalDeviceQueueFamilyProperties2
<1>5. CASE \E t \in Threads : Use(t)
  BY <1>3, <1>5 DEF Use, vkGetDeviceQueue2
<1> QED BY <1>3, <1>4, <1>5 DEF Next

LEMMA KnownStart == Init => KnownInv
<1> SUFFICES ASSUME Init  PROVE KnownInv
  OBVIOUS
<1>1. /\ instance = FALSE /\ alias = [pd |-> None, available |-> FALSE]
      /\ told = [p \in Physical |-> {}] /\ asked = {}
  BY DEF Init
<1> QED BY <1>1 DEF KnownInv, Checked

\* Of what an application was shown of its only device, the flags say what is pretended.
LEMMA FlagsTrue ==
  ASSUME ListsInv, KnownInv, NEW p \in Physical, told[p] # {}, \A q \in asked : q = p
  PROVE  /\ synth = SyntheticOf(p)
         /\ "present_id" \in told[p] => (synth.id <=> "present_id" \notin Exts(p))
         /\ "present_wait" \in told[p] => (synth.wait <=> "present_wait" \notin Exts(p))
         /\ "global_priority" \in told[p] => (synth.priority <=> "global_priority" \notin Exts(p))
         /\ "timeline" \in told[p] => "timeline" \in Exts(p)
         /\ synth.priority => Aliasable(p)
<1>1. synth = SyntheticOf(p) /\ told[p] \subseteq ToSet(Advertised(p, SyntheticOf(p)))
  BY DEF KnownInv, Described
<1>2. Aliasable(p) \in BOOLEAN
  BY DEF Aliasable
<1>3. host[p].exts \in Seq(DeviceExtensions) /\ IsInjective(host[p].exts) /\ bridge \in BOOLEAN
  BY HostAssumption DEF ListsInv
<1>4. ToSet(Advertised(p, synth)) \subseteq Exts(p) \cup {"semaphore_fd"}
        \cup (IF synth.id THEN {"present_id"} ELSE {}) \cup (IF synth.wait THEN {"present_wait"} ELSE {})
        \cup (IF synth.priority THEN {"global_priority"} ELSE {})
  BY <1>1, <1>2, <1>3, AdvertisedOnce DEF SyntheticOf
<1>5. /\ synth.id => "present_id" \notin Exts(p)
      /\ synth.wait => "present_wait" \notin Exts(p)
      /\ synth.priority => "global_priority" \notin Exts(p) /\ Aliasable(p)
  BY <1>1 DEF SyntheticOf, Synthetic
<1> QED BY <1>1, <1>4, <1>5

\* Structures for what was shown are real exactly when no flag takes them out.
LEMMA RealOnes ==
  ASSUME ListsInv, KnownInv, NEW p \in Physical, \A q \in asked : q = p,
         NEW k \in Structures, k \in DOMAIN Needs => Needs[k] \in told[p]
  PROVE  /\ k # "priority" => (Real(p, k) <=> k \notin is_synthetic_present_feature(synth))
         /\ k = "priority" => (Real(p, k) <=> k \notin is_synthetic_global_priority_structure(synth))
         /\ k = "priority" /\ ~Aliasable(p) => Real(p, k)
<1>1. /\ DOMAIN Needs = {"idFeature", "waitFeature", "priority", "timelineFeature"}
      /\ Needs["idFeature"] = "present_id" /\ Needs["waitFeature"] = "present_wait"
      /\ Needs["priority"] = "global_priority" /\ Needs["timelineFeature"] = "timeline"
  BY DEF Needs
<1>2. Real(p, k) <=> (k \in DOMAIN Needs => Needs[k] \in Exts(p))
  BY DEF Real, Pretended
<1>3. CASE k = "other"
  BY <1>1, <1>2, <1>3 DEF is_synthetic_present_feature
<1>4. CASE k # "other"
  <2>1. k \in DOMAIN Needs
    BY <1>1, <1>4 DEF Structures
  <2>2. /\ "present_id" \in told[p] => (synth.id <=> "present_id" \notin Exts(p))
        /\ "present_wait" \in told[p] => (synth.wait <=> "present_wait" \notin Exts(p))
        /\ "global_priority" \in told[p] => (synth.priority <=> "global_priority" \notin Exts(p))
        /\ "timeline" \in told[p] => "timeline" \in Exts(p)
        /\ synth.priority => Aliasable(p)
    BY <2>1, FlagsTrue
  <2> QED BY <1>1, <1>2, <2>1, <2>2 DEF is_synthetic_present_feature, is_synthetic_global_priority_structure
<1> QED BY <1>3, <1>4

LEMMA RetainedWithin ==
  ASSUME NEW T, NEW s \in Seq(T), NEW S
  PROVE  /\ Retained(s, S) \in Seq(T)
         /\ ToSet(Retained(s, S)) \subseteq ToSet(s) \cap S
<1> DEFINE r == Retained(s, S)
<1>1. r \in Seq(T)
  BY RetainedPicks
<1>2. PICK e : Picks(s, S, Len(s), r, e)
  BY RetainedPicks
<1> HIDE DEF r
<1>3. DOMAIN r = 1 .. Len(r) /\ DOMAIN s = 1 .. Len(s)
  BY <1>1
<1>4. \A j \in 1 .. Len(r) : e[j] \in 1 .. Len(s) /\ r[j] = s[e[j]] /\ r[j] \in S
  BY <1>2 DEF Picks
<1> QED BY <1>1, <1>3, <1>4 DEF ToSet, r

QueueRequests == [family : Nat, flags : BOOLEAN, chain : Seq(Structures)]

LEMMA RequestTypes ==
  ASSUME NEW p \in Physical, NEW r \in Requests[p]
  PROVE  /\ r.chain \in Seq(Structures) /\ r.queues \in Seq(QueueRequests)
         /\ DOMAIN r.queues = 1 .. Len(r.queues) /\ Len(r.queues) \in Nat
         /\ \A i \in DOMAIN r.queues : /\ r.queues[i] \in QueueRequests
                                       /\ r.queues[i].chain \in Seq(Structures) /\ r.queues[i].family \in Nat
<1>1. r.chain \in Seq(Structures) /\ r.queues \in Seq(QueueRequests)
  BY RequestAssumption DEF QueueRequests
<1>2. \A q \in QueueRequests : q.chain \in Seq(Structures) /\ q.family \in Nat
  BY DEF QueueRequests
<1>3. /\ DOMAIN r.queues = 1 .. Len(r.queues) /\ Len(r.queues) \in Nat
      /\ \A i \in DOMAIN r.queues : r.queues[i] \in QueueRequests
  BY <1>1
<1> QED BY <1>1, <1>2, <1>3

\* A queue as the host sees it has only structures of the request that are not synthetic.
LEMMA QueueSeen ==
  ASSUME NEW q, q.chain \in Seq(Structures), Len(q.chain) <= MaxPNext, NEW qs, Maps(qs), NEW s
  PROVE  /\ Seen(q, QueueStrip(q, qs, s)) \in Seq(Structures)
         /\ ToSet(Seen(q, QueueStrip(q, qs, s)))
              \subseteq ToSet(q.chain) \ is_synthetic_global_priority_structure(s)
<1> DEFINE kinds == is_synthetic_global_priority_structure(s)
           S == Structures \ kinds
<1>1. QueueStrip(q, qs, s) = Strip(q, kinds)
  BY DEF QueueStrip
<1>2. \A x \in ToSet(q.chain) : x \in S <=> x \notin kinds
  BY DEF ToSet
<1> HIDE DEF kinds, S
<1>3. Seen(q, Strip(q, kinds)) = Retained(q.chain, S)
  BY <1>2, StripSeen
<1>4. Retained(q.chain, S) \in Seq(Structures) /\ ToSet(Retained(q.chain, S)) \subseteq ToSet(q.chain) \cap S
  BY RetainedWithin
<1> QED BY <1>1, <1>3, <1>4 DEF kinds, S

\* With an alias the host is asked once, for the backing family, and for nothing made up.
LEMMA MappedOnce ==
  ASSUME NEW p \in Physical, NEW r \in Requests[p], NEW s,
         \A i \in DOMAIN r.queues : r.queues[i].family \in {Backing, Alias},
         NEW q, q = MappedQueues(r.queues, s)
  PROVE  /\ \E i \in DOMAIN q : TRUE
         /\ \A i, j \in DOMAIN q : i = j
         /\ \A i \in DOMAIN q :
              /\ q[i].family = Backing /\ q[i] \in QueueRequests
              /\ \A k \in ToSet(q[i].chain) : /\ k \notin is_synthetic_global_priority_structure(s)
                                             /\ \E j \in DOMAIN r.queues : k \in ToSet(r.queues[j].chain)
<1> DEFINE qs == r.queues
           n == Len(qs)
           kinds == is_synthetic_global_priority_structure(s)
           Fine(c) == /\ c \in Seq(Structures)
                      /\ \A k \in ToSet(c) : k \notin kinds /\ \E j \in 1 .. n : k \in ToSet(qs[j].chain)
           T == {x \in QueueRequests : x.family \in {Backing, Alias} /\ Fine(x.chain)}
           left(i) == Seen(qs[i], QueueStrip(qs[i], qs, s))
           plain == [i \in DOMAIN qs |-> [qs[i] EXCEPT !.chain = left(i)]]
           asksFor(f) == \E i \in DOMAIN qs : qs[i].family = f
           models == {i \in DOMAIN plain : ~plain[i].flags}
           least == CHOOSE i \in models : \A j \in models : i <= j
           model == plain[least]
           added == [model EXCEPT !.family = Alias]
           all == IF asksFor(Alias) \/ models = {} THEN plain ELSE Append(plain, added)
           stays == {x \in ToSet(all) : ~(x.family = Alias /\ asksFor(Backing))}
           kept == Retained(all, stays)
<1>0. /\ n \in Nat /\ DOMAIN qs = 1 .. n
      /\ \A i \in 1 .. n : /\ qs[i] \in QueueRequests /\ qs[i].chain \in Seq(Structures)
                           /\ qs[i].family \in {Backing, Alias}
  BY RequestTypes
<1>1. /\ \A i, j \in 1 .. n : qs[i].family = qs[j].family => i = j
      /\ \E i \in 1 .. n : ~qs[i].flags
      /\ \A i \in 1 .. n : Len(qs[i].chain) <= MaxPNext
  <2> DEFINE fam == [i \in DOMAIN qs |-> qs[i].family]
  <2>1. /\ IsInjective(fam) /\ \E i \in DOMAIN qs : ~qs[i].flags
        /\ \A i \in DOMAIN qs : Len(qs[i].chain) <= MaxPNext
    BY OrdinaryRequests
  <2>2. \A i, j \in DOMAIN qs : fam[i] = fam[j] => i = j
    <3>1. DOMAIN fam = DOMAIN qs
      OBVIOUS
    <3> HIDE DEF fam
    <3> QED BY <2>1, <3>1 DEF IsInjective
  <2> QED BY <1>0, <2>1, <2>2
<1>2. Maps(qs)
  BY <1>0, <1>1 DEF Maps
<1>3. q = [i \in DOMAIN kept |-> [kept[i] EXCEPT !.family = IF @ = Alias THEN Backing ELSE @]]
  BY DEF MappedQueues
<1> HIDE DEF qs, kinds, n
<1>4. \A i \in 1 .. n : Fine(left(i))
  <2> SUFFICES ASSUME NEW i \in 1 .. n  PROVE Fine(left(i))
    OBVIOUS
  <2>1. left(i) \in Seq(Structures) /\ ToSet(left(i)) \subseteq ToSet(qs[i].chain) \ kinds
    BY <1>0, <1>1, <1>2, QueueSeen DEF kinds
  <2> HIDE DEF left
  <2> QED BY <2>1
<1> HIDE DEF left, Fine
<1>5. \A i \in 1 .. n : /\ plain[i] \in T /\ plain[i].family = qs[i].family
                        /\ plain[i].flags = qs[i].flags
  <2> SUFFICES ASSUME NEW i \in 1 .. n
               PROVE  plain[i] \in T /\ plain[i].family = qs[i].family /\ plain[i].flags = qs[i].flags
    OBVIOUS
  <2>1. plain[i] = [family |-> qs[i].family, flags |-> qs[i].flags, chain |-> left(i)]
    BY <1>0 DEF QueueRequests
  <2>2. left(i) \in Seq(Structures)
    BY <1>4 DEF Fine
  <2>3. plain[i] \in QueueRequests /\ plain[i].chain = left(i)
    BY <1>0, <2>1, <2>2 DEF QueueRequests
  <2> HIDE DEF plain
  <2> QED BY <1>0, <1>4, <2>1, <2>3
<1>6. plain \in Seq(T) /\ Len(plain) = n /\ DOMAIN plain = 1 .. n
  <2> HIDE DEF T
  <2>1. plain \in [1 .. n -> T]
    <3>1. plain = [i \in 1 .. n |-> plain[i]]
      BY <1>0
    <3> HIDE DEF plain
    <3> QED BY <1>5, <3>1
  <2> HIDE DEF plain
  <2> QED BY <1>0, <2>1
<1> HIDE DEF plain, T
<1>7. model \in T /\ models # {}
  <2>1. models # {} /\ models \subseteq Nat
    BY <1>0, <1>1, <1>5, <1>6
  <2>2. \E i \in models : \A j \in models : i <= j
    BY <2>1, Least
  <2>3. least \in models
    BY <2>2
  <2> HIDE DEF least
  <2> QED BY <1>5, <1>6, <2>1, <2>3
<1> HIDE DEF model
<1>8. added \in T /\ added.family = Alias
  <2>1. model \in QueueRequests /\ Fine(model.chain)
    BY <1>7 DEF T
  <2>2. added = [family |-> Alias, flags |-> model.flags, chain |-> model.chain]
    BY <2>1 DEF QueueRequests
  <2> HIDE DEF added
  <2>3. added \in QueueRequests
    BY <2>1, <2>2 DEF QueueRequests, Alias
  <2> QED BY <2>1, <2>2, <2>3 DEF T
<1> HIDE DEF added, models
<1>9. /\ all \in Seq(T) /\ Len(all) \in Nat /\ DOMAIN all = 1 .. Len(all)
      /\ n <= Len(all) /\ \A i \in 1 .. n : all[i].family = qs[i].family
      /\ \A i, j \in 1 .. Len(all) : all[i].family = all[j].family => i = j
      /\ ~asksFor(Backing) => \A i \in 1 .. Len(all) : all[i].family = Alias
      /\ \A i \in 1 .. Len(all) : all[i].family \in {Backing, Alias}
  <2>1. CASE asksFor(Alias)
    <3>1. all = plain
      BY <2>1
    <3> HIDE DEF all
    <3>2. /\ all \in Seq(T) /\ Len(all) = n /\ DOMAIN all = 1 .. n
          /\ \A i \in 1 .. n : all[i].family = qs[i].family
      BY <1>5, <1>6, <3>1
    <3>3. \A i, j \in 1 .. n : all[i].family = all[j].family => i = j
      BY <1>1, <3>2
    <3>4. /\ \A i \in 1 .. n : all[i].family \in {Backing, Alias}
          /\ ~asksFor(Backing) => \A i \in 1 .. n : all[i].family = Alias
      BY <1>0, <3>2
    <3> QED BY <1>0, <3>2, <3>3, <3>4
  <2>2. CASE ~asksFor(Alias)
    <3>1. all = Append(plain, added)
      BY <1>7, <2>2
    <3> HIDE DEF all
    <3>2. /\ all \in Seq(T) /\ Len(all) = n + 1 /\ all[n + 1] = added
          /\ \A i \in 1 .. n : all[i] = plain[i]
      BY <1>0, <1>6, <1>8, <3>1
    <3>3. \A i \in 1 .. (n + 1) : i \in 1 .. n \/ i = n + 1
      BY <1>0
    <3>4. \A i \in 1 .. n : all[i].family = qs[i].family /\ qs[i].family # Alias
      BY <1>0, <1>5, <2>2, <3>2
    <3>5. \A i, j \in 1 .. (n + 1) : all[i].family = all[j].family => i = j
      BY <1>1, <1>8, <3>2, <3>3, <3>4
    <3> QED BY <1>0, <1>8, <3>2, <3>3, <3>4, <3>5
  <2> QED BY <2>1, <2>2
<1> HIDE DEF all
<1>10. kept \in Seq(T)
  BY <1>9, RetainedPicks
<1>11. PICK e : Picks(all, stays, Len(all), kept, e)
  BY <1>9, RetainedPicks
<1> HIDE DEF kept
<1>12. /\ DOMAIN kept = 1 .. Len(kept)
       /\ \A i \in 1 .. Len(kept) : /\ kept[i] \in T /\ e[i] \in 1 .. Len(all) /\ kept[i] = all[e[i]]
                                    /\ ~(kept[i].family = Alias /\ asksFor(Backing))
       /\ \A i, j \in 1 .. Len(kept) : e[i] = e[j] => i = j
       /\ \A l \in 1 .. Len(all) : all[l] \in stays => \E j \in 1 .. Len(kept) : e[j] = l
  <2>1. /\ e \in [1 .. Len(kept) -> 1 .. Len(all)] /\ IsInjective(e)
        /\ \A j \in 1 .. Len(kept) : kept[j] = all[e[j]] /\ kept[j] \in stays
        /\ \A l \in 1 .. Len(all) : all[l] \in stays => \E j \in 1 .. Len(kept) : e[j] = l
    BY <1>11 DEF Picks
  <2>2. \A i, j \in 1 .. Len(kept) : e[i] = e[j] => i = j
    BY <2>1 DEF IsInjective
  <2>3. DOMAIN kept = 1 .. Len(kept) /\ \A i \in 1 .. Len(kept) : kept[i] \in T
    BY <1>10
  <2> QED BY <2>1, <2>2, <2>3
<1>13. \A i, j \in DOMAIN kept : i = j
  <2> SUFFICES ASSUME NEW i \in 1 .. Len(kept), NEW j \in 1 .. Len(kept)  PROVE e[i] = e[j]
    BY <1>12
  <2>1. all[e[i]].family = all[e[j]].family
    <3>1. /\ all[e[i]].family \in {Backing, Alias} /\ all[e[j]].family \in {Backing, Alias}
          /\ ~asksFor(Backing) => all[e[i]].family = Alias /\ all[e[j]].family = Alias
      BY <1>9, <1>12
    <3>2. asksFor(Backing) => all[e[i]].family # Alias /\ all[e[j]].family # Alias
      BY <1>12
    <3> QED BY <3>1, <3>2
  <2> QED BY <1>9, <1>12, <2>1
<1>14. \E i \in DOMAIN kept : TRUE
  <2>1. PICK l \in 1 .. n : asksFor(Backing) => qs[l].family = Backing
    BY <1>0, <1>1
  <2>2. l \in 1 .. Len(all) /\ all[l].family = qs[l].family
    BY <1>0, <1>9
  <2>3. all[l] \in ToSet(all)
    BY <1>9, <2>2 DEF ToSet
  <2>4. all[l] \in stays
    BY <2>1, <2>2, <2>3 DEF Backing, Alias
  <2> QED BY <1>12, <2>2, <2>4
<1>15. /\ DOMAIN q = DOMAIN kept
       /\ \A i \in DOMAIN q : /\ q[i].family = Backing /\ q[i].chain = kept[i].chain
                              /\ q[i] \in QueueRequests
  <2>1. DOMAIN q = DOMAIN kept
    BY <1>3
  <2>2. ASSUME NEW i \in DOMAIN kept
        PROVE  q[i].family = Backing /\ q[i].chain = kept[i].chain /\ q[i] \in QueueRequests
    <3>1. kept[i] \in QueueRequests /\ kept[i].family \in {Backing, Alias}
      BY <1>12 DEF T
    <3>2. q[i] = [kept[i] EXCEPT !.family = IF kept[i].family = Alias THEN Backing ELSE kept[i].family]
      BY <1>3
    <3> QED BY <3>1, <3>2 DEF QueueRequests, Backing
  <2> QED BY <2>1, <2>2
<1>16. \A i \in DOMAIN kept : Fine(kept[i].chain)
  BY <1>12 DEF T
<1> QED BY <1>0, <1>13, <1>14, <1>15, <1>16 DEF Fine, kinds, qs

\* What HostUnderstands says of a device that the host is asked for as e.
Understood(p, chain, e) ==
  /\ e.exts \subseteq Exts(p)
  /\ \A i \in DOMAIN e.queues : /\ e.queues[i].family < Len(host[p].families)
                                /\ \A k \in ToSet(e.queues[i].chain) : Real(p, k)
  /\ IsInjective([i \in DOMAIN e.queues |-> e.queues[i].family])
  /\ e.chain = Retained(chain, {k \in Structures : Real(p, k)})
  /\ e.timeline => "timeline" \in Exts(p)

\* Every family the application asked for is made.
Makes(a, qs, e) ==
  \A j \in DOMAIN qs : \E i \in DOMAIN e.queues : e.queues[i].family = Mapped(a, qs[j].family)

LEMMA EffectiveUnderstood ==
  ASSUME ListsInv, KnownInv, NEW p \in Physical, NEW r \in Requests[p], \A q \in asked : q = p,
         \A i \in DOMAIN r.queues : r.queues[i].family < Len(Families(p)),
         \A k \in Kinds(r) : k \in DOMAIN Needs => Needs[k] \in told[p],
         NEW e, e = Effective(p, r, Refreshed(p), synth)
  PROVE  /\ Understood(p, r.chain, e) /\ Makes(Refreshed(p), r.queues, e)
         /\ \A i \in DOMAIN e.queues : e.queues[i] \in QueueRequests
<1> DEFINE a == Refreshed(p)
           features == is_synthetic_present_feature(synth)
           S == {k \in Structures : Real(p, k)}
<1>0. /\ r.chain \in Seq(Structures) /\ r.queues \in Seq(QueueRequests)
      /\ DOMAIN r.queues = 1 .. Len(r.queues) /\ Len(r.queues) \in Nat
      /\ \A i \in DOMAIN r.queues : /\ r.queues[i] \in QueueRequests
                                    /\ r.queues[i].chain \in Seq(Structures) /\ r.queues[i].family \in Nat
  BY RequestTypes
<1>1. /\ IsInjective([i \in DOMAIN r.queues |-> r.queues[i].family])
      /\ Len(r.chain) <= MaxPNext /\ "priority" \notin ToSet(r.chain)
      /\ \A i \in DOMAIN r.queues : ToSet(r.queues[i].chain) \subseteq {"priority", "other"}
  BY OrdinaryRequests
<1>2. /\ e.exts = FilteredExtensions(p, r.exts) /\ e.chain = Seen(r, Strip(r, features))
      /\ e.queues = IF a.available THEN MappedQueues(r.queues, synth) ELSE r.queues
      /\ e.timeline = (bridge /\ "timelineFeature" \in ToSet(r.chain))
  BY DEF Effective
<1>3. a.available = Aliasable(p)
  BY RefreshedAvailable
<1>4. \A k \in Kinds(r) : k \in Structures =>
        /\ k # "priority" => (Real(p, k) <=> k \notin features)
        /\ k = "priority" => (Real(p, k) <=> k \notin is_synthetic_global_priority_structure(synth))
        /\ k = "priority" /\ ~Aliasable(p) => Real(p, k)
  BY RealOnes
<1>5. \A k \in ToSet(r.chain) : k \in Structures /\ k \in Kinds(r)
  BY <1>0 DEF ToSet, Kinds
<1>6. \A j \in DOMAIN r.queues : \A k \in ToSet(r.queues[j].chain) :
        k \in Kinds(r) /\ k \in Structures /\ k \in {"priority", "other"}
  BY <1>1 DEF Kinds, Structures
<1> HIDE DEF a, features
<1>7. e.chain = Retained(r.chain, S)
  <2>1. \A x \in ToSet(r.chain) : x \in S <=> x \notin features
    BY <1>1, <1>4, <1>5
  <2> HIDE DEF S
  <2> QED BY <1>0, <1>1, <1>2, <2>1, StripSeen
<1>8. e.exts \subseteq Exts(p)
  BY <1>2 DEF FilteredExtensions
<1>9. e.timeline => "timeline" \in Exts(p)
  <2> SUFFICES ASSUME "timelineFeature" \in ToSet(r.chain)  PROVE "timeline" \in Exts(p)
    BY <1>2
  <2>1. "timeline" \in told[p]
    BY <1>5 DEF Needs
  <2> QED BY <2>1, FlagsTrue
<1>10. \A k \in {"priority", "other"} : k \in Kinds(r) /\ k \notin is_synthetic_global_priority_structure(synth)
                                         => Real(p, k)
  BY <1>4 DEF Structures, features, is_synthetic_present_feature
<1>11. host[p].families \in Seq([combined : BOOLEAN, graphics : BOOLEAN])
  BY HostAssumption DEF ListsInv
<1>12. CASE a.available
  <2>1. Len(host[p].families) = 1
    BY <1>3, <1>12 DEF Aliasable
  <2>2. \A i \in DOMAIN r.queues : r.queues[i].family \in {Backing, Alias}
    <3>1. Families(p) = Append(host[p].families, [combined |-> FALSE, graphics |-> FALSE])
      BY <1>12 DEF Families, a
    <3>2. Len(Families(p)) = 2
      BY <1>11, <2>1, <3>1
    <3> QED BY <1>0, <3>2 DEF Backing, Alias
  <2>3. e.queues = MappedQueues(r.queues, synth)
    BY <1>2, <1>12
  <2>4. /\ \E i \in DOMAIN e.queues : TRUE
        /\ \A i, j \in DOMAIN e.queues : i = j
        /\ \A i \in DOMAIN e.queues :
             /\ e.queues[i].family = Backing /\ e.queues[i] \in QueueRequests
             /\ \A k \in ToSet(e.queues[i].chain) :
                  /\ k \notin is_synthetic_global_priority_structure(synth)
                  /\ \E j \in DOMAIN r.queues : k \in ToSet(r.queues[j].chain)
    <3> DEFINE q == MappedQueues(r.queues, synth)
    <3>1. /\ \E i \in DOMAIN q : TRUE
          /\ \A i, j \in DOMAIN q : i = j
          /\ \A i \in DOMAIN q :
               /\ q[i].family = Backing /\ q[i] \in QueueRequests
               /\ \A k \in ToSet(q[i].chain) : /\ k \notin is_synthetic_global_priority_structure(synth)
                                              /\ \E j \in DOMAIN r.queues : k \in ToSet(r.queues[j].chain)
      BY <2>2, MappedOnce
    <3> HIDE DEF q
    <3> QED BY <2>3, <3>1 DEF q
  <2>5. \A i \in DOMAIN e.queues : \A k \in ToSet(e.queues[i].chain) : Real(p, k)
    <3> SUFFICES ASSUME NEW i \in DOMAIN e.queues, NEW k \in ToSet(e.queues[i].chain)  PROVE Real(p, k)
      OBVIOUS
    <3>1. PICK j \in DOMAIN r.queues : k \in ToSet(r.queues[j].chain)
      BY <2>4
    <3> QED BY <1>6, <1>10, <2>4, <3>1
  <2>6. \A i \in DOMAIN e.queues : e.queues[i].family < Len(host[p].families)
    BY <2>1, <2>4 DEF Backing
  <2>7. IsInjective([i \in DOMAIN e.queues |-> e.queues[i].family])
    BY <2>4 DEF IsInjective
  <2>8. Makes(a, r.queues, e)
    <3>1. \A j \in DOMAIN r.queues : Mapped(a, r.queues[j].family) = Backing
      BY <1>12, <2>2 DEF Mapped
    <3> QED BY <2>4, <3>1 DEF Makes
  <2> QED BY <1>7, <1>8, <1>9, <2>4, <2>5, <2>6, <2>7, <2>8 DEF Understood, a
<1>13. CASE ~a.available
  <2>1. e.queues = r.queues
    BY <1>2, <1>13
  <2>2. \A i \in DOMAIN r.queues : r.queues[i].family < Len(host[p].families)
    BY <1>13 DEF Families, a
  <2>3. \A i \in DOMAIN r.queues : \A k \in ToSet(r.queues[i].chain) : Real(p, k)
    <3> SUFFICES ASSUME NEW i \in DOMAIN r.queues, NEW k \in ToSet(r.queues[i].chain)  PROVE Real(p, k)
      OBVIOUS
    <3>1. k \in Kinds(r) /\ k \in Structures /\ k \in {"priority", "other"}
      BY <1>6
    <3>2. CASE k = "priority"
      BY <1>3, <1>4, <1>13, <3>1, <3>2
    <3>3. CASE k = "other"
      BY <1>4, <3>1, <3>3 DEF features, is_synthetic_present_feature
    <3> QED BY <3>1, <3>2, <3>3
  <2>4. Makes(a, r.queues, e)
    BY <1>13, <2>1 DEF Makes, Mapped
  <2> QED BY <1>0, <1>1, <1>7, <1>8, <1>9, <2>1, <2>2, <2>3, <2>4 DEF Understood, a
<1> QED BY <1>12, <1>13

\* A second attempt asks for the same without priorities.
LEMMA RetriedUnderstood ==
  ASSUME NEW p, NEW r, NEW a, NEW s, NEW e, e = Effective(p, r, a, s), Understood(p, r.chain, e),
         \A i \in DOMAIN e.queues : e.queues[i] \in QueueRequests,
         NEW t, t = Retried(e)
  PROVE  /\ Understood(p, r.chain, t)
         /\ \A qs : Makes(a, qs, e) => Makes(a, qs, t)
<1> DEFINE st(i) == Strip(e.queues[i], {"priority"})
           left(i) == Seen(e.queues[i], st(i))
<1>1. e = [exts |-> e.exts, queues |-> e.queues, chain |-> e.chain, timeline |-> e.timeline]
  BY DEF Effective
<1>2. /\ t.exts = e.exts /\ t.chain = e.chain /\ t.timeline = e.timeline
      /\ t.queues = [i \in DOMAIN e.queues |-> [e.queues[i] EXCEPT !.chain = left(i)]]
  <2> HIDE DEF left
  <2>1. t = [e EXCEPT !.queues = [i \in DOMAIN e.queues |-> [e.queues[i] EXCEPT !.chain = left(i)]]]
    BY DEF Retried, left
  <2> QED BY <1>1, <2>1
<1>3. ASSUME NEW i \in DOMAIN e.queues
      PROVE  /\ t.queues[i].family = e.queues[i].family
             /\ ToSet(t.queues[i].chain) \subseteq ToSet(e.queues[i].chain)
  <2> DEFINE chain == e.queues[i].chain
             T == ToSet(chain)
  <2>1. chain \in Seq(Structures) /\ chain \in Seq(T)
    <3>1. chain \in Seq(Structures)
      BY DEF QueueRequests
    <3> HIDE DEF chain
    <3> QED BY <3>1 DEF ToSet
  <2>2. First(chain) \in Nodes(chain) /\ Links(chain) \in [Places(chain) -> Nodes(chain)]
    BY <2>1, LinksOfChain
  <2>3. st(i) \in Strips(chain)
    BY <2>1, <2>2, ChainRestored DEF Strip
  <2> HIDE DEF st
  <2>4. st(i).head \in Nodes(chain) /\ st(i).next \in [Places(chain) -> Nodes(chain)]
    BY <2>3 DEF Strips
  <2>5. left(i) \in Seq(T)
    <3> HIDE DEF T, chain
    <3>1. Walk(chain, st(i).next, st(i).head) \in Seq(T)
      BY <2>1, <2>4, WalkWithin
    <3> QED BY <3>1 DEF Seen, chain
  <2> HIDE DEF left
  <2>6. t.queues[i].family = e.queues[i].family /\ t.queues[i].chain = left(i)
    BY <1>2 DEF QueueRequests
  <2>7. ToSet(left(i)) \subseteq T
    <3> HIDE DEF T
    <3> QED BY <2>5 DEF ToSet
  <2> QED BY <2>6, <2>7
<1> HIDE DEF left
<1>4. DOMAIN t.queues = DOMAIN e.queues
  BY <1>2
<1>5. [i \in DOMAIN t.queues |-> t.queues[i].family] = [i \in DOMAIN e.queues |-> e.queues[i].family]
  BY <1>3, <1>4
<1>6. Understood(p, r.chain, t)
  BY <1>2, <1>3, <1>4, <1>5 DEF Understood
<1>7. \A qs : Makes(a, qs, e) => Makes(a, qs, t)
  BY <1>3, <1>4 DEF Makes
<1> QED BY <1>6, <1>7

\* The queues of a device are of families that the host has made.
DevicesMade ==
  OnePhysical => \A p \in Physical : device[p] # NoDevice =>
    \A f \in device[p].asked : Mapped(alias, f) \in device[p].made

UnderstandInv == QueueInv /\ ListsInv /\ KnownInv /\ DevicesMade /\ HostUnderstands

\* What a device is made for, and what the host hears of one that is made.
LEMMA DeviceStep ==
  ASSUME QueueInv, QueueInv', ListsInv, KnownInv, NEW p \in Physical, NEW r \in Requests[p],
         NEW result, NEW second, vkCreateDevice(p, r, result, second)
  PROVE  DevicesMade' /\ HostUnderstands'
<1> DEFINE a == Refreshed(p)
           first == Effective(p, r, a, synth)
           given == last'.seen
<1>1. /\ \A i \in DOMAIN r.queues : r.queues[i].family < Len(Families(p))
      /\ \A k \in Kinds(r) : k \in DOMAIN Needs => Needs[k] \in told[p]
      /\ alias' = a /\ asked' = asked \cup {p} /\ UNCHANGED <<host, told>>
  BY DEF vkCreateDevice, refresh_compute_queue_alias, machine
<1>2. /\ given = first \/ given = Retried(first)
      /\ last'.fn = "vkCreateDevice" /\ last'.pd = p /\ last'.request = r
      /\ \/ device' = [device EXCEPT ![p] = NoDevice]
         \/ device' = [device EXCEPT ![p] =
              [exts |-> r.exts, asked |-> {r.queues[i].family : i \in DOMAIN r.queues},
               made |-> {given.queues[i].family : i \in DOMAIN given.queues}]]
  <2> DEFINE again == result = NotPermitted /\ bridge /\ AsksPriority(first)
             e == IF again THEN Retried(first) ELSE first
             final == IF again THEN second ELSE result
  <2>1. \E before, after :
          last' = [fn |-> "vkCreateDevice", pd |-> p, request |-> r, seen |-> e, result |-> final,
                   before |-> before, after |-> after]
    <3> HIDE DEF first
    <3> QED BY DEF vkCreateDevice, first
  <2>2. device' = [device EXCEPT ![p] =
          IF final = "ok"
          THEN [exts |-> r.exts, asked |-> {r.queues[i].family : i \in DOMAIN r.queues},
                made |-> {e.queues[i].family : i \in DOMAIN e.queues}]
          ELSE NoDevice]
    BY DEF vkCreateDevice
  <2> HIDE DEF e, final
  <2>3. given = e /\ last'.fn = "vkCreateDevice" /\ last'.pd = p /\ last'.request = r
    BY <2>1
  <2>4. e = first \/ e = Retried(first)
    BY DEF e
  <2> HIDE DEF first, given
  <2> QED BY <2>2, <2>3, <2>4
<1>3. ASSUME OnePhysical'
      PROVE  Understood(p, r.chain, given) /\ Makes(a, r.queues, given)
  <2>1. \A q \in asked : q = p
    BY <1>1, <1>3 DEF OnePhysical
  <2>2. /\ Understood(p, r.chain, first) /\ Makes(a, r.queues, first)
        /\ \A i \in DOMAIN first.queues : first.queues[i] \in QueueRequests
    BY <1>1, <2>1, EffectiveUnderstood
  <2> HIDE DEF given
  <2> QED BY <1>2, <2>2, RetriedUnderstood
<1> HIDE DEF a, first, given
<1>4. DevicesMade'
  <2> SUFFICES ASSUME OnePhysical', NEW q \in Physical, device'[q] # NoDevice, NEW f \in device'[q].asked
               PROVE  Mapped(a, f) \in device'[q].made
    BY <1>1 DEF DevicesMade, Mapped
  <2>1. q = p
    BY <1>1 DEF QueueInv, DevicesAsked, OnePhysical
  <2>2. device'[p] = [exts |-> r.exts, asked |-> {r.queues[i].family : i \in DOMAIN r.queues},
                      made |-> {given.queues[i].family : i \in DOMAIN given.queues}]
    BY <1>2, <2>1 DEF QueueInv, QueueTypes
  <2>3. \E j \in DOMAIN r.queues : f = r.queues[j].family
    BY <2>1, <2>2
  <2>4. \E i \in DOMAIN given.queues : given.queues[i].family = Mapped(a, f)
    BY <1>3, <2>3 DEF Makes
  <2> QED BY <2>1, <2>2, <2>4
<1>5. HostUnderstands'
  <2> DEFINE q == given.queues
             S == {k \in Structures : Real(p, k)}
  <2>1. Exts(p)' = Exts(p) /\ (\A k : Real(p, k)' = Real(p, k)) /\ S' = S
    BY <1>1 DEF Exts, Real, Pretended
  <2>2. OnePhysical' =>
          /\ given.exts \subseteq Exts(p)
          /\ \A i \in DOMAIN q : /\ q[i].family < Len(host[p].families)
                                 /\ \A k \in ToSet(q[i].chain) : Real(p, k)
          /\ IsInjective([i \in DOMAIN q |-> q[i].family])
          /\ given.chain = Retained(r.chain, S)
          /\ given.timeline => "timeline" \in Exts(p)
    BY <1>3 DEF Understood
  <2> HIDE DEF S
  <2>3. OnePhysical' =>
          /\ last'.seen.exts \subseteq Exts(p)'
          /\ \A i \in DOMAIN last'.seen.queues :
               /\ last'.seen.queues[i].family < Len(host'[p].families)
               /\ \A k \in ToSet(last'.seen.queues[i].chain) : Real(p, k)'
          /\ IsInjective([i \in DOMAIN last'.seen.queues |-> last'.seen.queues[i].family])
          /\ last'.seen.chain = Retained(r.chain, S')
          /\ last'.seen.timeline => "timeline" \in Exts(p)'
    BY <1>1, <2>1, <2>2 DEF given
  <2> QED BY <1>2, <2>3 DEF HostUnderstands, S
<1> QED BY <1>4, <1>5

\* A query that is answered, or a step that is no call, says nothing to the host.
LEMMA QuietStep ==
  ASSUME QueueInv, QueueInv', DevicesMade, HostUnderstands, UNCHANGED <<host, device>>,
         \/ UNCHANGED <<alias, asked>>
         \/ \E p \in Physical : /\ asked' = asked \cup {p}
                                /\ alias' = alias \/ refresh_compute_queue_alias(p)
  PROVE  /\ DevicesMade'
         /\ last' = last => HostUnderstands'
<1>1. OnePhysical' => OnePhysical
  BY DEF OnePhysical
<1>2. ASSUME OnePhysical', NEW p \in Physical, device[p] # NoDevice
      PROVE  alias' = alias
  <2>1. Checked /\ alias.pd \in asked /\ p \in asked /\ Checked'
    BY <1>2 DEF QueueInv, OneAsked, DevicesAsked
  <2>2. \A q \in Physical : asked' = asked \cup {q} => alias.pd = q
    BY <1>2, <2>1 DEF OnePhysical
  <2> QED BY <2>2 DEF refresh_compute_queue_alias, Refreshed
<1>3. DevicesMade'
  BY <1>1, <1>2 DEF DevicesMade, Mapped
<1>4. \A p : Exts(p)' = Exts(p) /\ \A k : Real(p, k)' = Real(p, k)
  BY DEF Exts, Real, Pretended
<1>5. last' = last => HostUnderstands'
  <2> SUFFICES ASSUME UNCHANGED last, OnePhysical'  PROVE HostUnderstands'
    BY DEF HostUnderstands
  <2>1. {k \in Structures : Real(last.pd, k)}' = {k \in Structures : Real(last.pd, k)}
    BY <1>4
  <2> QED BY <1>1, <1>4, <2>1 DEF HostUnderstands
<1> QED BY <1>3, <1>5

LEMMA UnderstandStep == UnderstandInv /\ [Next]_vars => UnderstandInv'
<1> SUFFICES ASSUME UnderstandInv, [Next]_vars  PROVE UnderstandInv'
  OBVIOUS
<1>0. /\ QueueInv /\ ListsInv /\ KnownInv /\ DevicesMade /\ HostUnderstands
      /\ QueueInv' /\ ListsInv' /\ KnownInv'
  BY QueueStep, ListsStep, KnownStep DEF UnderstandInv
<1> SUFFICES DevicesMade' /\ HostUnderstands'
  BY <1>0 DEF UnderstandInv
<1> USE DEF shim, history, threads, machine
<1>1. ASSUME NEW p \in Physical, NEW r \in Requests[p], NEW result, NEW second,
             vkCreateDevice(p, r, result, second)
      PROVE  DevicesMade' /\ HostUnderstands'
  BY <1>0, <1>1, DeviceStep
<1>2. ASSUME NEW p \in Physical, NEW capacity,
             \/ vkEnumerateDeviceExtensionProperties(p, capacity)
             \/ vkGetPhysicalDeviceQueueFamilyProperties(p, capacity)
      PROVE  DevicesMade' /\ HostUnderstands'
  <2>1. last'.fn \in {"deviceExtensions", "queueFamilies"}
    <3>1. \A fn, list : Answer(fn, list, capacity).fn = fn
                       /\ [Answer(fn, list, capacity) EXCEPT !.result = 0].fn = fn
      BY DEF Answer
    <3> QED BY <1>2, <3>1
            DEF vkEnumerateDeviceExtensionProperties, vkGetPhysicalDeviceQueueFamilyProperties
  <2>2. UNCHANGED <<host, device>> /\ asked' = asked \cup {p}
        /\ (alias' = alias \/ refresh_compute_queue_alias(p))
    BY <1>2 DEF vkEnumerateDeviceExtensionProperties, vkGetPhysicalDeviceQueueFamilyProperties
  <2>3. DevicesMade'
    BY <1>0, <2>2, QuietStep
  <2> QED BY <2>1, <2>3 DEF HostUnderstands
<1>3. ASSUME \/ CreateInstance \/ UNCHANGED vars
             \/ \E t \in Threads : lock_aliased_queue_operations(t) \/ Return(t)
      PROVE  DevicesMade' /\ HostUnderstands'
  <2>1. UNCHANGED <<host, device, alias, asked, last>>
    BY <1>3 DEF CreateInstance, vars, lock_aliased_queue_operations, Return
  <2> QED BY <1>0, <2>1, QuietStep
<1>4. ASSUME \/ \E t \in Threads : Call(t)
             \/ \E p \in Physical : vkGetPhysicalDeviceFeatures2(p)
      PROVE  DevicesMade' /\ HostUnderstands'
  <2>1. UNCHANGED <<host, device, alias, asked>> /\ last'.fn \in {"none", "features"}
    BY <1>4 DEF Call, vkGetPhysicalDeviceFeatures2, NoCall
  <2>2. DevicesMade'
    BY <1>0, <2>1, QuietStep
  <2> QED BY <2>1, <2>2 DEF HostUnderstands
<1>5. ASSUME NEW p \in Physical, NEW f \in Families2,
             \/ vkCreateCommandPool(p, f)
             \/ \E t \in Threads : vkGetDeviceQueue(t, p, f)
      PROVE  DevicesMade' /\ HostUnderstands'
  <2>1. /\ UNCHANGED <<host, device, alias, asked>>
        /\ device[p] # NoDevice /\ f \in device[p].asked
        /\ \E fn \in {"vkGetDeviceQueue", "vkCreateCommandPool"} :
             last' = [fn |-> fn, pd |-> p, family |-> Mapped(alias, f)]
    BY <1>5 DEF vkCreateCommandPool, vkGetDeviceQueue, ToHost
  <2>2. DevicesMade'
    BY <1>0, <2>1, QuietStep
  <2>3. OnePhysical' => Mapped(alias, f) \in device[p].made
    BY <1>0, <2>1 DEF DevicesMade, OnePhysical
  <2> QED BY <2>1, <2>2, <2>3 DEF HostUnderstands
<1>6. ASSUME NEW p \in Physical, vkWaitForPresentKHR(p)
      PROVE  DevicesMade' /\ HostUnderstands'
  <2>1. /\ UNCHANGED <<host, device, alias, asked>> /\ "present_wait" \in told[p]
        /\ last' = [fn |-> "vkWaitForPresentKHR", pd |-> p, toHost |-> ~synth.wait]
    BY <1>6 DEF vkWaitForPresentKHR
  <2>2. DevicesMade'
    BY <1>0, <2>1, QuietStep
  <2>3. OnePhysical' /\ ~synth.wait => "present_wait" \in Exts(p)
    <3> SUFFICES ASSUME OnePhysical', ~synth.wait  PROVE "present_wait" \in Exts(p)
      OBVIOUS
    <3>1. told[p] # {} /\ \A q \in asked : q = p
      BY <1>0, <2>1 DEF OnePhysical, KnownInv
    <3> QED BY <1>0, <2>1, <3>1, FlagsTrue
  <2> QED BY <2>1, <2>2, <2>3 DEF HostUnderstands, Exts
<1>7. ASSUME NEW t \in Threads, NEW chain \in Presents, vkQueuePresentKHR(t, chain)
      PROVE  DevicesMade' /\ HostUnderstands'
  <2> DEFINE p == handle[t].own[1]
  <2>1. p \in asked /\ p \in Physical
    BY <1>0, <1>7 DEF vkQueuePresentKHR, QueueInv, CallersHave, HandlesMapped, KnownInv
  <2>2. /\ UNCHANGED <<host, device, alias, asked>>
        /\ "presentId" \in ToSet(chain) => "present_id" \in told[p]
        /\ last' = [fn |-> "vkQueuePresentKHR", pd |-> p, chain |-> chain,
                    seen |-> PresentChain(chain)]
    BY <1>7 DEF vkQueuePresentKHR
  <2> HIDE DEF p
  <2>3. DevicesMade'
    BY <1>0, <2>2, QuietStep
  <2>4. OnePhysical' /\ Leads(chain) => (synth.id <=> "present_id" \notin Exts(p))
    <3> SUFFICES ASSUME OnePhysical', Leads(chain)
                 PROVE  synth.id <=> "present_id" \notin Exts(p)
      OBVIOUS
    <3>1. "presentId" \in ToSet(chain)
      BY PresentAssumption DEF Leads, ToSet
    <3>2. "present_id" \in told[p] /\ \A q \in asked : q = p
      BY <2>1, <2>2, <3>1 DEF OnePhysical
    <3> QED BY <1>0, <2>1, <3>2, FlagsTrue
  <2>5. OnePhysical' => PresentChain(chain) = IF Leads(chain) /\ "present_id" \notin Exts(p)
                                              THEN Tail(chain) ELSE chain
    BY <2>4 DEF PresentChain
  <2> QED BY <2>2, <2>3, <2>5 DEF HostUnderstands, Exts
<1>8. CASE Ask
  BY <1>1, <1>2, <1>3, <1>4, <1>5, <1>6, <1>8 DEF Ask, vkGetPhysicalDeviceQueueFamilyProperties2
<1>9. CASE \E t \in Threads : Use(t)
  BY <1>3, <1>4, <1>5, <1>7, <1>9 DEF Use, vkGetDeviceQueue2
<1> QED BY <1>3, <1>8, <1>9 DEF Next

(* An application that keeps to one physical device, and adds structures for *)
(* what it was shown, does not let the host see what the shim made up: not   *)
(* the alias, a synthetic extension or a structure of vkCreateDevice, in its *)
(* second attempt neither (vkGetDeviceQueue, vkCreateCommandPool,            *)
(* vkWaitForPresentKHR), and no other structure is lost.  A present id       *)
(* leaves the chain of vkQueuePresentKHR exactly when it leads it and the    *)
(* host lacks it; behind another structure it stays, whatever the host has.  *)
THEOREM HostAlwaysUnderstands == Spec => []HostUnderstands
<1>1. Init => UnderstandInv
  <2>1. ASSUME Init  PROVE DevicesMade /\ HostUnderstands
    <3>1. device = [p \in Physical |-> NoDevice] /\ last = NoCall
      BY <2>1 DEF Init
    <3> QED BY <3>1 DEF DevicesMade, HostUnderstands, NoCall
  <2> QED BY <2>1, QueueStart, ListsStart, KnownStart DEF UnderstandInv
<1>2. UnderstandInv => HostUnderstands
  BY DEF UnderstandInv
<1> QED BY <1>1, <1>2, UnderstandStep, PTL DEF Spec

-----------------------------------------------------------------------------
(* The driver.  What a queue says last about a key is true, since the       *)
(* kernel puts every change of the key into it and an overflow leaves a     *)
(* mark; so a key that the driver takes for held is held somewhere, or a    *)
(* queue holds what will release it.                                        *)

Event == [key : Keys \cup {"SYN_DROPPED"}, down : BOOLEAN]

Releases(i, k) == \E n \in DOMAIN events[i] : events[i][n] \in {NoDropped, [key |-> k, down |-> FALSE]}

KeysTypes ==
  /\ events \in [Inputs -> Seq(Event)]
  /\ \A i \in Inputs : Len(events[i]) <= Buffer
  /\ down \subseteq Inputs \X Keys
  /\ keys \subseteq Keys
  /\ opened \in BOOLEAN

ClosedKnowsNothing == ~opened => keys = {} /\ events = [i \in Inputs |-> <<>>]

LastIsTrue == \A i \in Inputs, k \in Keys : Says(events[i], k) => <<i, k>> \in down

HeldOrReleased == \A k \in keys : \E i \in Inputs : <<i, k>> \in down \/ Releases(i, k)

KeysInv == KeysTypes /\ ClosedKnowsNothing /\ LastIsTrue /\ HeldOrReleased

(* The dashboard's pulse comes once: before it nothing rose, and within it  *)
(* the button stays pressed.                                                *)
PulseInv ==
  /\ frames \in Nat /\ rises \in 0..1
  /\ ~automatic.open => rises = 0
  /\ frames < OpenFrom => rises = 0
  /\ automatic.open /\ OpenFrom <= frames /\ frames < OpenTo => "system" \in out
  /\ exists # {} => opened

DriverInv == KeysInv /\ PulseInv

(* A queue with an event more, or with the mark of an overflow in front.    *)
LEMMA QueueGrows ==
  ASSUME KeysTypes, NEW i \in Inputs, NEW e \in Event
  PROVE  /\ Emit(i, e) \in [Inputs -> Seq(Event)]
         /\ \A j \in Inputs : Len(Emit(i, e)[j]) <= Buffer
         /\ ~opened => Emit(i, e) = events
         /\ \A j \in Inputs \ {i} : Emit(i, e)[j] = events[j]
         /\ opened => \/ Emit(i, e)[i] = Append(events[i], e)
                      \/ Emit(i, e)[i] = <<NoDropped, e>>
<1>1. events[i] \in Seq(Event) /\ NoDropped \in Event
  BY DEF KeysTypes, NoDropped, Event
<1>2. Append(events[i], e) \in Seq(Event) /\ Len(Append(events[i], e)) = Len(events[i]) + 1
  BY <1>1
<1>3. <<NoDropped, e>> \in Seq(Event) /\ Len(<<NoDropped, e>>) = 2
  BY <1>1
<1>4. Buffer \in Nat /\ 2 <= Buffer
  BY DriverAssumption
<1>5. Len(events[i]) \in Nat
  BY <1>1
<1> QED  BY <1>1, <1>2, <1>3, <1>4, <1>5 DEF Emit, KeysTypes

(* An event says what it says about its key and nothing about another; the  *)
(* mark says that every key is up.                                          *)
LEMMA AppendSays ==
  ASSUME NEW q \in Seq(Event), NEW e \in Event, NEW k \in Keys, e.key \in Keys
  PROVE  Says(Append(q, e), k) => IF e.key = k THEN e.down ELSE Says(q, k)
<1> DEFINE r == Append(q, e)
<1>1. r \in Seq(Event) /\ Len(r) = Len(q) + 1 /\ r[Len(q) + 1] = e
  /\ \A n \in 1..Len(q) : r[n] = q[n]
  OBVIOUS
<1>2. SUFFICES ASSUME Says(r, k)
               PROVE  IF e.key = k THEN e.down ELSE Says(q, k)
  OBVIOUS
<1>3. PICK n \in About(r, k) : r[n].down /\ \A m \in About(r, k) : m <= n
  BY <1>2 DEF Says
<1>4. e # NoDropped
  BY DEF NoDropped, Keys
<1>5. DOMAIN r = 1..(Len(q) + 1) /\ DOMAIN q = 1..Len(q) /\ Len(q) \in Nat
  BY <1>1
<1>6. CASE e.key = k
  <2>1. Len(q) + 1 \in About(r, k)
    BY <1>6, <1>1, <1>5 DEF About
  <2>2. n = Len(q) + 1
    BY <2>1, <1>3, <1>5 DEF About
  <2> QED  BY <2>2, <1>1, <1>3, <1>6
<1>7. CASE e.key # k
  <2>1. About(r, k) = About(q, k)
    BY <1>7, <1>1, <1>4, <1>5 DEF About
  <2>2. n \in 1..Len(q)
    BY <2>1, <1>3, <1>5 DEF About
  <2> QED  BY <2>1, <2>2, <1>1, <1>3, <1>7 DEF Says
<1> QED  BY <1>6, <1>7

LEMMA DroppedSays ==
  ASSUME NEW e \in Event, NEW k \in Keys, e.key \in Keys
  PROVE  Says(<<NoDropped, e>>, k) => e.key = k /\ e.down
<1> DEFINE r == <<NoDropped, e>>
<1>1. DOMAIN r = 1..2 /\ r[1] = NoDropped /\ r[2] = e
  OBVIOUS
<1>6. 1 \in About(r, k)
  <2> HIDE DEF r
  <2> QED  BY <1>1 DEF About
<1>7. ~NoDropped.down
  BY DEF NoDropped
<1>3. SUFFICES ASSUME NEW n \in About(r, k), r[n].down
               PROVE  e.key = k /\ e.down
  BY DEF Says
<1>4. n = 2
  BY <1>1, <1>6, <1>7, <1>3 DEF About
<1>5. e # NoDropped
  BY DEF NoDropped, Keys
<1> QED  BY <1>1, <1>3, <1>4, <1>5 DEF About

LEMMA PressKeeps ==
  ASSUME KeysInv, NEW i \in Inputs, NEW k \in Keys, NEW e \in Event, e.key = k,
         events' = Emit(i, e), keys' = keys, opened' = opened,
         down' = IF e.down THEN down \cup {<<i, k>>} ELSE down \ {<<i, k>>}
  PROVE  KeysInv'
<1> USE DEF KeysInv
<1>1. KeysTypes'
  BY QueueGrows DEF KeysTypes
<1>2. ClosedKnowsNothing'
  BY QueueGrows DEF ClosedKnowsNothing
<1>3. LastIsTrue'
  <2>1. SUFFICES ASSUME NEW j \in Inputs, NEW c \in Keys, Says(events[j], c)'
                 PROVE  (<<j, c>> \in down)'
    BY DEF LastIsTrue
  <2>9. Says(events'[j], c)
    BY <2>1 DEF Says, About, NoDropped
  <2>2. CASE j # i
    <3>1. events'[j] = events[j]
      BY <2>2, QueueGrows
    <3>2. Says(events[j], c)
      BY <2>9, <3>1
    <3>3. <<j, c>> \in down /\ <<j, c>> # <<i, k>>
      BY <3>2, <2>2 DEF LastIsTrue
    <3> QED  BY <3>3
  <2>3. CASE j = i /\ ~opened
    <3>1. events'[j] = <<>>
      BY <2>3, QueueGrows DEF ClosedKnowsNothing
    <3> QED  BY <3>1, <2>9 DEF Says, About
  <2>4. CASE j = i /\ opened
    <3>1. events[i] \in Seq(Event)
      BY DEF KeysTypes
    <3>2. Says(events'[i], c)
      BY <2>9, <2>4
    <3>3. IF c = k THEN e.down ELSE Says(events[i], c)
      <4>1. events'[i] = Append(events[i], e) \/ events'[i] = <<NoDropped, e>>
        BY <2>4, QueueGrows
      <4>2. CASE events'[i] = Append(events[i], e)
        BY <3>1, <3>2, <4>2, AppendSays
      <4>3. CASE events'[i] = <<NoDropped, e>>
        BY <3>2, <4>3, DroppedSays
      <4> QED  BY <4>1, <4>2, <4>3
    <3>4. CASE c = k
      <4>1. down' = down \cup {<<i, k>>}
        BY <3>3, <3>4
      <4> QED  BY <4>1, <3>4, <2>4
    <3>5. CASE c # k
      <4>1. <<i, c>> \in down
        BY <3>3, <3>5 DEF LastIsTrue
      <4> QED  BY <4>1, <3>5, <2>4
    <3> QED  BY <3>4, <3>5
  <2> QED  BY <2>2, <2>3, <2>4
<1>4. HeldOrReleased'
  <2>1. SUFFICES ASSUME NEW c \in keys
                 PROVE  \E j \in Inputs : (<<j, c>> \in down)' \/ Releases(j, c)'
    BY DEF HeldOrReleased
  <2>2. opened
    BY <2>1 DEF ClosedKnowsNothing
  <2>3. PICK j \in Inputs : <<j, c>> \in down \/ Releases(j, c)
    BY <2>1 DEF HeldOrReleased
  <2>4. events[i] \in Seq(Event) /\ c \in Keys
    BY <2>1 DEF KeysTypes
  <2>5. CASE j # i
    <3>1. events'[j] = events[j]
      BY <2>5, QueueGrows
    <3>2. <<j, c>> # <<i, k>>
      BY <2>5
    <3>3. <<j, c>> \in down => <<j, c>> \in down'
      BY <3>2
    <3> QED  BY <2>3, <3>1, <3>3 DEF Releases
  <2>6. CASE j = i /\ events'[i] = <<NoDropped, e>>
    <3>1. 1 \in DOMAIN events'[i] /\ events'[i][1] = NoDropped
      BY <2>6
    <3> QED  BY <3>1, <2>6 DEF Releases
  <2>7. CASE j = i /\ events'[i] = Append(events[i], e)
    <3>1. /\ DOMAIN events'[i] = 1..(Len(events[i]) + 1) /\ Len(events[i]) \in Nat
          /\ events'[i][Len(events[i]) + 1] = e
          /\ DOMAIN events[i] = 1..Len(events[i])
          /\ \A n \in DOMAIN events[i] : events'[i][n] = events[i][n]
      BY <2>7, <2>4
    <3>2. CASE Releases(i, c)
      BY <3>1, <3>2 DEF Releases
    <3>3. CASE <<i, c>> \in down /\ ~(<<i, c>> \in down')
      <4>1. c = k /\ e = [key |-> c, down |-> FALSE]
        BY <3>3 DEF Event
      <4> QED  BY <4>1, <3>1 DEF Releases
    <3>4. CASE <<i, c>> \in down'
      BY <3>4, <2>7
    <3> QED  BY <3>2, <3>3, <3>4, <2>3, <2>7
  <2> QED  BY <2>2, <2>3, <2>5, <2>6, <2>7, QueueGrows
<1> QED  BY <1>1, <1>2, <1>3, <1>4

LEMMA EmptiedKeeps ==
  ASSUME KeysInv, events' = [i \in Inputs |-> <<>>], down' = down, opened' \in BOOLEAN,
         keys' = {} \/ (keys' = Read /\ opened')
  PROVE  KeysInv'
<1> USE DEF KeysInv
<1>1. KeysTypes'
  <2>1. Buffer \in Nat
    BY DriverAssumption
  <2> QED  BY <2>1 DEF KeysTypes, Read
<1>2. ClosedKnowsNothing'
  BY DEF ClosedKnowsNothing
<1>3. LastIsTrue'
  BY DEF LastIsTrue, Says, About
<1>4. HeldOrReleased'
  <2>1. SUFFICES ASSUME NEW c \in Read
                 PROVE  \E i \in Inputs : <<i, c>> \in down
    BY DEF HeldOrReleased
  <2>2. CASE Speakers(c) = {}
    <3>1. c \in keys
      BY <2>1, <2>2 DEF Read
    <3>2. PICK i \in Inputs : <<i, c>> \in down \/ Releases(i, c)
      BY <3>1 DEF HeldOrReleased
    <3>3. ~Releases(i, c)
      BY <2>2 DEF Releases, Speakers, About
    <3> QED  BY <3>2, <3>3
  <2>3. CASE Speakers(c) # {}
    BY <2>1, <2>3 DEF Read, LastIsTrue, Speakers
  <2> QED  BY <2>2, <2>3
<1> QED  BY <1>1, <1>2, <1>3, <1>4

LEMMA KeysStep ==
  ASSUME DriverInv, [DriverNext]_driver
  PROVE  KeysInv'
<1> USE DEF DriverInv
<1>1. ASSUME NEW i \in Inputs, NEW k \in Keys, Press(i, k)
      PROVE  KeysInv'
  <2>1. [key |-> k, down |-> TRUE] \in Event
    BY DEF Event
  <2> QED  BY <1>1, <2>1, PressKeeps DEF Press
<1>2. ASSUME NEW i \in Inputs, NEW k \in Keys, Release(i, k)
      PROVE  KeysInv'
  <2>1. [key |-> k, down |-> FALSE] \in Event
    BY DEF Event
  <2> QED  BY <1>2, <2>1, PressKeeps DEF Release
<1>3. ASSUME NEW added \in SUBSET Devices, InitProvider(added)
      PROVE  KeysInv'
  BY <1>3, EmptiedKeeps DEF InitProvider, Open, Close
<1>4. CASE Cleanup
  BY <1>4, EmptiedKeeps DEF Cleanup, Close
<1>5. CASE RunFrame
  BY <1>5, EmptiedKeeps DEF RunFrame, PulseInv, KeysInv, KeysTypes
<1>6. ASSUME UNCHANGED <<kernel, opened, keys>>
      PROVE  KeysInv'
  BY <1>6 DEF KeysInv, KeysTypes, ClosedKnowsNothing, LastIsTrue, HeldOrReleased, Releases, kernel, Says, About
<1> QED
  BY <1>1, <1>2, <1>3, <1>4, <1>5, <1>6
  DEF DriverNext, driver, ActivateHmd, ActivateController, Deactivate

LEMMA PulseStep ==
  ASSUME DriverInv, [DriverNext]_driver
  PROVE  PulseInv'
<1> USE DriverAssumption DEF DriverInv, PulseInv
<1>1. CASE RunFrame
  <2>1. CASE "right" \notin activated
    BY <1>1, <2>1 DEF RunFrame
  <2>2. CASE "right" \in activated
    <3> DEFINE pressed == RunController(Read, NextFrame)
               rose == "system" \in pressed \ out /\ "F1" \notin Read
    <3>1. /\ frames' = NextFrame /\ out' = pressed /\ rises' = IF rose THEN rises + 1 ELSE rises
          /\ UNCHANGED <<opened, exists, automatic>>
      BY <1>1, <2>2 DEF RunFrame
    <3>2. "system" \in pressed <=> "F1" \in Read \/ Opens(NextFrame)
      BY DEF RunController
    <3>3. NextFrame = frames + 1 \/ (NextFrame = SelectFrom /\ frames + 1 = SelectFrom + SelectEvery)
      BY DEF NextFrame
    <3>4. rose => Opens(NextFrame) /\ rises = 0
      <4>1. SUFFICES ASSUME rose PROVE Opens(NextFrame) /\ rises = 0
        OBVIOUS
      <4>2. Opens(NextFrame) /\ "system" \notin out
        BY <4>1, <3>2
      <4>3. NextFrame = frames + 1
        BY <4>2, <3>3 DEF Opens
      <4> QED  BY <4>2, <4>3 DEF Opens
    <3>5. NextFrame \in Nat /\ (NextFrame < OpenFrom => frames < OpenFrom)
      BY <3>3
    <3>6. rises' \in 0..1 /\ (~automatic.open => rises' = 0) /\ (NextFrame < OpenFrom => rises' = 0)
      <4> HIDE DEF rose
      <4> QED  BY <3>1, <3>4, <3>5 DEF Opens
    <3>7. automatic.open /\ OpenFrom <= NextFrame /\ NextFrame < OpenTo => "system" \in pressed
      BY <3>2 DEF Opens
    <3> HIDE DEF pressed, rose
    <3> QED  BY <3>1, <3>5, <3>6, <3>7
  <2> QED  BY <2>1, <2>2
<1>2. ASSUME NEW d \in Devices, ActivateController(d)
      PROVE  PulseInv'
  BY <1>2 DEF ActivateController, kernel
<1>3. ASSUME NEW added \in SUBSET Devices, InitProvider(added)
      PROVE  PulseInv'
  BY <1>3 DEF InitProvider, Open, Close
<1>4. CASE Cleanup
  BY <1>4 DEF Cleanup, Close
<1>5. ASSUME UNCHANGED <<opened, exists, automatic, frames, out, rises>>
      PROVE  PulseInv'
  BY <1>5
<1> QED
  BY <1>1, <1>2, <1>3, <1>4, <1>5
  DEF DriverNext, driver, kernel, Press, Release, ActivateHmd, Deactivate

LEMMA DriverStart ==
  ASSUME DriverInit
  PROVE  DriverInv
<1>1. KeysInv
  <2>1. Buffer \in Nat
    BY DriverAssumption
  <2>2. events = [i \in Inputs |-> <<>>] /\ down = {} /\ keys = {} /\ opened = FALSE
    BY DEF DriverInit
  <2>3. KeysTypes
    <3>1. <<>> \in Seq(Event) /\ Len(<<>>) = 0
      OBVIOUS
    <3>2. events \in [Inputs -> Seq(Event)]
      BY <3>1, <2>2
    <3>3. \A i \in Inputs : Len(events[i]) <= Buffer
      BY <3>1, <2>1, <2>2
    <3> QED  BY <3>2, <3>3, <2>2 DEF KeysTypes
  <2>4. \A k : ~Says(<<>>, k)
    BY DEF Says, About
  <2>5. LastIsTrue
    BY <2>2, <2>4 DEF LastIsTrue
  <2>6. ClosedKnowsNothing /\ HeldOrReleased
    BY <2>2 DEF ClosedKnowsNothing, HeldOrReleased
  <2> QED  BY <2>3, <2>5, <2>6 DEF KeysInv
<1>2. PulseInv
  BY DriverAssumption DEF DriverInit, PulseInv
<1> QED  BY <1>1, <1>2 DEF DriverInv

LEMMA DriverInvIsGenuine ==
  ASSUME DriverInv
  PROVE  InputGenuine
<1>1. NoStuckKey
  <2>1. SUFFICES ASSUME NEW k \in keys, NEW i \in Inputs, Releases(i, k)
                 PROVE  \E n \in 1..Buffer :
                          n <= Len(events[i]) /\ events[i][n] \in {NoDropped, [key |-> k, down |-> FALSE]}
    BY DEF NoStuckKey, DriverInv, KeysInv, HeldOrReleased
  <2>2. events[i] \in Seq(Event) /\ Len(events[i]) <= Buffer /\ Buffer \in Nat
    BY DriverAssumption DEF DriverInv, KeysInv, KeysTypes
  <2> QED  BY <2>1, <2>2 DEF Releases
<1>2. DashboardOnce
  BY DEF DriverInv, PulseInv, DashboardOnce
<1> QED  BY <1>1, <1>2 DEF InputGenuine

(* For any devices, queue lengths and frame counts: a key that the driver   *)
(* takes for held is held or about to be released, and between two          *)
(* activations the dashboard opens by itself at most once (VmInput::Read,   *)
(* FakeController::RunFrame).                                               *)
THEOREM InputsGenuine == DriverSpec => []InputGenuine
<1>1. DriverInit => DriverInv
  BY DriverStart
<1>2. DriverInv /\ [DriverNext]_driver => DriverInv'
  BY KeysStep, PulseStep DEF DriverInv
<1>3. DriverInv => InputGenuine
  BY DriverInvIsGenuine
<1> QED  BY <1>1, <1>2, <1>3, PTL DEF DriverSpec

-----------------------------------------------------------------------------
(* The machine.  A step of one part leaves the others alone, so every part  *)
(* behaves as it does by itself.                                            *)

LEMMA MachineParts ==
  MachineSpec => Spec /\ DispatchSpec /\ DisplaySpec /\ BridgeSpec /\ DriverSpec
<1>1. MachineInit => Init /\ DispatchInit /\ DisplayInit /\ BridgeInit /\ DriverInit
  BY DEF MachineInit
<1>2. [MachineNext]_machineVars =>
        /\ [Next]_vars /\ [DispatchNext]_dispatch /\ [DisplayNext]_displays
        /\ [BridgeNext]_bridgeVars /\ [DriverNext]_driver
  BY DEF MachineNext, machineVars
<1> QED
  BY <1>1, <1>2, PTL DEF MachineSpec, Spec, DispatchSpec, DisplaySpec, BridgeSpec, DriverSpec

(* Whatever the whole machine is asked to list, in any array, it lists      *)
(* honestly: EveryListHonest (vkEnumerateDeviceExtensionProperties, the     *)
(* queue families and the display queries).                                 *)
THEOREM EveryListIsHonest == MachineSpec => []EveryListHonest
<1>1. EnumerationHonest /\ ListsHonest => EveryListHonest
  BY DEF EveryListHonest
<1> QED  BY <1>1, MachineParts, DeviceListsHonest, DisplayListsHonest, PTL

(* What was proved of the parts holds of the whole: the host's queues are   *)
(* entered one at a time and see nothing made up but a present id behind    *)
(* another structure (HostUnderstands), structures are linked again as they *)
(* were, wrappers find the functions that they hide, the display works,     *)
(* shared values are true and never go back, and the driver reports the     *)
(* user's keys.                                                             *)
THEOREM MachineKept ==
  MachineSpec =>
    /\ [](HostQueueExclusive /\ HostUnderstands /\ MemoryRestored /\ WrappersWork /\ DisplayUsable
         /\ ValuesCompleted /\ InputGenuine)
    /\ NeverBack
BY MachineParts, HostQueuesExclusive, HostAlwaysUnderstands, MemoryAlwaysRestored, WrappersAlwaysWork,
   DisplayAlwaysUsable, BridgedValuesAreTrue, BridgedValuesGrow, InputsGenuine, PTL

=============================================================================
