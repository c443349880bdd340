--------------------------- MODULE WsiEventsProofs ---------------------------
(***************************************************************************)
(* Proofs about WsiEvents for any number of threads, images and frames:    *)
(* the type invariant, and that the socket has one reader, who knows that  *)
(* what poll(2) announced is still there and without whom nobody sleeps.   *)
(*                                                                         *)
(* Serve, Fail, TimeOut, Lose and Loop have one Outcome for the thread     *)
(* that runs; what the invariants need of the other threads is Ready.      *)
(***************************************************************************)
EXTENDS WsiEvents, TLAPS

PcStates == {"idle", "entering", "sleeping", "woken", "polling", "readable",
             "expired", "lost"}
ReadStates == {"polling", "readable", "expired", "lost"}

\* What a thread's turn leaves behind: the threads other than t are where
\* "where" has them, and t has returned, sleeps behind a reader, or reads.
Outcome(t, p, shown, where, waiting) ==
  /\ presented' = shown
  /\ pool'.available \subseteq p.available
  /\ pc' \in [Threads -> PcStates]
  /\ call' \in [Threads -> Calls \cup {NoCall}]
  /\ \A u \in Threads \ {t} : pc'[u] = where[u] /\ call'[u] = call[u]
  /\ \/ pc'[t] = "idle" /\ eventWaiting' = waiting
     \/ /\ pc'[t] = "sleeping" /\ waiting /\ eventWaiting' = waiting
        /\ call'[t] = call[t] /\ ~CanServe(t, p, shown)
     \/ /\ pc'[t] = "polling" /\ ~waiting /\ eventWaiting' = TRUE
        /\ call'[t] = call[t] /\ ~CanServe(t, p, shown)

\* What a thread's turn starts from.
Ready(t, p, shown, where, waiting) ==
  /\ waiting \in BOOLEAN
  /\ \A u, v \in Threads \ {t} :
       where[u] \in ReadStates /\ where[v] \in ReadStates => u = v
  /\ waiting <=> \E u \in Threads \ {t} : where[u] \in ReadStates
  /\ \A u \in Threads \ {t} :
       /\ where[u] = "sleeping" \/ where[u] \in ReadStates
            => ~CanServe(u, p, shown)
       /\ where[u] = "sleeping" => waiting

LEMMA PoolOps ==
  ASSUME NEW p \in PoolType, NEW slot \in Slots, NEW f \in Nat
  PROVE  /\ \A mask \in SUBSET Slots : PoolOf(mask) \in PoolType
         /\ Acquired(p, slot) \in PoolType
         /\ Acquired(p, slot).available \subseteq p.available
         /\ Submitted(p, slot, f) \in PoolType
         /\ Submitted(p, slot, f).available = p.available
         /\ Returned(p, slot) \in PoolType
<1>1. 0 \in Slots /\ (slot + 1) % Buffers \in Slots
  BY BuffersAssumption DEF Slots
<1>2. \A mask \in SUBSET Slots : PoolOf(mask) \in PoolType
  BY <1>1 DEF PoolOf, NoPool, PoolType
<1>3. /\ Acquired(p, slot) \in PoolType
      /\ Acquired(p, slot).available \subseteq p.available
  BY <1>1 DEF Acquired, PoolType
<1>4. /\ Submitted(p, slot, f) \in PoolType /\ Returned(p, slot) \in PoolType
      /\ Submitted(p, slot, f).available = p.available
  BY DEF Submitted, Returned, PoolType
<1> QED
  BY <1>2, <1>3, <1>4

\* The types of what a turn writes.
TurnTypes ==
  /\ pool' \in PoolType
  /\ acquired' \in SUBSET Slots
  /\ presented' \in 0 .. MaxFrame
  /\ eventWaiting' \in BOOLEAN
  /\ call' \in [Threads -> Calls \cup {NoCall}]
  /\ pc' \in [Threads -> PcStates]
  /\ result' \in [Threads -> {"none", "success", "timeout", "lost"}]

LEMMA ServeFail ==
  ASSUME TypeOK, NEW t \in Threads, NEW p \in PoolType,
         NEW shown \in 0 .. MaxFrame, NEW where \in [Threads -> PcStates],
         NEW outcome \in {"timeout", "lost"}, NEW waiting \in BOOLEAN,
         Serve(t, p, shown, where) \/ Fail(t, p, shown, where, outcome),
         eventWaiting' = waiting
  PROVE  Outcome(t, p, shown, where, waiting) /\ TurnTypes
<1>1. /\ acquired \in SUBSET Slots
      /\ call \in [Threads -> Calls \cup {NoCall}]
      /\ result \in [Threads -> {"none", "success", "timeout", "lost"}]
  BY DEF TypeOK
<1>2. \A o \in {"success", "timeout", "lost"} : Returns(t, where, o) =>
        /\ pc' \in [Threads -> PcStates] /\ pc'[t] = "idle"
        /\ call' \in [Threads -> Calls \cup {NoCall}]
        /\ result' \in [Threads -> {"none", "success", "timeout", "lost"}]
        /\ \A u \in Threads \ {t} : pc'[u] = where[u] /\ call'[u] = call[u]
  BY <1>1 DEF Returns, PcStates
<1>3. CASE Serve(t, p, shown, where)
  <2>1. /\ pool' \in PoolType /\ acquired' \in SUBSET Slots
        /\ pool'.available \subseteq p.available
    BY <1>1, <1>3, PoolOps DEF Serve
  <2> QED
    BY <1>2, <1>3, <2>1 DEF Serve, Outcome, TurnTypes
<1>4. CASE Fail(t, p, shown, where, outcome)
  BY <1>1, <1>2, <1>4 DEF Fail, Outcome, TurnTypes
<1> QED
  BY <1>3, <1>4

LEMMA LoopOutcome ==
  ASSUME TypeOK, NEW t \in Threads, NEW p \in PoolType,
         NEW shown \in 0 .. MaxFrame, NEW where \in [Threads -> PcStates],
         NEW waiting \in BOOLEAN,
         \/ Loop(t, p, shown, where, waiting)
         \/ TimeOut(t, p, shown, where) /\ eventWaiting' = waiting
         \/ Lose(t, p, shown, where) /\ eventWaiting' = waiting
  PROVE  Outcome(t, p, shown, where, waiting) /\ TurnTypes
<1>1. /\ acquired \in SUBSET Slots
      /\ call \in [Threads -> Calls \cup {NoCall}]
      /\ result \in [Threads -> {"none", "success", "timeout", "lost"}]
  BY DEF TypeOK
<1>2. CASE TimeOut(t, p, shown, where) /\ eventWaiting' = waiting
  BY <1>2, ServeFail DEF TimeOut
<1>3. CASE Lose(t, p, shown, where) /\ eventWaiting' = waiting
  BY <1>3, ServeFail DEF Lose
<1>4. CASE Loop(t, p, shown, where, waiting)
  <2>1. CASE \/ Serve(t, p, shown, where)
             \/ Fail(t, p, shown, where, "timeout")
    <3>1. eventWaiting' = waiting
      BY <1>4, <2>1, <1>1 DEF Loop, Serve, Fail, Returns, PcStates
    <3> QED
      BY <2>1, <3>1, ServeFail
  <2>2. CASE /\ ~CanServe(t, p, shown)
             /\ waiting /\ eventWaiting' = waiting
             /\ pc' = [where EXCEPT ![t] = "sleeping"]
             /\ pool' = p /\ presented' = shown
             /\ UNCHANGED <<acquired, call, result>>
    BY <1>1, <2>2 DEF Outcome, TurnTypes, PcStates
  <2>3. CASE /\ ~CanServe(t, p, shown)
             /\ ~waiting /\ eventWaiting' = TRUE
             /\ pc' = [where EXCEPT ![t] = "polling"]
             /\ pool' = p /\ presented' = shown
             /\ UNCHANGED <<acquired, call, result>>
    BY <1>1, <2>3 DEF Outcome, TurnTypes, PcStates
  <2> QED
    BY <1>4, <2>1, <2>2, <2>3 DEF Loop
<1> QED
  BY <1>2, <1>3, <1>4

-----------------------------------------------------------------------------
(* The invariant.                                                          *)

Inv == TypeOK /\ OneReader /\ NobodyWaitsInVain /\ AnnouncedIsThere

\* A turn taken from a Ready state keeps one reader, and lets nobody wait for
\* what has come.
LEMMA TurnKeeps ==
  ASSUME NEW t \in Threads, NEW p, NEW shown, NEW where, NEW waiting,
         Ready(t, p, shown, where, waiting),
         Outcome(t, p, shown, where, waiting)
  PROVE  /\ OneReader' /\ NobodyWaitsInVain'
         /\ \A u \in Threads : pc'[u] = "readable" => u # t /\ where[u] = "readable"
<1> DEFINE Turned(u) == u \in Threads \ {t}
<1>1. \A u \in Threads : u # t => pc'[u] = where[u] /\ call'[u] = call[u]
  BY DEF Outcome
<1>2. \A u \in Threads : u # t /\ ~CanServe(u, p, shown)
        => ~CanServe(u, pool, presented)'
  BY <1>1 DEF Outcome, CanServe
<1>3. call'[t] = call[t] /\ ~CanServe(t, p, shown)
        => ~CanServe(t, pool, presented)'
  BY DEF Outcome, CanServe
<1>4. \A u \in Threads : Reading(u)' <=> pc'[u] \in ReadStates
  BY DEF Reading, ReadStates
<1>5. OneReader'
  <2>1. CASE pc'[t] = "polling"
    BY <1>1, <1>4, <2>1 DEF OneReader, Ready, Outcome, ReadStates
  <2>2. CASE pc'[t] # "polling"
    <3>1. ~Reading(t)' /\ eventWaiting' = waiting
      BY <2>2 DEF Outcome, Reading
    <3> QED
      BY <1>1, <1>4, <3>1 DEF OneReader, Ready
  <2> QED
    BY <2>1, <2>2
<1>6. NobodyWaitsInVain'
  <2>1. ASSUME NEW u \in Threads, (pc[u] = "sleeping" \/ Reading(u))'
        PROVE  ~CanServe(u, pool, presented)'
    <3>1. CASE u = t
      BY <1>3, <2>1, <3>1 DEF Outcome, Reading
    <3>2. CASE u # t
      BY <1>1, <1>2, <1>4, <2>1, <3>2 DEF Ready
    <3> QED
      BY <3>1, <3>2
  <2>2. ASSUME NEW u \in Threads, (pc[u] = "sleeping")'
        PROVE  \E v \in Threads : Reading(v)'
    <3>1. eventWaiting'
      BY <1>1, <2>2 DEF Ready, Outcome
    <3> QED
      BY <1>5, <3>1 DEF OneReader
  <2> QED
    BY <2>1, <2>2 DEF NobodyWaitsInVain
<1>7. \A u \in Threads : pc'[u] = "readable" => u # t /\ where[u] = "readable"
  BY <1>1 DEF Outcome
<1> QED
  BY <1>5, <1>6, <1>7

\* Between turns everybody but a thread that does not read is Ready.
LEMMA ReadyOutside ==
  ASSUME Inv, NEW t \in Threads, ~Reading(t)
  PROVE  Ready(t, pool, presented, pc, eventWaiting)
<1>1. \A u \in Threads : Reading(u) <=> pc[u] \in ReadStates
  BY DEF Reading, ReadStates
<1>2. eventWaiting \in BOOLEAN
  BY DEF Inv, TypeOK
<1> QED
  BY <1>1, <1>2 DEF Inv, Ready, OneReader, NobodyWaitsInVain

\* The reader that has woken everybody is Ready, whatever it has read.
LEMMA ReadyReader ==
  ASSUME Inv, NEW t \in Threads, Reading(t), NEW p, NEW shown
  PROVE  /\ Ready(t, p, shown, NotifyAll(pc), FALSE)
         /\ NotifyAll(pc) \in [Threads -> PcStates]
         /\ \A u \in Threads \ {t} : NotifyAll(pc)[u] \notin ReadStates
<1>1. pc \in [Threads -> PcStates]
  BY DEF Inv, TypeOK, PcStates
<1>2. \A u \in Threads : NotifyAll(pc)[u] = IF pc[u] = "sleeping" THEN "woken"
                                                                  ELSE pc[u]
  BY DEF NotifyAll
<1>3. \A u \in Threads \ {t} : NotifyAll(pc)[u] \notin ReadStates
  BY <1>2 DEF Inv, OneReader, Reading, ReadStates
<1>4. NotifyAll(pc) \in [Threads -> PcStates]
  BY <1>1 DEF NotifyAll, PcStates
<1> QED
  BY <1>2, <1>3, <1>4 DEF Ready

LEMMA TypesAfterTurn ==
  ASSUME TypeOK, TurnTypes, UNCHANGED <<frame, presentIds, hungUp, bridge,
                                        accepted, lastId>>,
         socket' \in Seq(EventMsg)
  PROVE  TypeOK'
BY DEF TypeOK, TurnTypes, PcStates

LEMMA EventTypes ==
  ASSUME TypeOK, NEW event \in EventMsg
  PROVE  /\ PoolAfter(event) \in PoolType
         /\ PresentedAfter(event) \in 0 .. MaxFrame
BY PoolOps DEF TypeOK, EventMsg, PoolAfter, PresentedAfter

-----------------------------------------------------------------------------
(* The steps.                                                              *)

LEMMA InitInv == Init => Inv
<1> SUFFICES ASSUME Init PROVE Inv
  OBVIOUS
<1>1. MaxFrame \in Nat
  BY WsiEventsAssumption
<1>2. pool \in PoolType
  <2>1. PICK mask \in SUBSET Slots : pool = PoolOf(mask)
    BY DEF Init
  <2>2. [available |-> {}, inherited |-> {}, next |-> 0,
         frames |-> [s \in Slots |-> 0]] \in PoolType
    BY BuffersAssumption DEF PoolType, Slots
  <2> QED
    BY <2>1, <2>2 DEF PoolOf, NoPool, PoolType
<1>3. bridge \in [Slots -> Nat] /\ accepted \in SUBSET Slots
  BY DEF Init
<1>4. TypeOK
  <2>1. /\ call \in [Threads -> Calls \cup {NoCall}]
        /\ pc \in [Threads -> {"idle", "entering", "sleeping", "woken",
                               "polling", "readable", "expired", "lost"}]
        /\ result \in [Threads -> {"none", "success", "timeout", "lost"}]
    BY DEF Init
  <2>2. /\ acquired \in SUBSET Slots /\ frame \in 0 .. MaxFrame
        /\ presentIds \in [Slots -> 0 .. MaxFrame]
        /\ presented \in 0 .. MaxFrame /\ lastId \in 0 .. MaxFrame
    BY <1>1 DEF Init
  <2>3. eventWaiting \in BOOLEAN /\ hungUp \in BOOLEAN /\ socket = <<>>
    BY DEF Init
  <2>4. <<>> \in Seq(EventMsg)
    OBVIOUS
  <2> QED
    BY <1>2, <1>3, <2>1, <2>2, <2>3, <2>4 DEF TypeOK
<1> QED
  BY <1>4 DEF Init, Inv, OneReader, NobodyWaitsInVain, AnnouncedIsThere, Reading

LEMMA OutsideTurn ==
  ASSUME Inv, NEW t \in Threads, Recheck(t) \/ WakeSpuriously(t) \/ SleepExpires(t)
  PROVE  Inv'
<1>1. ~Reading(t)
  BY DEF Recheck, WakeSpuriously, SleepExpires, Reading
<1>2. /\ TypeOK /\ pool \in PoolType /\ presented \in 0 .. MaxFrame
      /\ pc \in [Threads -> PcStates] /\ eventWaiting \in BOOLEAN
      /\ socket \in Seq(EventMsg)
  BY DEF Inv, TypeOK, PcStates
<1>3. UNCHANGED <<frame, presentIds, socket, hungUp, bridge, accepted, lastId>>
  BY DEF Recheck, WakeSpuriously, SleepExpires, bridgeVars
<1>4. \/ Loop(t, pool, presented, pc, eventWaiting)
      \/ TimeOut(t, pool, presented, pc) /\ eventWaiting' = eventWaiting
  BY DEF Recheck, WakeSpuriously, SleepExpires
<1>5. Outcome(t, pool, presented, pc, eventWaiting) /\ TurnTypes
  BY <1>2, <1>4, LoopOutcome
<1>6. TypeOK'
  BY <1>2, <1>3, <1>5, TypesAfterTurn
<1>7. /\ OneReader' /\ NobodyWaitsInVain'
      /\ \A u \in Threads : pc'[u] = "readable" => pc[u] = "readable"
  BY <1>1, <1>5, ReadyOutside, TurnKeeps
<1>8. AnnouncedIsThere'
  BY <1>3, <1>7 DEF Inv, AnnouncedIsThere
<1> QED
  BY <1>6, <1>7, <1>8 DEF Inv

LEMMA ReaderOutcome ==
  ASSUME Inv, NEW t \in Threads, Abandon(t) \/ Receive(t)
  PROVE  \E p \in PoolType, shown \in 0 .. MaxFrame :
           /\ Ready(t, p, shown, NotifyAll(pc), FALSE)
           /\ Outcome(t, p, shown, NotifyAll(pc), FALSE)
           /\ TurnTypes
<1>1. Reading(t)
  BY DEF Abandon, Receive, Reading
<1>2. /\ TypeOK /\ pool \in PoolType /\ presented \in 0 .. MaxFrame
      /\ socket \in Seq(EventMsg)
  BY DEF Inv, TypeOK
<1>3. PICK p \in PoolType, shown \in 0 .. MaxFrame :
        \/ Loop(t, p, shown, NotifyAll(pc), FALSE)
        \/ TimeOut(t, p, shown, NotifyAll(pc)) /\ eventWaiting' = FALSE
        \/ Lose(t, p, shown, NotifyAll(pc)) /\ eventWaiting' = FALSE
  <2>1. CASE Abandon(t)
    BY <1>2, <2>1 DEF Abandon
  <2>2. CASE Receive(t)
    <3>1. CASE socket # <<>>
      <4> DEFINE event == Head(socket)
      <4>1. event \in EventMsg
        BY <1>2, <3>1
      <4>2. PoolAfter(event) \in PoolType /\ PresentedAfter(event) \in 0 .. MaxFrame
        BY <1>2, <4>1, EventTypes
      <4>3. \/ Lose(t, pool, presented, NotifyAll(pc)) /\ eventWaiting' = FALSE
            \/ Loop(t, PoolAfter(event), PresentedAfter(event),
                    NotifyAll(pc), FALSE)
        BY <2>2, <3>1 DEF Receive
      <4> QED
        BY <1>2, <4>2, <4>3
    <3>2. CASE socket = <<>>
      BY <1>2, <2>2, <3>2 DEF Receive
    <3> QED
      BY <3>1, <3>2
  <2> QED
    BY <2>1, <2>2
<1>4. /\ Ready(t, p, shown, NotifyAll(pc), FALSE)
      /\ NotifyAll(pc) \in [Threads -> PcStates]
  BY <1>1, ReadyReader
<1>5. Outcome(t, p, shown, NotifyAll(pc), FALSE) /\ TurnTypes
  BY <1>2, <1>3, <1>4, LoopOutcome
<1> QED
  BY <1>4, <1>5

LEMMA ReaderTurn ==
  ASSUME Inv, NEW t \in Threads, Abandon(t) \/ Receive(t)
  PROVE  Inv'
<1>1. Reading(t)
  BY DEF Abandon, Receive, Reading
<1>2. /\ TypeOK /\ pool \in PoolType /\ presented \in 0 .. MaxFrame
      /\ socket \in Seq(EventMsg)
  BY DEF Inv, TypeOK
<1>3. /\ UNCHANGED <<frame, presentIds, hungUp, bridge, accepted, lastId>>
      /\ socket' \in Seq(EventMsg)
  <2>1. CASE Abandon(t)
    BY <1>2, <2>1 DEF Abandon, bridgeVars
  <2>2. CASE Receive(t)
    <3>1. socket # <<>> => Tail(socket) \in Seq(EventMsg)
      BY <1>2
    <3>2. \/ socket # <<>> /\ socket' = Tail(socket)
          \/ socket' = socket
      BY <2>2 DEF Receive
    <3> QED
      BY <1>2, <2>2, <3>1, <3>2 DEF Receive
  <2> QED
    BY <2>1, <2>2
<1>4. PICK p \in PoolType, shown \in 0 .. MaxFrame :
        /\ Ready(t, p, shown, NotifyAll(pc), FALSE)
        /\ Outcome(t, p, shown, NotifyAll(pc), FALSE)
        /\ TurnTypes
  BY ReaderOutcome
<1>5. /\ NotifyAll(pc) \in [Threads -> PcStates]
      /\ \A u \in Threads \ {t} : NotifyAll(pc)[u] \notin ReadStates
  BY <1>1, ReadyReader
<1>6. TypeOK'
  BY <1>2, <1>3, <1>4, TypesAfterTurn
<1>7. /\ OneReader' /\ NobodyWaitsInVain'
      /\ \A u \in Threads : pc'[u] # "readable"
  <2>1. /\ OneReader' /\ NobodyWaitsInVain'
        /\ \A u \in Threads :
             pc'[u] = "readable" => u # t /\ NotifyAll(pc)[u] = "readable"
    BY <1>4, <1>5, TurnKeeps
  <2> QED
    BY <1>5, <2>1 DEF ReadStates
<1> QED
  BY <1>6, <1>7 DEF Inv, AnnouncedIsThere

LEMMA PollKeeps ==
  ASSUME Inv, NEW t \in Threads, Poll(t)
  PROVE  Inv'
<1>1. /\ UNCHANGED <<pool, acquired, frame, presentIds, presented, eventWaiting,
                     call, result, socket, hungUp, bridge, accepted, lastId>>
      /\ pc' \in [Threads -> PcStates]
      /\ Reading(t) /\ Reading(t)' /\ pc'[t] # "sleeping"
      /\ \A u \in Threads \ {t} : pc'[u] = pc[u]
      /\ pc'[t] = "readable" => socket # <<>>
  BY DEF Inv, TypeOK, PcStates, Poll, swapVars, bridgeVars, Reading
<1>2. TypeOK'
  BY <1>1 DEF Inv, TypeOK, PcStates
<1>3. \A u \in Threads : Reading(u)' <=> Reading(u)
  BY <1>1 DEF Reading
<1>4. \A u \in Threads : CanServe(u, pool, presented)' <=> CanServe(u, pool, presented)
  BY <1>1 DEF CanServe
<1>5. OneReader'
  BY <1>1, <1>3 DEF Inv, OneReader
<1>6. NobodyWaitsInVain'
  BY <1>1, <1>3, <1>4 DEF Inv, NobodyWaitsInVain
<1>7. AnnouncedIsThere'
  BY <1>1 DEF Inv, AnnouncedIsThere
<1> QED
  BY <1>2, <1>5, <1>6, <1>7 DEF Inv

LEMMA EnterKeeps ==
  ASSUME Inv, NEW t \in Threads, Enter(t)
  PROVE  Inv'
<1>1. /\ UNCHANGED <<pool, acquired, frame, presentIds, presented, eventWaiting,
                     socket, hungUp, bridge, accepted, lastId>>
      /\ pc' = [pc EXCEPT ![t] = "entering"] /\ pc[t] = "idle"
      /\ \E c \in Calls : call' = [call EXCEPT ![t] = c]
      /\ result' = [result EXCEPT ![t] = "none"]
  BY DEF Enter, swapVars, bridgeVars
<1>2. TypeOK'
  BY <1>1 DEF Inv, TypeOK
<1>3. /\ \A u \in Threads \ {t} : pc'[u] = pc[u] /\ call'[u] = call[u]
      /\ pc'[t] = "entering"
  BY <1>1 DEF Inv, TypeOK
<1>4. \A u \in Threads : Reading(u)' <=> Reading(u)
  BY <1>1, <1>3 DEF Reading
<1>5. \A u \in Threads \ {t} :
        CanServe(u, pool, presented)' <=> CanServe(u, pool, presented)
  BY <1>1, <1>3 DEF CanServe
<1>6. OneReader' /\ AnnouncedIsThere'
  BY <1>1, <1>3, <1>4 DEF Inv, OneReader, AnnouncedIsThere
<1>7. NobodyWaitsInVain'
  BY <1>1, <1>3, <1>4, <1>5 DEF Inv, NobodyWaitsInVain, Reading
<1> QED
  BY <1>2, <1>6, <1>7 DEF Inv

LEMMA PresentKeeps ==
  ASSUME Inv, NEW t \in Threads, NEW slot \in Slots, Present(t, slot)
  PROVE  Inv'
<1>1. /\ frame \in 0 .. MaxFrame /\ frame < MaxFrame /\ MaxFrame \in Nat
      /\ frame + 1 \in 0 .. MaxFrame /\ frame + 1 \in Nat
  BY WsiEventsAssumption DEF Inv, TypeOK, Present
<1>2. /\ pool' \in PoolType /\ pool'.available = pool.available
  BY <1>1, PoolOps, ZenonT(30) DEF Inv, TypeOK, Present
<1>3. /\ UNCHANGED <<presented, eventWaiting, call, socket, hungUp>>
      /\ pc' = pc \/ pc' = NotifyAll(pc)
  BY DEF Present
<1>4. /\ pc' \in [Threads -> PcStates]
      /\ \A u \in Threads : \/ pc'[u] = pc[u]
                            \/ pc[u] = "sleeping" /\ pc'[u] = "woken"
  BY <1>3 DEF Inv, TypeOK, PcStates, NotifyAll
<1>5. /\ acquired' \in SUBSET Slots /\ frame' \in 0 .. MaxFrame
      /\ presentIds' \in [Slots -> 0 .. MaxFrame]
      /\ result' \in [Threads -> {"none", "success", "timeout", "lost"}]
      /\ bridge' \in [Slots -> Nat] /\ accepted' \in SUBSET Slots
      /\ lastId' \in 0 .. MaxFrame
  <2>1. PICK id \in {0, frame + 1} :
          /\ presentIds' = [presentIds EXCEPT ![slot] = id]
          /\ \/ result' = [result EXCEPT ![t] = "lost"]
                /\ UNCHANGED <<bridge, accepted, lastId>>
             \/ /\ result' = [result EXCEPT ![t] = "success"]
                /\ bridge' = [bridge EXCEPT ![slot] = frame + 1]
                /\ accepted' = accepted \ {slot}
                /\ lastId' \in {id, lastId}
    BY DEF Present
  <2>2. id \in 0 .. MaxFrame
    BY <1>1
  <2>3. /\ presentIds' \in [Slots -> 0 .. MaxFrame]
        /\ result' \in [Threads -> {"none", "success", "timeout", "lost"}]
    BY <2>1, <2>2 DEF Inv, TypeOK
  <2>4. bridge' \in [Slots -> Nat] /\ accepted' \in SUBSET Slots
    BY <1>1, <2>1, ZenonT(30) DEF Inv, TypeOK
  <2> QED
    BY <1>1, <2>1, <2>2, <2>3, <2>4 DEF Inv, TypeOK, Present
<1>6. TypeOK'
  BY <1>2, <1>3, <1>4, <1>5 DEF Inv, TypeOK, PcStates
<1>7. \A u \in Threads : Reading(u)' <=> Reading(u)
  BY <1>4 DEF Reading
<1>8. \A u \in Threads : CanServe(u, pool, presented)' <=> CanServe(u, pool, presented)
  BY <1>2, <1>3 DEF CanServe
<1>9. OneReader'
  BY <1>3, <1>7 DEF Inv, OneReader
<1>10. NobodyWaitsInVain' /\ AnnouncedIsThere'
  BY <1>3, <1>4, <1>7, <1>8 DEF Inv, NobodyWaitsInVain, AnnouncedIsThere
<1> QED
  BY <1>6, <1>9, <1>10 DEF Inv

LEMMA BridgeKeeps ==
  ASSUME Inv, \/ \E slot \in Slots : Accept(slot) \/ Release(slot)
              \/ HangUp
              \/ UNCHANGED vars
  PROVE  Inv'
<1>1. UNCHANGED <<pool, acquired, frame, presentIds, presented, eventWaiting,
                  call, pc, result, lastId>>
  BY DEF Accept, Release, HangUp, vars, swapVars, bridgeVars
<1>2. /\ socket' \in Seq(EventMsg) /\ (socket # <<>> => socket' # <<>>)
      /\ hungUp' \in BOOLEAN /\ bridge' \in [Slots -> Nat]
      /\ accepted' \in SUBSET Slots
  <2>1. ASSUME NEW slot \in Slots, NEW kind \in {"accepted", "release"},
               Send(kind, slot)
        PROVE  socket' \in Seq(EventMsg) /\ socket' # <<>>
    <3>1. [kind |-> kind, slot |-> slot, frame |-> bridge[slot]] \in EventMsg
      BY DEF Inv, TypeOK, EventMsg
    <3>2. socket \in Seq(EventMsg)
      BY DEF Inv, TypeOK
    <3> QED
      BY <2>1, <3>1, <3>2 DEF Send
  <2>2. CASE \E slot \in Slots : Accept(slot)
    BY <2>1, <2>2 DEF Inv, TypeOK, Accept
  <2>3. CASE \E slot \in Slots : Release(slot)
    BY <2>1, <2>3 DEF Inv, TypeOK, Release
  <2>4. CASE HangUp \/ UNCHANGED vars
    BY <2>4 DEF Inv, TypeOK, HangUp, vars, bridgeVars
  <2> QED
    BY <2>2, <2>3, <2>4
<1>3. TypeOK'
  BY <1>1, <1>2 DEF Inv, TypeOK
<1> QED
  BY <1>1, <1>2, <1>3 DEF Inv, OneReader, NobodyWaitsInVain, AnnouncedIsThere,
     Reading, CanServe

LEMMA NextKeeps == Inv /\ [Next]_vars => Inv'
<1> SUFFICES ASSUME Inv, [Next]_vars PROVE Inv'
  OBVIOUS
<1>1. ASSUME NEW t \in Threads, Thread(t)
      PROVE  Inv'
  BY <1>1, OutsideTurn, ReaderTurn, PollKeeps DEF Thread
<1> QED
  BY <1>1, EnterKeeps, PresentKeeps, BridgeKeeps DEF Next

-----------------------------------------------------------------------------
(* The theorems.                                                           *)

THEOREM InvHolds == Spec => []Inv
  BY InitInv, NextKeeps, PTL DEF Spec

\* Every variable of the swapchain and of its waiting threads keeps its type.
THEOREM TypeCorrect == Spec => []TypeOK
<1>1. Inv => TypeOK
  BY DEF Inv
<1> QED
  BY <1>1, InvHolds, PTL

\* At most one thread is between setting and clearing eventWaiting in
\* receiveEvent, and eventWaiting tells whether one is.
THEOREM SocketHasOneReader == Spec => []OneReader
<1>1. Inv => OneReader
  BY DEF Inv
<1> QED
  BY <1>1, InvHolds, PTL

\* receiveEvent's comment, for any number of threads: nobody sleeps or polls
\* for what has already come, and who sleeps has a reader that will wake it.
THEOREM NoEventMissed == Spec => []NobodyWaitsInVain
<1>1. Inv => NobodyWaitsInVain
  BY DEF Inv
<1> QED
  BY <1>1, InvHolds, PTL

\* recv finds what poll(2) announced, although the lock was free in between.
THEOREM AnnouncedEventIsRead == Spec => []AnnouncedIsThere
<1>1. Inv => AnnouncedIsThere
  BY DEF Inv
<1> QED
  BY <1>1, InvHolds, PTL

-----------------------------------------------------------------------------
(* The timeouts.                                                           *)

\* Time runs out in poll(2) only for who has a time.
ExpiredFinite == \A t \in Threads : pc[t] = "expired" => call[t].timeout # "infinite"

\* What looks once more before it says VK_TIMEOUT has found nothing.
LEMMA TimeOutTells ==
  ASSUME TypeOK, NEW t \in Threads, NEW p, NEW shown, NEW where, TimeOut(t, p, shown, where),
         NEW u \in Threads, result'[u] = "timeout", result[u] # "timeout"
  PROVE  u = t /\ ~CanServe(t, pool', presented')
<1>1. result \in [Threads -> {"none", "success", "timeout", "lost"}]
  BY DEF TypeOK
<1>2. ~Serve(t, p, shown, where)
  BY <1>1 DEF Serve, Returns
<1> QED
  BY <1>1, <1>2 DEF TimeOut, Fail, Returns, CanServe

\* So has a round of the loop, which gives up only on calls with a limit.
LEMMA LoopTells ==
  ASSUME TypeOK, NEW t \in Threads, NEW p, NEW shown, NEW where, NEW waiting,
         Loop(t, p, shown, where, waiting),
         NEW u \in Threads, result'[u] = "timeout", result[u] # "timeout"
  PROVE  u = t /\ ~CanServe(t, pool', presented') /\ call[t].timeout # "infinite"
<1>1. result \in [Threads -> {"none", "success", "timeout", "lost"}] /\ result' # result
  BY DEF TypeOK
<1>2. ~Serve(t, p, shown, where)
  BY <1>1 DEF Serve, Returns
<1>3. PICK left \in Left(t) :
        left = "zero" /\ ~CanServe(t, p, shown) /\ Fail(t, p, shown, where, "timeout")
  BY <1>1, <1>2 DEF Loop
<1>4. call[t].timeout # "infinite"
  BY <1>3 DEF Left
<1> QED
  BY <1>1, <1>3, <1>4 DEF Fail, Returns, CanServe

\* A lost surface is not called a timeout.
LEMMA LossIsNoTimeout ==
  ASSUME TypeOK, NEW t \in Threads, NEW p, NEW shown, NEW where, Lose(t, p, shown, where),
         NEW u \in Threads, result'[u] = "timeout"
  PROVE  result[u] = "timeout"
BY DEF TypeOK, Lose, Serve, Fail, Returns

LEMMA ExpiredKeeps ==
  ASSUME Inv, ExpiredFinite, [Next]_vars  PROVE ExpiredFinite'
<1>1. ASSUME NEW t \in Threads, Recheck(t) \/ WakeSpuriously(t) \/ SleepExpires(t)
      PROVE  ExpiredFinite'
  <2>1. Outcome(t, pool, presented, pc, eventWaiting)
    BY <1>1, LoopOutcome DEF Inv, TypeOK, PcStates, Recheck, WakeSpuriously, SleepExpires
  <2> QED
    BY <2>1 DEF Outcome, ExpiredFinite
<1>2. ASSUME NEW t \in Threads, Abandon(t) \/ Receive(t)
      PROVE  ExpiredFinite'
  <2>1. PICK p \in PoolType, shown \in 0 .. MaxFrame : Outcome(t, p, shown, NotifyAll(pc), FALSE)
    BY <1>2, ReaderOutcome
  <2>2. \A u \in Threads : NotifyAll(pc)[u] = "expired" => pc[u] = "expired"
    BY DEF NotifyAll
  <2> QED
    BY <2>1, <2>2 DEF Outcome, ExpiredFinite
<1>3. ASSUME NEW t \in Threads, Poll(t)
      PROVE  ExpiredFinite'
  BY <1>3 DEF Poll, ExpiredFinite, Inv, TypeOK
<1>4. ASSUME NEW t \in Threads, Enter(t)
      PROVE  ExpiredFinite'
  <2>1. \A u \in Threads : pc'[u] = "expired" => u # t /\ pc[u] = "expired" /\ call'[u] = call[u]
    BY <1>4 DEF Enter, Inv, TypeOK
  <2> QED
    BY <2>1 DEF ExpiredFinite
<1>5. ASSUME NEW t \in Threads, NEW slot \in Slots, Present(t, slot)
      PROVE  ExpiredFinite'
  <2>1. \A u \in Threads : pc'[u] = "expired" => pc[u] = "expired"
    BY <1>5 DEF Present, NotifyAll, Inv, TypeOK
  <2> QED
    BY <1>5, <2>1 DEF Present, ExpiredFinite
<1>6. CASE UNCHANGED <<call, pc>>
  BY <1>6 DEF ExpiredFinite
<1> QED
  BY <1>1, <1>2, <1>3, <1>4, <1>5, <1>6 DEF Next, Thread, Accept, Release, HangUp, vars

LEMMA TimeoutStep ==
  ASSUME Inv, ExpiredFinite, [Next]_vars,
         NEW u \in Threads, result'[u] = "timeout", result[u] # "timeout"
  PROVE  call[u].timeout # "infinite" /\ ~CanServe(u, pool', presented')
<1>0. TypeOK /\ result' # result
  BY DEF Inv
<1>1. ASSUME NEW t \in Threads, Recheck(t) \/ WakeSpuriously(t) \/ SleepExpires(t)
      PROVE  call[u].timeout # "infinite" /\ ~CanServe(u, pool', presented')
  <2>1. CASE Loop(t, pool, presented, pc, eventWaiting)
    BY <1>0, <2>1, LoopTells
  <2>2. CASE TimeOut(t, pool, presented, pc) /\ call[t].timeout = "finite"
    BY <1>0, <2>2, TimeOutTells
  <2> QED
    BY <1>1, <2>1, <2>2 DEF Recheck, WakeSpuriously, SleepExpires
<1>2. ASSUME NEW t \in Threads, Abandon(t)
      PROVE  call[u].timeout # "infinite" /\ ~CanServe(u, pool', presented')
  <2>1. CASE pc[t] = "expired" /\ TimeOut(t, pool, presented, NotifyAll(pc))
    BY <1>0, <2>1, TimeOutTells DEF ExpiredFinite
  <2>2. CASE Lose(t, pool, presented, NotifyAll(pc))
    BY <1>0, <2>2, LossIsNoTimeout
  <2> QED
    BY <1>2, <2>1, <2>2 DEF Abandon
<1>3. ASSUME NEW t \in Threads, Receive(t)
      PROVE  call[u].timeout # "infinite" /\ ~CanServe(u, pool', presented')
  <2>1. socket # <<>>
    BY <1>3 DEF Receive, Inv, AnnouncedIsThere
  <2> DEFINE event == Head(socket)
             p     == PoolAfter(event)
             shown == PresentedAfter(event)
  <2>2. CASE Lose(t, pool, presented, NotifyAll(pc))
    BY <1>0, <2>2, LossIsNoTimeout
  <2>3. CASE Loop(t, p, shown, NotifyAll(pc), FALSE)
    <3> HIDE DEF p, shown
    <3> QED
      BY <1>0, <2>3, LoopTells
  <2> QED
    BY <1>3, <2>1, <2>2, <2>3 DEF Receive
<1>4. ASSUME NEW t \in Threads, NEW slot \in Slots, Present(t, slot)
      PROVE  FALSE
  BY <1>0, <1>4 DEF Present, TypeOK
<1>5. ASSUME NEW t \in Threads, Enter(t)
      PROVE  FALSE
  BY <1>0, <1>5 DEF Enter, TypeOK
<1> QED
  BY <1>0, <1>1, <1>2, <1>3, <1>4, <1>5 DEF Next, Thread, Poll, Accept, Release, HangUp, vars

\* VK_TIMEOUT and VK_NOT_READY are true when they are returned, for any number
\* of threads that steal each other's events and images in between, and never
\* the answer to an unlimited wait.
THEOREM TimeoutsAreHonest == Spec => TimeoutHonest
<1>1. Init => ExpiredFinite
  BY DEF Init, ExpiredFinite
<1>2. Inv /\ ExpiredFinite /\ [Next]_vars =>
        [\A t \in Threads :
           result'[t] = "timeout" /\ result[t] # "timeout" =>
             /\ call[t].timeout # "infinite"
             /\ ~CanServe(t, pool', presented')]_vars
  BY TimeoutStep
<1> QED
  BY <1>1, <1>2, InvHolds, ExpiredKeeps, PTL DEF Spec, TimeoutHonest

=============================================================================
