------------------------ MODULE SharedTimelineProofs ------------------------
(***************************************************************************)
(* Proofs about SharedTimeline for any number of threads and any values:   *)
(* the timeline goes forward and is honest, and, while fewer signals are   *)
(* given than the epoch counts to, no wake-up is missed.                   *)
(***************************************************************************)
EXTENDS SharedTimeline, FiniteSetTheorems, TLAPS

LEMMA JobsFacts ==
  /\ NoJob \in Jobs
  /\ \A j \in Jobs : j.wait \in Values /\ j.signal \in Values
  BY TimelineAssumption DEF NoJob, Jobs, Values

LEMMA ZeroFacts == 0 \in Values /\ 0 \in 0 .. EpochModulus - 1 /\ 0 \in 0 .. MaxSignals
  BY TimelineAssumption DEF Values

LEMMA TypeInit == Init => TypeOK
<1> SUFFICES ASSUME Init  PROVE TypeOK
  OBVIOUS
<1>1. job \in [Threads -> Jobs]
  BY JobsFacts DEF Init
<1>2. /\ previous \in [Threads -> Values]
      /\ seen \in [Threads -> 0 .. EpochModulus - 1]
      /\ pc \in [Threads -> {"idle", "submit", "gpu"} \cup WaitPoints \cup SignalPoints]
  BY ZeroFacts DEF Init
<1> QED
  BY <1>1, <1>2, ZeroFacts DEF Init, TypeOK

LEMMA TypeStep == TypeOK /\ [Next]_vars => TypeOK'
<1> SUFFICES ASSUME TypeOK, [Next]_vars  PROVE TypeOK'
  OBVIOUS
<1> USE DEF TypeOK, payload, frames, WaitPoints, SignalPoints
<1>1. CASE UNCHANGED vars
  BY <1>1 DEF vars
<1>2. ASSUME NEW t \in Threads, Start(t)  PROVE TypeOK'
  <2>1. signals' \in 0 .. MaxSignals
    BY <1>2, TimelineAssumption DEF Start
  <2> QED
    BY <1>2, <2>1 DEF Start
<1>3. ASSUME NEW t \in Threads, LoseDevice(t)  PROVE TypeOK'
  BY <1>3 DEF LoseDevice
<1>4. ASSUME NEW t \in Threads, Wait(t) \/ Timer(t)  PROVE TypeOK'
  BY <1>4, JobsFacts, ZeroFacts
     DEF Wait, ReadEpoch, Compare, FutexWait, Timer, Goto, Return
<1>5. ASSUME NEW t \in Threads, Submit(t) \/ GpuDone(t)  PROVE TypeOK'
  <2>1. job[t].signal \in Values
    BY JobsFacts
  <2> QED
    BY <1>5, <2>1, JobsFacts, ZeroFacts DEF Submit, GpuDone, SignalNext, Goto, Return
<1>6. ASSUME NEW t \in Threads, Load(t) \/ Exchange(t)  PROVE TypeOK'
  <2>1. job[t].signal \in Values
    BY JobsFacts
  <2> QED
    BY <1>6, <2>1 DEF Load, Exchange, Goto
<1>7. ASSUME NEW t \in Threads, Bump(t)  PROVE TypeOK'
  <2>1. (epoch + 1) % EpochModulus \in 0 .. EpochModulus - 1
    BY TimelineAssumption
  <2> QED
    BY <1>7, <2>1 DEF Bump, Goto
<1>8. ASSUME NEW t \in Threads, Wake(t)  PROVE TypeOK'
  BY <1>8, JobsFacts, ZeroFacts DEF Wake, WakeThem, Sleepers
<1> QED
  BY <1>1, <1>2, <1>3, <1>4, <1>5, <1>6, <1>7, <1>8 DEF Next, Signal

\* Every variable keeps its type, for any set of threads and any bounds.
THEOREM TypeCorrect == Spec => []TypeOK
<1> QED
  BY TypeInit, TypeStep, PTL DEF Spec

-----------------------------------------------------------------------------
(* The value is honest.                                                    *)

\* A signaller's value is finished and at most one behind what it has read.
Honest ==
  /\ ValueIsEarned
  /\ SignalTakesEffect
  /\ WaitsResolved
  /\ \A t \in Threads :
       /\ pc[t] = "idle" => job[t].signal = 0
       /\ pc[t] \in SignalPoints => job[t].signal # 0 /\ job[t].signal \in finished
       /\ pc[t] = "exchange" => previous[t] <= value

LEMMA HonestInit == Init => Honest
  BY DEF Init, Honest, ValueIsEarned, SignalTakesEffect, WaitsResolved, NoJob, SignalPoints

\* A step changes the frame and the place of one thread, besides the sleepers
\* it may wake, and the value only upwards.
LEMMA HonestStep == TypeOK /\ Honest /\ [Next]_vars => Honest' /\ value' >= value
<1> SUFFICES ASSUME TypeOK, Honest, [Next]_vars  PROVE Honest' /\ value' >= value
  OBVIOUS
<1> USE DEF TypeOK, payload, frames, WaitPoints, SignalPoints
<1> USE DEF Honest, ValueIsEarned, SignalTakesEffect, WaitsResolved
<1>0. /\ value \in Nat /\ Values \subseteq Nat
      /\ \A t \in Threads : /\ job[t].wait \in Nat /\ job[t].signal \in Nat
                            /\ previous[t] \in Nat
  BY JobsFacts DEF Values
<1>1. CASE UNCHANGED vars
  BY <1>1, <1>0 DEF vars
<1>2. ASSUME NEW t \in Threads, Start(t)  PROVE Honest' /\ value' >= value
  BY <1>2, <1>0 DEF Start
<1>3. ASSUME NEW t \in Threads, LoseDevice(t)  PROVE Honest' /\ value' >= value
  BY <1>3, <1>0 DEF LoseDevice
<1>4. ASSUME NEW t \in Threads, Wait(t) \/ Timer(t)  PROVE Honest' /\ value' >= value
  BY <1>4, <1>0, JobsFacts
     DEF Wait, ReadEpoch, Compare, FutexWait, Timer, Goto, Return, NoJob
<1>5. ASSUME NEW t \in Threads, Submit(t) \/ GpuDone(t)  PROVE Honest' /\ value' >= value
  BY <1>5, <1>0, JobsFacts DEF Submit, GpuDone, SignalNext, Goto, Return, NoJob
<1>6. ASSUME NEW t \in Threads, Load(t)  PROVE Honest' /\ value' >= value
  BY <1>6, <1>0 DEF Load
<1>7. ASSUME NEW t \in Threads, Exchange(t)  PROVE Honest' /\ value' >= value
  <2>1. value' >= value /\ value' \in Nat
    BY <1>7, <1>0 DEF Exchange, Goto
  <2> QED
    BY <1>7, <1>0, <2>1 DEF Exchange, Goto
<1>8. ASSUME NEW t \in Threads, Bump(t)  PROVE Honest' /\ value' >= value
  BY <1>8, <1>0 DEF Bump, Goto
<1>9. ASSUME NEW t \in Threads, Wake(t)  PROVE Honest' /\ value' >= value
  BY <1>9, <1>0, JobsFacts DEF Wake, WakeThem, Sleepers, NoJob
<1> QED
  BY <1>1, <1>2, <1>3, <1>4, <1>5, <1>6, <1>7, <1>8, <1>9 DEF Next, Signal

\* No reader of the timeline ever sees a value whose GPU work is unfinished:
\* ValueIsEarned.
THEOREM TimelineHonest == Spec => []ValueIsEarned
<1>1. Honest => ValueIsEarned
  BY DEF Honest
<1> QED
  BY <1>1, TypeInit, TypeStep, HonestInit, HonestStep, PTL DEF Spec

\* The check of quest_kgsl_queue_submit never loses a device: WaitsResolved.
THEOREM SubmitNeverLosesDevice == Spec => []WaitsResolved
<1>1. Honest => WaitsResolved
  BY DEF Honest
<1> QED
  BY <1>1, TypeInit, TypeStep, HonestInit, HonestStep, PTL DEF Spec

\* Signals of any number of processes, in any order, never take the timeline
\* back: ValueForward.
THEOREM TimelineForward == Spec => ValueForward
<1>1. TypeOK /\ Honest /\ [Next]_vars => [value' >= value]_vars
  BY HonestStep
<1> QED
  BY <1>1, TypeInit, TypeStep, HonestInit, HonestStep, PTL DEF Spec, ValueForward

-----------------------------------------------------------------------------
(* No wake-up is missed while the epoch does not wrap.                     *)

\* Threads that have yet to move the epoch.
Owing == {t \in Threads : job[t].signal # 0 /\ pc[t] # "wake"}

EpochCounts == epoch + Cardinality(Owing) <= signals

\* A thread that is about to sleep on an epoch that is still current, although
\* its value has come, will have the epoch moved under it; one that sleeps
\* will be woken.
Awake ==
  /\ \A t \in Threads :
       pc[t] \in {"compare", "futex", "asleep"} => seen[t] <= epoch
  /\ \A t \in Threads :
       pc[t] = "futex" /\ seen[t] = epoch /\ value >= job[t].wait =>
         \E u \in Threads : pc[u] = "bump"
  /\ NoMissedWakeup

LEMMA OwingFinite == IsFiniteSet(Owing) /\ Cardinality(Owing) \in Nat
<1>1. Owing \in SUBSET Threads /\ IsFiniteSet(Threads)
  BY TimelineAssumption DEF Owing
<1> QED
  BY <1>1, FS_Subset, FS_CardinalityType

LEMMA OwingSteps ==
  /\ \A t : Cardinality(Owing \cup {t}) <= Cardinality(Owing) + 1
  /\ \A t : Cardinality(Owing \ {t}) <= Cardinality(Owing)
  /\ \A t \in Owing : Cardinality(Owing \ {t}) = Cardinality(Owing) - 1
  BY OwingFinite, FS_AddElement, FS_RemoveElement, SMTT(30)

LEMMA EpochInit == Init => EpochCounts /\ Awake
<1> SUFFICES ASSUME Init  PROVE EpochCounts /\ Awake
  OBVIOUS
<1>1. Owing = {}
  BY DEF Init, Owing, NoJob
<1> QED
  BY <1>1, FS_EmptySet DEF Init, EpochCounts, Awake, NoMissedWakeup

LEMMA EpochStep ==
  ASSUME MaxSignals < EpochModulus, TypeOK, Honest, EpochCounts, [Next]_vars
  PROVE  EpochCounts' /\ epoch' >= epoch
                      /\ \A t \in Threads : Bump(t) => epoch' = epoch + 1
<1> USE DEF TypeOK, payload, frames, WaitPoints, SignalPoints
<1>0. epoch \in Nat /\ signals \in Nat /\ EpochModulus \in Nat
  BY TimelineAssumption
<1>1. ASSUME UNCHANGED <<epoch, signals>>, Owing' = Owing
      PROVE  EpochCounts' /\ epoch' = epoch
  <2>1. Cardinality(Owing') = Cardinality(Owing)
    BY <1>1
  <2> QED
    BY <1>1, <2>1 DEF EpochCounts
<1>2. ASSUME NEW t \in Threads, UNCHANGED <<epoch, signals>>, Owing' = Owing \ {t}
      PROVE  EpochCounts' /\ epoch' = epoch
  <2>1. Cardinality(Owing') \in Nat /\ Cardinality(Owing') <= Cardinality(Owing)
    <3>1. Cardinality(Owing \ {t}) \in Nat
      BY OwingFinite, FS_RemoveElement, FS_CardinalityType
    <3> QED
      BY <1>2, <3>1, OwingSteps
  <2> QED
    BY <1>0, <1>2, <2>1, OwingFinite DEF EpochCounts
<1>3. ASSUME UNCHANGED vars  PROVE EpochCounts' /\ epoch' = epoch
  <2>1. UNCHANGED <<epoch, signals>> /\ Owing' = Owing
    BY <1>3 DEF vars, Owing
  <2> QED
    BY <1>1, <2>1
<1>4. ASSUME NEW t \in Threads, Start(t)  PROVE EpochCounts' /\ epoch' = epoch
  <2>1. CASE signals' = signals + 1
    <3>1. Owing' = Owing \cup {t}
      BY <1>4, <2>1, <1>0 DEF Start, Owing, Honest
    <3>2. /\ Cardinality(Owing') \in Nat
          /\ Cardinality(Owing') <= Cardinality(Owing) + 1
      <4>1. Cardinality(Owing \cup {t}) \in Nat
        BY OwingFinite, FS_AddElement, FS_CardinalityType
      <4> QED
        BY <3>1, <4>1, OwingSteps
    <3>3. epoch' = epoch
      BY <1>4 DEF Start
    <3> QED
      BY <1>0, <2>1, <3>2, <3>3, OwingFinite DEF EpochCounts
  <2>2. CASE signals' = signals
    <3>1. Owing' = Owing
      BY <1>4, <2>2, <1>0 DEF Start, Owing, Honest
    <3> QED
      BY <1>1, <1>4, <2>2, <3>1 DEF Start
  <2> QED
    BY <1>4, <2>1, <2>2 DEF Start
<1>5. ASSUME NEW t \in Threads, LoseDevice(t)  PROVE EpochCounts' /\ epoch' = epoch
  BY <1>1, <1>5 DEF LoseDevice, Owing
<1>6. ASSUME NEW t \in Threads, Wait(t) \/ Timer(t) \/ Submit(t) \/ GpuDone(t)
      PROVE  EpochCounts' /\ epoch' = epoch
  <2>1. Owing' = Owing \/ Owing' = Owing \ {t}
    BY <1>6, JobsFacts DEF Wait, ReadEpoch, Compare, FutexWait, Timer, Submit, GpuDone,
                SignalNext, Goto, Return, Owing, NoJob
  <2>2. UNCHANGED <<epoch, signals>>
    BY <1>6 DEF Wait, ReadEpoch, Compare, FutexWait, Timer, Submit, GpuDone
  <2> QED
    BY <1>1, <1>2, <2>1, <2>2
<1>7. ASSUME NEW t \in Threads, Load(t) \/ Exchange(t)  PROVE EpochCounts' /\ epoch' = epoch
  <2>1. Owing' = Owing
    BY <1>7 DEF Load, Exchange, Goto, Owing
  <2> QED
    BY <1>1, <1>7, <2>1 DEF Load, Exchange
<1>8. ASSUME NEW t \in Threads, Bump(t)  PROVE EpochCounts' /\ epoch' = epoch + 1
  <2>1. t \in Owing /\ Owing' = Owing \ {t}
    BY <1>8 DEF Bump, Goto, Owing, Honest
  <2>2. Cardinality(Owing) \in Nat \ {0} /\ Cardinality(Owing') = Cardinality(Owing) - 1
    BY <2>1, OwingSteps, OwingFinite, FS_EmptySet
  <2>3. epoch + 1 <= signals
    BY <1>0, <2>2 DEF EpochCounts
  <2>4. epoch' = epoch + 1
    BY <1>8, <1>0, <2>3, TimelineAssumption DEF Bump
  <2> QED
    BY <1>8, <1>0, <2>2, <2>4 DEF Bump, EpochCounts
<1>9. ASSUME NEW t \in Threads, Wake(t)  PROVE EpochCounts' /\ epoch' = epoch
  <2>1. Owing' = Owing \ {t}
    BY <1>9, JobsFacts DEF Wake, WakeThem, Sleepers, Owing, NoJob
  <2> QED
    BY <1>2, <1>9, <2>1 DEF Wake, WakeThem
<1>10. EpochCounts' /\ epoch' >= epoch
  BY <1>0, <1>3, <1>4, <1>5, <1>6, <1>7, <1>8, <1>9 DEF Next, Signal
<1> QED
  BY <1>8, <1>10

LEMMA AwakeStep ==
  ASSUME TypeOK, Awake, [Next]_vars, epoch' >= epoch,
         \A t \in Threads : Bump(t) => epoch' = epoch + 1
  PROVE  Awake'
<1> USE DEF TypeOK, payload, frames, WaitPoints, SignalPoints
<1> USE DEF Awake, NoMissedWakeup
<1>0. /\ epoch \in Nat /\ value \in Nat
      /\ \A t \in Threads : seen[t] \in Nat /\ job[t].wait \in Nat
  BY JobsFacts, TimelineAssumption DEF Values
<1>1. CASE UNCHANGED vars
  BY <1>1 DEF vars
<1>2. ASSUME NEW t \in Threads, Start(t)  PROVE Awake'
  <2>1. pc[t] = "idle" /\ pc'[t] \in {"readEpoch", "submit"}
    BY <1>2 DEF Start
  <2> QED
    BY <1>2, <2>1 DEF Start
<1>3. ASSUME NEW t \in Threads, LoseDevice(t)  PROVE Awake'
  BY <1>3 DEF LoseDevice
<1>4. ASSUME NEW t \in Threads, ReadEpoch(t) \/ Timer(t)  PROVE Awake'
  BY <1>4, <1>0 DEF ReadEpoch, Timer, Goto
<1>5. ASSUME NEW t \in Threads, Compare(t)  PROVE Awake'
  BY <1>5, <1>0, JobsFacts DEF Compare, Goto, Return
<1>6. ASSUME NEW t \in Threads, FutexWait(t)  PROVE Awake'
  BY <1>6, <1>0 DEF FutexWait, Goto
<1>7. ASSUME NEW t \in Threads, Submit(t) \/ GpuDone(t)  PROVE Awake'
  BY <1>7, <1>0, JobsFacts DEF Submit, GpuDone, SignalNext, Goto, Return
<1>8. ASSUME NEW t \in Threads, Load(t)  PROVE Awake'
  BY <1>8, <1>0 DEF Load
<1>9. ASSUME NEW t \in Threads, Exchange(t)  PROVE Awake'
  <2>1. CASE pc'[t] = "bump"
    BY <1>9, <1>0, <2>1 DEF Exchange, Goto
  <2>2. CASE UNCHANGED <<value, pc, job, seen>>
    BY <1>9, <1>0, <2>2 DEF Exchange
  <2> QED
    BY <1>9, <2>1, <2>2 DEF Exchange, Goto
<1>10. ASSUME NEW t \in Threads, Bump(t)  PROVE Awake'
  <2>1. epoch' = epoch + 1 /\ pc'[t] = "wake"
    BY <1>10 DEF Bump, Goto
  <2>2. UNCHANGED <<job, seen, value>> /\ \A u \in Threads \ {t} : pc'[u] = pc[u]
    BY <1>10 DEF Bump, Goto
  <2> QED
    BY <1>0, <2>1, <2>2
<1>11. ASSUME NEW t \in Threads, Wake(t)  PROVE Awake'
  <2>1. /\ UNCHANGED <<payload, seen>>
        /\ pc'[t] = "idle"
        /\ \A u \in Threads \ {t} : UNCHANGED job[u]
        /\ \A u \in Threads \ {t} :
             pc'[u] = IF pc[u] = "asleep" THEN "readEpoch" ELSE pc[u]
    BY <1>11 DEF Wake, WakeThem, Sleepers
  <2>2. pc[t] = "wake"
    BY <1>11 DEF Wake, WakeThem
  <2> QED
    BY <2>1, <2>2
<1> QED
  BY <1>1, <1>2, <1>3, <1>4, <1>5, <1>6, <1>7, <1>8, <1>9, <1>10, <1>11
     DEF Next, Wait, Signal

\* As long as the epoch cannot wrap, no thread sleeps through the signal it
\* waits for, however signals, waits and timeouts interleave: NoMissedWakeup.
THEOREM NoWakeupMissed ==
  ASSUME MaxSignals < EpochModulus
  PROVE  Spec => []NoMissedWakeup
<1> DEFINE EInv == TypeOK /\ Honest /\ EpochCounts /\ Awake
<1>1. Init => EInv
  BY TypeInit, HonestInit, EpochInit
<1>2. EInv /\ [Next]_vars => EInv'
  <2> SUFFICES ASSUME EInv, [Next]_vars  PROVE EInv'
    OBVIOUS
  <2>1. TypeOK' /\ Honest'
    BY TypeStep, HonestStep
  <2>2. EpochCounts' /\ epoch' >= epoch /\ \A t \in Threads : Bump(t) => epoch' = epoch + 1
    BY EpochStep
  <2>3. Awake'
    BY <2>2, AwakeStep
  <2> QED
    BY <2>1, <2>2, <2>3
<1>3. EInv => NoMissedWakeup
  BY DEF Awake
<1> QED
  BY <1>1, <1>2, <1>3, PTL DEF Spec

\* Neither a reader nor a submission is ever told of work that is not done:
\* ValuesAreTrue.
THEOREM TimelineTrue == Spec => []ValuesAreTrue
BY TimelineHonest, SubmitNeverLosesDevice, PTL DEF ValuesAreTrue

=============================================================================
