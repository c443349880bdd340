--------------------------- MODULE SharedTimeline ---------------------------
(***************************************************************************)
(* The timeline semaphore of mesa-shared-timeline.h: a value and a futex   *)
(* word (epoch) in memory that several Linux processes map.  Threads of    *)
(* Mesa wait on it and signal it with atomic operations and futex(2) only; *)
(* no lock is ever held.  One timeline is modelled, and one job at a time  *)
(* per thread: a host wait or signal, or a queue submission that waits,    *)
(* runs on the GPU and signals.                                            *)
(***************************************************************************)
EXTENDS Integers, FiniteSets

CONSTANTS
  Threads,        \* Mesa's submit workers and the applications' own threads
  MaxValue,       \* bound: highest timeline value
  EpochModulus,   \* 2^32 in the code
  MaxSignals      \* bound: signals started in a behaviour

ASSUME TimelineAssumption ==
  /\ MaxValue \in Nat \ {0}
  /\ EpochModulus \in Nat \ {0}
  /\ MaxSignals \in Nat
  /\ IsFiniteSet(Threads)

VARIABLES
  value,      \* quest_timeline_payload::value
  epoch,      \* quest_timeline_payload::epoch
  lost,       \* threads whose process has lost its Vulkan device
  job,        \* what each thread is doing
  pc,         \* where in it
  previous,   \* the signaller's local of that name
  seen,       \* the waiter's local epoch
  signals,    \* signals started so far (see MaxSignals)
  finished    \* history variable: values whose work is complete

payload == <<value, epoch>>
frames  == <<job, previous, seen>>
vars == <<payload, lost, frames, pc, signals, finished>>

Values == 0 .. MaxValue

\* A wait for, or a signal of, 0 is none at all.  A submission has GPU work
\* between the two; the host waits, possibly with a deadline, or signals.
Jobs ==
  {j \in [wait : Values, signal : Values, gpu : BOOLEAN, deadline : BOOLEAN] :
     /\ j.deadline => ~j.gpu
     /\ ~j.gpu => j.wait = 0 \/ j.signal = 0}

NoJob == [wait |-> 0, signal |-> 0, gpu |-> FALSE, deadline |-> FALSE]

WaitPoints   == {"readEpoch", "compare", "futex", "asleep"}
SignalPoints == {"load", "exchange", "bump", "wake"}

TypeOK ==
  /\ value \in Values
  /\ epoch \in 0 .. EpochModulus - 1
  /\ lost \in SUBSET Threads
  /\ job \in [Threads -> Jobs]
  /\ pc \in [Threads -> {"idle", "submit", "gpu"} \cup WaitPoints \cup SignalPoints]
  /\ previous \in [Threads -> Values]
  /\ seen \in [Threads -> 0 .. EpochModulus - 1]
  /\ signals \in 0 .. MaxSignals
  /\ finished \in SUBSET Values

\* quest_timeline_init, with an initial value of 0.
Init ==
  /\ value = 0
  /\ epoch = 0
  /\ lost = {}
  /\ job = [t \in Threads |-> NoJob]
  /\ pc = [t \in Threads |-> "idle"]
  /\ previous = [t \in Threads |-> 0]
  /\ seen = [t \in Threads |-> 0]
  /\ signals = 0
  /\ finished = {}

\* The thread t continues at point p of its call.
Goto(t, p) == pc' = [pc EXCEPT ![t] = p] /\ UNCHANGED frames

\* Its call returns and its frame is gone.
Return(t) ==
  /\ pc' = [pc EXCEPT ![t] = "idle"]
  /\ job' = [job EXCEPT ![t] = NoJob]
  /\ previous' = [previous EXCEPT ![t] = 0]
  /\ seen' = [seen EXCEPT ![t] = 0]

-----------------------------------------------------------------------------
(* The callers: an application, or Mesa's submit worker for a submission.  *)

Start(t) ==
  /\ pc[t] = "idle"
  /\ t \notin lost
  /\ \E j \in Jobs \ {NoJob} :
       /\ j.signal # 0 => signals < MaxSignals
       /\ signals' = IF j.signal # 0 THEN signals + 1 ELSE signals
       /\ job' = [job EXCEPT ![t] = j]
       /\ pc' = [pc EXCEPT ![t] = IF j.wait # 0 THEN "readEpoch" ELSE "submit"]
  /\ UNCHANGED <<payload, lost, previous, seen, finished>>

\* The GPU, or another thread of the process, loses the device.
LoseDevice(t) ==
  /\ lost' = lost \cup {t}
  /\ UNCHANGED <<payload, frames, pc, signals, finished>>

-----------------------------------------------------------------------------
(* quest_timeline_wait.                                                    *)

ReadEpoch(t) ==
  /\ pc[t] = "readEpoch"
  /\ pc' = [pc EXCEPT ![t] = "compare"]
  /\ seen' = [seen EXCEPT ![t] = epoch]
  /\ UNCHANGED <<payload, lost, job, previous, signals, finished>>

\* The value has been reached, or the device is lost, or the deadline has
\* passed, or the thread goes on to sleep.  A submission whose wait fails is
\* not submitted.
Compare(t) ==
  /\ pc[t] = "compare"
  /\ IF value >= job[t].wait
     THEN Goto(t, "submit")
     ELSE \/ (t \in lost \/ job[t].deadline) /\ Return(t)
          \/ t \notin lost /\ Goto(t, "futex")
  /\ UNCHANGED <<payload, lost, signals, finished>>

\* Mutant: the futex is given the epoch of now, not the one read before the
\* value was compared.
FutexWaitLate(t) ==
  /\ pc[t] = "futex"
  /\ Goto(t, "asleep")
  /\ UNCHANGED <<payload, lost, signals, finished>>

\* FUTEX_WAIT: the kernel compares epoch and puts the thread to sleep in one
\* step; EAGAIN otherwise.
FutexWait(t) ==
  /\ pc[t] = "futex"
  /\ Goto(t, IF epoch = seen[t] THEN "asleep" ELSE "readEpoch")
  /\ UNCHANGED <<payload, lost, signals, finished>>

\* Mutant: a wait without a deadline sleeps without a timeout.
TimerOnlyForDeadline(t) ==
  /\ pc[t] = "asleep"
  /\ job[t].deadline
  /\ Goto(t, "readEpoch")
  /\ UNCHANGED <<payload, lost, signals, finished>>

\* The futex wait never lasts more than 50 ms; a signal may end it earlier.
Timer(t) ==
  /\ pc[t] = "asleep"
  /\ Goto(t, "readEpoch")
  /\ UNCHANGED <<payload, lost, signals, finished>>

-----------------------------------------------------------------------------
(* quest_kgsl_queue_submit.                                                *)

\* The end of a job's work: its value may now be signalled.
SignalNext(t) == IF job[t].signal # 0 THEN Goto(t, "load") ELSE Return(t)

\* The wait is checked again, and if it failed the device is lost; then the
\* work goes to the GPU.  A host job has none: what it signals is complete.
Submit(t) ==
  /\ pc[t] = "submit"
  /\ \/ /\ job[t].gpu /\ value >= job[t].wait
        /\ Goto(t, "gpu")
        /\ UNCHANGED <<lost, finished>>
     \/ /\ job[t].gpu /\ value < job[t].wait
        /\ Return(t)
        /\ lost' = lost \cup {t}
        /\ UNCHANGED finished
     \/ /\ ~job[t].gpu
        /\ SignalNext(t)
        /\ finished' = finished \cup ({job[t].signal} \ {0})
        /\ UNCHANGED lost
  /\ UNCHANGED <<payload, signals>>

\* kgsl_syncobj_wait returns: the GPU is done, or the submission or the wait
\* failed, and then nothing is signalled.
GpuDone(t) ==
  /\ pc[t] = "gpu"
  /\ \/ /\ SignalNext(t)
        /\ finished' = finished \cup ({job[t].signal} \ {0})
        /\ UNCHANGED lost
     \/ /\ Return(t)
        /\ lost' = lost \cup {t}
        /\ UNCHANGED finished
  /\ UNCHANGED <<payload, signals>>

-----------------------------------------------------------------------------
(* quest_timeline_signal.                                                  *)

Load(t) ==
  /\ pc[t] = "load"
  /\ pc' = [pc EXCEPT ![t] = "exchange"]
  /\ previous' = [previous EXCEPT ![t] = value]
  /\ UNCHANGED <<payload, lost, job, seen, signals, finished>>

\* One turn of the compare-and-exchange loop: the value is high enough
\* already, or it is exchanged, or it has moved and is looked at again.
Exchange(t) ==
  /\ pc[t] = "exchange"
  /\ \/ /\ previous[t] >= job[t].signal
        /\ Goto(t, "bump")
        /\ UNCHANGED value
     \/ /\ previous[t] < job[t].signal /\ value = previous[t]
        /\ value' = job[t].signal
        /\ Goto(t, "bump")
     \/ /\ previous[t] < job[t].signal /\ value # previous[t]
        /\ previous' = [previous EXCEPT ![t] = value]
        /\ UNCHANGED <<value, pc, job, seen>>
  /\ UNCHANGED <<epoch, lost, signals, finished>>

\* The epoch moves, modulo 2^32.
Bump(t) ==
  /\ pc[t] = "bump"
  /\ epoch' = (epoch + 1) % EpochModulus
  /\ Goto(t, "wake")
  /\ UNCHANGED <<value, lost, signals, finished>>

\* FUTEX_WAKE by t on the threads of woken, which continue at point p.
WakeThem(t, woken, p) ==
  /\ pc[t] = "wake"
  /\ pc' = [u \in Threads |-> IF u = t THEN "idle"
                              ELSE IF u \in woken THEN p ELSE pc[u]]
  /\ job' = [job EXCEPT ![t] = NoJob]
  /\ previous' = [previous EXCEPT ![t] = 0]
  /\ UNCHANGED <<payload, lost, seen, signals, finished>>

Sleepers == {u \in Threads : pc[u] = "asleep"}

\* Mutant: a woken thread takes the wake-up for the value.
WakeSatisfied(t) == WakeThem(t, Sleepers, "submit")

\* FUTEX_WAKE with INT_MAX: every sleeper, of any process, starts over.
Wake(t) == WakeThem(t, Sleepers, "readEpoch")

-----------------------------------------------------------------------------

Wait(t)   == ReadEpoch(t) \/ Compare(t) \/ FutexWait(t)
Signal(t) == Load(t) \/ Exchange(t) \/ Bump(t) \/ Wake(t)

Next ==
  \E t \in Threads :
    \/ Start(t) \/ LoseDevice(t)
    \/ Wait(t) \/ Timer(t)
    \/ Submit(t) \/ GpuDone(t)
    \/ Signal(t)

Spec == Init /\ [][Next]_vars

\* A thread inside the timeline code is scheduled; how long the GPU takes, and
\* whether its owner calls again, is open.  The 50 ms timer is not counted on.
FairSpec == Spec /\ \A t \in Threads : WF_vars(Wait(t)) /\ WF_vars(Signal(t))

-----------------------------------------------------------------------------
(* Properties.                                                             *)

\* "Queue signals are published only after the corresponding KGSL GPU
\* submission has completed": the value is always one whose work is done.
ValueIsEarned == value # 0 => value \in finished

\* Signals that race, in whatever order they read and exchange, never take
\* the timeline back.
ValueForward == [][value' >= value]_vars

\* A signaller that has left the exchange loop has made its value visible.
SignalTakesEffect ==
  \A t \in Threads : pc[t] \in {"bump", "wake"} => value >= job[t].signal

\* A wait that succeeded is still satisfied when the submission is checked,
\* so "Timeline wait was not resolved" never loses a device.
WaitsResolved == \A t \in Threads : pc[t] = "submit" => value >= job[t].wait

\* Neither a reader nor a submission is ever told of work that is not done.
ValuesAreTrue == ValueIsEarned /\ WaitsResolved

\* No thread sleeps through the signal it waits for: whenever it sleeps
\* although the value is reached, a signaller is on its way to wake it.
NoMissedWakeup ==
  \A t \in Threads :
    pc[t] = "asleep" /\ value >= job[t].wait =>
      \E u \in Threads : pc[u] \in {"bump", "wake"}

\* A wait whose value has come ends.
ReachedWaitEnds ==
  \A t \in Threads :
    (pc[t] \in WaitPoints /\ value >= job[t].wait) ~> pc[t] \notin WaitPoints

\* "Periodically check device loss even for an infinite Vulkan wait": if the
\* kernel's timers run, no thread of a lost device waits for ever.
LossIsNoticed ==
  (\A t \in Threads : WF_vars(Timer(t))) =>
    \A t \in Threads :
      (pc[t] \in WaitPoints /\ t \in lost) ~> pc[t] \notin WaitPoints

\* A wait ends, by its value or by the loss of the device.
WaitsEnd == ReachedWaitEnds /\ LossIsNoticed
=============================================================================
