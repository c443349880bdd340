----------------------------- MODULE RobustFutex -----------------------------
(***************************************************************************)
(* Robust mutexes under PRoot (proot/robust.c).  Android refuses the        *)
(* robust-list system calls, so the kernel frees nothing when an owner      *)
(* dies.  PRoot keeps the address of each thread's list, marks the words of *)
(* a dying thread while its memory can still be reached, and, as it cannot  *)
(* wake those who sleep on them, bounds every sleep on a word that a        *)
(* registered thread owns: the artificial timeout is reported as EAGAIN and *)
(* the C library looks at the word again.                                   *)
(* The mutex protocol of the C library is how the word is used.             *)
(***************************************************************************)
EXTENDS Naturals, FiniteSets

CONSTANTS Threads, Mutexes,
          Deadlines,  \* of a lock call, in units of the bound (100 ms); Never for none
          Never,
          MaxList,    \* 2048: list entries that are followed
          MaxLocks    \* lock calls, a bound of the model

Nobody == "nobody"

ASSUME FutexAssumption ==
  /\ Never \notin Nat /\ Nobody \notin Threads
  /\ Deadlines \subseteq (Nat \ {0}) \cup {Never}
  /\ MaxList \in Nat /\ MaxLocks \in Nat
  /\ IsFiniteSet(Mutexes)

Free == [owner |-> Nobody, waiters |-> FALSE, died |-> FALSE]

VARIABLES
  word,     \* the futex words
  head,     \* quest_robust_head: the threads that have registered a list
  list,     \* the list of a thread: the mutexes in it
  pending,  \* the pending entry of the list, a set of at most one mutex
  at,       \* where a thread is
  left,     \* the time it may still wait
  expected, \* the word that it sleeps on, as it was
  bounded,  \* quest_robust_retry: its sleep has the artificial timeout
  todo,     \* of a dying thread: entries to look at
  entry,    \* and the one that is being marked, a set of at most one mutex
  answer,   \* what its last lock call returned
  locks

memory == <<word, list, pending>>
tracee == <<head, bounded, todo, entry>>
futexes == <<memory, tracee, at, left, expected, answer, locks>>

Alive(t) == at[t] \notin {"dying", "marking", "dead"}
Wanted(t) == CHOOSE m \in pending[t] : TRUE
Holds(t, m) == Alive(t) /\ (m \in list[t] \/ (at[t] \in {"got", "store"} /\ m \in pending[t]))
Go(t, to) == at' = [at EXCEPT ![t] = to]

-----------------------------------------------------------------------------
(* The C library *)

PR_set_robust_list(t) ==
  /\ at[t] = "new"
  /\ head' = head \cup {t}
  /\ Go(t, "run")
  /\ UNCHANGED <<memory, bounded, todo, entry, left, expected, answer, locks>>

Lock(t, m, deadline) ==
  /\ at[t] = "run" /\ m \notin list[t] /\ locks < MaxLocks
  /\ locks' = locks + 1
  /\ pending' = [pending EXCEPT ![t] = {m}]
  /\ left' = [left EXCEPT ![t] = deadline]
  /\ answer' = [answer EXCEPT ![t] = "none"]
  /\ Go(t, "try")
  /\ UNCHANGED <<word, list, tracee, expected>>

(* Takes a free word or that of a dead owner, or notes that it waits.       *)
Try(t) ==
  LET m == Wanted(t)
      busy == word[m].owner # Nobody
  IN  /\ at[t] = "try"
      /\ word' = [word EXCEPT ![m] = IF busy THEN [@ EXCEPT !.waiters = TRUE]
                                     ELSE [owner |-> t, waiters |-> TRUE, died |-> FALSE]]
      /\ expected' = [expected EXCEPT ![t] = IF busy THEN word'[m] ELSE Free]
      /\ left' = [left EXCEPT ![t] = IF busy THEN @ ELSE Never]
      /\ Go(t, IF busy THEN "enter" ELSE "got")
      /\ answer' = [answer EXCEPT ![t] = IF busy THEN @ ELSE IF word[m].died THEN "owner dead" ELSE "ok"]
      /\ UNCHANGED <<list, pending, tracee, locks>>

Enlist(t) ==
  /\ at[t] = "got"
  /\ list' = [list EXCEPT ![t] = @ \cup pending[t]]
  /\ pending' = [pending EXCEPT ![t] = {}]
  /\ Go(t, "run")
  /\ UNCHANGED <<word, tracee, left, expected, answer, locks>>

Unlock(t, m) ==
  /\ at[t] = "run" /\ m \in list[t]
  /\ list' = [list EXCEPT ![t] = @ \ {m}]
  /\ pending' = [pending EXCEPT ![t] = {m}]
  /\ Go(t, "store")
  /\ UNCHANGED <<word, tracee, left, expected, answer, locks>>

Store(t) ==
  /\ at[t] = "store"
  /\ word' = [word EXCEPT ![Wanted(t)] = Free]
  /\ Go(t, "wake")
  /\ UNCHANGED <<list, pending, tracee, left, expected, answer, locks>>

Sleepers(m) == {u \in Threads : at[u] = "asleep" /\ m \in pending[u]}

Wake(t) ==
  /\ at[t] = "wake"
  /\ \/ Sleepers(Wanted(t)) = {} /\ Go(t, "run")
     \/ \E u \in Sleepers(Wanted(t)) : at' = [at EXCEPT ![t] = "run", ![u] = "try"]
  /\ bounded' = [u \in Threads |-> bounded[u] /\ at'[u] # "try"]
  /\ pending' = [pending EXCEPT ![t] = {}]
  /\ UNCHANGED <<word, list, head, todo, entry, left, expected, answer, locks>>

-----------------------------------------------------------------------------
(* FUTEX_WAIT through PRoot *)

\* Mutant: sleeps are left as long as the C library asked for.
EnterUnbounded(t) ==
  /\ at[t] = "enter"
  /\ Go(t, "kernel")
  /\ UNCHANGED <<memory, tracee, left, expected, answer, locks>>

(* Whose word it is decides at the entry, by what the thread expects.       *)
quest_robust_enter(t) ==
  /\ at[t] = "enter"
  /\ bounded' = [bounded EXCEPT ![t] = /\ expected[t].owner \in head
                                       /\ left[t] = Never \/ left[t] > 1]
  /\ Go(t, "kernel")
  /\ UNCHANGED <<memory, head, todo, entry, left, expected, answer, locks>>

(* The kernel sleeps only if the word is still what was expected.           *)
FutexWait(t) ==
  /\ at[t] = "kernel"
  /\ LET same == word[Wanted(t)] = expected[t]
     IN  /\ Go(t, IF same THEN "asleep" ELSE "try")
         /\ bounded' = [bounded EXCEPT ![t] = @ /\ same]
  /\ expected' = [expected EXCEPT ![t] = Free]
  /\ UNCHANGED <<memory, head, todo, entry, left, answer, locks>>

\* Mutant: the artificial timeout is reported as it is.
ExitTimedOut(t) ==
  /\ at[t] = "asleep" /\ bounded[t]
  /\ answer' = [answer EXCEPT ![t] = "timeout"]
  /\ bounded' = [bounded EXCEPT ![t] = FALSE]
  /\ pending' = [pending EXCEPT ![t] = {}]
  /\ Go(t, "run")
  /\ UNCHANGED <<word, list, head, todo, entry, left, expected, locks>>

(* The bound is over: EAGAIN, and less time is left.                        *)
quest_robust_exit(t) ==
  /\ at[t] = "asleep" /\ bounded[t]
  /\ left' = [left EXCEPT ![t] = IF @ = Never THEN Never ELSE @ - 1]
  /\ bounded' = [bounded EXCEPT ![t] = FALSE]
  /\ Go(t, "try")
  /\ UNCHANGED <<memory, head, todo, entry, expected, answer, locks>>

(* The deadline of the call itself is over.                                 *)
TimedOut(t) ==
  /\ at[t] = "asleep" /\ ~bounded[t] /\ left[t] # Never
  /\ answer' = [answer EXCEPT ![t] = "timeout"]
  /\ left' = [left EXCEPT ![t] = 0]
  /\ pending' = [pending EXCEPT ![t] = {}]
  /\ Go(t, "run")
  /\ UNCHANGED <<word, list, tracee, expected, locks>>

-----------------------------------------------------------------------------
(* Death *)

(* PTRACE_EVENT_EXIT: at most MaxList entries and the pending one.          *)
Die(t) ==
  /\ Alive(t)
  /\ \E some \in SUBSET list[t] :
       /\ Cardinality(some) = (IF Cardinality(list[t]) < MaxList THEN Cardinality(list[t]) ELSE MaxList)
       /\ todo' = [todo EXCEPT ![t] = IF t \in head THEN some \cup pending[t] ELSE {}]
  /\ Go(t, "dying")
  /\ bounded' = [bounded EXCEPT ![t] = FALSE]
  /\ left' = [left EXCEPT ![t] = Never]
  /\ expected' = [expected EXCEPT ![t] = Free]
  /\ answer' = [answer EXCEPT ![t] = "none"]
  /\ UNCHANGED <<memory, head, entry, locks>>

\* Mutant: every word that the list leads to is marked.
MarkUnread(t, m) ==
  /\ at[t] = "dying" /\ m \in todo[t]
  /\ todo' = [todo EXCEPT ![t] = @ \ {m}]
  /\ entry' = [entry EXCEPT ![t] = {m}]
  /\ Go(t, "marking")
  /\ UNCHANGED <<memory, head, bounded, left, expected, answer, locks>>

(* An entry that the thread does not own is left alone; a word of its own   *)
(* is read first and written in a second step.                              *)
MarkRead(t, m) ==
  /\ at[t] = "dying" /\ m \in todo[t]
  /\ todo' = [todo EXCEPT ![t] = @ \ {m}]
  /\ IF word[m].owner = t THEN entry' = [entry EXCEPT ![t] = {m}] /\ Go(t, "marking")
     ELSE UNCHANGED <<entry, at>>
  /\ UNCHANGED <<memory, head, bounded, left, expected, answer, locks>>

MarkWrite(t) ==
  /\ at[t] = "marking"
  /\ word' = [m \in Mutexes |-> IF m \in entry[t]
                               THEN [owner |-> Nobody, waiters |-> TRUE, died |-> TRUE] ELSE word[m]]
  /\ entry' = [entry EXCEPT ![t] = {}]
  /\ Go(t, "dying")
  /\ UNCHANGED <<list, pending, head, bounded, todo, left, expected, answer, locks>>

quest_robust_death(t) ==
  /\ at[t] = "dying" /\ todo[t] = {}
  /\ head' = head \ {t}
  /\ Go(t, "dead")
  /\ UNCHANGED <<memory, bounded, todo, entry, left, expected, answer, locks>>

-----------------------------------------------------------------------------
FutexInit ==
  /\ word = [m \in Mutexes |-> Free]
  /\ head = {}
  /\ list = [t \in Threads |-> {}] /\ pending = [t \in Threads |-> {}]
  /\ at = [t \in Threads |-> "new"]
  /\ left = [t \in Threads |-> Never]
  /\ expected = [t \in Threads |-> Free]
  /\ bounded = [t \in Threads |-> FALSE]
  /\ todo = [t \in Threads |-> {}] /\ entry = [t \in Threads |-> {}]
  /\ answer = [t \in Threads |-> "none"]
  /\ locks = 0

Proceed(t) == \/ Try(t) \/ Enlist(t) \/ Store(t) \/ Wake(t)
              \/ quest_robust_enter(t) \/ FutexWait(t) \/ quest_robust_exit(t) \/ TimedOut(t)
Dying(t) == (\E m \in Mutexes : MarkRead(t, m)) \/ MarkWrite(t) \/ quest_robust_death(t)

FutexNext ==
  \E t \in Threads :
    \/ PR_set_robust_list(t)
    \/ \E m \in Mutexes : (\E d \in Deadlines : Lock(t, m, d)) \/ Unlock(t, m)
    \/ Proceed(t) \/ Die(t) \/ Dying(t)

(* Threads in the middle of a call run on, timers expire, and PRoot handles *)
(* the exit of a thread.                                                    *)
FutexFairness == \A t \in Threads : WF_futexes(Proceed(t)) /\ WF_futexes(Dying(t))
FutexSpec == FutexInit /\ [][FutexNext]_futexes /\ FutexFairness

-----------------------------------------------------------------------------
(* Properties *)

(* At most one living thread holds a mutex, also when a former owner dies   *)
(* between the store that frees it and the end of its unlock.               *)
MutexHeldOnce ==
  \A t, u \in Threads, m \in Mutexes : Holds(t, m) /\ Holds(u, m) => t = u

(* A word of a dead owner says so once its exit has been handled: nobody is *)
(* entered in a word for ever (for lists of up to MaxList entries).         *)
NoDeadOwner ==
  \A t \in Threads : at[t] = "dead" /\ Cardinality(list[t]) <= MaxList =>
    \A m \in Mutexes : word[m].owner # t

(* "artificial timeouts become EAGAIN" (robust.c:5): a lock call returns    *)
(* ETIMEDOUT only when the time it was given is over.                       *)
TimeoutEarned == \A t \in Threads : answer[t] = "timeout" => left[t] = 0

(* A thread that waits for a mutex nobody living holds gets on: it does not *)
(* sleep for ever although nobody wakes it, because the owner died before,  *)
(* while or after it went to sleep.                                         *)
Orphan(m) == \A u \in Threads : ~Holds(u, m)
SleepersGetOn ==
  \A t \in Threads : at[t] = "asleep" /\ Orphan(Wanted(t)) ~> at[t] # "asleep" \/ ~Orphan(Wanted(t))

(* A lock call with a deadline ends.                                        *)
DeadlineKept ==
  \A t \in Threads : at[t] = "asleep" /\ left[t] # Never ~> at[t] \in {"run", "got", "dead"}

(* Robust mutexes stay mutexes, and none is left to the dead.               *)
MutexKept == MutexHeldOnce /\ NoDeadOwner

(* No sleep in PRoot outlasts what the sleeper waits for: lock calls on a   *)
(* mutex without a living owner go on, those with a deadline end.           *)
LocksEnd == SleepersGetOn /\ DeadlineKept

-----------------------------------------------------------------------------
(* The invariant that the proofs rest on *)

Places == {"new", "run", "try", "got", "store", "wake", "enter", "kernel", "asleep",
           "dying", "marking", "dead"}
FutexTypeOK ==
  /\ word \in [Mutexes -> [owner : Threads \cup {Nobody}, waiters : BOOLEAN, died : BOOLEAN]]
  /\ head \in SUBSET Threads
  /\ list \in [Threads -> SUBSET Mutexes] /\ pending \in [Threads -> SUBSET Mutexes]
  /\ at \in [Threads -> Places]
  /\ todo \in [Threads -> SUBSET Mutexes] /\ entry \in [Threads -> SUBSET Mutexes]
CallsTypeOK ==
  /\ left \in [Threads -> Nat \cup {Never}] /\ bounded \in [Threads -> BOOLEAN]
  /\ answer \in [Threads -> {"none", "ok", "owner dead", "timeout"}]

(* A thread in a call has one pending mutex, which is not in its list; one  *)
(* that has not registered a list has no mutex.                             *)
Calls ==
  \A t \in Threads :
    /\ at[t] \in {"try", "got", "store", "wake", "enter", "kernel", "asleep"} =>
         \E m \in Mutexes : pending[t] = {m} /\ m \notin list[t]
    /\ at[t] = "new" => list[t] = {} /\ pending[t] = {}
    /\ Alive(t) /\ at[t] # "new" => t \in head

(* The word and the list agree while a thread lives; a dying thread that is *)
(* in a word still has the entry before it.                                 *)
WordsAgree ==
  \A t \in Threads, m \in Mutexes :
    /\ Alive(t) => (Holds(t, m) <=> word[m].owner = t)
    /\ m \in entry[t] => at[t] = "marking" /\ word[m].owner = t
    /\ ~Alive(t) /\ word[m].owner = t /\ Cardinality(list[t]) <= MaxList =>
         at[t] # "dead" /\ m \in todo[t] \cup entry[t]

(* Only a call that has returned has an answer, and only a sleep that is to *)
(* last longer than the bound is bounded.                                   *)
Answers ==
  \A t \in Threads :
    /\ at[t] \in {"try", "enter", "kernel", "asleep"} => answer[t] = "none"
    /\ answer[t] = "timeout" => left[t] = 0
    /\ bounded[t] => at[t] \in {"kernel", "asleep"} /\ (left[t] = Never \/ left[t] > 1)
=============================================================================
