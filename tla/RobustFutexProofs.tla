-------------------------- MODULE RobustFutexProofs --------------------------
(***************************************************************************)
(* Proofs about RobustFutex for any threads, mutexes and list lengths.      *)
(* The invariant is inductive: one lemma for each action, with one step for *)
(* each of its conjuncts.                                                   *)
(***************************************************************************)
EXTENDS RobustFutex, FiniteSetTheorems, TLAPS

FutexInvariant == FutexTypeOK /\ CallsTypeOK /\ Calls /\ WordsAgree /\ Answers

LEMMA RegisterKeeps ==
  ASSUME FutexInvariant, NEW t \in Threads, PR_set_robust_list(t)
  PROVE  FutexInvariant'
<1> USE FutexAssumption DEF memory, tracee, Go, Alive, FutexInvariant, FutexTypeOK,
        PR_set_robust_list
<1>1. FutexTypeOK'
  BY DEF Free, Places, Calls
<1>2. Calls'
  BY DEF Calls, Places
<1>3. WordsAgree'
  BY DEF WordsAgree, Holds, Calls, Places, Free
<1>4. Answers'
  BY DEF Answers, Places, CallsTypeOK
<1>5. CallsTypeOK'
  BY DEF CallsTypeOK, Answers
<1> QED BY <1>1, <1>2, <1>3, <1>4, <1>5 DEF FutexInvariant

LEMMA LockKeeps ==
  ASSUME FutexInvariant, NEW t \in Threads, NEW m \in Mutexes, NEW deadline \in Deadlines, Lock(t, m, deadline)
  PROVE  FutexInvariant'
<1> USE FutexAssumption DEF memory, tracee, Go, Alive, FutexInvariant, FutexTypeOK,
        Lock
<1>1. FutexTypeOK'
  BY DEF Free, Places, Calls
<1>2. Calls'
  BY DEF Calls, Places
<1>3. WordsAgree'
  BY DEF WordsAgree, Holds, Calls, Places, Free
<1>4. Answers'
  BY DEF Answers, Places, CallsTypeOK
<1>5. CallsTypeOK'
  BY DEF CallsTypeOK, Answers
<1> QED BY <1>1, <1>2, <1>3, <1>4, <1>5 DEF FutexInvariant

LEMMA TryKeeps ==
  ASSUME FutexInvariant, NEW t \in Threads, Try(t)
  PROVE  FutexInvariant'
<1> USE FutexAssumption DEF memory, tracee, Go, Alive, FutexInvariant, FutexTypeOK
<1>0. PICK m \in Mutexes : pending[t] = {m} /\ m \notin list[t] /\ Wanted(t) = m /\ at[t] = "try"
  BY DEF Calls, Wanted, Try
<1>a. /\ word[m].owner # Nobody => word' = [word EXCEPT ![m] = [word[m] EXCEPT !.waiters = TRUE]]
      /\ word[m].owner = Nobody =>
           word' = [word EXCEPT ![m] = [owner |-> t, waiters |-> TRUE, died |-> FALSE]]
      /\ at' = [at EXCEPT ![t] = IF word[m].owner # Nobody THEN "enter" ELSE "got"]
      /\ UNCHANGED <<head, list, pending, todo, entry>>
  BY <1>0 DEF Try
<1>1. FutexTypeOK'
  <2> DEFINE Words == [owner : Threads \cup {Nobody}, waiters : BOOLEAN, died : BOOLEAN]
  <2>1. /\ [word[m] EXCEPT !.waiters = TRUE] \in Words
        /\ [owner |-> t, waiters |-> TRUE, died |-> FALSE] \in Words
        /\ word \in [Mutexes -> Words]
    OBVIOUS
  <2>2. word' \in [Mutexes -> Words]
    <3> HIDE DEF Words, FutexInvariant, FutexTypeOK
    <3> QED BY <1>a, <2>1
  <2>3. at' \in [Threads -> Places]
    BY <1>a DEF Places
  <2> QED BY <1>a, <2>2, <2>3
<1>2. Calls'
  BY DEF Try, Calls, Places
<1>3. WordsAgree'
  <2>1. \A k \in Mutexes : \/ word'[k].owner = word[k].owner
                           \/ k = m /\ word[m].owner = Nobody /\ word'[m].owner = t
    BY <1>a
  <2>2. \A u \in Threads \ {t} : at'[u] = at[u]
    BY <1>a
  <2>3. at'[t] = "got" <=> word[m].owner = Nobody
    BY <1>a
  <2>4. word[m].owner # Nobody => word'[m].owner = word[m].owner
    BY <1>a
  <2>5. at'[t] \in {"got", "enter"}
    BY <1>a
  <2>6. word[m].owner = Nobody => word'[m].owner = t
    BY <1>a
  <2> QED BY <1>0, <1>a, <2>1, <2>2, <2>3, <2>4, <2>5, <2>6 DEF WordsAgree, Holds
<1>4. Answers'
  BY DEF Try, Answers, Places, CallsTypeOK
<1>5. CallsTypeOK'
  BY DEF Try, CallsTypeOK, Answers
<1> QED BY <1>1, <1>2, <1>3, <1>4, <1>5 DEF FutexInvariant

LEMMA EnlistKeeps ==
  ASSUME FutexInvariant, NEW t \in Threads, Enlist(t)
  PROVE  FutexInvariant'
<1> USE FutexAssumption DEF memory, tracee, Go, Alive, FutexInvariant, FutexTypeOK,
        Enlist
<1>1. FutexTypeOK'
  BY DEF Free, Places, Calls
<1>2. Calls'
  BY DEF Calls, Places
<1>3. WordsAgree'
  BY DEF WordsAgree, Holds, Calls, Places, Free
<1>4. Answers'
  BY DEF Answers, Places, CallsTypeOK
<1>5. CallsTypeOK'
  BY DEF CallsTypeOK, Answers
<1> QED BY <1>1, <1>2, <1>3, <1>4, <1>5 DEF FutexInvariant

LEMMA UnlockKeeps ==
  ASSUME FutexInvariant, NEW t \in Threads, NEW m \in Mutexes, Unlock(t, m)
  PROVE  FutexInvariant'
<1> USE FutexAssumption DEF memory, tracee, Go, Alive, FutexInvariant, FutexTypeOK,
        Unlock
<1>1. FutexTypeOK'
  BY DEF Free, Places, Calls
<1>2. Calls'
  BY DEF Calls, Places
<1>3. WordsAgree'
  BY DEF WordsAgree, Holds, Calls, Places, Free
<1>4. Answers'
  BY DEF Answers, Places, CallsTypeOK
<1>5. CallsTypeOK'
  BY DEF CallsTypeOK, Answers
<1> QED BY <1>1, <1>2, <1>3, <1>4, <1>5 DEF FutexInvariant

LEMMA StoreKeeps ==
  ASSUME FutexInvariant, NEW t \in Threads, Store(t)
  PROVE  FutexInvariant'
<1> USE FutexAssumption DEF memory, tracee, Go, Alive, FutexInvariant, FutexTypeOK,
        Store, Wanted
<1>1. FutexTypeOK'
  BY DEF Free, Places, Calls
<1>2. Calls'
  BY DEF Calls, Places
<1>3. WordsAgree'
  BY SMTT(30) DEF WordsAgree, Holds, Calls, Places, Free
<1>4. Answers'
  BY DEF Answers, Places, CallsTypeOK
<1>5. CallsTypeOK'
  BY DEF CallsTypeOK, Answers
<1> QED BY <1>1, <1>2, <1>3, <1>4, <1>5 DEF FutexInvariant

LEMMA WakeKeeps ==
  ASSUME FutexInvariant, NEW t \in Threads, Wake(t)
  PROVE  FutexInvariant'
<1> USE FutexAssumption DEF memory, tracee, Go, Alive, FutexInvariant, FutexTypeOK,
        Wake, Wanted, Sleepers
<1>1. FutexTypeOK'
  BY DEF Free, Places, Calls
<1>2. Calls'
  BY SMTT(30) DEF Calls, Places
<1>3. WordsAgree'
  BY DEF WordsAgree, Holds, Calls, Places, Free
<1>4. Answers'
  BY ZenonT(30) DEF Answers, Places, CallsTypeOK
<1>5. CallsTypeOK'
  BY DEF CallsTypeOK, Answers
<1> QED BY <1>1, <1>2, <1>3, <1>4, <1>5 DEF FutexInvariant

LEMMA EnterKeeps ==
  ASSUME FutexInvariant, NEW t \in Threads, quest_robust_enter(t)
  PROVE  FutexInvariant'
<1> USE FutexAssumption DEF memory, tracee, Go, Alive, FutexInvariant, FutexTypeOK,
        quest_robust_enter
<1>1. FutexTypeOK'
  BY DEF Free, Places, Calls
<1>2. Calls'
  BY DEF Calls, Places
<1>3. WordsAgree'
  BY DEF WordsAgree, Holds, Calls, Places, Free
<1>4. Answers'
  BY DEF Answers, Places, CallsTypeOK
<1>5. CallsTypeOK'
  BY DEF CallsTypeOK, Answers
<1> QED BY <1>1, <1>2, <1>3, <1>4, <1>5 DEF FutexInvariant

LEMMA WaitKeeps ==
  ASSUME FutexInvariant, NEW t \in Threads, FutexWait(t)
  PROVE  FutexInvariant'
<1> USE FutexAssumption DEF memory, tracee, Go, Alive, FutexInvariant, FutexTypeOK,
        FutexWait, Wanted
<1>1. FutexTypeOK'
  BY DEF Free, Places, Calls
<1>2. Calls'
  BY DEF Calls, Places
<1>3. WordsAgree'
  BY DEF WordsAgree, Holds, Calls, Places, Free
<1>4. Answers'
  BY DEF Answers, Places, CallsTypeOK
<1>5. CallsTypeOK'
  BY DEF CallsTypeOK, Answers
<1> QED BY <1>1, <1>2, <1>3, <1>4, <1>5 DEF FutexInvariant

LEMMA ExitKeeps ==
  ASSUME FutexInvariant, NEW t \in Threads, quest_robust_exit(t)
  PROVE  FutexInvariant'
<1> USE FutexAssumption DEF memory, tracee, Go, Alive, FutexInvariant, FutexTypeOK,
        quest_robust_exit
<1>1. FutexTypeOK'
  BY DEF Free, Places, Calls
<1>2. Calls'
  BY DEF Calls, Places
<1>3. WordsAgree'
  BY DEF WordsAgree, Holds, Calls, Places, Free
<1>4. Answers'
  BY DEF Answers, Places, CallsTypeOK
<1>5. CallsTypeOK'
  <2>1. left[t] = Never \/ (left[t] \in Nat /\ left[t] - 1 \in Nat)
    <3>1. left[t] \in Nat \cup {Never} /\ (left[t] = Never \/ left[t] > 1)
      BY DEF CallsTypeOK, Answers
    <3> HIDE DEF FutexInvariant, FutexTypeOK, quest_robust_exit
    <3> QED BY <3>1
  <2> QED BY <2>1 DEF CallsTypeOK
<1> QED BY <1>1, <1>2, <1>3, <1>4, <1>5 DEF FutexInvariant

LEMMA TimedOutKeeps ==
  ASSUME FutexInvariant, NEW t \in Threads, TimedOut(t)
  PROVE  FutexInvariant'
<1> USE FutexAssumption DEF memory, tracee, Go, Alive, FutexInvariant, FutexTypeOK,
        TimedOut
<1>1. FutexTypeOK'
  BY DEF Free, Places, Calls
<1>2. Calls'
  BY DEF Calls, Places
<1>3. WordsAgree'
  BY DEF WordsAgree, Holds, Calls, Places, Free
<1>4. Answers'
  BY DEF Answers, Places, CallsTypeOK
<1>5. CallsTypeOK'
  BY DEF CallsTypeOK, Answers
<1> QED BY <1>1, <1>2, <1>3, <1>4, <1>5 DEF FutexInvariant

LEMMA DieKeeps ==
  ASSUME FutexInvariant, NEW t \in Threads, Die(t)
  PROVE  FutexInvariant'
<1> USE FutexAssumption DEF memory, tracee, Go, Alive, FutexInvariant, FutexTypeOK,
        Die
<1>1. FutexTypeOK'
  BY DEF Free, Places, Calls
<1>2. Calls'
  BY DEF Calls, Places
<1>3. WordsAgree'
  <2>1. PICK some \in SUBSET list[t] :
          /\ Cardinality(some) = (IF Cardinality(list[t]) < MaxList THEN Cardinality(list[t]) ELSE MaxList)
          /\ todo' = [todo EXCEPT ![t] = IF t \in head THEN some \cup pending[t] ELSE {}]
    OBVIOUS
  <2>2. Cardinality(list[t]) <= MaxList => some = list[t]
    <3>1. IsFiniteSet(list[t])
      BY FS_Subset
    <3>2. Cardinality(list[t]) \in Nat
      BY <3>1, FS_CardinalityType
    <3>3. Cardinality(list[t]) <= MaxList => Cardinality(some) = Cardinality(list[t])
      <4> HIDE DEF FutexInvariant, FutexTypeOK
      <4> QED BY <2>1, <3>2
    <3> QED BY <3>1, <3>3, FS_Subset
  <2>3. \A m \in Mutexes : word[m].owner = t => m \in list[t] \cup pending[t] /\ t \in head
    BY DEF WordsAgree, Holds, Calls, Places
  <2>4. \A m \in Mutexes : word[m].owner = t /\ Cardinality(list[t]) <= MaxList => m \in todo'[t]
    BY <2>1, <2>2, <2>3
  <2>5. \A u \in Threads \ {t} : todo'[u] = todo[u] /\ at'[u] = at[u]
    BY <2>1
  <2>6. at'[t] = "dying" /\ UNCHANGED <<word, list, pending, entry>>
    OBVIOUS
  <2>7. \A m \in Mutexes : m \notin entry[t]
    BY DEF WordsAgree
  <2> QED BY <2>4, <2>5, <2>6, <2>7 DEF WordsAgree, Holds
<1>4. Answers'
  BY DEF Answers, Places, CallsTypeOK
<1>5. CallsTypeOK'
  BY DEF CallsTypeOK, Answers
<1> QED BY <1>1, <1>2, <1>3, <1>4, <1>5 DEF FutexInvariant

LEMMA MarkReadKeeps ==
  ASSUME FutexInvariant, NEW t \in Threads, NEW m \in Mutexes, MarkRead(t, m)
  PROVE  FutexInvariant'
<1> USE FutexAssumption DEF memory, tracee, Go, Alive, FutexInvariant, FutexTypeOK,
        MarkRead
<1>1. FutexTypeOK'
  BY DEF Free, Places, Calls
<1>2. Calls'
  BY DEF Calls, Places
<1>3. WordsAgree'
  BY DEF WordsAgree, Holds, Calls, Places, Free
<1>4. Answers'
  BY DEF Answers, Places, CallsTypeOK
<1>5. CallsTypeOK'
  BY DEF CallsTypeOK, Answers
<1> QED BY <1>1, <1>2, <1>3, <1>4, <1>5 DEF FutexInvariant

LEMMA MarkWriteKeeps ==
  ASSUME FutexInvariant, NEW t \in Threads, MarkWrite(t)
  PROVE  FutexInvariant'
<1> USE FutexAssumption DEF memory, tracee, Go, Alive, FutexInvariant, FutexTypeOK,
        MarkWrite
<1>1. FutexTypeOK'
  BY DEF Free, Places, Calls
<1>2. Calls'
  BY DEF Calls, Places
<1>3. WordsAgree'
  BY DEF WordsAgree, Holds, Calls, Places, Free
<1>4. Answers'
  BY DEF Answers, Places, CallsTypeOK
<1>5. CallsTypeOK'
  BY DEF CallsTypeOK, Answers
<1> QED BY <1>1, <1>2, <1>3, <1>4, <1>5 DEF FutexInvariant

LEMMA DeathKeeps ==
  ASSUME FutexInvariant, NEW t \in Threads, quest_robust_death(t)
  PROVE  FutexInvariant'
<1> USE FutexAssumption DEF memory, tracee, Go, Alive, FutexInvariant, FutexTypeOK,
        quest_robust_death
<1>1. FutexTypeOK'
  BY DEF Free, Places, Calls
<1>2. Calls'
  BY DEF Calls, Places
<1>3. WordsAgree'
  BY DEF WordsAgree, Holds, Calls, Places, Free
<1>4. Answers'
  BY DEF Answers, Places, CallsTypeOK
<1>5. CallsTypeOK'
  BY DEF CallsTypeOK, Answers
<1> QED BY <1>1, <1>2, <1>3, <1>4, <1>5 DEF FutexInvariant

LEMMA FutexStep == FutexInvariant /\ [FutexNext]_futexes => FutexInvariant'
<1> SUFFICES ASSUME FutexInvariant, [FutexNext]_futexes  PROVE FutexInvariant'
  OBVIOUS
<1>1. CASE UNCHANGED futexes
  <2> USE <1>1 DEF futexes, memory, tracee, FutexInvariant
  <2>1. FutexTypeOK'
    BY DEF FutexTypeOK
  <2>2. CallsTypeOK'
    BY DEF CallsTypeOK
  <2>3. Calls'
    BY DEF Calls, Alive
  <2>4. WordsAgree'
    BY DEF WordsAgree, Alive, Holds
  <2>5. Answers'
    BY DEF Answers
  <2> HIDE DEF futexes, memory, tracee
  <2> QED BY <2>1, <2>2, <2>3, <2>4, <2>5
<1>2. CASE FutexNext
  BY <1>2, RegisterKeeps, LockKeeps, TryKeeps, EnlistKeeps, UnlockKeeps, StoreKeeps, WakeKeeps,
     EnterKeeps, WaitKeeps, ExitKeeps, TimedOutKeeps, DieKeeps, MarkReadKeeps, MarkWriteKeeps,
     DeathKeeps DEF FutexNext, Proceed, Dying
<1> QED BY <1>1, <1>2

LEMMA FutexStart == FutexInit => FutexInvariant
BY FutexAssumption
   DEF FutexInit, FutexInvariant, FutexTypeOK, CallsTypeOK, Calls, WordsAgree, Answers, Alive, Holds, Free, Places

LEMMA FutexInvariantHolds == FutexSpec => []FutexInvariant
BY FutexStart, FutexStep, PTL DEF FutexSpec

\* However threads lock, unlock, sleep and die, two of them never hold a mutex
\* at once, and none is left entered in a word when its exit has been handled:
\* MutexKept.
THEOREM RobustMutexesKept == FutexSpec => []MutexKept
<1>1. FutexInvariant => MutexKept
  BY DEF FutexInvariant, FutexTypeOK, MutexKept, MutexHeldOnce, NoDeadOwner, WordsAgree, Alive, Holds
<1> QED BY <1>1, FutexInvariantHolds, PTL

\* The bound that PRoot puts on a sleep is never reported as the timeout of a
\* lock call: TimeoutEarned.
THEOREM TimeoutsEarned == FutexSpec => []TimeoutEarned
<1>1. FutexInvariant => TimeoutEarned
  BY DEF FutexInvariant, Answers, TimeoutEarned
<1> QED BY <1>1, FutexInvariantHolds, PTL

=============================================================================
