--------------------------- MODULE GuestLifeProofs ---------------------------
(***************************************************************************)
(* Proofs about what outlives an activity, for any builds, any set of      *)
(* broken ones, any number of updaters, activities, processes and launches *)
(* of applications.  Updates: whatever is killed, a whole runtime is there *)
(* to fall back to, a staged one is not replaced, and the updater          *)
(* implements RuntimeTrial.  Sessions: one lives at a time, on a whole     *)
(* root.  Applications: a request has one outcome, and what runs is owned. *)
(* Each of the three has an inductive invariant of its own; GuestLife runs *)
(* one of them in a behaviour and leaves the others as they began.         *)
(***************************************************************************)
EXTENDS GuestLife, FiniteSetTheorems, WellFoundedInduction, TLAPS

(* The updates. *)

\* Updaters run in sessions only, and one at a time under the lock.
Exclusive ==
  /\ \A u \in Updaters : updater[u] # "idle" => session \in Up
  /\ \A u, v \in Updaters : updater[u] \in Held /\ updater[v] \in Held => u = v

\* What the updater that holds the lock relies on.
Candidates == {"reclaim", "reclaiming", "stage", "dropping", "rename", "json"}

Staging ==
  \A u \in Updaters :
    /\ updater[u] \in Candidates => pending = None /\ item[u] \in Offered
    /\ updater[u] = "reclaiming" => activated = None
    /\ updater[u] = "json" => next = Whole(item[u])

\* What each step of activate() relies on.
Switching ==
  /\ session \in {"remove", "restore"} => activated # None /\ Exists(previous)
  /\ session = "unmark" => ~Exists(previous)
  /\ session \in {"forget", "activate", "discard", "mark"} => activated = None
  /\ session = "forget" => ~Exists(previous)
  /\ session \in {"discard", "mark"} => pending # None
  /\ session \in {"mark", "backup"} => ~Exists(previous)
  /\ session \in {"backup", "switch"} =>
       activated # None /\ next = Whole(activated) /\ pending = None
  /\ session = "switch" => Exists(previous) /\ ~Exists(runtime)
  /\ session \in Up /\ activated # None =>
       Exists(previous) /\ runtime.build = activated

Kept == Recoverable /\ VersionIsConfirmed /\ SessionUsable /\ StagedIsWhole

IInv == TypeOK /\ Exclusive /\ Staging /\ Switching /\ Kept

-----------------------------------------------------------------------------

LEMMA Values ==
  /\ None \notin Builds /\ None \notin Offered /\ Bundled \in Builds /\ Bundled # None
  /\ Offered \subseteq Builds
  /\ NoDir \notin Dirs
  /\ \A d \in Dirs : Exists(d) /\ d.build \in Builds /\ d.whole \in BOOLEAN /\ Torn(d) \in Dirs
                     /\ Torn(d).build = d.build /\ Torn(d).whole = FALSE
  /\ \A b \in Builds : Whole(b) \in Dirs /\ Whole(b).whole /\ Whole(b).build = b
  /\ ~Exists(NoDir) /\ NoDir.build = None /\ NoDir.whole = FALSE
<1>1. None \notin Builds /\ None \notin Offered /\ Bundled \in Builds /\ Bundled # None
      /\ Offered \subseteq Builds
  BY OsUpdateAssumption DEF None, Builds, Offered, Bundled
<1>2. NoDir \notin Dirs /\ ~Exists(NoDir) /\ NoDir.build = None /\ NoDir.whole = FALSE
  BY <1>1 DEF NoDir, Dirs, Exists
<1>3. ASSUME NEW d \in Dirs
      PROVE  /\ Exists(d) /\ d.build \in Builds /\ d.whole \in BOOLEAN /\ Torn(d) \in Dirs
             /\ Torn(d).build = d.build /\ Torn(d).whole = FALSE
  BY <1>2 DEF Dirs, Exists, Torn
<1>4. ASSUME NEW b \in Builds
      PROVE  Whole(b) \in Dirs /\ Whole(b).whole /\ Whole(b).build = b
  BY DEF Whole, Dirs
<1> QED
  BY <1>1, <1>2, <1>3, <1>4

LEMMA InvInit == Init => IInv
<1> SUFFICES ASSUME Init  PROVE IInv
  OBVIOUS
<1>1. TypeOK
  BY Values DEF Init, TypeOK
<1>2. Exclusive /\ Staging
  BY DEF Init, Exclusive, Staging, Held, Candidates
<1>3. Switching
  BY DEF Init, Switching, Up
<1>4. Kept
  BY Values DEF Init, Kept, Recoverable, VersionIsConfirmed, SessionUsable, StagedIsWhole,
     GoodRuntime, Unconfirmed, Up
<1> QED
  BY <1>1, <1>2, <1>3, <1>4 DEF IInv

\* Outside a session no updater runs.
LEMMA Quiet ==
  ASSUME Exclusive, session \notin Up  PROVE \A u \in Updaters : updater[u] = "idle"
  BY DEF Exclusive

LEMMA ActivateStep ==
  ASSUME IInv, ActivateSteps  PROVE IInv'
<1> USE Values DEF IInv, TypeOK, dirs, marks, staging, At, Exists
<1> USE DEF Kept, Recoverable, VersionIsConfirmed, SessionUsable, StagedIsWhole,
            GoodRuntime, Unconfirmed, Switching, Steps, Up
<1>1. session \notin Up /\ UNCHANGED <<overlay, updater, item, installed>>
  BY DEF ActivateSteps, Recover, Remove, Restore, Unmark, Forget, Activate, Discard, Mark,
     Backup, Switch
<1>2. \A u \in Updaters : updater[u] = "idle"
  BY <1>1, Quiet
<1>3. Exclusive' /\ Staging'
  BY <1>1, <1>2 DEF Exclusive, Staging, Candidates, Held
<1>4. CASE Recover
  BY <1>1, <1>3, <1>4 DEF Recover
<1>5. CASE Remove
  BY <1>1, <1>3, <1>5 DEF Remove
<1>6. CASE Restore
  BY <1>1, <1>3, <1>6 DEF Restore
<1>7. CASE Unmark
  BY <1>1, <1>3, <1>7 DEF Unmark
<1>8. CASE Forget
  BY <1>1, <1>3, <1>8 DEF Forget
<1>9. CASE Activate
  BY <1>1, <1>3, <1>9 DEF Activate
<1>10. CASE Discard
  BY <1>1, <1>3, <1>10 DEF Discard
<1>11. CASE Mark
  BY <1>1, <1>3, <1>11 DEF Mark
<1>12. CASE Backup
  BY <1>1, <1>3, <1>12 DEF Backup
<1>13. CASE Switch
  BY <1>1, <1>3, <1>13 DEF Switch
<1> QED
  BY <1>4, <1>5, <1>6, <1>7, <1>8, <1>9, <1>10, <1>11, <1>12, <1>13 DEF ActivateSteps

LEMMA SessionStep ==
  ASSUME IInv, UpdateApk \/ ExtractOverlay \/ Start \/ End \/ Confirm  PROVE IInv'
<1> USE Values DEF IInv, TypeOK, dirs, marks, staging, Exists
<1> USE DEF Kept, Recoverable, VersionIsConfirmed, SessionUsable, StagedIsWhole,
            GoodRuntime, Unconfirmed, Switching, Steps, Up
<1>1. CASE UpdateApk
  BY <1>1 DEF UpdateApk, Exclusive, Staging
<1>2. CASE ExtractOverlay
  <2>1. runtime' = runtime
    <3>1. CASE installed = None /\ activated = None
      <4>1. runtime \in Dirs /\ runtime.build = Bundled /\ runtime.whole
        BY <3>1
      <4>2. [runtime EXCEPT !.whole = @ /\ runtime.build = Bundled] = runtime
        BY <4>1 DEF Dirs
      <4> QED
        BY <1>2, <3>1, <4>1, <4>2 DEF ExtractOverlay
    <3> QED
      BY <1>2, <3>1 DEF ExtractOverlay
  <2> QED
    BY <1>2, <2>1 DEF ExtractOverlay, Exclusive, Staging
<1>3. CASE Start
  <2>1. \A u \in Updaters : updater[u] = "idle"
    BY <1>3, Quiet DEF Start
  <2> QED
    BY <1>3, <2>1 DEF Start, Exclusive, Staging, Candidates, Held
<1>4. CASE End
  BY <1>4 DEF End, Exclusive, Staging, Candidates, Held
<1>5. CASE Confirm
  BY <1>5 DEF Confirm, Exclusive, Staging, Candidates, Held
<1> QED
  BY <1>1, <1>2, <1>3, <1>4, <1>5

LEMMA UpdaterStep ==
  ASSUME IInv, NEW u \in Updaters, UpdaterSteps(u)  PROVE IInv'
<1> USE Values DEF IInv, TypeOK, dirs, marks, Exists, Continue
<1> USE DEF Kept, Recoverable, VersionIsConfirmed, SessionUsable, StagedIsWhole,
            GoodRuntime, Unconfirmed, Switching, Steps, Up, Exclusive, Staging, Candidates, Held
<1>1. CASE Request(u)
  BY <1>1 DEF Request
<1>2. CASE Lock(u)
  BY <1>2 DEF Lock
<1>3. CASE Candidate(u)
  BY <1>3 DEF Candidate
<1>4. CASE Reclaim(u)
  BY <1>4 DEF Reclaim
<1>5. CASE Reclaimed(u)
  BY <1>5 DEF Reclaimed
<1>6. CASE Stage(u)
  BY <1>6 DEF Stage
<1>7. CASE Dropped(u)
  BY <1>7 DEF Dropped
<1>8. CASE RenameStaged(u)
  BY <1>8 DEF RenameStaged
<1>9. CASE WritePending(u)
  BY <1>9 DEF WritePending
<1>10. CASE Fail(u)
  BY <1>10 DEF Fail
<1> QED
  BY <1>1, <1>2, <1>3, <1>4, <1>5, <1>6, <1>7, <1>8, <1>9, <1>10 DEF UpdaterSteps

LEMMA InvStep == IInv /\ [Next]_vars => IInv'
<1> SUFFICES ASSUME IInv, [Next]_vars  PROVE IInv'
  OBVIOUS
<1>1. CASE UNCHANGED vars
  BY <1>1 DEF vars, dirs, marks, staging, IInv, TypeOK, Exclusive, Staging, Switching, Kept,
     Recoverable, VersionIsConfirmed, SessionUsable, StagedIsWhole, GoodRuntime, Unconfirmed
<1>2. CASE Next
  BY <1>2, ActivateStep, SessionStep, UpdaterStep DEF Next
<1> QED
  BY <1>1, <1>2

\* Every variable keeps its type: TypeOK.
THEOREM TypeCorrect == Spec => []TypeOK
<1>1. IInv => TypeOK
  BY DEF IInv
<1> QED
  BY <1>1, InvInit, InvStep, PTL DEF Spec

\* Whenever the session or the app dies, and however often, there is a whole
\* runtime to fall back to: Recoverable.
THEOREM AlwaysRecoverable == Spec => []Recoverable
<1>1. IInv => Recoverable
  BY DEF IInv, Kept
<1> QED
  BY <1>1, InvInit, InvStep, PTL DEF Spec

\* installed.json names the runtime that is kept: VersionIsConfirmed.
THEOREM VersionPageHonest == Spec => []VersionIsConfirmed
<1>1. IInv => VersionIsConfirmed
  BY DEF IInv, Kept
<1> QED
  BY <1>1, InvInit, InvStep, PTL DEF Spec

\* A session only ever runs a whole runtime: SessionUsable.
THEOREM SessionsRunWhole == Spec => []SessionUsable
<1>1. IInv => SessionUsable
  BY DEF IInv, Kept
<1> QED
  BY <1>1, InvInit, InvStep, PTL DEF Spec

-----------------------------------------------------------------------------
(* The updater implements RuntimeTrial.                                    *)

LEMMA TrialInit == Init => Trial!Init
<1> SUFFICES ASSUME Init  PROVE Trial!Init
  OBVIOUS
<1>1. Bundled \in Builds \ Broken
  BY OsUpdateAssumption, Values DEF Offered, Bundled
<1> QED
  BY <1>1, Values DEF Init, Trial!Init, GoodRuntime, TrialBuild, Unconfirmed

\* Only the switch begins a trial, and only its confirmation or the removal of
\* its runtime ends it; nothing but a confirmation touches the good build.
LEMMA TrialStep ==
  ASSUME IInv, [Next]_vars  PROVE [Trial!Next]_(Trial!vars)
<1> USE Values DEF IInv, TypeOK, Exists, At, Continue
<1> USE DEF Kept, Recoverable, SessionUsable, StagedIsWhole, Switching, Up,
            GoodRuntime, Unconfirmed, TrialBuild, Trial!vars
<1>1. CASE UNCHANGED vars
  BY <1>1 DEF vars, dirs, marks
<1>2. CASE UpdateApk \/ Start \/ End
  BY <1>2 DEF UpdateApk, Start, End, dirs, marks
<1>3. CASE ExtractOverlay
  <2>1. CASE installed = None /\ activated = None
    <3>1. runtime \in Dirs /\ runtime.build = Bundled
      BY <2>1 DEF VersionIsConfirmed
    <3>2. runtime'.build = runtime.build
      BY <1>3, <2>1, <3>1 DEF ExtractOverlay, Dirs
    <3> QED
      BY <1>3, <2>1, <3>2 DEF ExtractOverlay, marks
  <2> QED
    BY <1>3, <2>1 DEF ExtractOverlay, marks
<1>4. CASE Confirm
  <2>1. CASE UNCHANGED <<installed, activated>>
    BY <1>4, <2>1 DEF Confirm, dirs
  <2>2. CASE activated # None /\ installed' = activated /\ activated' = None
    <3>1. TrialBuild = runtime.build /\ runtime.build \in Builds \ Broken
      BY <1>4, <2>2 DEF Confirm
    <3>2. GoodRuntime'.build = runtime.build /\ TrialBuild' = None
      BY <1>4, <2>2 DEF Confirm, dirs
    <3> QED
      BY <3>1, <3>2 DEF Trial!Next, Trial!Confirm
  <2> QED
    BY <1>4, <2>1, <2>2 DEF Confirm
<1>5. CASE Recover
  <2>1. GoodRuntime'.build = GoodRuntime.build
    BY <1>5 DEF Recover, dirs, marks
  <2>2. TrialBuild' = TrialBuild \/ TrialBuild' = None
    BY <1>5 DEF Recover, dirs, marks
  <2> QED
    BY <2>1, <2>2 DEF Trial!Next, Trial!GiveUp
<1>6. CASE Remove
  <2>1. GoodRuntime'.build = GoodRuntime.build /\ TrialBuild' = None
    BY <1>6 DEF Remove, marks
  <2> QED
    BY <2>1 DEF Trial!Next, Trial!GiveUp
<1>7. CASE Restore
  <2>1. GoodRuntime'.build = GoodRuntime.build /\ TrialBuild' = None
    BY <1>7 DEF Restore, marks
  <2> QED
    BY <2>1 DEF Trial!Next, Trial!GiveUp
<1>8. CASE Unmark \/ Forget \/ Activate \/ Discard \/ Mark
  BY <1>8 DEF Unmark, Forget, Activate, Discard, Mark, dirs, marks
<1>9. CASE Backup
  <2>1. GoodRuntime'.build = GoodRuntime.build /\ TrialBuild' = None /\ TrialBuild = None
    BY <1>9 DEF Backup, marks
  <2> QED
    BY <2>1
<1>10. CASE Switch
  <2>1. /\ activated \in Offered /\ runtime' = Whole(activated)
        /\ previous' = previous /\ activated' = activated
    BY <1>10 DEF Switch, marks
  <2>2. TrialBuild' \in Builds /\ GoodRuntime'.build = GoodRuntime.build
    BY <1>10, <2>1 DEF Switch
  <2>3. TrialBuild = None
    BY <1>10 DEF Switch
  <2> QED
    BY <2>2, <2>3 DEF Trial!Next, Trial!Try
<1>11. ASSUME NEW u \in Updaters, UpdaterSteps(u)
       PROVE  UNCHANGED <<GoodRuntime.build, TrialBuild>>
  <2>1. UNCHANGED <<runtime, activated>>
    BY <1>11 DEF UpdaterSteps, Request, Lock, Candidate, Reclaim, Reclaimed, Stage, Dropped,
       RenameStaged, WritePending, Fail, dirs, marks
  <2>2. UNCHANGED previous \/ activated = None
    BY <1>11 DEF UpdaterSteps, Request, Lock, Candidate, Reclaim, Reclaimed, Stage, Dropped,
       RenameStaged, WritePending, Fail, dirs, marks, Staging, Candidates
  <2> QED
    BY <2>1, <2>2
<1> QED
  BY <1>1, <1>2, <1>3, <1>4, <1>5, <1>6, <1>7, <1>8, <1>9, <1>10, <1>11
     DEF Next, ActivateSteps

\* The updater implements the trial of runtimes: ImplementsTrial.
THEOREM UpdateIsTrial == Spec => ImplementsTrial
<1> QED
  BY InvInit, InvStep, TrialInit, TrialStep, PTL DEF Spec, ImplementsTrial, Trial!Spec

\* The three together: RuntimeSafe.
THEOREM RuntimeAlwaysSafe == Spec => []RuntimeSafe
BY AlwaysRecoverable, VersionPageHonest, SessionsRunWhole, PTL DEF RuntimeSafe

\* "Coalesce another install request with the running one": no step of an
\* updater, of activate() or of a session that dies replaces a staged update
\* by another copy; pending.json and its runtime stay until activate() takes
\* them.
THEOREM StagedStays == Spec => StagedOnce
<1>1. ASSUME IInv, [Next]_vars, pending # None, pending' # None
      PROVE  UNCHANGED <<pending, next>>
  <2> USE <1>1 DEF dirs, marks
  <2>1. CASE UNCHANGED vars
    BY <2>1 DEF vars
  <2>2. CASE UpdateApk \/ ExtractOverlay \/ Start \/ End \/ Confirm
    BY <2>2 DEF UpdateApk, ExtractOverlay, Start, End, Confirm
  <2>3. CASE ActivateSteps
    BY <2>3 DEF ActivateSteps, Recover, Remove, Restore, Unmark, Forget, Activate, Discard,
       Mark, Backup, Switch, At, IInv, Switching
  <2>4. ASSUME NEW u \in Updaters, UpdaterSteps(u)  PROVE UNCHANGED <<pending, next>>
    <3>1. updater[u] \notin Candidates
      BY DEF IInv, Staging
    <3> QED
      BY <2>4, <3>1 DEF UpdaterSteps, Request, Lock, Candidate, Reclaim, Reclaimed, Stage, Dropped,
         RenameStaged, WritePending, Fail, Continue, Candidates
  <2> QED
    BY <2>1, <2>2, <2>3, <2>4 DEF Next
<1>2. IInv /\ [Next]_vars => [pending # None /\ pending' # None => UNCHANGED <<pending, next>>]_vars
  BY <1>1
<1> QED
  BY <1>2, InvInit, InvStep, PTL DEF Spec, StagedOnce

-----------------------------------------------------------------------------
(* The Linux session.  Whoever lives belongs to the worker that has the    *)
(* lock, and the lock is kept until nobody does; so the steps that need    *)
(* nobody to live need the lock only.                                      *)

HoldsLock == \A a \in Activities : worker[a] \in Inside => holder = a

\* Nobody lives but what the worker with the lock waits for or ends.
LivesForOne ==
  Living # {} =>
    \E a \in Activities : worker[a] \in {"wait", "stop", "drain"} /\ Living = {linux[a]}

Installed ==
  /\ \A a \in Activities :
       /\ worker[a] \in {"layer", "clean", "start", "fork", "wait", "return"} => root = "ready"
       /\ worker[a] \in {"clean", "start", "fork", "wait", "return"} => layer = "current"
  /\ Living # {} => root = "ready" /\ layer = "current"

SessionInv == SessionTypeOK /\ HoldsLock /\ LivesForOne /\ Installed

\* Natural numbers have a least one.
LEMMA Least ==
  ASSUME NEW S \in SUBSET Nat, S # {}
  PROVE  \E x \in S : \A y \in S : x <= y
<1> DEFINE R == OpToRel(<, Nat)
<1>1. IsWellFoundedOn(R, Nat)
  BY NatLessThanWellFounded
<1> HIDE DEF R
<1>2. PICK x \in S : \A y \in S : <<y, x>> \notin R
  BY <1>1, WFMin
<1>3. \A y \in S : ~(y < x)
  <2>1. R = {ss \in Nat \X Nat : ss[1] < ss[2]}
    BY DEF R, OpToRel
  <2> QED BY <1>2, <2>1
<1> QED BY <1>3

LEMMA SessionStart == SessionInit => SessionInv
<1> SUFFICES ASSUME SessionInit  PROVE SessionInv
  OBVIOUS
<1>1. NoPid \notin Pids /\ Living = {}
  BY SessionAssumption DEF SessionInit, Living
<1> QED
  BY <1>1 DEF SessionInit, SessionInv, SessionTypeOK, HoldsLock, LivesForOne, Installed, Inside

\* With the lock and neither waiting nor ending, a worker is alone.
LEMMA Alone ==
  ASSUME SessionInv, NEW a \in Activities,
         worker[a] \in Inside \ {"wait", "stop", "drain"} \/ (worker[a] \in Inside /\ ~Runs(a))
  PROVE  Living = {}
<1> SUFFICES ASSUME Living # {}  PROVE FALSE
  OBVIOUS
<1>1. PICK b \in Activities : worker[b] \in {"wait", "stop", "drain"} /\ Living = {linux[b]}
  BY DEF SessionInv, LivesForOne
<1>2. holder = a /\ holder = b
  BY <1>1 DEF SessionInv, HoldsLock, Inside
<1> QED
  BY <1>1, <1>2 DEF Runs

\* A step of a worker under its lock, or on the way to it, that starts nobody.
LEMMA WorkerMoves ==
  ASSUME SessionInv, NEW a \in Activities, NEW to \in {"idle", "lock"} \cup Inside,
         worker' = [worker EXCEPT ![a] = to], UNCHANGED <<holder, process, linux>>,
         to \in Inside => worker[a] \in Inside,
         Living # {} /\ worker[a] \in {"wait", "stop", "drain"} => to \in {"wait", "stop", "drain"}
  PROVE  HoldsLock' /\ LivesForOne' /\ Living' = Living
<1>1. Living' = Living
  BY DEF Living
<1>2. HoldsLock'
  BY DEF SessionInv, SessionTypeOK, HoldsLock
<1>3. LivesForOne'
  BY <1>1 DEF SessionInv, SessionTypeOK, LivesForOne
<1> QED
  BY <1>1, <1>2, <1>3


\* Processes that end, or become PRoot, leave the others to their worker.
LEMMA ProcessMoves ==
  ASSUME SessionInv, Living' \subseteq Living, UNCHANGED <<holder, worker, linux>>
  PROVE  HoldsLock' /\ LivesForOne'
BY DEF SessionInv, HoldsLock, LivesForOne

LEMMA KillShrinks ==
  ASSUME SessionInv, NEW a \in Activities, KillLinux(a)
  PROVE  /\ Living' \subseteq Living
         /\ process' \in [Pids -> {"shell", "proot", "again", "ended"}]
<1> USE DEF SessionInv, SessionTypeOK
<1>1. CASE Runs(a) /\ pidFile \in Living
  BY <1>1 DEF KillLinux, Living
<1>2. CASE ~(Runs(a) /\ pidFile \in Living)
  BY <1>2 DEF KillLinux, Living
<1> QED BY <1>1, <1>2

LEMMA WorkerKeeps ==
  ASSUME SessionInv, NEW a \in Activities,
         \/ RequestLinux(a) \/ GiveUpLock(a) \/ Begin(a) \/ RemoveIncomplete(a) \/ Extract(a)
         \/ RenameRoot(a) \/ MarkReady(a) \/ ExtractLayer(a) \/ Clean(a) \/ StartAudio(a)
         \/ Ended(a) \/ ReturnToSteam(a) \/ Breaks(a)
  PROVE  SessionInv'
<1> USE DEF Inside, Step, files
<1>1. worker[a] = "wait" /\ ~Runs(a) => Living = {}
  BY Alone
<1>2. PICK to \in {"idle", "lock"} \cup Inside :
        /\ worker' = [worker EXCEPT ![a] = to] /\ UNCHANGED <<holder, process, linux>>
        /\ to \in Inside => worker[a] \in Inside
        /\ Living # {} /\ worker[a] \in {"wait", "stop", "drain"} => to \in {"wait", "stop", "drain"}
        /\ to \in {"layer", "clean", "start", "fork", "wait", "return"} =>
             \/ worker[a] \in {"layer", "clean", "start", "fork", "wait", "return"} \/ root' = "ready"
        /\ to \in {"clean", "start", "fork", "wait", "return"} =>
             \/ worker[a] \in {"clean", "start", "fork", "wait", "return"} \/ layer' = "current"
  <2>1. CASE RequestLinux(a) \/ GiveUpLock(a)
    BY <2>1 DEF RequestLinux, GiveUpLock
  <2>2. CASE Begin(a) \/ RemoveIncomplete(a) \/ Extract(a)
    BY <2>2 DEF Begin, RemoveIncomplete, Extract
  <2>3. CASE RenameRoot(a) \/ MarkReady(a) \/ ExtractLayer(a)
    BY <2>3 DEF RenameRoot, MarkReady, ExtractLayer
  <2>4. CASE Clean(a) \/ StartAudio(a)
    BY <2>4 DEF Clean, StartAudio
  <2>5. CASE Ended(a)
    BY <1>1, <2>5 DEF Ended
  <2>6. CASE ReturnToSteam(a)
    BY <2>6 DEF ReturnToSteam
  <2>7. CASE Breaks(a)
    BY <2>7 DEF Breaks
  <2> QED
    BY <2>1, <2>2, <2>3, <2>4, <2>5, <2>6, <2>7
<1>3. HoldsLock' /\ LivesForOne' /\ Living' = Living
  BY <1>2, WorkerMoves
<1>4. SessionTypeOK'
  <2>1. worker' \in [Activities -> {"idle", "lock"} \cup Inside]
    BY <1>2 DEF SessionInv, SessionTypeOK
  <2>2. /\ root' \in {"none", "unmarked", "ready"} /\ install' \in {"none", "partial", "whole"}
        /\ layer' \in {"stale", "current"} /\ pidFile' \in Pids \cup {NoPid}
        /\ again' \in [Activities -> BOOLEAN] /\ main' = main
    BY DEF SessionInv, SessionTypeOK, RequestLinux, GiveUpLock, Begin, RemoveIncomplete, Extract,
       RenameRoot, MarkReady, ExtractLayer, Clean, StartAudio, Ended, ReturnToSteam, Breaks
  <2> QED
    BY <1>2, <2>1, <2>2 DEF SessionInv, SessionTypeOK
<1>5. Installed'
  <2>1. /\ root' = root \/ root' = "ready" \/ (root = "none" /\ worker[a] = "rename")
        /\ layer' = layer \/ layer' = "current"
    BY DEF RequestLinux, GiveUpLock, Begin, RemoveIncomplete, Extract, RenameRoot, MarkReady,
       ExtractLayer, Clean, StartAudio, Ended, ReturnToSteam, Breaks
  <2>2. root' = root \/ root' = "ready" \/ \A b \in Activities : worker[b] \in Inside => b = a
    BY <2>1 DEF SessionInv, HoldsLock
  <2>3. \A b \in Activities : worker'[b] = worker[b] \/ b = a
    BY <1>2 DEF SessionInv, SessionTypeOK
  <2>4. worker'[a] \in {"layer", "clean", "start", "fork", "wait", "return"} => root' = "ready"
    BY <1>2, <2>1 DEF SessionInv, SessionTypeOK, Installed
  <2>5. worker'[a] \in {"clean", "start", "fork", "wait", "return"} => layer' = "current"
    BY <1>2, <2>1 DEF SessionInv, SessionTypeOK, Installed
  <2>6. ASSUME NEW b \in Activities, b # a
        PROVE  /\ worker'[b] \in {"layer", "clean", "start", "fork", "wait", "return"} => root' = "ready"
               /\ worker'[b] \in {"clean", "start", "fork", "wait", "return"} => layer' = "current"
    BY <2>1, <2>2, <2>3, <2>6 DEF SessionInv, Installed
  <2>7. Living # {} => root' = "ready" /\ layer' = "current"
    <3>1. Living # {} => root = "ready" /\ layer = "current"
      BY DEF SessionInv, Installed
    <3> QED BY <2>1, <3>1
  <2> QED
    BY <1>3, <2>4, <2>5, <2>6, <2>7 DEF Installed
<1> QED
  BY <1>3, <1>4, <1>5 DEF SessionInv

LEMMA LockKeeps ==
  ASSUME SessionInv, NEW a \in Activities, TryLock(a) \/ Unlock(a)
  PROVE  SessionInv'
<1> USE DEF SessionInv, SessionTypeOK, Step, files, Inside
<1>1. Living' = Living
  BY DEF TryLock, Unlock, Living
<1>2. CASE TryLock(a)
  BY <1>1, <1>2, SessionAssumption DEF TryLock, HoldsLock, LivesForOne, Installed
<1>3. CASE Unlock(a)
  <2>1. Living = {}
    BY <1>3, Alone DEF Unlock
  <2>2. holder = a
    BY <1>3 DEF Unlock, HoldsLock
  <2> QED BY <1>1, <1>3, <2>1, <2>2 DEF Unlock, HoldsLock, LivesForOne, Installed
<1> QED BY <1>2, <1>3

LEMMA ForkKeeps ==
  ASSUME SessionInv, NEW a \in Activities, Fork(a)
  PROVE  SessionInv'
<1> USE DEF SessionInv, SessionTypeOK, Step, files, Inside
<1> DEFINE p == CHOOSE least \in Unused : \A q \in Unused : least <= q
<1>1. p \in Unused /\ p \in Pids
  <2>1. Unused \in SUBSET Nat /\ Unused # {}
    BY SessionAssumption DEF Fork, Unused
  <2>2. \E least \in Unused : \A q \in Unused : least <= q
    BY <2>1, Least
  <2>3. p \in Unused
    BY <2>2
  <2> QED BY <2>3 DEF Unused
<1>2. /\ process' = [process EXCEPT ![p] = "shell"] /\ linux' = [linux EXCEPT ![a] = p]
      /\ worker' = [worker EXCEPT ![a] = "wait"]
      /\ worker[a] = "fork" /\ UNCHANGED <<files, pidFile, holder, main, again>>
  BY DEF Fork
<1> HIDE DEF p
<1>3. Living = {}
  BY <1>2, Alone
<1>4. Living' = {p}
  BY <1>1, <1>2, <1>3 DEF Living
<1>5. SessionTypeOK'
  BY <1>1, <1>2
<1>6. HoldsLock'
  BY <1>2 DEF HoldsLock
<1>7. LivesForOne'
  BY <1>1, <1>2, <1>4 DEF LivesForOne
<1>8. Installed'
  BY <1>2 DEF Installed
<1> QED BY <1>5, <1>6, <1>7, <1>8

LEMMA StopKeeps ==
  ASSUME SessionInv, NEW a \in Activities, StopLinux(a) \/ Drain(a)
  PROVE  SessionInv'
<1> USE DEF Step, files, Inside
<1>1. CASE StopLinux(a)
  <2>1. Living' \subseteq Living /\ process' \in [Pids -> {"shell", "proot", "again", "ended"}]
    BY <1>1, KillShrinks DEF StopLinux
  <2>2. /\ worker[a] = "stop" /\ worker' = [worker EXCEPT ![a] = "drain"]
        /\ UNCHANGED <<files, pidFile, holder, main, linux, again>>
    BY <1>1 DEF StopLinux
  <2>3. SessionTypeOK' /\ HoldsLock'
    BY <2>1, <2>2 DEF SessionInv, SessionTypeOK, HoldsLock
  <2>4. LivesForOne'
    <3> SUFFICES ASSUME Living' # {}  PROVE LivesForOne'
      BY DEF LivesForOne
    <3>1. PICK b \in Activities : worker[b] \in {"wait", "stop", "drain"} /\ Living = {linux[b]}
      BY <2>1 DEF SessionInv, LivesForOne
    <3>2. worker'[b] \in {"wait", "stop", "drain"} /\ Living' = {linux'[b]}
      BY <2>1, <2>2, <3>1 DEF SessionInv, SessionTypeOK
    <3> QED BY <3>2 DEF LivesForOne
  <2>5. Installed'
    BY <2>1, <2>2 DEF SessionInv, SessionTypeOK, Installed
  <2> QED BY <2>3, <2>4, <2>5 DEF SessionInv
<1>2. CASE Drain(a)
  <2>1. Living = {}
    BY <1>2, Alone DEF Drain
  <2>2. /\ worker[a] = "drain" /\ worker' = [worker EXCEPT ![a] = "unlock"]
        /\ linux' = [linux EXCEPT ![a] = NoPid]
        /\ UNCHANGED <<files, pidFile, process, holder, main, again>>
    BY <1>2 DEF Drain
  <2>3. Living' = {}
    BY <2>1, <2>2 DEF Living
  <2> QED
    BY <2>2, <2>3 DEF SessionInv, SessionTypeOK, HoldsLock, LivesForOne, Installed
<1> QED BY <1>1, <1>2

\* The main thread and the processes themselves.
LEMMA MainKeeps ==
  ASSUME SessionInv, NEW a \in Activities,
         Create(a) \/ Destroy(a) \/ KillFromMain(a) \/ Shutdown(a)
  PROVE  SessionInv'
<1> USE DEF files
<1>1. Living' \subseteq Living /\ process' \in [Pids -> {"shell", "proot", "again", "ended"}]
  BY KillShrinks DEF Create, Destroy, KillFromMain, Shutdown, Living, SessionInv, SessionTypeOK
<1>2. /\ UNCHANGED <<files, pidFile, holder, worker, linux, again>>
      /\ main' \in [Activities -> {"none", "open", "destroying", "killed", "gone"}]
  BY DEF Create, Destroy, KillFromMain, Shutdown, SessionInv, SessionTypeOK
<1>3. HoldsLock' /\ LivesForOne'
  BY <1>1, <1>2, ProcessMoves
<1>4. Installed'
  BY <1>1, <1>2 DEF SessionInv, Installed
<1> QED
  BY <1>1, <1>2, <1>3, <1>4 DEF SessionInv, SessionTypeOK

LEMMA ProcessKeeps ==
  ASSUME SessionInv, NEW p \in Pids, WritePid(p) \/ Ends(p)
  PROVE  SessionInv'
<1> USE DEF files, activity
<1>1. Living' \subseteq Living /\ process' \in [Pids -> {"shell", "proot", "again", "ended"}]
  BY DEF WritePid, Ends, Living, SessionInv, SessionTypeOK
<1>2. /\ UNCHANGED <<files, holder, activity>> /\ pidFile' \in Pids \cup {NoPid}
  BY DEF WritePid, Ends, SessionInv, SessionTypeOK
<1>3. HoldsLock' /\ LivesForOne'
  BY <1>1, <1>2, ProcessMoves
<1>4. Installed'
  BY <1>1, <1>2 DEF SessionInv, Installed
<1> QED
  BY <1>1, <1>2, <1>3, <1>4 DEF SessionInv, SessionTypeOK

LEMMA ResetKeeps == ASSUME SessionInv, AndroidKills  PROVE SessionInv'
<1>1. Living' = {}
  BY DEF AndroidKills, Reset, Living
<1> QED
  BY <1>1 DEF AndroidKills, Reset, SessionInv, SessionTypeOK, HoldsLock, LivesForOne, Installed, Inside

LEMMA SessionKeeps ==
  ASSUME SessionInv, [SessionNext]_linuxVars  PROVE SessionInv'
<1>1. CASE UNCHANGED linuxVars
  BY <1>1 DEF linuxVars, files, activity, SessionInv, SessionTypeOK, HoldsLock, LivesForOne, Installed, Living
<1>2. ASSUME NEW a \in Activities, Worker(a)  PROVE SessionInv'
  BY <1>2, WorkerKeeps, LockKeeps, ForkKeeps, StopKeeps DEF Worker
<1>3. CASE \E a \in Activities : Create(a) \/ RequestLinux(a) \/ Destroy(a) \/ Destroying(a) \/ Breaks(a)
  BY <1>3, WorkerKeeps, MainKeeps DEF Destroying
<1>4. CASE \E p \in Pids : WritePid(p) \/ Ends(p)
  BY <1>4, ProcessKeeps
<1> QED
  BY <1>1, <1>2, <1>3, <1>4, ResetKeeps DEF SessionNext

LEMMA SessionInvApart == SessionInv => SessionsApart
<1> SUFFICES ASSUME SessionInv  PROVE SessionsApart
  OBVIOUS
<1>1. Cardinality(Living) <= 1
  <2>1. CASE Living = {}
    BY <2>1, FS_EmptySet
  <2>2. CASE Living # {}
    <3>1. PICK a \in Activities : Living = {linux[a]}
      BY <2>2 DEF SessionInv, LivesForOne
    <3>2. Cardinality(Living) = 1
      BY <3>1, FS_Singleton, Zenon
    <3> QED BY <3>2
  <2> QED BY <2>1, <2>2
<1>2. \A a \in Activities : worker[a] \in {"clean", "start", "fork", "return"} => Living = {}
  BY Alone DEF Inside
<1> QED
  BY <1>1, <1>2 DEF SessionInv, HoldsLock, Installed, SessionsApart

-----------------------------------------------------------------------------
(* The applications.  The request file is the ticket: it exists only until *)
(* an application is started for it, and who deletes it starts that one.   *)

\* A request whose file exists has not been started; who has an application
\* in its books has started it.
Tickets ==
  \A r \in Launches :
    /\ starts[r] \in {0, 1}
    /\ app[r] = "none" <=> starts[r] = 0
    /\ r \in requests => starts[r] = 0
    /\ \A b \in Bridges : r \in processes[b] => starts[r] = 1

\* What launchers know, and what result files will tell them.
Outcomes ==
  \A r \in Launches :
    /\ launcher[r] = "idle" =>
         /\ starts[r] = 0 /\ r \notin requests /\ result[r] = "none"
         /\ \A b \in Bridges : r \notin listed[b]
    /\ result[r] \in {"exited", "failed"} \/ launcher[r] = "refused" => r \notin requests
    /\ r \in withdrawn => starts[r] = 0 /\ r \notin requests /\ launcher[r] = "silent"
    /\ result[r] \in {"running", "done"} \/ launcher[r] \in {"running", "started"} => starts[r] = 1
    /\ app[r] = "running" /\ (result[r] \in {"exited", "failed"} \/ launcher[r] = "refused")
         => r \in stopped \cup hidden

AppsInv == AppsTypeOK /\ Tickets /\ Outcomes /\ AppsOwned

LEMMA AppsStart == AppsInit => AppsInv
<1> SUFFICES ASSUME AppsInit  PROVE AppsInv
  OBVIOUS
<1>1. \A b \in Bridges : Cardinality(taken[b]) <= 1
  BY FS_EmptySet DEF AppsInit
<1> QED
  BY <1>1 DEF AppsInit, AppsInv, AppsTypeOK, Tickets, Outcomes, AppsOwned

\* A launcher's own steps.
LEMMA LauncherKeeps ==
  ASSUME AppsInv, NEW r \in Launches,
         Launch(r) \/ LookAtResult(r) \/ GiveUp(r) \/ LauncherDies(r)
  PROVE  AppsInv'
<1> USE DEF AppsInv, AppsTypeOK, Becomes, apps, polling
<1>1. CASE Launch(r)
  BY <1>1 DEF Launch, Tickets, Outcomes, AppsOwned
<1>2. CASE LookAtResult(r)
  BY <1>2 DEF LookAtResult, Tickets, Outcomes, AppsOwned
<1>3. CASE GiveUp(r)
  BY <1>3 DEF GiveUp, Tickets, Outcomes, AppsOwned
<1>4. CASE LauncherDies(r)
  BY <1>4 DEF LauncherDies, Tickets, Outcomes, AppsOwned
<1> QED BY <1>1, <1>2, <1>3, <1>4

\* Closing refuses requests, which nobody has started, and tells the books'
\* applications to end.
LEMMA CloseKeeps ==
  ASSUME AppsInv, NEW b \in Bridges, CloseApps(b),
         UNCHANGED <<desktop, hidden, asking, app, starts, late, polling>>,
         bridge' \in {bridge, [bridge EXCEPT ![b] = "closed"]}
  PROVE  AppsInv'
<1> USE DEF AppsInv, AppsTypeOK, CloseApps, asking, polling
<1>1. AppsTypeOK'
  OBVIOUS
<1>2. Tickets'
  BY DEF Tickets
<1>3. Outcomes'
  BY DEF Tickets, Outcomes
<1>4. AppsOwned'
  BY DEF AppsOwned
<1> QED BY <1>1, <1>2, <1>3, <1>4

\* The poll of a bridge, and its end.
LEMMA BridgeKeeps ==
  ASSUME AppsInv, NEW b \in Bridges,
         CreateBridge(b) \/ CloseBridge(b) \/ ShutWorkersDown(b) \/ Poll(b)
  PROVE  AppsInv'
<1>1. CASE CreateBridge(b) \/ ShutWorkersDown(b)
  BY <1>1 DEF CreateBridge, ShutWorkersDown, AppsInv, AppsTypeOK, asking, apps, polling,
     Tickets, Outcomes, AppsOwned
<1>2. CASE CloseBridge(b)
  BY <1>2, CloseKeeps DEF CloseBridge
<1>3. CASE Poll(b) /\ ~desktop
  BY <1>3, CloseKeeps DEF Poll, polling
<1>4. CASE Poll(b) /\ desktop
  <2> USE DEF AppsInv, AppsTypeOK, asking
  <2>1. /\ result' = [r \in Launches |-> IF r \in EndedOf(b) THEN app[r] ELSE result[r]]
        /\ processes' = [processes EXCEPT ![b] = @ \ EndedOf(b)]
        /\ listed' = [listed EXCEPT ![b] = requests]
        /\ UNCHANGED <<desktop, requests, bridge, hidden, asking, app, stopped, starts, late, taken>>
    BY <1>4 DEF Poll
  <2>2. \A r \in EndedOf(b) : r \in Launches /\ starts[r] = 1 /\ app[r] \in {"done", "exited"}
    BY DEF EndedOf, Tickets
  <2>3. AppsTypeOK'
    BY <2>1, <2>2
  <2>4. Tickets'
    BY <2>1 DEF Tickets
  <2>5. Outcomes'
    BY <2>1, <2>2 DEF Outcomes, Tickets
  <2>6. AppsOwned'
    BY <2>1, <2>2 DEF AppsOwned
  <2> QED BY <2>3, <2>4, <2>5, <2>6
<1> QED BY <1>1, <1>2, <1>3, <1>4

\* What a poll does with one request.
LEMMA RequestKeeps ==
  ASSUME AppsInv, NEW b \in Bridges, NEW r \in Launches,
         \/ ReadRequest(b, r) \/ CannotRead(b, r) \/ StartApp(b, r)
         \/ CannotStart(b, r) \/ SomebodyElses(b, r)
  PROVE  AppsInv'
<1> USE DEF AppsInv, asking, apps
<1>1. \A c \in Bridges : Cardinality(taken'[c]) <= 1
  <2>1. Cardinality({}) = 0 /\ Cardinality({r}) = 1
    BY FS_EmptySet, FS_Singleton, Zenon
  <2>2. \/ taken' = taken
        \/ taken' = [taken EXCEPT ![b] = {}]
        \/ taken' = [taken EXCEPT ![b] = {r}]
    BY DEF ReadRequest, CannotRead, StartApp, CannotStart, SomebodyElses
  <2>3. \A c \in Bridges : taken'[c] \in {taken[c], {}, {r}}
    BY <2>2 DEF AppsTypeOK
  <2>4. ASSUME NEW c \in Bridges  PROVE Cardinality(taken'[c]) <= 1
    <3>1. CASE taken'[c] = taken[c]
      BY <3>1 DEF AppsTypeOK
    <3>2. CASE taken'[c] = {}
      <4>1. Cardinality(taken'[c]) = 0
        BY <2>1, <3>2
      <4> QED BY <4>1
    <3>3. CASE taken'[c] = {r}
      <4>1. Cardinality(taken'[c]) = 1
        BY <2>1, <3>3
      <4> QED BY <4>1
    <3> QED BY <2>3, <3>1, <3>2, <3>3
  <2> QED BY <2>4
<1> USE <1>1 DEF AppsTypeOK
<1>2. CASE ReadRequest(b, r)
  <2>1. /\ taken' = [taken EXCEPT ![b] = {r}] /\ listed' = [listed EXCEPT ![b] = @ \ {r}]
        /\ UNCHANGED <<desktop, requests, result, bridge, hidden, asking, apps>>
    BY <1>2 DEF ReadRequest
  <2>2. AppsTypeOK'
    BY <2>1
  <2>3. Tickets' /\ AppsOwned'
    BY <2>1 DEF Tickets, AppsOwned
  <2>4. Outcomes'
    BY <2>1 DEF Outcomes
  <2> QED BY <2>2, <2>3, <2>4
<1>3. CASE CannotRead(b, r)
  BY <1>3 DEF CannotRead, Tickets, Outcomes, AppsOwned
<1>4. CASE StartApp(b, r)
  <2>1. /\ taken' = [taken EXCEPT ![b] = {}] /\ requests' = requests \ {r}
        /\ app' = [app EXCEPT ![r] = "running"] /\ result' = [result EXCEPT ![r] = "running"]
        /\ starts' = [starts EXCEPT ![r] = @ + 1]
        /\ processes' = [processes EXCEPT ![b] = @ \cup {r}]
        /\ late' = IF bridge[b] = "open" THEN late ELSE late \cup {r}
        /\ UNCHANGED <<desktop, bridge, hidden, asking, stopped, listed>>
        /\ r \in requests /\ starts[r] = 0
    BY <1>4 DEF StartApp, Tickets
  <2>2. AppsTypeOK'
    BY <2>1
  <2>3. Tickets'
    BY <2>1 DEF Tickets
  <2>4. Outcomes'
    <3>1. launcher[r] # "refused" \/ r \in stopped \cup hidden \/ app[r] # "running"
      BY DEF Outcomes
    <3> QED BY <2>1, <3>1 DEF Outcomes
  <2>5. AppsOwned'
    BY <2>1 DEF AppsOwned
  <2> QED BY <2>2, <2>3, <2>4, <2>5
<1>5. CASE CannotStart(b, r)
  BY <1>5 DEF CannotStart, Tickets, Outcomes, AppsOwned
<1>6. CASE SomebodyElses(b, r)
  BY <1>6 DEF SomebodyElses, Tickets, Outcomes, AppsOwned
<1> QED BY <1>2, <1>3, <1>4, <1>5, <1>6

\* The desktop, the applications and Android.
LEMMA OutsideKeeps ==
  ASSUME AppsInv, ToggleDesktop \/ AndroidEnds \/ (\E r \in Launches : AppEnds(r))
  PROVE  AppsInv'
<1> USE DEF AppsInv, AppsTypeOK, asking, apps, polling
<1>1. CASE ToggleDesktop
  BY <1>1 DEF ToggleDesktop, Tickets, Outcomes, AppsOwned
<1>2. CASE \E r \in Launches : AppEnds(r)
  <2>1. PICK r \in Launches : AppEnds(r)
    BY <1>2
  <2>2. PICK end \in {"done", "exited"} : app' = [app EXCEPT ![r] = end]
    BY <2>1 DEF AppEnds
  <2> QED
    BY <2>1, <2>2 DEF AppEnds, Tickets, Outcomes, AppsOwned
<1>3. CASE AndroidEnds
  <2>1. \A b \in Bridges : Cardinality(taken'[b]) <= 1
    BY <1>3, FS_EmptySet DEF AndroidEnds
  <2>2. AppsTypeOK'
    BY <1>3, <2>1 DEF AndroidEnds
  <2>3. Tickets' /\ AppsOwned'
    BY <1>3 DEF AndroidEnds, Tickets, AppsOwned
  <2>4. Outcomes'
    BY <1>3 DEF AndroidEnds, Outcomes
  <2> QED BY <2>2, <2>3, <2>4
<1> QED BY <1>1, <1>2, <1>3

LEMMA AppsKeep ==
  ASSUME AppsInv, [AppsNext]_appVars  PROVE AppsInv'
<1>1. CASE UNCHANGED appVars
  BY <1>1 DEF appVars, asking, apps, polling, AppsInv, AppsTypeOK, Tickets, Outcomes, AppsOwned
<1>2. CASE \E r \in Launches : Launch(r) \/ LookAtResult(r) \/ GiveUp(r) \/ LauncherDies(r)
  BY <1>2, LauncherKeeps
<1>3. CASE \E b \in Bridges : CreateBridge(b) \/ CloseBridge(b) \/ ShutWorkersDown(b) \/ Poll(b)
  BY <1>3, BridgeKeeps
<1>4. CASE \E b \in Bridges : \E r \in Launches :
             \/ ReadRequest(b, r) \/ CannotRead(b, r) \/ StartApp(b, r)
             \/ CannotStart(b, r) \/ SomebodyElses(b, r)
  BY <1>4, RequestKeeps
<1> QED
  BY <1>1, <1>2, <1>3, <1>4, OutsideKeeps DEF AppsNext

LEMMA AppsInvOutcome == AppsInv => OneOutcome
BY DEF AppsInv, AppsTypeOK, Tickets, Outcomes, OneOutcome

-----------------------------------------------------------------------------
(* The three together.                                                     *)

\* A life of the guest is one of its updates, of its sessions and of its
\* applications, two of which stand still.
LEMMA LifeSteps ==
  LifeSpec => /\ Spec
              /\ SessionInit /\ [][SessionNext]_linuxVars
              /\ AppsInit /\ [][AppsNext]_appVars
<1>1. LifeInit => Init /\ SessionInit /\ AppsInit
  BY DEF LifeInit
<1>2. [LifeNext]_lifeVars => [Next]_vars /\ [SessionNext]_linuxVars /\ [AppsNext]_appVars
  BY DEF LifeNext, lifeVars
<1> QED
  BY <1>1, <1>2, PTL DEF LifeSpec, Spec

\* However often Android ends the app, and whatever its two activities do: the
\* type of every variable of sessions and applications.
THEOREM LifeTypeCorrect == LifeSpec => [](SessionTypeOK /\ AppsTypeOK)
<1>1. SessionInv => SessionTypeOK
  BY DEF SessionInv
<1>2. AppsInv => AppsTypeOK
  BY DEF AppsInv
<1> QED
  BY <1>1, <1>2, LifeSteps, SessionStart, SessionKeeps, AppsStart, AppsKeep, PTL

\* "Keep the old session's shutdown ahead of the next session's temporary-file
\* cleanup": whatever activities open, close and die, one session lives at a
\* time, nothing empties the files of a living one, and it runs on a root that
\* was installed whole: SessionsApart.
THEOREM SessionsStayApart == LifeSpec => []SessionsApart
BY LifeSteps, SessionStart, SessionKeeps, SessionInvApart, PTL

\* The processes of the app are accounted for, however bridges, launchers,
\* deadlines and deaths race: ProcessesKept.
THEOREM ProcessesAlwaysKept == LifeSpec => []ProcessesKept
<1>1. AppsInv => OneOutcome /\ AppsOwned
  BY AppsInvOutcome DEF AppsInv
<1> QED
  BY <1>1, LifeSteps, SessionsStayApart, AppsStart, AppsKeep, PTL DEF ProcessesKept

\* What OsUpdate promises by itself it promises beside sessions and applications:
\* RuntimeSafe, StagedOnce and ImplementsTrial.
THEOREM UpdatesInLife == LifeSpec => []RuntimeSafe /\ StagedOnce /\ ImplementsTrial
BY LifeSteps, RuntimeAlwaysSafe, StagedStays, UpdateIsTrial, PTL

=============================================================================
