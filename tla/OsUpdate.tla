------------------------------ MODULE OsUpdate ------------------------------
(***************************************************************************)
(* The OS updater: steam-os-update.py downloads a SteamVR runtime and      *)
(* stages it while a session runs, activate-os-update.py switches to it    *)
(* before the next session starts, and runtime-monitor.cpp confirms it     *)
(* once its dashboard is up.  All state that counts is in the file system: *)
(* three directories under /opt and three JSON files.  The session, with   *)
(* every updater in it, can be killed between any two operations on them.  *)
(***************************************************************************)
EXTENDS Integers, FiniteSets

CONSTANTS
  MaxBuild,   \* bound: builds that Valve's feed offers
  Broken,     \* the builds whose dashboard never starts
  Updaters    \* Steam's os-update processes in a session

None    == -1   \* no build; a file that does not exist
Bundled == 0    \* the runtime of the APK
Offered == 1 .. MaxBuild
Builds  == Offered \cup {Bundled}

ASSUME OsUpdateAssumption == MaxBuild \in Nat /\ Broken \subseteq Offered

VARIABLES
  runtime,     \* /opt/steamvr
  next,        \* /opt/steamvr.next
  previous,    \* /opt/steamvr.previous
  pending,     \* the build in pending.json
  activated,   \* the build in activated.json
  installed,   \* the build in installed.json
  overlay,     \* whether the APK's files have to be extracted
  session,     \* the Linux session: down, a step of activate(), or up
  updater,     \* where each updater is
  item         \* each updater's candidate

dirs    == <<runtime, next, previous>>
marks   == <<pending, activated, installed>>
staging == <<updater, item>>
vars    == <<dirs, marks, overlay, session, staging>>

Dirs  == [build : Builds, whole : BOOLEAN]
NoDir == [build |-> None, whole |-> FALSE]

Whole(b)  == [build |-> b, whole |-> TRUE]
Torn(d)   == [d EXCEPT !.whole = FALSE]
Exists(d) == d # NoDir

Steps == {"recover", "remove", "restore", "unmark", "forget",
          "activate", "discard", "mark", "backup", "switch"}
Up    == {"up", "ready"}

\* The updater's steps under flock.
Held == {"held", "reclaim", "reclaiming", "stage", "dropping", "rename", "json"}

TypeOK ==
  /\ runtime \in Dirs \cup {NoDir}
  /\ next \in Dirs \cup {NoDir}
  /\ previous \in Dirs \cup {NoDir}
  /\ pending \in Offered \cup {None}
  /\ activated \in Offered \cup {None}
  /\ installed \in Offered \cup {None}
  /\ overlay \in {"current", "stale"}
  /\ session \in {"down"} \cup Steps \cup Up
  /\ updater \in [Updaters -> {"idle", "lock"} \cup Held]
  /\ item \in [Updaters -> Offered \cup {None}]

Init ==
  /\ runtime = Whole(Bundled) /\ next = NoDir /\ previous = NoDir
  /\ pending = None /\ activated = None /\ installed = None
  /\ overlay = "current"
  /\ session = "down"
  /\ updater = [u \in Updaters |-> "idle"]
  /\ item = [u \in Updaters |-> None]

-----------------------------------------------------------------------------
(* The session.                                                            *)

\* Android installs a newer APK, which ends the app.
UpdateApk ==
  /\ session = "down"
  /\ overlay' = "stale"
  /\ UNCHANGED <<dirs, marks, session, staging>>

\* The adapters of the APK go into the runtime, unless an OS update has been
\* installed or is on trial; over another build they would spoil it.  The app
\* may be killed before all files are out, and starts over.
ExtractOverlay ==
  /\ session = "down"
  /\ overlay = "stale"
  /\ IF installed # None \/ activated # None THEN UNCHANGED runtime
     ELSE runtime' = IF Exists(runtime)
                     THEN [runtime EXCEPT !.whole = @ /\ runtime.build = Bundled]
                     ELSE Torn(Whole(Bundled))
  /\ overlay' \in {"current", "stale"}
  /\ UNCHANGED <<next, previous, marks, session, staging>>

\* start-session.sh runs activate() before anything uses the runtime.
Start ==
  /\ session = "down"
  /\ overlay = "current"
  /\ session' = "recover"
  /\ UNCHANGED <<dirs, marks, overlay, staging>>

\* The app is closed or killed, or a script fails (set -e); PRoot's
\* --kill-on-exit ends every process, which gives the lock back.
End ==
  /\ session # "down"
  /\ session' = "down"
  /\ updater' = [u \in Updaters |-> "idle"]
  /\ item' = [u \in Updaters |-> None]
  /\ UNCHANGED <<dirs, marks, overlay>>

\* Mutant: the runtime is confirmed without waiting for its dashboard.
ConfirmAtOnce ==
  /\ session = "up"
  /\ session' = "ready"
  /\ installed' = IF activated # None THEN activated ELSE installed
  /\ activated' = None
  /\ UNCHANGED <<dirs, pending, overlay, staging>>

\* The monitor sees the dashboard's textures, once in a session, and confirms
\* a runtime on trial; a rename that fails is not tried again.
Confirm ==
  /\ session = "up"
  /\ runtime.whole /\ runtime.build \notin Broken
  /\ session' = "ready"
  /\ \/ activated # None /\ installed' = activated /\ activated' = None
     \/ UNCHANGED <<installed, activated>>
  /\ UNCHANGED <<dirs, pending, overlay, staging>>

-----------------------------------------------------------------------------
(* activate(): recovery from a start that was not confirmed.               *)

At(s, t) == session = s /\ session' = t

\* An unconfirmed runtime is taken away, if there is another to come back to.
Recover ==
  /\ IF activated = None THEN At("recover", "activate") /\ UNCHANGED dirs
     ELSE IF ~Exists(previous) THEN At("recover", "unmark") /\ UNCHANGED dirs
     ELSE IF ~Exists(runtime) THEN At("recover", "restore") /\ UNCHANGED dirs
     ELSE /\ At("recover", "remove")
          /\ runtime' = Torn(runtime)
          /\ UNCHANGED <<next, previous>>
  /\ UNCHANGED <<marks, overlay, staging>>

Remove ==
  /\ At("remove", "restore")
  /\ runtime' = NoDir
  /\ UNCHANGED <<next, previous, marks, overlay, staging>>

Restore ==
  /\ At("restore", "unmark")
  /\ runtime' = previous
  /\ previous' = NoDir
  /\ UNCHANGED <<next, marks, overlay, staging>>

Unmark ==
  /\ At("unmark", "forget")
  /\ activated' = None
  /\ UNCHANGED <<dirs, pending, installed, overlay, staging>>

Forget ==
  /\ At("forget", "activate")
  /\ pending' = None
  /\ UNCHANGED <<dirs, activated, installed, overlay, staging>>

-----------------------------------------------------------------------------
(* activate(): the switch to a staged runtime.                             *)

\* Mutant: nothing is activated over a runtime of before the last.
ActivateFresh ==
  /\ IF ~Exists(next) \/ pending = None \/ Exists(previous)
     THEN At("activate", "up")
     ELSE At("activate", "mark")
  /\ UNCHANGED <<dirs, marks, overlay, staging>>

Activate ==
  /\ IF ~Exists(next) \/ pending = None THEN At("activate", "up") /\ UNCHANGED dirs
     ELSE IF ~Exists(previous) THEN At("activate", "mark") /\ UNCHANGED dirs
     ELSE /\ At("activate", "discard")
          /\ previous' = Torn(previous)
          /\ UNCHANGED <<runtime, next>>
  /\ UNCHANGED <<marks, overlay, staging>>

Discard ==
  /\ At("discard", "mark")
  /\ previous' = NoDir
  /\ UNCHANGED <<runtime, next, marks, overlay, staging>>

Mark ==
  /\ At("mark", "backup")
  /\ activated' = pending
  /\ pending' = None
  /\ UNCHANGED <<dirs, installed, overlay, staging>>

Backup ==
  /\ At("backup", "switch")
  /\ Exists(runtime)
  /\ previous' = runtime
  /\ runtime' = NoDir
  /\ UNCHANGED <<next, marks, overlay, staging>>

Switch ==
  /\ At("switch", "up")
  /\ runtime' = next
  /\ next' = NoDir
  /\ UNCHANGED <<previous, marks, overlay, staging>>

-----------------------------------------------------------------------------
(* steam-os-update.py.                                                     *)

Continue(u, s, t) ==
  /\ session \in Up
  /\ updater[u] = s
  /\ updater' = [updater EXCEPT ![u] = t]

Request(u) ==
  /\ Continue(u, "idle", "lock")
  /\ UNCHANGED <<dirs, marks, overlay, session, item>>

\* Mutant: the lock is not waited for.
LockIgnored(u) ==
  /\ Continue(u, "lock", "held")
  /\ UNCHANGED <<dirs, marks, overlay, session, item>>

\* A second request waits for the lock of the first.
Lock(u) ==
  /\ \A v \in Updaters : updater[v] \notin Held
  /\ Continue(u, "lock", "held")
  /\ UNCHANGED <<dirs, marks, overlay, session, item>>

\* Nothing to do when an update is staged, or the feed's image is installed.
\* The feed may offer any build: channels differ.
Candidate(u) ==
  /\ \/ /\ pending # None \/ installed # None
        /\ Continue(u, "held", "idle")
        /\ UNCHANGED item
     \/ /\ pending = None
        /\ \E build \in Offered \ {installed} : item' = [item EXCEPT ![u] = build]
        /\ Continue(u, "held", "reclaim")
  /\ UNCHANGED <<dirs, marks, overlay, session>>

\* Mutant: the backup is reclaimed without regard to activated.json.
ReclaimUnconfirmed(u) ==
  /\ IF installed # None /\ runtime.whole /\ Exists(previous)
     THEN Continue(u, "reclaim", "reclaiming") /\ previous' = Torn(previous)
     ELSE Continue(u, "reclaim", "stage") /\ UNCHANGED previous
  /\ UNCHANGED <<runtime, next, marks, overlay, session, item>>

\* reclaim_previous(): rollback runtimes go only once the newer is confirmed.
Reclaim(u) ==
  /\ IF installed # None /\ activated = None /\ runtime.whole /\ Exists(previous)
     THEN Continue(u, "reclaim", "reclaiming") /\ previous' = Torn(previous)
     ELSE Continue(u, "reclaim", "stage") /\ UNCHANGED previous
  /\ UNCHANGED <<runtime, next, marks, overlay, session, item>>

Reclaimed(u) ==
  /\ Continue(u, "reclaiming", "stage")
  /\ previous' = NoDir
  /\ UNCHANGED <<runtime, next, marks, overlay, session, item>>

\* stage(): the image has been downloaded, extracted, verified and adapted;
\* what an earlier attempt left is removed.
Stage(u) ==
  /\ IF Exists(next)
     THEN Continue(u, "stage", "dropping") /\ next' = Torn(next)
     ELSE Continue(u, "stage", "rename") /\ UNCHANGED next
  /\ UNCHANGED <<runtime, previous, marks, overlay, session, item>>

Dropped(u) ==
  /\ Continue(u, "dropping", "rename")
  /\ next' = NoDir
  /\ UNCHANGED <<runtime, previous, marks, overlay, session, item>>

RenameStaged(u) ==
  /\ Continue(u, "rename", "json")
  /\ next' = Whole(item[u])
  /\ UNCHANGED <<runtime, previous, marks, overlay, session, item>>

WritePending(u) ==
  /\ Continue(u, "json", "idle")
  /\ pending' = item[u]
  /\ item' = [item EXCEPT ![u] = None]
  /\ UNCHANGED <<dirs, activated, installed, overlay, session>>

\* A download, a check, a tool or a file operation fails; what was done stays.
Fail(u) ==
  /\ \E s \in Held : Continue(u, s, "idle")
  /\ item' = [item EXCEPT ![u] = None]
  /\ UNCHANGED <<dirs, marks, overlay, session>>

-----------------------------------------------------------------------------

ActivateSteps ==
  \/ Recover \/ Remove \/ Restore \/ Unmark \/ Forget
  \/ Activate \/ Discard \/ Mark \/ Backup \/ Switch

UpdaterSteps(u) ==
  \/ Request(u) \/ Lock(u) \/ Candidate(u) \/ Reclaim(u) \/ Reclaimed(u)
  \/ Stage(u) \/ Dropped(u) \/ RenameStaged(u) \/ WritePending(u) \/ Fail(u)

Next ==
  \/ UpdateApk \/ ExtractOverlay \/ Start \/ End \/ Confirm
  \/ ActivateSteps
  \/ \E u \in Updaters : UpdaterSteps(u)

Spec == Init /\ [][Next]_vars

-----------------------------------------------------------------------------
(* Properties.                                                             *)

Unconfirmed == activated # None /\ Exists(previous)

\* The runtime to fall back to, and the build on trial.
GoodRuntime == IF Unconfirmed THEN previous ELSE runtime
TrialBuild  == IF Unconfirmed /\ runtime.whole THEN runtime.build ELSE None

\* "Interruptions between directory moves are recoverable": whenever the
\* session or the app dies, a whole runtime is there to fall back to.
Recoverable == GoodRuntime.whole

\* "The version page reports the confirmed installed Frame userspace
\* runtime": installed.json names the runtime that is kept.
VersionIsConfirmed ==
  GoodRuntime.build = IF installed = None THEN Bundled ELSE installed

\* A session only ever runs a whole runtime: the good one or the one on trial.
SessionUsable ==
  session \in Up =>
    runtime.whole /\ (runtime = GoodRuntime \/ runtime.build = activated)

\* Whatever dies when: a whole runtime is kept, the version page names it, and
\* sessions run it or the one on trial.
RuntimeSafe == Recoverable /\ VersionIsConfirmed /\ SessionUsable

\* pending.json stands for a whole staged runtime of that build, whatever
\* updaters and sessions were killed.
StagedIsWhole == pending # None => next = Whole(pending)

\* "Coalesce another install request with the running one": a staged update
\* is not replaced by a second copy.
StagedOnce == [][pending # None /\ pending' # None => UNCHANGED <<pending, next>>]_vars

\* The updater implements the trial of runtimes.
Trial == INSTANCE RuntimeTrial WITH good <- GoodRuntime.build, trial <- TrialBuild
ImplementsTrial == Trial!Spec

\* "Recover the last working runtime rather than entering a permanent boot
\* loop": a runtime whose dashboard never starts does not come up for ever.
BrokenIsLeft ==
  session = "up" /\ runtime.build \in Broken ~>
    session = "up" /\ runtime.build \notin Broken

\* A staged update is tried, or dropped with a failed one, by a later start.
StagedIsTaken == pending # None ~> pending = None

\* Updates come to an end: staged ones are tried, and broken ones are left.
UpdatesEnd == BrokenIsLeft /\ StagedIsTaken
=============================================================================
