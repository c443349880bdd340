----------------------------- MODULE DesktopApps -----------------------------
(***************************************************************************)
(* Applications that Android starts for the guest's desktop.  A launcher    *)
(* (flatpak-launcher.py) puts a request file into a directory and waits for *)
(* a result file; the bridge of each activity (DesktopAppBridge.java) polls *)
(* the directory, starts the application in a PRoot of its own and says how *)
(* it went.  The bridge of an activity goes on polling after close(), until *)
(* the activity's workers are shut down, and beside that of the next one.   *)
(***************************************************************************)
EXTENDS Naturals, FiniteSets

CONSTANTS Bridges,     \* of activities
          Launches,    \* request identifiers, which are never used again
          Windowed,    \* those of an application window, which needs no desktop
          MaxApps      \* 4

ASSUME AppsAssumption == Windowed \subseteq Launches /\ MaxApps \in Nat

VARIABLES
  desktop,    \* whether desktop-mode.active exists
  requests,   \* the request files
  result,     \* the result files
  launcher,   \* what each launcher does
  app,        \* the application of each request
  bridge,     \* none, open, closed, gone
  processes,  \* the applications of a bridge
  listed,     \* the request files that a poll has still to look at
  taken,      \* the one that it has read
  stopped,    \* applications that were told to end (SIGTERM)
  starts,     \* how often a request was started
  late,       \* applications that a closed bridge started
  withdrawn,  \* requests that their launcher took back
  hidden      \* applications whose result was replaced by an error

asking  == <<launcher, withdrawn>>
apps    == <<app, processes, stopped, starts, late>>
polling == <<listed, taken>>
appVars == <<desktop, requests, result, bridge, hidden, asking, apps, polling>>

AppsTypeOK ==
  /\ desktop \in BOOLEAN
  /\ {requests, stopped, late, withdrawn, hidden} \subseteq SUBSET Launches
  /\ result \in [Launches -> {"none", "running", "done", "exited", "failed"}]
  /\ launcher \in [Launches -> {"idle", "waiting", "running", "started", "refused", "silent", "dead"}]
  /\ app \in [Launches -> {"none", "running", "done", "exited"}]
  /\ bridge \in [Bridges -> {"none", "open", "closed", "gone"}]
  /\ processes \in [Bridges -> SUBSET Launches]
  /\ listed \in [Bridges -> SUBSET Launches]
  /\ taken \in [Bridges -> SUBSET Launches] /\ \A b \in Bridges : Cardinality(taken[b]) <= 1
  /\ starts \in [Launches -> Nat]

AppsInit ==
  /\ desktop \in BOOLEAN
  /\ requests = {} /\ stopped = {} /\ late = {} /\ withdrawn = {} /\ hidden = {}
  /\ result = [r \in Launches |-> "none"]
  /\ launcher = [r \in Launches |-> "idle"]
  /\ app = [r \in Launches |-> "none"]
  /\ bridge = [b \in Bridges |-> "none"]
  /\ processes = [b \in Bridges |-> {}]
  /\ listed = [b \in Bridges |-> {}]
  /\ taken = [b \in Bridges |-> {}]
  /\ starts = [r \in Launches |-> 0]

-----------------------------------------------------------------------------
(* The launcher *)

Becomes(r, from, to) == launcher[r] \in from /\ launcher' = [launcher EXCEPT ![r] = to]

Launch(r) ==
  /\ desktop \/ r \in Windowed
  /\ Becomes(r, {"idle"}, "waiting")
  /\ requests' = requests \cup {r}
  /\ UNCHANGED <<desktop, result, bridge, hidden, withdrawn, apps, polling>>

\* An application has started when it still runs a second later, or has ended
\* without an error.
LookAtResult(r) ==
  /\ \/ result[r] = "running" /\ Becomes(r, {"waiting"}, "running")
     \/ result[r] = "running" /\ Becomes(r, {"running"}, "started")
     \/ result[r] = "done" /\ Becomes(r, {"waiting", "running"}, "started")
     \/ result[r] \in {"exited", "failed"} /\ Becomes(r, {"waiting", "running"}, "refused")
  /\ UNCHANGED <<desktop, requests, result, bridge, hidden, withdrawn, apps, polling>>

\* Fifteen seconds have passed.
GiveUp(r) ==
  /\ Becomes(r, {"waiting", "running"}, "silent")
  /\ withdrawn' = withdrawn \cup ({r} \cap requests)
  /\ requests' = requests \ {r}
  /\ UNCHANGED <<desktop, result, bridge, hidden, apps, polling>>

\* The launcher is killed, or its session ends; its request stays.
LauncherDies(r) ==
  /\ Becomes(r, {"waiting", "running"}, "dead")
  /\ UNCHANGED <<desktop, requests, result, bridge, hidden, withdrawn, apps, polling>>

-----------------------------------------------------------------------------
(* The bridge; poll() and close() exclude each other *)

Idle(b) == listed[b] = {} /\ taken[b] = {}

\* close(): its applications are told to end, and every request is refused,
\* whoever's it is.
CloseApps(b) ==
  /\ stopped' = stopped \cup processes[b]
  /\ processes' = [processes EXCEPT ![b] = {}]
  /\ requests' = {}
  /\ result' = [r \in Launches |-> IF r \in requests THEN "failed"
                                   ELSE IF r \in processes[b] THEN "exited" ELSE result[r]]

EndedOf(b) == {r \in processes[b] : app[r] # "running"}

\* A poll reports what has ended and lists the requests.
Poll(b) ==
  /\ bridge[b] \in {"open", "closed"} /\ Idle(b)
  /\ IF ~desktop THEN CloseApps(b) /\ UNCHANGED listed
     ELSE /\ result' = [r \in Launches |-> IF r \in EndedOf(b) THEN app[r] ELSE result[r]]
          /\ processes' = [processes EXCEPT ![b] = @ \ EndedOf(b)]
          /\ listed' = [listed EXCEPT ![b] = requests]
          /\ UNCHANGED <<requests, stopped>>
  /\ UNCHANGED <<desktop, bridge, hidden, asking, app, starts, late, taken>>

ReadRequest(b, r) ==
  /\ r \in listed[b] \cap requests /\ taken[b] = {}
  /\ listed' = [listed EXCEPT ![b] = @ \ {r}]
  /\ taken' = [taken EXCEPT ![b] = {r}]
  /\ UNCHANGED <<desktop, requests, result, bridge, hidden, asking, apps>>

\* The file has gone, is not well formed, or the thread is interrupted.
CannotRead(b, r) ==
  /\ r \in listed[b] /\ taken[b] = {}
  /\ listed' = [listed EXCEPT ![b] = @ \ {r}]
  /\ requests' = requests \ {r}
  /\ result' = [result EXCEPT ![r] = "failed"]
  /\ hidden' = hidden \cup {q \in {r} : app[q] = "running"}
  /\ UNCHANGED <<desktop, bridge, asking, apps, taken>>

\* Mutant: the request is started whether or not it could be deleted.
StartUnclaimed(b, r) ==
  /\ r \in taken[b]
  /\ taken' = [taken EXCEPT ![b] = {}]
  /\ requests' = requests \ {r}
  /\ Cardinality(processes[b]) < MaxApps
  /\ app' = [app EXCEPT ![r] = "running"]
  /\ starts' = [starts EXCEPT ![r] = @ + 1]
  /\ processes' = [processes EXCEPT ![b] = @ \cup {r}]
  /\ result' = [result EXCEPT ![r] = "running"]
  /\ late' = IF bridge[b] = "open" THEN late ELSE late \cup {r}
  /\ UNCHANGED <<desktop, bridge, hidden, asking, stopped, listed>>

\* Who deletes the file has the request.
StartApp(b, r) ==
  /\ r \in taken[b] \cap requests
  /\ taken' = [taken EXCEPT ![b] = {}]
  /\ requests' = requests \ {r}
  /\ Cardinality(processes[b]) < MaxApps
  /\ app' = [app EXCEPT ![r] = "running"]
  /\ starts' = [starts EXCEPT ![r] = @ + 1]
  /\ processes' = [processes EXCEPT ![b] = @ \cup {r}]
  /\ result' = [result EXCEPT ![r] = "running"]
  /\ late' = IF bridge[b] = "open" THEN late ELSE late \cup {r}
  /\ UNCHANGED <<desktop, bridge, hidden, asking, stopped, listed>>

\* Too many applications, or one that cannot be started.
CannotStart(b, r) ==
  /\ r \in taken[b] \cap requests
  /\ taken' = [taken EXCEPT ![b] = {}]
  /\ requests' = requests \ {r}
  /\ result' = [result EXCEPT ![r] = "failed"]
  /\ UNCHANGED <<desktop, bridge, hidden, asking, apps, listed>>

SomebodyElses(b, r) ==
  /\ r \in taken[b] \ requests
  /\ taken' = [taken EXCEPT ![b] = {}]
  /\ UNCHANGED <<desktop, requests, result, bridge, hidden, asking, apps, listed>>

-----------------------------------------------------------------------------
(* Activities, the desktop and applications *)

\* The main thread of Android destroys and creates one activity at a time.
CreateBridge(b) ==
  /\ bridge[b] = "none" /\ \A c \in Bridges : bridge[c] # "closed"
  /\ bridge' = [bridge EXCEPT ![b] = "open"]
  /\ UNCHANGED <<desktop, requests, result, hidden, asking, apps, polling>>

\* onDestroy calls close(), and shuts the workers down when killLinux() has
\* returned; a poll that is under way then goes on.
CloseBridge(b) ==
  /\ bridge[b] = "open" /\ Idle(b) /\ \A c \in Bridges : bridge[c] # "closed"
  /\ bridge' = [bridge EXCEPT ![b] = "closed"]
  /\ CloseApps(b)
  /\ UNCHANGED <<desktop, hidden, asking, app, starts, late, polling>>

ShutWorkersDown(b) ==
  /\ bridge[b] = "closed"
  /\ bridge' = [bridge EXCEPT ![b] = "gone"]
  /\ UNCHANGED <<desktop, requests, result, hidden, asking, apps, polling>>

\* The manager and start-session.sh write and remove desktop-mode.active.
ToggleDesktop ==
  /\ desktop' = ~desktop
  /\ UNCHANGED <<requests, result, bridge, hidden, asking, apps, polling>>

AppEnds(r) ==
  /\ app[r] = "running"
  /\ \E end \in {"done", "exited"} : app' = [app EXCEPT ![r] = end]
  /\ UNCHANGED <<desktop, requests, result, bridge, hidden, asking,
                 processes, stopped, starts, late, polling>>

\* Android ends the app with every process in it; the files stay.
AndroidEnds ==
  /\ \E b \in Bridges : bridge[b] # "none"
  /\ bridge' = [b \in Bridges |-> "none"]
  /\ processes' = [b \in Bridges |-> {}]
  /\ listed' = [b \in Bridges |-> {}] /\ taken' = [b \in Bridges |-> {}]
  /\ app' = [r \in Launches |-> IF app[r] = "running" THEN "exited" ELSE app[r]]
  /\ launcher' = [r \in Launches |-> IF launcher[r] \in {"waiting", "running"} THEN "dead" ELSE launcher[r]]
  /\ UNCHANGED <<desktop, requests, result, hidden, withdrawn, stopped, starts, late>>

AppsNext ==
  \/ \E r \in Launches : Launch(r) \/ LookAtResult(r) \/ GiveUp(r) \/ LauncherDies(r) \/ AppEnds(r)
  \/ \E b \in Bridges :
       \/ CreateBridge(b) \/ CloseBridge(b) \/ ShutWorkersDown(b) \/ Poll(b)
       \/ \E r \in Launches : ReadRequest(b, r) \/ CannotRead(b, r) \/ StartApp(b, r)
                              \/ CannotStart(b, r) \/ SomebodyElses(b, r)
  \/ ToggleDesktop \/ AndroidEnds

-----------------------------------------------------------------------------
(* Properties *)

\* However bridges, launchers and deadlines race: a request starts one
\* application at most, and none once its launcher has taken it back; a
\* launcher that says "started" is right, and one that was refused leaves
\* nothing running but what was told to end, unless a second bridge wrote its
\* error over the result.
OneOutcome ==
  \A r \in Launches :
    /\ starts[r] <= 1
    /\ r \in withdrawn => starts[r] = 0
    /\ launcher[r] = "started" => starts[r] = 1
    /\ launcher[r] = "refused" /\ app[r] = "running" => r \in stopped \cup hidden

\* Applications end with the activity that started them: what runs is in the
\* books of an open bridge or was told to end.  Only what a closed bridge
\* starts before its workers are shut down can outlive it.
AppsOwned ==
  \A r \in Launches : app[r] = "running" =>
    \/ r \in stopped \cup late
    \/ \E b \in Bridges : r \in processes[b] /\ bridge[b] = "open"
=============================================================================
