---------------------------- MODULE LinuxSession ----------------------------
(***************************************************************************)
(* The life of the Linux session in QuestActivity: installation, the lock   *)
(* that keeps two activities of one Android process apart, the start of     *)
(* PRoot, its restart after Remote Desktop, and the ways it is ended.  An   *)
(* activity has a main thread and one worker that runs startLinux();        *)
(* Android may create the next activity before it destroys the last.        *)
(* All processes of the app end when Android ends it; files stay.           *)
(***************************************************************************)
EXTENDS Naturals, FiniteSets

CONSTANTS Activities,
          Pids    \* process numbers; a bound of the model

NoPid == 0
NoOne == "no one"

ASSUME SessionAssumption ==
  /\ NoOne \notin Activities
  /\ Pids \subseteq Nat \ {NoPid} /\ IsFiniteSet(Pids)

VARIABLES
  root,     \* rootfs: none, without its marker, or ready
  install,  \* rootfs-install: none, partial or whole
  layer,    \* quest-overlay-version: whether it names this APK
  pidFile,  \* linux.pid
  process,  \* what each process is: the shell that writes its pid, PRoot, ended
  holder,   \* the activity with the lock on linux-session.lock
  main,     \* an activity: none, open, destroying, killed, gone
  worker,   \* where its startLinux() is
  linux,    \* the process it has started
  again     \* whether that process is a restart in the same runLinux()

files    == <<root, install, layer>>
activity == <<main, worker, linux, again>>
linuxVars == <<files, pidFile, process, holder, activity>>

Inside == {"begin", "install", "extract", "rename", "mark", "layer", "clean",
           "start", "fork", "wait", "return", "stop", "drain", "unlock"}
Living == {p \in Pids : process[p] \in {"shell", "proot"}}
Closing(a) == main[a] # "open"
Runs(a) == linux[a] \in Living
Step(a, from, to) == worker[a] = from /\ worker' = [worker EXCEPT ![a] = to]

SessionTypeOK ==
  /\ root \in {"none", "unmarked", "ready"}
  /\ install \in {"none", "partial", "whole"}
  /\ layer \in {"stale", "current"}
  /\ pidFile \in Pids \cup {NoPid}
  /\ process \in [Pids -> {"shell", "proot", "again", "ended"}]
  /\ holder \in Activities \cup {NoOne}
  /\ main \in [Activities -> {"none", "open", "destroying", "killed", "gone"}]
  /\ worker \in [Activities -> {"idle", "lock"} \cup Inside]
  /\ linux \in [Activities -> Pids \cup {NoPid}]
  /\ again \in [Activities -> BOOLEAN]

SessionInit ==
  /\ root = "none" /\ install = "none" /\ layer = "stale"
  /\ pidFile = NoPid
  /\ process = [p \in Pids |-> "ended"]
  /\ holder = NoOne
  /\ main = [a \in Activities |-> "none"]
  /\ worker = [a \in Activities |-> "idle"]
  /\ linux = [a \in Activities |-> NoPid]
  /\ again = [a \in Activities |-> FALSE]

-----------------------------------------------------------------------------
(* The main thread and Android *)

Create(a) ==
  /\ main[a] \in {"none", "gone"} /\ worker[a] = "idle"
  /\ \A b \in Activities : main[b] \notin {"destroying", "killed"}
  /\ main' = [main EXCEPT ![a] = "open"]
  /\ UNCHANGED <<files, pidFile, process, holder, worker, linux, again>>

\* onCreate, onNewIntent and onResume ask for a session.
RequestLinux(a) ==
  /\ main[a] = "open" /\ ~Runs(a)
  /\ Step(a, "idle", "lock")
  /\ UNCHANGED <<files, pidFile, process, holder, main, linux, again>>

\* onDestroy begins: closing is set.
Destroy(a) ==
  /\ main[a] = "open"
  /\ \A b \in Activities : main[b] \notin {"destroying", "killed"}
  /\ main' = [main EXCEPT ![a] = "destroying"]
  /\ UNCHANGED <<files, pidFile, process, holder, worker, linux, again>>

\* killLinux() waits a second for a pid in the file, and the shell writes it
\* by then; what it kills is the process of that number, whichever it is.
KillLinux(a) ==
  /\ Runs(a) => pidFile # NoPid
  /\ process' = IF Runs(a) /\ pidFile \in Living
                THEN [process EXCEPT ![pidFile] = "ended"] ELSE process

KillFromMain(a) ==
  /\ main[a] = "destroying"
  /\ KillLinux(a)
  /\ main' = [main EXCEPT ![a] = "killed"]
  /\ UNCHANGED <<files, pidFile, holder, worker, linux, again>>

\* workers.shutdownNow() interrupts the worker, wherever it is.
Shutdown(a) ==
  /\ main[a] = "killed"
  /\ main' = [main EXCEPT ![a] = "gone"]
  /\ UNCHANGED <<files, pidFile, process, holder, worker, linux, again>>

Reset ==
  /\ process' = [p \in Pids |-> "ended"]
  /\ holder' = NoOne
  /\ main' = [a \in Activities |-> "none"]
  /\ worker' = [a \in Activities |-> "idle"]
  /\ linux' = [a \in Activities |-> NoPid]
  /\ again' = [a \in Activities |-> FALSE]

\* Android ends the app, between any two steps, perhaps to update it.
AndroidKills ==
  /\ \E a \in Activities : main[a] # "none"
  /\ Reset
  /\ layer' \in {layer, "stale"}
  /\ UNCHANGED <<root, install, pidFile>>

-----------------------------------------------------------------------------
(* startLinux() *)

TryLock(a) ==
  /\ ~Closing(a) /\ holder = NoOne
  /\ Step(a, "lock", "begin")
  /\ holder' = a
  /\ UNCHANGED <<files, pidFile, process, main, linux, again>>

GiveUpLock(a) ==
  /\ Closing(a)
  /\ Step(a, "lock", "idle")
  /\ UNCHANGED <<files, pidFile, process, holder, main, linux, again>>

Begin(a) ==
  /\ Step(a, "begin", IF Closing(a) THEN "stop" ELSE IF root = "ready" THEN "layer" ELSE "install")
  /\ UNCHANGED <<files, pidFile, process, holder, main, linux, again>>

RemoveIncomplete(a) ==
  /\ Step(a, "install", "extract")
  /\ install' = "none"
  /\ UNCHANGED <<root, layer, pidFile, process, holder, main, linux, again>>

\* It takes minutes: Android may kill it half way (the first step).
Extract(a) ==
  /\ IF install = "none" THEN Step(a, "extract", "extract") /\ install' = "partial"
     ELSE Step(a, "extract", "rename") /\ install' = "whole"
  /\ UNCHANGED <<root, layer, pidFile, process, holder, main, linux, again>>

\* A root without marker is not replaced.
RenameRoot(a) ==
  /\ IF root # "none" THEN Step(a, "rename", "stop") /\ UNCHANGED <<root, install>>
     ELSE Step(a, "rename", "mark") /\ root' = "unmarked" /\ install' = "none"
  /\ UNCHANGED <<layer, pidFile, process, holder, main, linux, again>>

MarkReady(a) ==
  /\ Step(a, "mark", "layer")
  /\ root' = "ready"
  /\ UNCHANGED <<install, layer, pidFile, process, holder, main, linux, again>>

ExtractLayer(a) ==
  /\ Step(a, "layer", "clean")
  /\ layer' = "current"
  /\ UNCHANGED <<root, install, pidFile, process, holder, main, linux, again>>

\* Mutant: the pid file of an earlier session is left.
CleanKeepsPid(a) ==
  /\ Step(a, "clean", IF Closing(a) THEN "stop" ELSE "start")
  /\ again' = [again EXCEPT ![a] = FALSE]
  /\ UNCHANGED <<files, pidFile, process, holder, main, linux>>

\* tmp and shm are emptied, and the pid of an earlier session goes.
Clean(a) ==
  /\ IF Closing(a) THEN Step(a, "clean", "stop") /\ UNCHANGED <<pidFile, again>>
     ELSE /\ Step(a, "clean", "start")
          /\ pidFile' = NoPid
          /\ again' = [again EXCEPT ![a] = FALSE]
  /\ UNCHANGED <<files, process, holder, main, linux>>

\* The audio server is started; closing is read before and after.
StartAudio(a) ==
  /\ Step(a, "start", IF Closing(a) THEN "stop" ELSE "fork")
  /\ UNCHANGED <<files, pidFile, process, holder, main, linux, again>>

\* A number is not used again while something here still names it; which of
\* the others the kernel takes does not matter.
Unused == Pids \ (Living \cup {pidFile} \cup {linux[a] : a \in Activities})

Fork(a) ==
  /\ Step(a, "fork", "wait")
  /\ Unused # {}
  /\ LET p == CHOOSE least \in Unused : \A q \in Unused : least <= q IN
       /\ process' = [process EXCEPT ![p] = "shell"]
       /\ linux' = [linux EXCEPT ![a] = p]
  /\ UNCHANGED <<files, pidFile, holder, main, again>>

\* waitFor() returns; 75 asks for another session.
Ended(a) ==
  /\ ~Runs(a)
  /\ Step(a, "wait", IF ~Closing(a) /\ process[linux[a]] = "again" THEN "return" ELSE "stop")
  /\ UNCHANGED <<files, pidFile, process, holder, main, linux, again>>

\* The pid file keeps the number of the session that has ended.
ReturnToSteam(a) ==
  /\ Step(a, "return", IF Closing(a) THEN "stop" ELSE "start")
  /\ again' = [again EXCEPT ![a] = TRUE]
  /\ UNCHANGED <<files, pidFile, process, holder, main, linux>>

\* An interrupt ends what waits or reads; files that cannot be written, a
\* payload that does not have its checksum, an audio server or a shell that
\* does not start end a step as well.
Breaks(a) ==
  /\ \/ worker[a] \in {"extract", "wait"} /\ main[a] = "gone"
     \/ worker[a] \in {"install", "extract", "rename", "mark", "layer", "clean",
                       "start", "fork", "return"}
  /\ worker' = [worker EXCEPT ![a] = "stop"]
  /\ UNCHANGED <<files, pidFile, process, holder, main, linux, again>>

\* stopLinux() of the worker.
StopLinux(a) ==
  /\ KillLinux(a)
  /\ Step(a, "stop", "drain")
  /\ UNCHANGED <<files, pidFile, holder, main, linux, again>>

Drain(a) ==
  /\ ~Runs(a)
  /\ Step(a, "drain", "unlock")
  /\ linux' = [linux EXCEPT ![a] = NoPid]
  /\ UNCHANGED <<files, pidFile, process, holder, main, again>>

Unlock(a) ==
  /\ Step(a, "unlock", "idle")
  /\ holder' = NoOne
  /\ UNCHANGED <<files, pidFile, process, main, linux, again>>

-----------------------------------------------------------------------------
(* The session's first process: a shell that writes its pid and becomes     *)
(* PRoot, which ends with all its tracees.                                  *)

WritePid(p) ==
  /\ process[p] = "shell"
  /\ pidFile' = p
  /\ process' = [process EXCEPT ![p] = "proot"]
  /\ UNCHANGED <<files, holder, activity>>

Ends(p) ==
  /\ p \in Living
  /\ \E end \in {"ended"} \cup (IF process[p] = "proot" THEN {"again"} ELSE {}) :
       process' = [process EXCEPT ![p] = end]
  /\ UNCHANGED <<files, pidFile, holder, activity>>

-----------------------------------------------------------------------------

Worker(a) ==
  \/ TryLock(a) \/ GiveUpLock(a) \/ Begin(a)
  \/ RemoveIncomplete(a) \/ Extract(a) \/ RenameRoot(a) \/ MarkReady(a)
  \/ ExtractLayer(a) \/ Clean(a) \/ StartAudio(a) \/ Fork(a)
  \/ Ended(a) \/ ReturnToSteam(a) \/ StopLinux(a) \/ Drain(a) \/ Unlock(a)

Destroying(a) == KillFromMain(a) \/ Shutdown(a)

SessionNext ==
  \/ \E a \in Activities : Create(a) \/ RequestLinux(a) \/ Destroy(a)
                           \/ Destroying(a) \/ Worker(a) \/ Breaks(a)
  \/ \E p \in Pids : WritePid(p) \/ Ends(p)
  \/ AndroidKills

\* The threads of an activity go on once they have begun, an interrupt is
\* noticed, and the shell writes its pid.  Users and Linux need do nothing.
SessionFairness ==
  /\ \A a \in Activities :
       /\ WF_linuxVars(Destroying(a))
       /\ WF_linuxVars(Worker(a))
       /\ WF_linuxVars(Breaks(a) /\ main[a] = "gone")
  /\ \A p \in Pids : WF_linuxVars(WritePid(p))

-----------------------------------------------------------------------------
(* Properties *)

\* "Keep the old session's shutdown ahead of the next session's temporary-file
\* cleanup": one session lives at a time, the worker that has the lock is the
\* only one at work, nothing empties the files of a living session, and it
\* runs on a root that was installed whole.
SessionsApart ==
  /\ Cardinality(Living) <= 1
  /\ \A a \in Activities : worker[a] \in Inside => holder = a
  /\ \A a \in Activities : worker[a] \in {"clean", "start", "fork", "return"} => Living = {}
  /\ Living # {} => root = "ready" /\ layer = "current"

\* A session that its activity could not kill: it is a restart, and both looks
\* at linux.pid found the number of the session before it.
Outlives(a) == worker[a] = "drain" /\ again[a] /\ Runs(a) /\ pidFile \in Pids

\* An activity that is closed gives the session up: its PRoot is ended and
\* another activity can have the lock, whatever it was doing.
ActivityLetsGo ==
  \A a \in Activities : Closing(a) /\ holder = a ~> holder # a \/ Outlives(a)

\* Whoever waits for the lock gets it, closes, or waits for an activity that
\* is open or could not end its session.
NextSessionComes ==
  \A a \in Activities :
    worker[a] = "lock" ~>
      \/ worker[a] # "lock"
      \/ \E b \in Activities \ {a} : holder = b /\ (~Closing(b) \/ Outlives(b))

SessionFollows == ActivityLetsGo /\ NextSessionComes
=============================================================================
