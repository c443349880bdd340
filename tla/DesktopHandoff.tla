--------------------------- MODULE DesktopHandoff ---------------------------
(***************************************************************************)
(* Who has the headset: Steam, a Plasma desktop shown in it, or a Plasma   *)
(* desktop of a Remote Desktop login.  desktop-manager.py asks for a       *)
(* desktop by writing desktop-mode.active (MODE) and waits for             *)
(* desktop-mode.ready (READY); runtime-monitor.cpp looks every 200 ms,     *)
(* pauses the streaming audio services, ends the Steam client for a remote *)
(* desktop and writes READY.  When a remote desktop ends, the monitor      *)
(* returns 75 and QuestActivity starts the whole Linux session anew.       *)
(*                                                                         *)
(* The manager is one thread; every request is queued on its HTTP socket,  *)
(* also those whose sender has given up or was killed.  Each pass of its   *)
(* loop handles a request and polls.  The user has a password; ssh, menus, *)
(* window focus, boosts and Steam's own exits are left out.                *)
(***************************************************************************)
EXTENDS Integers, Sequences

CONSTANTS
  MaxInbox,   \* bound: requests waiting at the manager
  Asked       \* what its users ask of it


VARIABLES
  \* files of /run/stearlight/quest
  mode,       \* desktop-mode.active: "none" if there is no such file
  ready,      \* desktop-mode.ready exists
  paused,     \* local-vr-audio.paused exists
  \* Manager
  alive,      \* its processes that run
  known,      \* its processes that it has not stopped itself
  remote,     \* Manager.remote
  deadline,   \* remote_deadline: "none", "ahead" or "past"
  watched,    \* remote_pid is not 0: the Xorg of the login
  enabled,    \* settings['enabled']
  inbox,      \* requests on the HTTP socket
  pc,         \* where the manager is
  current,    \* the request it handles
  \* the Remote Desktop login
  rdpUser,    \* "out", "asking" PAM, or "in"
  session,    \* sesman's: "none", "asking" the manager, or "plasma"
  \* runtime-monitor
  kind,       \* desktopKind
  looked,     \* it has read MODE and not acted on it
  sawMode,    \* Session::desktopMode
  client,     \* the Steam client runs
  remoteMode, \* the headset renderer is released
  quiescing,  \* LocalVRAudio::quiescing
  services    \* pipewire or wireplumber runs

files   == <<mode, ready, paused>>
owned   == <<alive, known, remote, deadline, watched>>
login   == <<rdpUser, session>>
monitor == <<kind, looked, sawMode, client, remoteMode, quiescing, services>>
vars == <<files, owned, enabled, inbox, pc, current, login, monitor>>

Procs == {"desktop",     \* gamescope, the shared display
          "workspace",   \* Plasma in the headset
          "app",         \* applications opened from the menus
          "rdp", "sesman"}
Ops == {"start", "stop", "launch-app", "developer-on", "developer-off",
        "remote-reserve", "remote-start"}
ASSUME DesktopHandoffAssumption ==
  /\ MaxInbox \in Nat \ {0}
  /\ Asked \subseteq Ops \ {"remote-reserve", "remote-start"}

\* A request and whether its sender still waits for the answer.
Requests == [op : Ops, awaited : BOOLEAN]
NoRequest == [op |-> "stop", awaited |-> FALSE]

TypeOK ==
  /\ mode \in {"none", "desktop", "remote"}
  /\ ready \in BOOLEAN /\ paused \in BOOLEAN
  /\ alive \subseteq known /\ known \subseteq Procs
  /\ remote \in BOOLEAN /\ watched \in BOOLEAN
  /\ deadline \in {"none", "ahead", "past"}
  /\ enabled \in BOOLEAN
  /\ inbox \in Seq(Requests) /\ Len(inbox) <= MaxInbox
  /\ pc \in {"serve", "wait", "display", "poll"}
  /\ current \in Requests
  /\ rdpUser \in {"out", "asking", "in"}
  /\ session \in {"none", "asking", "plasma"}
  /\ kind \in {"none", "desktop", "remote"}
  /\ looked \in BOOLEAN /\ sawMode \in BOOLEAN /\ client \in BOOLEAN
  /\ remoteMode \in BOOLEAN /\ quiescing \in BOOLEAN /\ services \in BOOLEAN

\* The processes the manager starts with.
Fresh(on) == IF on THEN {"rdp", "sesman"} ELSE {}

Init ==
  /\ enabled \in BOOLEAN
  /\ mode = "none" /\ ready = FALSE /\ paused = FALSE
  /\ alive = Fresh(enabled) /\ known = alive
  /\ remote = FALSE /\ deadline = "none" /\ watched = FALSE
  /\ inbox = <<>> /\ pc = "serve" /\ current = NoRequest
  /\ rdpUser = "out" /\ session = "none"
  /\ kind = "none" /\ looked = FALSE /\ sawMode = FALSE
  /\ client = TRUE /\ remoteMode = FALSE
  /\ quiescing = FALSE /\ services = TRUE

-----------------------------------------------------------------------------
(* What the manager owns, as a record that its methods pass on.  "cut" says *)
(* that sesman was stopped on the way, and its login with it.               *)

Now == [alive |-> alive, known |-> known, remote |-> remote,
        deadline |-> deadline, watched |-> watched, mode |-> mode,
        cut |-> FALSE]

\* Manager.stop, for each of names.
Stopped(s, names) ==
  [s EXCEPT !.alive = @ \ names, !.known = @ \ names,
            !.cut = @ \/ "sesman" \in names \cap s.alive]

\* Manager.start, for each of names.
Started(s, names) == [s EXCEPT !.alive = @ \cup names, !.known = @ \cup names]

\* [Mutant of ListenersStopped] The login of sesman goes on.
ListenersStoppedLoginKept(s) == Stopped(s, {"rdp"})

\* A headset desktop needs the room of the listeners and of their login.
ListenersStopped(s) == Stopped(s, {"rdp", "sesman"})

\* [Mutant of Reconciled] The display does not matter.
ReconciledAnyway(s, on) ==
  IF on THEN Started(s, {"rdp", "sesman"}) ELSE ListenersStopped(s)

\* prepare_access gives RDP up while gamescope runs.
Reconciled(s, on) ==
  IF on
  THEN IF "desktop" \in s.alive THEN s ELSE Started(s, {"rdp", "sesman"})
  ELSE LET t == ListenersStopped(s)
       IN  IF t.remote THEN [t EXCEPT !.remote = FALSE, !.mode = "none"] ELSE t

\* call('stop') and call('remote-stop').
DesktopStopped(s, on) ==
  LET plasma  == Stopped(s, {"workspace"})
      display == IF "app" \in plasma.alive THEN plasma
                                           ELSE Stopped(plasma, {"desktop"})
      logins  == IF display.remote
                 THEN Stopped([display EXCEPT !.remote = FALSE], {"sesman"})
                 ELSE display
  IN  [Reconciled(logins, on) EXCEPT !.mode = "none"]

\* A desktop that ended by itself, or an application without a display.
Swept(s, on) ==
  LET displayClosed == "desktop" \in s.known \ s.alive
      plasma  == Stopped(s, {"workspace"})
      apps    == IF displayClosed THEN Stopped(plasma, {"app"}) ELSE plasma
      display == IF displayClosed \/ "app" \notin apps.alive
                 THEN Stopped(apps, {"desktop"}) ELSE apps
  IN  IF displayClosed \/ "workspace" \in s.known \ s.alive
      THEN [Reconciled(display, on) EXCEPT !.mode = "none"]
      ELSE s

\* [Mutant of Overdue] MODE is left behind.
OverdueKeepsMode(s) ==
  IF s.remote /\ s.deadline = "past"
  THEN [s EXCEPT !.remote = FALSE, !.deadline = "none"] ELSE s

\* A reservation that nobody used in time.
Overdue(s) ==
  IF s.remote /\ s.deadline = "past"
  THEN [s EXCEPT !.remote = FALSE, !.deadline = "none", !.mode = "none"] ELSE s

\* Manager.poll.
Polled(s, on) ==
  LET lost     == IF "workspace" \in s.alive /\ s.mode = "none"
                  THEN DesktopStopped(s, on) ELSE s
      closed   == Stopped(lost, {"app"} \ lost.alive)
      unused   == IF /\ "desktop" \in closed.alive /\ closed.mode = "none"
                     /\ closed.alive \cap {"workspace", "app"} = {}
                  THEN Stopped(closed, {"desktop"}) ELSE closed
      swept    == Swept(unused, on)
      overdue  == Overdue(swept)
  IN  IF overdue.remote /\ overdue.watched /\ session = "none"
      THEN DesktopStopped(overdue, on) ELSE overdue

\* Nobody waits any more for the answers to these operations.
Orphaned(queue, ops) ==
  [i \in 1 .. Len(queue) |->
     IF queue[i].op \in ops THEN [queue[i] EXCEPT !.awaited = FALSE]
                            ELSE queue[i]]
RemoteOps == {"remote-reserve", "remote-start"}

\* A step of the manager that leaves it with s, these requests, at this place.
Becomes(s, queue, request, place) ==
  \E own \in {s} :
    /\ alive' = own.alive /\ known' = own.known /\ mode' = own.mode
    /\ remote' = own.remote /\ deadline' = own.deadline
    /\ watched' = own.watched
    /\ current' = request /\ pc' = place
    /\ IF own.cut
       THEN /\ rdpUser' = "out" /\ session' = "none"
            /\ inbox' = Orphaned(queue, RemoteOps)
       ELSE UNCHANGED login /\ inbox' = queue
    /\ UNCHANGED <<ready, paused, monitor>>

-----------------------------------------------------------------------------
(* The manager's loop.                                                     *)

\* Nothing came for a second.
Idle ==
  /\ pc = "serve" /\ inbox = <<>>
  /\ pc' = "poll"
  /\ UNCHANGED <<files, owned, enabled, inbox, current, login, monitor>>

\* call() up to its first wait.
Serve ==
  /\ pc = "serve" /\ inbox # <<>>
  /\ LET r == Head(inbox)
         rest == Tail(inbox)
     IN \/ /\ r.op = "stop"
           /\ Becomes(DesktopStopped(Now, enabled), rest, NoRequest, "poll")
           /\ UNCHANGED enabled
        \/ /\ r.op \in {"developer-on", "developer-off"}
           /\ enabled' = (r.op = "developer-on")
           /\ Becomes(Reconciled(Now, enabled'), rest, NoRequest, "poll")
        \/ /\ r.op = "start" /\ remote
           /\ Becomes(Now, rest, NoRequest, "poll")
           /\ UNCHANGED enabled
        \/ /\ r.op = "start" /\ ~remote
           /\ Becomes([ListenersStopped(Now) EXCEPT !.mode = "desktop"],
                      rest, r, "wait")
           /\ UNCHANGED enabled
        \/ /\ r.op \in RemoteOps
           /\ Becomes([Now EXCEPT !.mode = "remote"], rest, r, "wait")
           /\ UNCHANGED enabled
        \/ /\ r.op = "launch-app"
           /\ Becomes(Started(Now, {"desktop"}), rest, r, "display")
           /\ UNCHANGED enabled

\* The sender of the current request, if it still waits, has its answer.
Answer(granted) ==
  /\ rdpUser' = IF ~current.awaited THEN rdpUser
                ELSE IF current.op = "remote-reserve"
                THEN IF granted THEN "in" ELSE "out"
                ELSE IF ~granted /\ rdpUser = "in" THEN "out" ELSE rdpUser
  /\ session' = IF ~current.awaited \/ current.op # "remote-start" THEN session
                ELSE IF granted THEN "plasma" ELSE "none"

\* READY is there: the manager goes on with the desktop it was asked for.
Granted ==
  /\ pc = "wait" /\ ready
  /\ IF current.op = "start"
     THEN Becomes(Started(Now, {"desktop"}), inbox, current, "display")
     ELSE LET s == Stopped(Now, {"workspace", "desktop"}) IN
          /\ alive' = s.alive /\ known' = s.known
          /\ remote' = TRUE
          /\ deadline' = IF current.op = "remote-reserve" THEN "ahead" ELSE "none"
          /\ watched' = (current.op = "remote-start" /\ session # "none")
          /\ Answer(TRUE)
          /\ pc' = "poll" /\ current' = NoRequest
          /\ UNCHANGED <<files, inbox, monitor>>
  /\ UNCHANGED enabled

\* READY has not come in fifteen seconds.
Refused ==
  /\ pc = "wait" /\ ~ready
  /\ mode' = "none"
  /\ Answer(FALSE)
  /\ pc' = "poll" /\ current' = NoRequest
  /\ UNCHANGED <<ready, paused, owned, enabled, inbox, monitor>>

\* ensure_display returns, or the display has not come; what the caller asked
\* for is then not started, and nothing is undone.
DisplayComes ==
  /\ pc = "display"
  /\ \/ /\ "desktop" \in alive
        /\ Becomes(Started(Now, {IF current.op = "start" THEN "workspace"
                                                         ELSE "app"}),
                   inbox, NoRequest, "poll")
     \/ Becomes(Now, inbox, NoRequest, "poll")
  /\ UNCHANGED enabled

\* poll(), and back to the requests.
Poll ==
  /\ pc = "poll"
  /\ Becomes(Polled(Now, enabled), inbox, NoRequest, "serve")
  /\ UNCHANGED enabled

Manager == Idle \/ Serve \/ Granted \/ Refused \/ DisplayComes \/ Poll

-----------------------------------------------------------------------------
(* Processes that end, and the users.                                      *)

\* Thirty seconds after a login reserved the desktop.
DeadlinePasses ==
  /\ deadline = "ahead"
  /\ deadline' = "past"
  /\ UNCHANGED <<files, alive, known, remote, watched, enabled, inbox, pc,
                 current, login, monitor>>

\* A process of the desktop ends by itself.
Dies(p) ==
  /\ p \in alive \ {"rdp", "sesman"}
  /\ alive' = alive \ {p}
  /\ UNCHANGED <<files, known, remote, deadline, watched, enabled, inbox, pc,
                 current, login, monitor>>

\* The menus, a shell, or Return to Gaming Mode on the Plasma desktop.
Ask(op) ==
  /\ Len(inbox) < MaxInbox
  /\ inbox' = Append(inbox, [op |-> op, awaited |-> FALSE])
  /\ UNCHANGED <<files, owned, enabled, pc, current, login, monitor>>

\* A password is accepted; desktop-pam.c asks the manager before it says so.
Login ==
  /\ {"rdp", "sesman"} \subseteq alive
  /\ rdpUser = "out"
  /\ Len(inbox) < MaxInbox
  /\ rdpUser' = "asking"
  /\ inbox' = Append(inbox, [op |-> "remote-reserve", awaited |-> TRUE])
  /\ UNCHANGED <<files, owned, enabled, pc, current, session, monitor>>

\* sesman starts Xorg, and desktop-remote.sh asks the manager.  A login that
\* finds the session of an earlier one joins it, and nobody asks.
SessionStarts ==
  /\ rdpUser = "in" /\ session = "none"
  /\ Len(inbox) < MaxInbox
  /\ session' = "asking"
  /\ inbox' = Append(inbox, [op |-> "remote-start", awaited |-> TRUE])
  /\ UNCHANGED <<files, owned, enabled, pc, current, rdpUser, monitor>>

\* The remote user is gone; sesman keeps the session for a few seconds.
Disconnect ==
  /\ rdpUser = "in"
  /\ rdpUser' = "out"
  /\ UNCHANGED <<files, owned, enabled, inbox, pc, current, session, monitor>>

\* The senders of requests stop waiting for the answer.
Forget(ops) ==
  /\ inbox' = Orphaned(inbox, ops)
  /\ current' = IF current.op \in ops THEN [current EXCEPT !.awaited = FALSE]
                                      ELSE current

\* desktop-pam.c gives up after twenty seconds.
LoginTimesOut ==
  /\ rdpUser = "asking"
  /\ rdpUser' = "out"
  /\ Forget({"remote-reserve"})
  /\ UNCHANGED <<files, owned, enabled, pc, session, monitor>>

\* The user logs out, desktop-remote.sh gives up, or sesman ends the session
\* of a user who has disconnected; Xorg ends with it.
SessionEnds ==
  /\ session # "none"
  /\ session' = "none"
  /\ rdpUser' = IF rdpUser = "in" THEN "out" ELSE rdpUser
  /\ Forget({"remote-start"})
  /\ UNCHANGED <<files, owned, enabled, pc, monitor>>

-----------------------------------------------------------------------------
(* runtime-monitor: one pass of its loop is Look, then Act.                *)

\* Exit 75: QuestActivity waits for PRoot to end every process and starts the
\* session again.
Restart ==
  /\ ~looked /\ remoteMode /\ mode # "remote"
  /\ mode' = "none" /\ ready' = FALSE /\ paused' = FALSE
  /\ alive' = Fresh(enabled) /\ known' = alive'
  /\ remote' = FALSE /\ deadline' = "none" /\ watched' = FALSE
  /\ inbox' = <<>> /\ pc' = "serve" /\ current' = NoRequest
  /\ rdpUser' = "out" /\ session' = "none"
  /\ kind' = "none" /\ sawMode' = FALSE /\ client' = TRUE /\ remoteMode' = FALSE
  /\ quiescing' = FALSE /\ services' = TRUE
  /\ UNCHANGED <<enabled, looked>>

\* desktopKind is read; a remote desktop releases the headset renderer.
Look ==
  /\ ~looked /\ ~(remoteMode /\ mode # "remote")
  /\ looked' = TRUE
  /\ kind' = mode
  /\ remoteMode' = (mode = "remote")
  /\ UNCHANGED <<files, owned, enabled, inbox, pc, current, login, sawMode,
                 client, quiescing, services>>

\* LocalVRAudio::poll: the services are told to end, and when they have,
\* paused says so; without a desktop they are started again.
AudioPoll(desktop) ==
  /\ quiescing' = (desktop \/ (quiescing /\ services))
  /\ paused' = IF quiescing' /\ services THEN paused ELSE desktop
  /\ services' = (services \/ ~quiescing')

\* Session::poll reads MODE again.
SessionPoll(audioReady) ==
  \/ /\ mode # "none"
     /\ sawMode' = TRUE
     /\ client' = (client /\ (sawMode \/ mode # "remote"))
     /\ ready' = (ready \/ audioReady)
  \/ /\ mode = "none" /\ sawMode
     /\ sawMode' = FALSE
     /\ ready' = FALSE
     /\ client' = TRUE
  \/ /\ mode = "none" /\ ~sawMode
     /\ UNCHANGED <<sawMode, ready, client>>

Act ==
  /\ looked
  /\ looked' = FALSE
  /\ AudioPoll(kind # "none")
  /\ SessionPoll(kind = "none" \/ paused')
  /\ UNCHANGED <<mode, owned, enabled, inbox, pc, current, login, kind,
                 remoteMode>>

\* The audio services end, because they were told to or by themselves.
ServicesEnd ==
  /\ services
  /\ services' = FALSE
  /\ UNCHANGED <<files, owned, enabled, inbox, pc, current, login, kind, looked,
                 sawMode, client, remoteMode, quiescing>>

Monitor == Restart \/ Look \/ Act

-----------------------------------------------------------------------------

Next ==
  \/ Manager \/ Monitor \/ ServicesEnd
  \/ \E p \in Procs : Dies(p)
  \/ \E op \in Asked : Ask(op)
  \/ DeadlinePasses \/ Login \/ SessionStarts \/ Disconnect \/ LoginTimesOut \/ SessionEnds

Spec == Init /\ [][Next]_vars

\* The manager and the monitor are never without a step, so each keeps coming
\* round its loop; deadlines pass, services that are told to end do so, sesman
\* starts what is logged in and ends what nobody is connected to.
FairSpec ==
  /\ Spec
  /\ []<>(pc = "serve") /\ []<>(pc = "poll")
  /\ []<>looked /\ []<>~looked
  /\ WF_vars(DeadlinePasses)
  /\ WF_vars(quiescing /\ ServicesEnd)
  /\ WF_vars(rdpUser = "out" /\ SessionEnds)
  /\ WF_vars(SessionStarts)

-----------------------------------------------------------------------------
(* Properties.                                                             *)

\* README: "Quest allows one active Plasma session".
OnePlasma == ~("workspace" \in alive /\ session = "plasma")

\* README: "its listeners pause while the headset desktop is open".  With its
\* display alive, no Remote Desktop login can begin.
ListenersPause ==
  {"workspace", "desktop"} \subseteq alive => alive \cap {"rdp", "sesman"} = {}

\* Nobody plays through services that the monitor says are paused.
PausedIsQuiet == paused => ~services

\* Two desktops never share the headset's resources: one Plasma session, and
\* no streaming service beside a desktop that was promised quiet.
DesktopsApart == OnePlasma /\ PausedIsQuiet

\* Steam's comment in desktop-manager: "RDP resumes in Gaming Mode".  It does
\* not, after a desktop that was refused: finding 2 of the README.
RdpResumes ==
  pc = "serve" /\ enabled /\ mode = "none" /\ alive \cap {"desktop", "app"} = {}
    => "rdp" \in alive

\* Steam runs in the headset again whenever no desktop is asked for.
SteamReturns == mode = "none" ~> mode # "none" \/ (client /\ ~remoteMode /\ services)

\* A remote desktop that neither its deadline nor its Xorg will end.
Forgotten == remote /\ deadline = "none" /\ ~watched

\* When nobody logs in any more, a remote desktop leaves the headset: by the
\* deadline of its reservation, by the end of its Xorg, or not at all if the
\* manager has forgotten it.
LoginsEnd == <>[](rdpUser = "out") => []<>(mode # "remote" \/ Forgotten)

\* Whoever has the headset gives it back.
HeadsetReturns == SteamReturns /\ LoginsEnd

\* The message of poll: "The remote desktop did not start; Steam is
\* restarting".  A deadline that ends the remote desktop finds none; it may,
\* when its user has reconnected: finding 3 of the README.
ExpiryFindsNoDesktop ==
  [][pc = "poll" /\ deadline = "past" /\ deadline' = "none" => session # "plasma"]_vars

\* README: "Disconnecting/logging out returns to Steam".  When nobody logs in
\* any more, no remote desktop keeps the headset.
LogoutReturnsToSteam == <>[](rdpUser = "out") => []<>(mode # "remote")

=============================================================================
