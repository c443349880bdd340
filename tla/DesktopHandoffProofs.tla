------------------------ MODULE DesktopHandoffProofs ------------------------
(***************************************************************************)
(* Type correctness and the exclusions of DesktopHandoff, for any number   *)
(* of waiting requests and any choice of what the users ask.               *)
(*                                                                         *)
(* What the manager does to its processes goes through a chain of          *)
(* operators on a record.  The lemmas on them say two things: the result   *)
(* is a record of the same kind, and it is a step (Steps) that starts no   *)
(* workspace and cannot lose sesman without saying so in "cut".            *)
(***************************************************************************)
EXTENDS DesktopHandoff, TLAPS

Records ==
  [alive : SUBSET Procs, known : SUBSET Procs, remote : BOOLEAN,
   deadline : {"none", "ahead", "past"}, watched : BOOLEAN,
   mode : {"none", "desktop", "remote"}, cut : BOOLEAN]

\* A record the manager may be in: what runs is known.
Owned == {s \in Records : s.alive \subseteq s.known}

\* From s to t no workspace starts, and the end of sesman is told.
Steps(s, t) ==
  /\ t \in Owned
  /\ "workspace" \in t.alive => "workspace" \in s.alive
  /\ s.cut => t.cut
  /\ "sesman" \in s.alive /\ ~t.cut => "sesman" \in t.alive

-----------------------------------------------------------------------------
\* The operators.

LEMMA StepsCompose ==
  ASSUME NEW s, NEW t, NEW u, Steps(s, t), Steps(t, u)
  PROVE  Steps(s, u)
BY DEF Steps

LEMMA StoppedSteps ==
  ASSUME NEW s \in Owned, NEW names \in SUBSET Procs
  PROVE  /\ Steps(s, Stopped(s, names))
         /\ Stopped(s, names).alive = s.alive \ names
         /\ Stopped(s, names).remote = s.remote
BY DEF Steps, Stopped, Owned, Records

LEMMA StartedSteps ==
  ASSUME NEW s \in Owned, NEW names \in SUBSET Procs
  PROVE  /\ Started(s, names) \in Owned
         /\ Started(s, names).alive = s.alive \cup names
         /\ Started(s, names).cut = s.cut
         /\ "workspace" \notin names => Steps(s, Started(s, names))
BY DEF Steps, Started, Owned, Records

LEMMA ModeSteps ==
  ASSUME NEW s \in Owned, NEW m \in {"none", "desktop", "remote"}
  PROVE  /\ Steps(s, [s EXCEPT !.mode = m])
         /\ [s EXCEPT !.mode = m].alive = s.alive
BY DEF Steps, Owned, Records

LEMMA RemoteSteps ==
  ASSUME NEW s \in Owned
  PROVE  /\ Steps(s, [s EXCEPT !.remote = FALSE])
         /\ Steps(s, [s EXCEPT !.remote = FALSE, !.mode = "none"])
         /\ Steps(s, [s EXCEPT !.remote = FALSE, !.deadline = "none", !.mode = "none"])
         /\ Steps(s, s)
BY DEF Steps, Owned, Records

LEMMA ReconciledSteps ==
  ASSUME NEW s \in Owned, NEW on
  PROVE  Steps(s, Reconciled(s, on))
<1> DEFINE t == ListenersStopped(s)
<1>1. {"rdp", "sesman"} \in SUBSET Procs /\ "workspace" \notin {"rdp", "sesman"}
  BY DEF Procs
<1>2. Steps(s, t) /\ t \in Owned
  BY <1>1, StoppedSteps DEF ListenersStopped, Steps
<1>3. Steps(s, s)
  BY RemoteSteps
<1>4. Steps(s, Started(s, {"rdp", "sesman"}))
  BY <1>1, StartedSteps
<1>5. Steps(t, [t EXCEPT !.remote = FALSE, !.mode = "none"])
  BY <1>2, RemoteSteps
<1>6. Steps(s, [t EXCEPT !.remote = FALSE, !.mode = "none"])
  BY <1>2, <1>5, StepsCompose
<1> QED
  BY <1>2, <1>3, <1>4, <1>6 DEF Reconciled

LEMMA DesktopStoppedSteps ==
  ASSUME NEW s \in Owned, NEW on
  PROVE  Steps(s, DesktopStopped(s, on))
<1> DEFINE plasma  == Stopped(s, {"workspace"})
           display == IF "app" \in plasma.alive THEN plasma
                                                ELSE Stopped(plasma, {"desktop"})
           away    == [display EXCEPT !.remote = FALSE]
           logins  == IF display.remote THEN Stopped(away, {"sesman"}) ELSE display
           last    == Reconciled(logins, on)
<1>0. /\ {"workspace"} \in SUBSET Procs
      /\ {"desktop"} \in SUBSET Procs
      /\ {"sesman"} \in SUBSET Procs
  BY DEF Procs
<1>1. Steps(s, plasma) /\ plasma \in Owned
  BY <1>0, StoppedSteps DEF Steps
<1>2. Steps(s, display) /\ display \in Owned
  <2>1. Steps(plasma, Stopped(plasma, {"desktop"}))
    BY <1>0, <1>1, StoppedSteps
  <2>2. Steps(s, Stopped(plasma, {"desktop"}))
    BY <1>1, <2>1, StepsCompose
  <2> QED BY <1>1, <2>2 DEF Steps
<1>3. Steps(s, logins) /\ logins \in Owned
  <2> HIDE DEF display
  <2>1. Steps(display, away) /\ away \in Owned
    BY <1>2, RemoteSteps DEF Steps
  <2>2. Steps(away, Stopped(away, {"sesman"}))
    BY <1>0, <2>1, StoppedSteps
  <2>3. Steps(s, Stopped(away, {"sesman"}))
    BY <1>2, <2>1, <2>2, StepsCompose
  <2> QED BY <1>2, <2>3 DEF Steps
<1>4. Steps(s, last) /\ last \in Owned
  <2> HIDE DEF logins
  <2>1. Steps(logins, last)
    BY <1>3, ReconciledSteps
  <2> QED BY <1>3, <2>1, StepsCompose DEF Steps
<1>5. Steps(s, [last EXCEPT !.mode = "none"])
  <2> HIDE DEF last
  <2>1. Steps(last, [last EXCEPT !.mode = "none"])
    BY <1>4, ModeSteps
  <2> QED BY <1>4, <2>1, StepsCompose
<1> QED BY <1>5 DEF DesktopStopped

LEMMA SweptSteps ==
  ASSUME NEW s \in Owned, NEW on
  PROVE  Steps(s, Swept(s, on))
<1> DEFINE closed  == "desktop" \in s.known \ s.alive
           plasma  == Stopped(s, {"workspace"})
           apps    == IF closed THEN Stopped(plasma, {"app"}) ELSE plasma
           display == IF closed \/ "app" \notin apps.alive
                      THEN Stopped(apps, {"desktop"}) ELSE apps
           last    == Reconciled(display, on)
<1>0. /\ {"workspace"} \in SUBSET Procs
      /\ {"desktop"} \in SUBSET Procs
      /\ {"app"} \in SUBSET Procs
  BY DEF Procs
<1>1. Steps(s, plasma) /\ plasma \in Owned
  BY <1>0, StoppedSteps DEF Steps
<1>2. Steps(s, apps) /\ apps \in Owned
  <2> HIDE DEF plasma
  <2>1. Steps(plasma, Stopped(plasma, {"app"}))
    BY <1>0, <1>1, StoppedSteps
  <2>2. Steps(s, Stopped(plasma, {"app"}))
    BY <1>1, <2>1, StepsCompose
  <2> QED BY <1>1, <2>2 DEF Steps
<1>3. Steps(s, display) /\ display \in Owned
  <2> HIDE DEF apps
  <2>1. Steps(apps, Stopped(apps, {"desktop"}))
    BY <1>0, <1>2, StoppedSteps
  <2>2. Steps(s, Stopped(apps, {"desktop"}))
    BY <1>2, <2>1, StepsCompose
  <2> QED BY <1>2, <2>2 DEF Steps
<1>4. Steps(s, last) /\ last \in Owned
  <2> HIDE DEF display
  <2>1. Steps(display, last)
    BY <1>3, ReconciledSteps
  <2> QED BY <1>3, <2>1, StepsCompose DEF Steps
<1>5. Steps(s, [last EXCEPT !.mode = "none"])
  <2> HIDE DEF last
  <2>1. Steps(last, [last EXCEPT !.mode = "none"])
    BY <1>4, ModeSteps
  <2> QED BY <1>4, <2>1, StepsCompose
<1>6. Steps(s, s)
  BY RemoteSteps
<1> QED BY <1>5, <1>6 DEF Swept

LEMMA OverdueSteps ==
  ASSUME NEW s \in Owned
  PROVE  Steps(s, Overdue(s))
BY RemoteSteps DEF Overdue

LEMMA PolledSteps ==
  ASSUME NEW s \in Owned, NEW on
  PROVE  Steps(s, Polled(s, on))
<1> DEFINE lost    == IF "workspace" \in s.alive /\ s.mode = "none"
                      THEN DesktopStopped(s, on) ELSE s
           closed  == Stopped(lost, {"app"} \ lost.alive)
           unused  == IF /\ "desktop" \in closed.alive /\ closed.mode = "none"
                         /\ closed.alive \cap {"workspace", "app"} = {}
                      THEN Stopped(closed, {"desktop"}) ELSE closed
           swept   == Swept(unused, on)
           overdue == Overdue(swept)
<1>0. {"desktop"} \in SUBSET Procs /\ {"app"} \in SUBSET Procs
  BY DEF Procs
<1>1. Steps(s, lost) /\ lost \in Owned
  BY DesktopStoppedSteps, RemoteSteps DEF Steps
<1>2. Steps(s, closed) /\ closed \in Owned
  <2> HIDE DEF lost
  <2>1. {"app"} \ lost.alive \in SUBSET Procs
    BY <1>0
  <2>2. Steps(lost, closed)
    BY <1>1, <2>1, StoppedSteps
  <2> QED BY <1>1, <2>2, StepsCompose DEF Steps
<1>3. Steps(s, unused) /\ unused \in Owned
  <2> HIDE DEF closed
  <2>1. Steps(closed, Stopped(closed, {"desktop"}))
    BY <1>0, <1>2, StoppedSteps
  <2>2. Steps(s, Stopped(closed, {"desktop"}))
    BY <1>2, <2>1, StepsCompose
  <2> QED BY <1>2, <2>2 DEF Steps
<1>4. Steps(s, swept) /\ swept \in Owned
  <2> HIDE DEF unused
  <2>1. Steps(unused, swept)
    BY <1>3, SweptSteps
  <2> QED BY <1>3, <2>1, StepsCompose DEF Steps
<1>5. Steps(s, overdue) /\ overdue \in Owned
  <2> HIDE DEF swept
  <2>1. Steps(swept, overdue)
    BY <1>4, OverdueSteps
  <2> QED BY <1>4, <2>1, StepsCompose DEF Steps
<1>6. Steps(s, DesktopStopped(overdue, on))
  <2> HIDE DEF overdue
  <2>1. Steps(overdue, DesktopStopped(overdue, on))
    BY <1>5, DesktopStoppedSteps
  <2> QED BY <1>5, <2>1, StepsCompose
<1> QED BY <1>5, <1>6 DEF Polled

-----------------------------------------------------------------------------
\* The type invariant.

LEMMA NowOwned ==
  ASSUME TypeOK
  PROVE  Now \in Owned /\ Now.alive = alive /\ Now.cut = FALSE /\ Now.remote = remote
BY DEF Now, Owned, Records, TypeOK

LEMMA OrphanedKeeps ==
  ASSUME NEW queue \in Seq(Requests), NEW ops
  PROVE  /\ Orphaned(queue, ops) \in Seq(Requests)
         /\ Len(Orphaned(queue, ops)) = Len(queue)
         /\ \A i \in DOMAIN queue :
              /\ Orphaned(queue, ops)[i].op = queue[i].op
              /\ Orphaned(queue, ops)[i].awaited
                   => queue[i].awaited /\ queue[i].op \notin ops
<1>1. \A i \in 1 .. Len(queue) : queue[i] \in Requests
  OBVIOUS
<1>2. \A r \in Requests : [r EXCEPT !.awaited = FALSE] \in Requests
  BY DEF Requests
<1>3. Orphaned(queue, ops) \in [1 .. Len(queue) -> Requests]
  BY <1>1, <1>2 DEF Orphaned
<1>4. Orphaned(queue, ops) \in Seq(Requests) /\ Len(Orphaned(queue, ops)) = Len(queue)
  BY <1>3, Len(queue) \in Nat
<1> QED BY <1>1, <1>4 DEF Orphaned, Requests

\* What a step of the manager leaves behind, when it moves to s.
LEMMA BecomesKeeps ==
  ASSUME TypeOK, NEW s \in Owned, NEW queue \in Seq(Requests),
         Len(queue) <= MaxInbox, NEW request \in Requests,
         NEW place \in {"serve", "wait", "display", "poll"},
         enabled' \in BOOLEAN, Becomes(s, queue, request, place)
  PROVE  TypeOK'
<1>1. /\ alive' \in SUBSET Procs /\ known' \in SUBSET Procs /\ alive' \subseteq known'
      /\ remote' \in BOOLEAN /\ deadline' \in {"none", "ahead", "past"}
      /\ watched' \in BOOLEAN /\ mode' \in {"none", "desktop", "remote"}
  BY DEF Becomes, Owned, Records
<1>2. current' \in Requests /\ pc' \in {"serve", "wait", "display", "poll"}
  BY DEF Becomes
<1>3. inbox' \in Seq(Requests) /\ Len(inbox') <= MaxInbox
  BY OrphanedKeeps DEF Becomes
<1>4. rdpUser' \in {"out", "asking", "in"} /\ session' \in {"none", "asking", "plasma"}
  BY DEF Becomes, TypeOK, login
<1>5. UNCHANGED <<ready, paused, monitor>>
  BY DEF Becomes
<1> QED BY <1>1, <1>2, <1>3, <1>4, <1>5 DEF TypeOK, monitor

LEMMA InboxHead ==
  ASSUME TypeOK, inbox # <<>>
  PROVE  /\ Head(inbox) \in Requests /\ Head(inbox) = inbox[1]
         /\ Tail(inbox) \in Seq(Requests) /\ Len(Tail(inbox)) <= MaxInbox
         /\ \A i \in DOMAIN Tail(inbox) : i + 1 \in DOMAIN inbox /\ Tail(inbox)[i] = inbox[i + 1]
         /\ 1 \in DOMAIN inbox
BY DesktopHandoffAssumption DEF TypeOK

LEMMA NoRequestType == NoRequest \in Requests /\ ~NoRequest.awaited
BY DEF NoRequest, Requests, Ops

\* Serve takes the manager to a record of its own by one of these steps.
LEMMA ServeBecomes ==
  ASSUME TypeOK, Serve
  PROVE  \E s \in Owned, request \in {Head(inbox), NoRequest},
            place \in {"wait", "display", "poll"} :
           /\ Becomes(s, Tail(inbox), request, place)
           /\ Steps(Now, s)
           /\ request.op = "start" => "sesman" \notin s.alive
           /\ s.cut => ~request.awaited \/ request.op \notin RemoteOps
           /\ enabled' \in BOOLEAN
<1> DEFINE r == Head(inbox)
           Goal(s, request, place) ==
             /\ s \in Owned /\ request \in {r, NoRequest}
             /\ place \in {"wait", "display", "poll"}
             /\ Becomes(s, Tail(inbox), request, place)
             /\ Steps(Now, s)
             /\ request.op = "start" => "sesman" \notin s.alive
             /\ s.cut => ~request.awaited \/ request.op \notin RemoteOps
<1>0. /\ Now \in Owned /\ Now.cut = FALSE /\ enabled \in BOOLEAN
      /\ NoRequest.op = "stop" /\ ~NoRequest.awaited
  BY NowOwned, NoRequestType DEF NoRequest, TypeOK
<1>1. CASE r.op = "stop" /\ Becomes(DesktopStopped(Now, enabled), Tail(inbox), NoRequest, "poll") /\ UNCHANGED enabled
  <2>1. Steps(Now, DesktopStopped(Now, enabled))
    BY <1>0, DesktopStoppedSteps
  <2>2. Goal(DesktopStopped(Now, enabled), NoRequest, "poll")
    BY <1>0, <1>1, <2>1 DEF Steps
  <2> QED BY <1>0, <1>1, <2>2
<1>2. CASE r.op \in {"developer-on", "developer-off"} /\ enabled' = (r.op = "developer-on")
           /\ Becomes(Reconciled(Now, enabled'), Tail(inbox), NoRequest, "poll")
  <2>1. Steps(Now, Reconciled(Now, enabled'))
    BY <1>0, ReconciledSteps
  <2>2. Goal(Reconciled(Now, enabled'), NoRequest, "poll")
    BY <1>0, <1>2, <2>1 DEF Steps
  <2>3. enabled' \in BOOLEAN
    BY <1>2
  <2> QED BY <2>2, <2>3
<1>3. CASE r.op = "start" /\ Becomes(Now, Tail(inbox), NoRequest, "poll") /\ UNCHANGED enabled
  <2>1. Steps(Now, Now)
    BY <1>0, RemoteSteps
  <2>2. Goal(Now, NoRequest, "poll")
    BY <1>0, <1>3, <2>1 DEF Steps
  <2> QED BY <1>0, <1>3, <2>2
<1>4. CASE /\ r.op = "start"
           /\ Becomes([ListenersStopped(Now) EXCEPT !.mode = "desktop"], Tail(inbox), r, "wait")
           /\ UNCHANGED enabled
  <2> DEFINE t == ListenersStopped(Now)
             u == [t EXCEPT !.mode = "desktop"]
  <2>1. {"rdp", "sesman"} \in SUBSET Procs
    BY DEF Procs
  <2>2. Steps(Now, t) /\ t \in Owned /\ "sesman" \notin t.alive
    BY <1>0, <2>1, StoppedSteps DEF ListenersStopped, Steps
  <2>3. Steps(t, u) /\ u.alive = t.alive
    BY <2>2, ModeSteps
  <2>4. Steps(Now, u)
    BY <2>2, <2>3, StepsCompose
  <2>5. Goal(u, r, "wait")
    BY <1>4, <2>2, <2>3, <2>4 DEF Steps, RemoteOps
  <2> QED BY <1>0, <1>4, <2>5
<1>5. CASE r.op \in RemoteOps /\ Becomes([Now EXCEPT !.mode = "remote"], Tail(inbox), r, "wait") /\ UNCHANGED enabled
  <2> DEFINE u == [Now EXCEPT !.mode = "remote"]
  <2>1. Steps(Now, u)
    BY <1>0, ModeSteps
  <2>2. u.cut = FALSE
    BY <1>0 DEF Owned, Records
  <2>3. Goal(u, r, "wait")
    BY <1>5, <2>1, <2>2 DEF Steps, RemoteOps
  <2> QED BY <1>0, <1>5, <2>3
<1>6. CASE r.op = "launch-app" /\ Becomes(Started(Now, {"desktop"}), Tail(inbox), r, "display") /\ UNCHANGED enabled
  <2>1. {"desktop"} \in SUBSET Procs /\ "workspace" \notin {"desktop"}
    BY DEF Procs
  <2>2. Steps(Now, Started(Now, {"desktop"}))
    BY <1>0, <2>1, StartedSteps
  <2>3. Goal(Started(Now, {"desktop"}), r, "display")
    BY <1>6, <2>2 DEF Steps, RemoteOps
  <2> QED BY <1>0, <1>6, <2>3
<1> QED BY <1>1, <1>2, <1>3, <1>4, <1>5, <1>6 DEF Serve

\* DisplayComes starts the workspace for nobody but call('start').
LEMMA DisplayBecomes ==
  ASSUME TypeOK, DisplayComes
  PROVE  \E s \in Owned :
           /\ Becomes(s, inbox, NoRequest, "poll")
           /\ s.cut = FALSE
           /\ "sesman" \in alive => "sesman" \in s.alive
           /\ current.op # "start" /\ "workspace" \in s.alive => "workspace" \in alive
<1>0. Now \in Owned /\ Now.cut = FALSE /\ Now.alive = alive
  BY NowOwned
<1>1. /\ {"workspace"} \in SUBSET Procs /\ {"app"} \in SUBSET Procs
      /\ "workspace" \notin {"app"}
  BY DEF Procs
<1> DEFINE p == {IF current.op = "start" THEN "workspace" ELSE "app"}
<1>2. p \in SUBSET Procs /\ (current.op # "start" => "workspace" \notin p)
  BY <1>1
<1>3. /\ Started(Now, p) \in Owned /\ Started(Now, p).alive = alive \cup p
      /\ Started(Now, p).cut = FALSE
  BY <1>0, <1>2, StartedSteps
<1> HIDE DEF p
<1> QED BY <1>0, <1>2, <1>3 DEF DisplayComes, p

-----------------------------------------------------------------------------
\* Type correctness.

LEMMA FreshType ==
  /\ \A on \in BOOLEAN : Fresh(on) \in SUBSET Procs
  /\ <<>> \in Seq(Requests) /\ Len(<<>>) <= MaxInbox
BY DesktopHandoffAssumption DEF Fresh, Procs

LEMMA InitTypeOK == Init => TypeOK
<1> SUFFICES ASSUME Init PROVE TypeOK
  OBVIOUS
<1>1. /\ enabled \in BOOLEAN /\ ready \in BOOLEAN /\ paused \in BOOLEAN
      /\ remote \in BOOLEAN /\ watched \in BOOLEAN /\ looked \in BOOLEAN
      /\ sawMode \in BOOLEAN /\ client \in BOOLEAN /\ remoteMode \in BOOLEAN
      /\ quiescing \in BOOLEAN /\ services \in BOOLEAN
  BY Zenon DEF Init
<1> QED BY <1>1, FreshType, NoRequestType DEF Init, TypeOK

LEMMA ManagerTypeOK ==
  ASSUME TypeOK, Manager
  PROVE  TypeOK'
<1>1. CASE Idle
  BY <1>1 DEF Idle, TypeOK, files, owned, login, monitor
<1>2. CASE Serve
  <2>1. PICK s \in Owned, request \in {Head(inbox), NoRequest},
             place \in {"wait", "display", "poll"} :
          Becomes(s, Tail(inbox), request, place) /\ enabled' \in BOOLEAN
    BY <1>2, ServeBecomes
  <2>2. request \in Requests /\ Tail(inbox) \in Seq(Requests) /\ Len(Tail(inbox)) <= MaxInbox
    BY <1>2, InboxHead, NoRequestType DEF Serve
  <2> QED BY <2>1, <2>2, BecomesKeeps
<1>3. CASE Granted
  <2>1. {"desktop"} \in SUBSET Procs /\ {"workspace", "desktop"} \in SUBSET Procs
    BY DEF Procs
  <2>2. enabled' \in BOOLEAN
    BY <1>3 DEF Granted, TypeOK
  <2>3. CASE current.op = "start"
    <3>1. Started(Now, {"desktop"}) \in Owned
      BY <2>1, NowOwned, StartedSteps
    <3>2. Becomes(Started(Now, {"desktop"}), inbox, current, "display")
      BY <1>3, <2>3 DEF Granted
    <3>3. current \in Requests /\ inbox \in Seq(Requests) /\ Len(inbox) <= MaxInbox
      BY DEF TypeOK
    <3> QED BY <2>2, <3>1, <3>2, <3>3, BecomesKeeps
  <2>4. CASE current.op # "start"
    <3> DEFINE t == Stopped(Now, {"workspace", "desktop"})
    <3>1. t \in Owned
      BY <2>1, NowOwned, StoppedSteps DEF Steps
    <3>2. alive' \in SUBSET Procs /\ known' \in SUBSET Procs /\ alive' \subseteq known'
      BY <1>3, <2>4, <3>1 DEF Granted, Owned, Records
    <3>3. rdpUser' \in {"out", "asking", "in"} /\ session' \in {"none", "asking", "plasma"}
      BY <1>3, <2>4 DEF Granted, Answer, TypeOK
    <3> QED BY <1>3, <2>2, <2>4, <3>2, <3>3, NoRequestType DEF Granted, TypeOK, files, monitor
  <2> QED BY <2>3, <2>4
<1>4. CASE Refused
  BY <1>4, NoRequestType DEF Refused, Answer, TypeOK, owned, monitor
<1>5. CASE DisplayComes
  <2>1. PICK s \in Owned : Becomes(s, inbox, NoRequest, "poll")
    BY <1>5, DisplayBecomes
  <2>2. inbox \in Seq(Requests) /\ Len(inbox) <= MaxInbox /\ enabled' \in BOOLEAN
    BY <1>5 DEF DisplayComes, TypeOK
  <2> QED BY <2>1, <2>2, NoRequestType, BecomesKeeps
<1>6. CASE Poll
  <2>1. Polled(Now, enabled) \in Owned
    BY NowOwned, PolledSteps DEF Steps
  <2>2. inbox \in Seq(Requests) /\ Len(inbox) <= MaxInbox /\ enabled' \in BOOLEAN
    BY <1>6 DEF Poll, TypeOK
  <2>3. Becomes(Polled(Now, enabled), inbox, NoRequest, "serve")
    BY <1>6 DEF Poll
  <2> QED BY <2>1, <2>2, <2>3, NoRequestType, BecomesKeeps
<1> QED BY <1>1, <1>2, <1>3, <1>4, <1>5, <1>6 DEF Manager

LEMMA OthersTypeOK ==
  ASSUME TypeOK, [Next]_vars, ~Manager
  PROVE  TypeOK'
<1>1. CASE Restart
  <2>1. /\ enabled' \in BOOLEAN /\ ready' \in BOOLEAN /\ paused' \in BOOLEAN
        /\ remote' \in BOOLEAN /\ watched' \in BOOLEAN /\ looked' \in BOOLEAN
        /\ sawMode' \in BOOLEAN /\ client' \in BOOLEAN /\ remoteMode' \in BOOLEAN
        /\ quiescing' \in BOOLEAN /\ services' \in BOOLEAN
    BY <1>1, Zenon DEF Restart, TypeOK
  <2>2. Fresh(enabled) \in SUBSET Procs
    BY FreshType DEF TypeOK
  <2> QED BY <1>1, <2>1, <2>2, FreshType, NoRequestType DEF Restart, TypeOK
<1>2. CASE Look
  BY <1>2 DEF Look, TypeOK, files, owned, login
<1>3. CASE Act
  <2>1. quiescing' \in BOOLEAN /\ services' \in BOOLEAN
    BY <1>3 DEF Act, AudioPoll, TypeOK
  <2>2. paused' \in BOOLEAN
    BY <1>3 DEF Act, AudioPoll, TypeOK
  <2>3. ready' \in BOOLEAN /\ sawMode' \in BOOLEAN /\ client' \in BOOLEAN
    <3>1. SessionPoll(kind = "none" \/ paused')
      BY <1>3 DEF Act
    <3>2. CASE mode # "none"
      BY <3>1, <3>2, Zenon DEF SessionPoll, TypeOK
    <3>3. CASE mode = "none"
      BY <3>1, <3>3, Zenon DEF SessionPoll, TypeOK
    <3> QED BY <3>2, <3>3
  <2>4. looked' \in BOOLEAN
    BY <1>3 DEF Act
  <2> QED BY <1>3, <2>1, <2>2, <2>3, <2>4 DEF Act, TypeOK, owned, login
<1>4. CASE ServicesEnd
  <2>1. services' \in BOOLEAN
    BY <1>4 DEF ServicesEnd
  <2> QED BY <1>4, <2>1 DEF ServicesEnd, TypeOK, files, owned, login
<1>5. CASE \E p \in Procs : Dies(p)
  BY <1>5 DEF Dies, TypeOK, files, login, monitor
<1>6. CASE \E op \in Asked : Ask(op)
  <2>1. PICK op \in Asked : Ask(op)
    BY <1>6
  <2>2. [op |-> op, awaited |-> FALSE] \in Requests
    BY DesktopHandoffAssumption DEF Requests
  <2>3. inbox' \in Seq(Requests) /\ Len(inbox') <= MaxInbox
    BY <2>1, <2>2, DesktopHandoffAssumption DEF Ask, TypeOK
  <2> QED BY <2>1, <2>3 DEF Ask, TypeOK, files, owned, login, monitor
<1>7. CASE DeadlinePasses
  BY <1>7 DEF DeadlinePasses, TypeOK, files, login, monitor
<1>8. CASE Login
  <2>1. [op |-> "remote-reserve", awaited |-> TRUE] \in Requests
    BY DEF Requests, Ops
  <2>2. inbox' \in Seq(Requests) /\ Len(inbox') <= MaxInbox
    BY <1>8, <2>1, DesktopHandoffAssumption DEF Login, TypeOK
  <2> QED BY <1>8, <2>2 DEF Login, TypeOK, files, owned, monitor
<1>9. CASE SessionStarts
  <2>1. [op |-> "remote-start", awaited |-> TRUE] \in Requests
    BY DEF Requests, Ops
  <2>2. inbox' \in Seq(Requests) /\ Len(inbox') <= MaxInbox
    BY <1>9, <2>1, DesktopHandoffAssumption DEF SessionStarts, TypeOK
  <2> QED BY <1>9, <2>2 DEF SessionStarts, TypeOK, files, owned, monitor
<1>10. CASE Disconnect
  BY <1>10 DEF Disconnect, TypeOK, files, owned, monitor
<1>11. ASSUME NEW ops, Forget(ops) PROVE inbox' \in Seq(Requests) /\ Len(inbox') <= MaxInbox /\ current' \in Requests
  <2>1. inbox' \in Seq(Requests) /\ Len(inbox') <= MaxInbox
    BY <1>11, OrphanedKeeps DEF Forget, TypeOK
  <2>2. current' \in Requests
    BY <1>11 DEF Forget, TypeOK, Requests
  <2> QED BY <2>1, <2>2
<1>12. CASE LoginTimesOut
  <2>1. inbox' \in Seq(Requests) /\ Len(inbox') <= MaxInbox /\ current' \in Requests
    BY <1>11, <1>12 DEF LoginTimesOut
  <2> QED BY <1>12, <2>1 DEF LoginTimesOut, TypeOK, files, owned, monitor
<1>13. CASE SessionEnds
  <2>1. inbox' \in Seq(Requests) /\ Len(inbox') <= MaxInbox /\ current' \in Requests
    BY <1>11, <1>13 DEF SessionEnds
  <2> QED BY <1>13, <2>1 DEF SessionEnds, TypeOK, files, owned, monitor
<1>14. CASE UNCHANGED vars
  BY <1>14 DEF vars, TypeOK, files, owned, login, monitor
<1> QED
  BY <1>1, <1>2, <1>3, <1>4, <1>5, <1>6, <1>7, <1>8, <1>9, <1>10, <1>12, <1>13, <1>14
     DEF Next, Monitor

\* Every variable of the handoff keeps its type; above all, the manager never
\* runs a process it has forgotten (alive \subseteq known).
THEOREM TypeCorrect == Spec => []TypeOK
<1>1. TypeOK /\ [Next]_vars => TypeOK'
  BY ManagerTypeOK, OthersTypeOK
<1> QED BY InitTypeOK, <1>1, PTL DEF Spec

-----------------------------------------------------------------------------
\* The streaming audio.

\* "paused" is never there while PipeWire or WirePlumber runs: LocalVRAudio
\* writes it after both have ended and removes it before it starts them.
THEOREM PausedMeansQuiet == Spec => []PausedIsQuiet
<1>1. Init => PausedIsQuiet
  BY DEF Init, PausedIsQuiet
<1>2. TypeOK /\ PausedIsQuiet /\ [Next]_vars => PausedIsQuiet'
  <2> SUFFICES ASSUME TypeOK, PausedIsQuiet, [Next]_vars PROVE PausedIsQuiet'
    OBVIOUS
  <2>1. CASE Act
    BY <2>1 DEF Act, AudioPoll, PausedIsQuiet, TypeOK
  <2>2. CASE Restart
    BY <2>2 DEF Restart, PausedIsQuiet
  <2>3. CASE ServicesEnd
    BY <2>3 DEF ServicesEnd, PausedIsQuiet
  <2>4. CASE Manager
    BY <2>4 DEF Manager, Idle, Serve, Granted, Refused, DisplayComes, Poll, Becomes,
                PausedIsQuiet, files, monitor
  <2>5. CASE UNCHANGED <<paused, services>>
    BY <2>5 DEF PausedIsQuiet
  <2> QED
    BY <2>1, <2>2, <2>3, <2>4, <2>5
       DEF Next, Monitor, Look, Dies, Ask, DeadlinePasses, Login, SessionStarts, Disconnect,
           LoginTimesOut, SessionEnds, vars, files, monitor
<1> QED BY TypeCorrect, <1>1, <1>2, PTL DEF Spec

-----------------------------------------------------------------------------
(* One Plasma session.  The workspace is started only by call('start'),    *)
(* which has stopped sesman before it waits; so it is enough that nothing  *)
(* of a login outlives sesman, neither its session nor a request for whose *)
(* answer somebody waits.                                                  *)

SesmanBehind ==
  \/ session # "none" \/ rdpUser # "out" \/ current.awaited
  \/ \E i \in DOMAIN inbox : inbox[i].awaited
  => "sesman" \in alive

\* Only the requests of logins are waited for.
LoginsWait ==
  /\ current.awaited => current.op \in RemoteOps
  /\ \A i \in DOMAIN inbox : inbox[i].awaited => inbox[i].op \in RemoteOps

\* A headset desktop that is on its way has no sesman beside it.
StartAlone ==
  pc \in {"wait", "display"} /\ current.op = "start" => "sesman" \notin alive

IInv == TypeOK /\ SesmanBehind /\ LoginsWait /\ StartAlone /\ OnePlasma

LEMMA BecomesSesmanBehind ==
  ASSUME TypeOK, SesmanBehind, LoginsWait,
         NEW s \in Owned, NEW queue \in Seq(Requests), NEW request \in Requests, NEW place,
         Becomes(s, queue, request, place),
         \A i \in DOMAIN queue : \E j \in DOMAIN inbox : queue[i] = inbox[j],
         request.awaited => request.op \in RemoteOps /\ ~s.cut /\ "sesman" \in alive,
         "sesman" \in alive /\ ~s.cut => "sesman" \in s.alive
  PROVE  SesmanBehind' /\ LoginsWait'
<1>1. CASE s.cut
  <2>1. inbox' = Orphaned(queue, RemoteOps) /\ current' = request
    BY <1>1 DEF Becomes
  <2>2. \A i \in DOMAIN inbox' : i \in DOMAIN queue
    BY <2>1, OrphanedKeeps
  <2>3. \A i \in DOMAIN inbox' : ~inbox'[i].awaited
    BY <2>1, <2>2, OrphanedKeeps DEF LoginsWait
  <2>4. rdpUser' = "out" /\ session' = "none" /\ ~current'.awaited
    BY <1>1, <2>1 DEF Becomes
  <2> QED BY <2>3, <2>4 DEF SesmanBehind, LoginsWait
<1>2. CASE ~s.cut
  BY <1>2 DEF Becomes, SesmanBehind, LoginsWait, login
<1> QED BY <1>1, <1>2

LEMMA InitIInv == Init => IInv
BY InitTypeOK, NoRequestType
   DEF Init, IInv, SesmanBehind, LoginsWait, StartAlone, OnePlasma

LEMMA ManagerIInv ==
  ASSUME IInv, Manager
  PROVE  SesmanBehind' /\ LoginsWait' /\ StartAlone' /\ OnePlasma'
<1> USE DEF IInv
<1>0. /\ Now \in Owned /\ Now.alive = alive /\ Now.cut = FALSE
      /\ inbox \in Seq(Requests) /\ current \in Requests
      /\ NoRequest \in Requests /\ NoRequest.op = "stop" /\ ~NoRequest.awaited
  BY NowOwned, NoRequestType DEF TypeOK, NoRequest
<1>1. CASE Idle
  BY <1>1 DEF Idle, owned, login, SesmanBehind, LoginsWait, StartAlone, OnePlasma
<1>2. CASE Serve
  <2>1. PICK s \in Owned, request \in {Head(inbox), NoRequest},
             place \in {"wait", "display", "poll"} :
          /\ Becomes(s, Tail(inbox), request, place)
          /\ Steps(Now, s)
          /\ request.op = "start" => "sesman" \notin s.alive
          /\ s.cut => ~request.awaited \/ request.op \notin RemoteOps
    BY <1>2, ServeBecomes
  <2>2. /\ Tail(inbox) \in Seq(Requests) /\ request \in Requests
        /\ \A i \in DOMAIN Tail(inbox) : \E j \in DOMAIN inbox : Tail(inbox)[i] = inbox[j]
    BY <1>0, <1>2, InboxHead DEF Serve
  <2>3. request.awaited => request.op \in RemoteOps /\ "sesman" \in alive
    BY <1>0, <1>2, InboxHead DEF Serve, SesmanBehind, LoginsWait
  <2>4. "sesman" \in alive /\ ~s.cut => "sesman" \in s.alive
    BY <1>0, <2>1 DEF Steps
  <2>5. SesmanBehind' /\ LoginsWait'
    BY <2>1, <2>2, <2>3, <2>4, BecomesSesmanBehind
  <2>6. StartAlone' /\ OnePlasma'
    BY <1>0, <2>1 DEF Becomes, Steps, StartAlone, OnePlasma, login
  <2> QED BY <2>5, <2>6
<1>3. CASE Granted
  <2>1. CASE current.op = "start"
    <3> DEFINE s == Started(Now, {"desktop"})
    <3>1. Becomes(s, inbox, current, "display")
      BY <1>3, <2>1 DEF Granted
    <3>2. {"desktop"} \in SUBSET Procs
      BY DEF Procs
    <3>3. s \in Owned /\ s.alive = alive \cup {"desktop"} /\ s.cut = FALSE
      BY <1>0, <3>2, StartedSteps
    <3> HIDE DEF s
    <3>4. SesmanBehind' /\ LoginsWait'
      BY <1>0, <3>1, <3>3 DEF Becomes, SesmanBehind, LoginsWait, login
    <3>5. StartAlone' /\ OnePlasma'
      BY <1>3, <2>1, <3>1, <3>3 DEF Granted, Becomes, StartAlone, OnePlasma, login
    <3> QED BY <3>4, <3>5
  <2>2. CASE current.op # "start"
    <3> DEFINE s == Stopped(Now, {"workspace", "desktop"})
    <3>1. {"workspace", "desktop"} \in SUBSET Procs /\ "sesman" \notin {"workspace", "desktop"}
      BY DEF Procs
    <3>2. s.alive = alive \ {"workspace", "desktop"}
      BY <1>0, <3>1, StoppedSteps
    <3>3. alive' = alive \ {"workspace", "desktop"}
      BY <1>3, <2>2, <3>2 DEF Granted
    <3>4. Answer(TRUE) /\ pc' = "poll" /\ current' = NoRequest /\ inbox' = inbox
      BY <1>3, <2>2 DEF Granted
    <3>5. SesmanBehind'
      BY <1>0, <3>1, <3>3, <3>4 DEF Answer, SesmanBehind
    <3> QED BY <1>0, <3>3, <3>4, <3>5 DEF LoginsWait, StartAlone, OnePlasma
  <2> QED BY <2>1, <2>2
<1>4. CASE Refused
  <2>1. /\ Answer(FALSE) /\ pc' = "poll" /\ current' = NoRequest
        /\ inbox' = inbox /\ alive' = alive
    BY <1>4 DEF Refused, owned
  <2>2. SesmanBehind'
    BY <1>0, <2>1 DEF Answer, SesmanBehind
  <2>3. OnePlasma'
    BY <2>1 DEF Answer, OnePlasma
  <2> QED BY <1>0, <2>1, <2>2, <2>3 DEF LoginsWait, StartAlone
<1>5. CASE DisplayComes
  <2>1. PICK s \in Owned :
          /\ Becomes(s, inbox, NoRequest, "poll")
          /\ s.cut = FALSE
          /\ "sesman" \in alive => "sesman" \in s.alive
          /\ current.op # "start" /\ "workspace" \in s.alive => "workspace" \in alive
    BY <1>5, DisplayBecomes
  <2>2. SesmanBehind' /\ LoginsWait'
    BY <1>0, <2>1, BecomesSesmanBehind
  <2>3. OnePlasma'
    <3>1. alive' = s.alive /\ session' = session
      BY <2>1 DEF Becomes, login
    <3>2. CASE current.op = "start"
      BY <1>5, <3>1, <3>2 DEF DisplayComes, StartAlone, SesmanBehind, OnePlasma
    <3>3. CASE current.op # "start"
      BY <2>1, <3>1, <3>3 DEF OnePlasma
    <3> QED BY <3>2, <3>3
  <2>4. StartAlone'
    BY <1>0, <2>1 DEF Becomes, StartAlone
  <2> QED BY <2>2, <2>3, <2>4
<1>6. CASE Poll
  <2> DEFINE s == Polled(Now, enabled)
  <2>1. Becomes(s, inbox, NoRequest, "serve")
    BY <1>6 DEF Poll
  <2>2. Steps(Now, s) /\ s \in Owned
    BY <1>0, PolledSteps DEF Steps
  <2> HIDE DEF s
  <2>3. SesmanBehind' /\ LoginsWait'
    BY <1>0, <2>1, <2>2, BecomesSesmanBehind DEF Steps
  <2>4. StartAlone' /\ OnePlasma'
    BY <1>0, <2>1, <2>2 DEF Becomes, Steps, StartAlone, OnePlasma, login
  <2> QED BY <2>3, <2>4
<1> QED BY <1>1, <1>2, <1>3, <1>4, <1>5, <1>6 DEF Manager

\* A new request of a login is waited for only while sesman runs.
LEMMA AppendWaits ==
  ASSUME TypeOK, SesmanBehind, LoginsWait, NEW r \in Requests,
         inbox' = Append(inbox, r), UNCHANGED <<alive, current>>,
         r.awaited => r.op \in RemoteOps,
         r.awaited \/ session' # "none" \/ rdpUser' # "out" => "sesman" \in alive
  PROVE  SesmanBehind' /\ LoginsWait'
<1>1. \A i \in DOMAIN inbox' : inbox'[i] = r \/ (i \in DOMAIN inbox /\ inbox'[i] = inbox[i])
  BY DEF TypeOK
<1> QED BY <1>1 DEF SesmanBehind, LoginsWait

LEMMA ForgetWaits ==
  ASSUME TypeOK, SesmanBehind, LoginsWait, NEW ops, Forget(ops), UNCHANGED alive,
         session' \in {session, "none"}, rdpUser' \in {rdpUser, "out"}
  PROVE  SesmanBehind' /\ LoginsWait' /\ current'.op = current.op
<1>1. /\ inbox' = Orphaned(inbox, ops) /\ inbox \in Seq(Requests)
      /\ current'.op = current.op /\ (current'.awaited => current.awaited)
  BY DEF Forget, TypeOK, Requests
<1>2. DOMAIN inbox' = DOMAIN inbox
  BY <1>1, OrphanedKeeps
<1>3. \A i \in DOMAIN inbox' : /\ inbox'[i].op = inbox[i].op
                               /\ inbox'[i].awaited => inbox[i].awaited
  BY <1>1, <1>2, OrphanedKeeps
<1> QED BY <1>1, <1>2, <1>3 DEF SesmanBehind, LoginsWait

LEMMA OthersIInv ==
  ASSUME IInv, [Next]_vars, ~Manager
  PROVE  SesmanBehind' /\ LoginsWait' /\ StartAlone' /\ OnePlasma'
<1> USE DEF IInv
<1>1. CASE Restart
  BY <1>1, NoRequestType DEF Restart, NoRequest, SesmanBehind, LoginsWait, StartAlone, OnePlasma
<1>2. CASE UNCHANGED <<alive, inbox, pc, current, login>>
  BY <1>2 DEF login, SesmanBehind, LoginsWait, StartAlone, OnePlasma
<1>3. CASE \E p \in Procs : Dies(p)
  BY <1>3 DEF Dies, login, SesmanBehind, LoginsWait, StartAlone, OnePlasma
<1>4. CASE \E op \in Asked : Ask(op)
  <2>1. PICK op \in Asked : Ask(op)
    BY <1>4
  <2>2. [op |-> op, awaited |-> FALSE] \in Requests
    BY DesktopHandoffAssumption DEF Requests
  <2>3. SesmanBehind' /\ LoginsWait'
    BY <2>1, <2>2, AppendWaits DEF Ask, owned, login, SesmanBehind
  <2> QED BY <2>1, <2>3 DEF Ask, owned, login, StartAlone, OnePlasma
<1>5. CASE Login
  <2>1. [op |-> "remote-reserve", awaited |-> TRUE] \in Requests
    BY DEF Requests, Ops
  <2>2. SesmanBehind' /\ LoginsWait'
    BY <1>5, <2>1, AppendWaits DEF Login, owned, RemoteOps
  <2> QED BY <1>5, <2>2 DEF Login, owned, StartAlone, OnePlasma
<1>6. CASE SessionStarts
  <2>1. [op |-> "remote-start", awaited |-> TRUE] \in Requests
    BY DEF Requests, Ops
  <2>2. "sesman" \in alive
    BY <1>6 DEF SessionStarts, SesmanBehind
  <2>3. SesmanBehind' /\ LoginsWait'
    BY <1>6, <2>1, <2>2, AppendWaits DEF SessionStarts, owned, RemoteOps
  <2> QED BY <1>6, <2>3 DEF SessionStarts, owned, StartAlone, OnePlasma
<1>7. CASE Disconnect
  BY <1>7 DEF Disconnect, owned, SesmanBehind, LoginsWait, StartAlone, OnePlasma
<1>8. CASE LoginTimesOut
  <2>1. SesmanBehind' /\ LoginsWait' /\ current'.op = current.op
    BY <1>8, ForgetWaits DEF LoginTimesOut, owned
  <2> QED BY <1>8, <2>1 DEF LoginTimesOut, owned, StartAlone, OnePlasma
<1>9. CASE SessionEnds
  <2>1. SesmanBehind' /\ LoginsWait' /\ current'.op = current.op
    BY <1>9, ForgetWaits DEF SessionEnds, owned
  <2> QED BY <1>9, <2>1 DEF SessionEnds, owned, StartAlone, OnePlasma
<1> QED
  BY <1>1, <1>2, <1>3, <1>4, <1>5, <1>6, <1>7, <1>8, <1>9
     DEF Next, Monitor, Look, Act, ServicesEnd, DeadlinePasses, vars, owned

\* Quest allows one active Plasma session: the workspace of the headset never
\* runs beside a Plasma desktop of a Remote Desktop login, whatever is asked,
\* in whatever order logins, dying processes and restarts come.
THEOREM OnePlasmaSession == Spec => []OnePlasma
<1>1. IInv /\ [Next]_vars => IInv'
  <2> SUFFICES ASSUME IInv, [Next]_vars PROVE IInv'
    OBVIOUS
  <2>1. TypeOK'
    BY ManagerTypeOK, OthersTypeOK DEF IInv
  <2>2. SesmanBehind' /\ LoginsWait' /\ StartAlone' /\ OnePlasma'
    BY ManagerIInv, OthersIInv
  <2> QED BY <2>1, <2>2 DEF IInv
<1>2. IInv => OnePlasma
  BY DEF IInv
<1> QED BY InitIInv, <1>1, <1>2, PTL DEF Spec

\* Two desktops never share the headset's resources: DesktopsApart.
THEOREM DesktopsStayApart == Spec => []DesktopsApart
BY OnePlasmaSession, PausedMeansQuiet, PTL DEF DesktopsApart

-----------------------------------------------------------------------------
(* The listeners of Remote Desktop.  prepare_access starts them whenever   *)
(* gamescope does not run, also while the workspace of a gamescope that    *)
(* has just died still does.  What keeps them apart is the poll that       *)
(* follows each request: it knows that gamescope was there and ends the    *)
(* workspace before anything can start gamescope again.                    *)

Listeners == {"rdp", "sesman"}

\* A headset desktop that is on its way has no listeners beside it.
StartUnheard ==
  pc \in {"wait", "display"} /\ current.op = "start" => alive \cap Listeners = {}

\* The manager has not forgotten the display of a workspace.
DisplayKnown == "workspace" \in alive => "desktop" \in known

\* A workspace meets listeners only where the next poll finds its display dead.
MeetAtPoll ==
  "workspace" \in alive /\ alive \cap Listeners # {} => pc = "poll" /\ "desktop" \notin alive

PInv == TypeOK /\ StartUnheard /\ DisplayKnown /\ MeetAtPoll

LEMMA DesktopStoppedEnds ==
  ASSUME NEW s \in Owned, NEW on
  PROVE  "workspace" \notin DesktopStopped(s, on).alive
<1> DEFINE plasma  == Stopped(s, {"workspace"})
           display == IF "app" \in plasma.alive THEN plasma
                                                ELSE Stopped(plasma, {"desktop"})
           away    == [display EXCEPT !.remote = FALSE]
           logins  == IF display.remote THEN Stopped(away, {"sesman"}) ELSE display
           last    == Reconciled(logins, on)
<1>0. {"workspace"} \in SUBSET Procs /\ {"desktop"} \in SUBSET Procs /\ {"sesman"} \in SUBSET Procs
  BY DEF Procs
<1>1. plasma \in Owned /\ "workspace" \notin plasma.alive
  BY <1>0, StoppedSteps DEF Steps
<1>2. display \in Owned /\ "workspace" \notin display.alive
  <2> HIDE DEF plasma
  <2> QED BY <1>0, <1>1, StoppedSteps DEF Steps
<1>3. logins \in Owned /\ "workspace" \notin logins.alive
  <2> HIDE DEF display
  <2>1. away \in Owned /\ away.alive = display.alive
    BY <1>2, RemoteSteps DEF Steps, Owned, Records
  <2> HIDE DEF away
  <2> QED BY <1>0, <1>2, <2>1, StoppedSteps DEF Steps
<1>4. last \in Owned /\ "workspace" \notin last.alive
  <2> HIDE DEF logins
  <2> QED BY <1>3, ReconciledSteps DEF Steps
<1> HIDE DEF last
<1>5. [last EXCEPT !.mode = "none"].alive = last.alive
  BY <1>4, ModeSteps
<1> QED BY <1>4, <1>5 DEF DesktopStopped, last, logins, away, display, plasma

\* A sweep ends the workspace, or has found nothing amiss.
LEMMA SweptEnds ==
  ASSUME NEW s \in Owned, NEW on
  PROVE  \/ "workspace" \notin Swept(s, on).alive
         \/ Swept(s, on) = s /\ "desktop" \notin s.known \ s.alive
<1> DEFINE closed  == "desktop" \in s.known \ s.alive
           plasma  == Stopped(s, {"workspace"})
           apps    == IF closed THEN Stopped(plasma, {"app"}) ELSE plasma
           display == IF closed \/ "app" \notin apps.alive
                      THEN Stopped(apps, {"desktop"}) ELSE apps
           last    == Reconciled(display, on)
<1>0. {"workspace"} \in SUBSET Procs /\ {"desktop"} \in SUBSET Procs /\ {"app"} \in SUBSET Procs
  BY DEF Procs
<1>1. plasma \in Owned /\ "workspace" \notin plasma.alive
  BY <1>0, StoppedSteps DEF Steps
<1>2. apps \in Owned /\ "workspace" \notin apps.alive
  <2> HIDE DEF plasma
  <2> QED BY <1>0, <1>1, StoppedSteps DEF Steps
<1>3. display \in Owned /\ "workspace" \notin display.alive
  <2> HIDE DEF apps
  <2> QED BY <1>0, <1>2, StoppedSteps DEF Steps
<1>4. last \in Owned /\ "workspace" \notin last.alive
  <2> HIDE DEF display
  <2> QED BY <1>3, ReconciledSteps DEF Steps
<1> HIDE DEF last
<1>5. [last EXCEPT !.mode = "none"].alive = last.alive
  BY <1>4, ModeSteps
<1> QED BY <1>4, <1>5 DEF Swept, last, display, apps, plasma

\* A workspace that outlives a poll has its display, and the poll started
\* nothing beside it.
LEMMA PolledEnds ==
  ASSUME NEW s \in Owned, NEW on, "workspace" \in Polled(s, on).alive
  PROVE  /\ Polled(s, on).alive = s.alive
         /\ "desktop" \notin s.known \ s.alive
         /\ "desktop" \in s.known => "desktop" \in Polled(s, on).known
<1> DEFINE lost    == IF "workspace" \in s.alive /\ s.mode = "none"
                      THEN DesktopStopped(s, on) ELSE s
           closed  == Stopped(lost, {"app"} \ lost.alive)
           unused  == IF /\ "desktop" \in closed.alive /\ closed.mode = "none"
                         /\ closed.alive \cap {"workspace", "app"} = {}
                      THEN Stopped(closed, {"desktop"}) ELSE closed
           swept   == Swept(unused, on)
           overdue == Overdue(swept)
           last    == DesktopStopped(overdue, on)
<1>0. {"desktop"} \in SUBSET Procs /\ {"app"} \in SUBSET Procs
  BY DEF Procs
<1>1. lost \in Owned /\ ("workspace" \in lost.alive => lost = s)
  BY DesktopStoppedSteps, DesktopStoppedEnds DEF Steps
<1>2. /\ closed \in Owned /\ closed.alive = lost.alive
      /\ "desktop" \in lost.known <=> "desktop" \in closed.known
  <2> HIDE DEF lost
  <2>1. closed \in Owned /\ closed.alive = lost.alive \ ({"app"} \ lost.alive)
    BY <1>0, <1>1, StoppedSteps DEF Steps
  <2>2. closed.known = lost.known \ ({"app"} \ lost.alive)
    BY <1>1 DEF Stopped, Owned, Records
  <2> HIDE DEF closed
  <2> QED BY <2>1, <2>2
<1>3. unused \in Owned /\ ("workspace" \in unused.alive => unused = closed)
  <2> HIDE DEF closed
  <2> QED BY <1>0, <1>2, StoppedSteps DEF Steps
<1>4. /\ swept \in Owned
      /\ "workspace" \in swept.alive => swept = unused /\ "desktop" \notin unused.known \ unused.alive
  <2> HIDE DEF unused
  <2> QED BY <1>3, SweptSteps, SweptEnds DEF Steps
<1>5. overdue \in Owned /\ overdue.alive = swept.alive /\ overdue.known = swept.known
  <2> HIDE DEF swept
  <2> QED BY <1>4 DEF Overdue, Owned, Records
<1>6. "workspace" \notin last.alive
  <2> HIDE DEF overdue
  <2> QED BY <1>5, DesktopStoppedEnds
<1>7. "workspace" \in overdue.alive /\ Polled(s, on) = overdue
  <2> HIDE DEF last
  <2>1. Polled(s, on) \in {last, overdue}
    BY DEF Polled, last, overdue, swept, unused, closed, lost
  <2> HIDE DEF overdue
  <2> QED BY <1>6, <2>1
<1> HIDE DEF overdue, swept, unused, closed, lost
<1> QED BY <1>1, <1>2, <1>3, <1>4, <1>5, <1>7

\* prepare_access: a workspace it leaves beside listeners has no display, or
\* was there beside them before.
LEMMA ReconciledMeets ==
  ASSUME NEW s \in Owned, NEW on
  PROVE  /\ Reconciled(s, on).alive \cap {"workspace", "desktop"} = s.alive \cap {"workspace", "desktop"}
         /\ "desktop" \in s.known <=> "desktop" \in Reconciled(s, on).known
         /\ Reconciled(s, on).alive \cap Listeners # {} =>
              \/ "desktop" \notin s.alive
              \/ s.alive \cap Listeners # {}
BY DEF Reconciled, ListenersStopped, Stopped, Started, Owned, Records, Listeners

LEMMA ServePInv ==
  ASSUME PInv, Serve
  PROVE  StartUnheard' /\ DisplayKnown' /\ MeetAtPoll'
<1> DEFINE r == Head(inbox)
<1> USE DEF PInv
<1>0. /\ Now \in Owned /\ Now.alive = alive /\ Now.known = known
      /\ NoRequest.op = "stop" /\ pc = "serve"
      /\ "workspace" \in alive => alive \cap Listeners = {}
  BY NowOwned DEF Now, NoRequest, Serve, MeetAtPoll
<1>1. CASE Becomes(DesktopStopped(Now, enabled), Tail(inbox), NoRequest, "poll")
  <2>1. "workspace" \notin alive'
    BY <1>0, <1>1, DesktopStoppedEnds DEF Becomes
  <2>2. pc' = "poll" /\ current' = NoRequest
    BY <1>1 DEF Becomes
  <2> QED BY <2>1, <2>2 DEF StartUnheard, DisplayKnown, MeetAtPoll
<1>2. CASE Becomes(Reconciled(Now, enabled'), Tail(inbox), NoRequest, "poll")
  <2> DEFINE s == Reconciled(Now, enabled')
  <2>1. /\ s.alive \cap {"workspace", "desktop"} = alive \cap {"workspace", "desktop"}
        /\ "desktop" \in known <=> "desktop" \in s.known
        /\ s.alive \cap Listeners # {} => "desktop" \notin alive \/ alive \cap Listeners # {}
    BY <1>0, ReconciledMeets
  <2>2. alive' = s.alive /\ known' = s.known /\ pc' = "poll"
    BY <1>2 DEF Becomes
  <2> HIDE DEF s
  <2> QED BY <1>0, <2>1, <2>2 DEF StartUnheard, DisplayKnown, MeetAtPoll
<1>3. CASE Becomes(Now, Tail(inbox), NoRequest, "poll")
  BY <1>0, <1>3 DEF Becomes, StartUnheard, DisplayKnown, MeetAtPoll
<1>4. CASE Becomes([ListenersStopped(Now) EXCEPT !.mode = "desktop"], Tail(inbox), r, "wait")
  <2> DEFINE s == [ListenersStopped(Now) EXCEPT !.mode = "desktop"]
  <2>1. s.alive = alive \ Listeners /\ s.known = known \ Listeners
    BY <1>0 DEF ListenersStopped, Stopped, Owned, Records, Listeners
  <2>2. alive' = s.alive /\ known' = s.known
    BY <1>4 DEF Becomes
  <2> HIDE DEF s
  <2> QED BY <2>1, <2>2 DEF StartUnheard, DisplayKnown, MeetAtPoll, Listeners
<1>5. CASE r.op \in RemoteOps /\ Becomes([Now EXCEPT !.mode = "remote"], Tail(inbox), r, "wait")
  <2> DEFINE s == [Now EXCEPT !.mode = "remote"]
  <2>1. s.alive = alive /\ s.known = known
    BY <1>0 DEF Owned, Records
  <2>2. alive' = s.alive /\ known' = s.known /\ current' = r
    BY <1>5 DEF Becomes
  <2> HIDE DEF s
  <2> QED BY <1>0, <1>5, <2>1, <2>2 DEF StartUnheard, DisplayKnown, MeetAtPoll, RemoteOps
<1>6. CASE r.op = "launch-app" /\ Becomes(Started(Now, {"desktop"}), Tail(inbox), r, "display")
  <2> DEFINE s == Started(Now, {"desktop"})
  <2>1. s.alive = alive \cup {"desktop"} /\ s.known = known \cup {"desktop"}
    BY <1>0 DEF Started, Owned, Records
  <2>2. alive' = s.alive /\ known' = s.known /\ current' = r
    BY <1>6 DEF Becomes
  <2> HIDE DEF s
  <2> QED BY <1>0, <1>6, <2>1, <2>2 DEF StartUnheard, DisplayKnown, MeetAtPoll, Listeners
<1> QED BY <1>1, <1>2, <1>3, <1>4, <1>5, <1>6 DEF Serve

LEMMA ManagerPInv ==
  ASSUME PInv, Manager
  PROVE  StartUnheard' /\ DisplayKnown' /\ MeetAtPoll'
<1> USE DEF PInv
<1>0. /\ Now \in Owned /\ Now.alive = alive /\ Now.known = known
      /\ NoRequest.op = "stop" /\ alive \subseteq known
  BY NowOwned DEF Now, NoRequest, TypeOK
<1>1. CASE Idle
  BY <1>1 DEF Idle, owned, StartUnheard, DisplayKnown, MeetAtPoll
<1>2. CASE Serve
  BY <1>2, ServePInv
<1>3. CASE Granted
  <2>1. CASE current.op = "start"
    <3> DEFINE s == Started(Now, {"desktop"})
    <3>1. s.alive = alive \cup {"desktop"} /\ s.known = known \cup {"desktop"}
      BY <1>0 DEF Started, Owned, Records
    <3>2. alive' = s.alive /\ known' = s.known
      BY <1>3, <2>1 DEF Granted, Becomes
    <3> HIDE DEF s
    <3>3. alive \cap Listeners = {}
      BY <1>3, <2>1 DEF Granted, StartUnheard
    <3> QED BY <3>1, <3>2, <3>3 DEF StartUnheard, DisplayKnown, MeetAtPoll, Listeners
  <2>2. CASE current.op # "start"
    <3>1. "workspace" \notin alive' /\ pc' = "poll"
      BY <1>3, <2>2, <1>0 DEF Granted, Stopped, Owned, Records
    <3> QED BY <3>1 DEF StartUnheard, DisplayKnown, MeetAtPoll
  <2> QED BY <2>1, <2>2
<1>4. CASE Refused
  BY <1>4 DEF Refused, owned, StartUnheard, DisplayKnown, MeetAtPoll
<1>5. CASE DisplayComes
  <2>1. CASE "desktop" \in alive /\
             Becomes(Started(Now, {IF current.op = "start" THEN "workspace" ELSE "app"}),
                     inbox, NoRequest, "poll")
    <3> DEFINE p == IF current.op = "start" THEN "workspace" ELSE "app"
               s == Started(Now, {p})
    <3>1. s.alive = alive \cup {p} /\ s.known = known \cup {p}
      BY <1>0 DEF Started, Owned, Records
    <3>2. alive' = s.alive /\ known' = s.known /\ pc' = "poll"
      BY <2>1 DEF Becomes
    <3> HIDE DEF s
    <3>3. DisplayKnown' /\ StartUnheard'
      BY <1>0, <2>1, <3>1, <3>2 DEF DisplayKnown, StartUnheard
    <3>4. CASE current.op = "start"
      <4>1. alive \cap Listeners = {}
        BY <1>5, <3>4 DEF DisplayComes, StartUnheard
      <4> QED BY <3>1, <3>2, <3>3, <3>4, <4>1 DEF MeetAtPoll, Listeners
    <3>5. CASE current.op # "start"
      <4>1. "workspace" \in alive => alive \cap Listeners = {}
        BY <1>5 DEF DisplayComes, MeetAtPoll
      <4> QED BY <3>1, <3>2, <3>3, <3>5, <4>1 DEF MeetAtPoll, Listeners
    <3> QED BY <3>3, <3>4, <3>5
  <2>2. CASE Becomes(Now, inbox, NoRequest, "poll")
    BY <1>0, <1>5, <2>2 DEF DisplayComes, Becomes, StartUnheard, DisplayKnown, MeetAtPoll
  <2> QED BY <1>5, <2>1, <2>2 DEF DisplayComes
<1>6. CASE Poll
  <2> DEFINE s == Polled(Now, enabled)
  <2>1. alive' = s.alive /\ known' = s.known /\ pc' = "serve"
    BY <1>6 DEF Poll, Becomes
  <2>2. "workspace" \in s.alive =>
          s.alive = alive /\ "desktop" \notin known \ alive /\ ("desktop" \in known => "desktop" \in s.known)
    BY <1>0, PolledEnds
  <2> HIDE DEF s
  <2> QED BY <2>1, <2>2 DEF StartUnheard, DisplayKnown, MeetAtPoll
<1> QED BY <1>1, <1>2, <1>3, <1>4, <1>5, <1>6 DEF Manager

LEMMA OthersPInv ==
  ASSUME PInv, [Next]_vars, ~Manager
  PROVE  StartUnheard' /\ DisplayKnown' /\ MeetAtPoll'
<1> USE DEF PInv
<1>1. CASE Restart
  BY <1>1 DEF Restart, Fresh, StartUnheard, DisplayKnown, MeetAtPoll
<1>2. CASE UNCHANGED <<alive, known, pc, current>>
  BY <1>2 DEF StartUnheard, DisplayKnown, MeetAtPoll
<1>3. CASE \E p \in Procs : Dies(p)
  BY <1>3 DEF Dies, StartUnheard, DisplayKnown, MeetAtPoll
<1>4. CASE LoginTimesOut \/ SessionEnds
  <2>1. UNCHANGED <<alive, known, pc>> /\ current'.op = current.op
    BY <1>4 DEF LoginTimesOut, SessionEnds, Forget, owned, TypeOK, Requests
  <2> QED BY <2>1 DEF StartUnheard, DisplayKnown, MeetAtPoll
<1> QED
  BY <1>1, <1>2, <1>3, <1>4
     DEF Next, Monitor, Look, Act, ServicesEnd, DeadlinePasses, Ask, Login, SessionStarts,
         Disconnect, vars, owned

\* The Remote Desktop listeners pause while the headset desktop is open: no
\* listener runs beside a workspace that has its display, in whatever order
\* requests, deaths of gamescope or Plasma, settings and polls come.
THEOREM ListenersYield == Spec => []ListenersPause
<1>1. Init => PInv
  BY InitTypeOK DEF Init, Fresh, PInv, StartUnheard, DisplayKnown, MeetAtPoll
<1>2. PInv /\ [Next]_vars => PInv'
  <2> SUFFICES ASSUME PInv, [Next]_vars PROVE PInv'
    OBVIOUS
  <2>1. TypeOK'
    BY ManagerTypeOK, OthersTypeOK DEF PInv
  <2>2. StartUnheard' /\ DisplayKnown' /\ MeetAtPoll'
    BY ManagerPInv, OthersPInv
  <2> QED BY <2>1, <2>2 DEF PInv
<1>3. PInv => ListenersPause
  BY DEF PInv, MeetAtPoll, ListenersPause, Listeners
<1> QED BY <1>1, <1>2, <1>3, PTL DEF Spec

=============================================================================
