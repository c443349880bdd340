------------------------------ MODULE GuestLife ------------------------------
(***************************************************************************)
(* What keeps the guest alive from one start of the app to the next: the    *)
(* Linux session of QuestActivity, the applications that run beside it and  *)
(* the update of its runtime.  They meet in the session only: OsUpdate sees *)
(* of it that it starts and ends, and DesktopApps that its activity does.   *)
(* A behaviour is about one of the three, its "part", so that their states  *)
(* add up and do not multiply.                                              *)
(***************************************************************************)
EXTENDS OsUpdate, LinuxSession, DesktopApps

VARIABLE part

lifeVars == <<part, vars, linuxVars, appVars>>

LifeInit ==
  /\ part \in {"updates", "session", "applications"}
  /\ Init /\ SessionInit /\ AppsInit
  /\ part # "applications" => ~desktop

LifeNext ==
  \/ part = "updates"      /\ Next        /\ UNCHANGED <<part, linuxVars, appVars>>
  \/ part = "session"      /\ SessionNext /\ UNCHANGED <<part, vars, appVars>>
  \/ part = "applications" /\ AppsNext    /\ UNCHANGED <<part, vars, linuxVars>>

(* Users quit and come back, whatever they see; start-up runs, and is not   *)
(* killed for ever.  The updater and the dashboard may fail every time.     *)
UpdateFairness ==
  /\ WF_vars(part = "updates" /\ ActivateSteps)
  /\ SF_vars(part = "updates" /\ Start)
  /\ SF_vars(part = "updates" /\ ExtractOverlay /\ overlay' = "current")
  /\ WF_vars(part = "updates" /\ End /\ session \in Up)
  /\ <>[][~(session \in Steps /\ session' = "down")]_vars

(* No fair action of LinuxSession is enabled before an activity asks for a  *)
(* session.                                                                 *)
LifeSpec == LifeInit /\ [][LifeNext]_lifeVars /\ UpdateFairness /\ SessionFairness

-----------------------------------------------------------------------------
(* Properties *)

(* The processes of the app are accounted for: one session at a time, on    *)
(* files of its own and a whole root; one application at most for a request *)
(* and an outcome that its launcher can believe; and nothing that outlives  *)
(* its activity but what a closed bridge starts.                            *)
ProcessesKept == SessionsApart /\ OneOutcome /\ AppsOwned
=============================================================================
