---------------------------- MODULE RuntimeTrial ----------------------------
(***************************************************************************)
(* What the OS updater promises, whatever crashes: there is always a good  *)
(* runtime, one that has shown its dashboard (or came with the APK); at    *)
(* most one other is on trial; it becomes the good one only by showing its *)
(* dashboard, and a trial that ends in any other way leaves the good one.  *)
(***************************************************************************)
EXTENDS Integers

CONSTANTS Builds, Broken, None

VARIABLES
  good,    \* the build to fall back to
  trial    \* the build on trial, or None

vars == <<good, trial>>

Init == good \in Builds \ Broken /\ trial = None

Try == trial = None /\ trial' \in Builds /\ UNCHANGED good

Confirm == trial \in Builds \ Broken /\ good' = trial /\ trial' = None

GiveUp == trial # None /\ trial' = None /\ UNCHANGED good

Next == Try \/ Confirm \/ GiveUp

Spec == Init /\ [][Next]_vars
=============================================================================
