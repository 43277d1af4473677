-------------------------- MODULE UpCriticalAction --------------------------
(***************************************************************************)
(* What the daemon promises about the critical action (PowerOff, Hibernate *)
(* or HybridSleep): it is only ever taken at the end of a grace period     *)
(* that ran while the overall warning level was "action" all along, and at *)
(* most once per such episode.  Leaving the level calls it off.            *)
(*                                                                         *)
(* Whether an episode gets its grace period is left open: see the property *)
(* EveryEpisodeIsArmed of UpDaemon.                                        *)
(***************************************************************************)
VARIABLES
  at_action,  \* the overall warning level is "action"
  armed,      \* the grace period is running
  taken       \* the action was taken in this episode

vars == <<at_action, armed, taken>>

Init == ~at_action /\ ~armed /\ ~taken

\* The batteries have reached the action threshold.
Enter ==
  /\ ~at_action
  /\ at_action' = TRUE
  /\ armed' \in BOOLEAN
  /\ taken' = FALSE

\* The grace period ends.
TakeAction ==
  /\ at_action /\ armed /\ ~taken
  /\ armed' = FALSE
  /\ taken' = TRUE
  /\ UNCHANGED at_action

\* The batteries are above the threshold again, or no longer discharging.
Leave ==
  /\ at_action
  /\ at_action' = FALSE /\ armed' = FALSE /\ taken' = FALSE

Next == Enter \/ TakeAction \/ Leave

Spec == Init /\ [][Next]_vars
=============================================================================
