------------------------------ MODULE UpTypes ------------------------------
(***************************************************************************)
(* The enumerations of libupower-glib/up-types.h that cross module         *)
(* boundaries, and the order of the warning levels.  The daemon compares   *)
(* levels by their numeric value in two places (the poll interval and the  *)
(* clients' "is it worse than" tests), so the order is part of the model.  *)
(***************************************************************************)
EXTENDS Integers

DeviceKind ==
  {"unknown", "line_power", "battery", "ups", "monitor", "mouse", "keyboard",
   "pda", "phone", "media_player", "tablet", "computer", "gaming_input"}

DeviceState ==
  {"unknown", "charging", "discharging", "empty", "fully_charged",
   "pending_charge", "pending_discharge"}

\* The numeric value of each UpDeviceLevel.
LevelRank ==
  [unknown |-> 0, none |-> 1, discharging |-> 2, low |-> 3, critical |-> 4,
   action |-> 5, normal |-> 6, high |-> 7, full |-> 8]

DeviceLevel == DOMAIN LevelRank

\* The levels a warning level can take: "normal", "high" and "full" are only
\* ever battery levels.
WarningLevel == {"unknown", "none", "discharging", "low", "critical", "action"}
=============================================================================
