----------------------------- MODULE MCUpDevice -----------------------------
(* The instance of UpDevice for TLC: configuration files that are right,   *)
(* out of order, equal, out of range and empty, and readings on each side  *)
(* of every threshold.                                                     *)
EXTENDS UpDevice

File(use, p, t) ==
  [use_percentage |-> use,
   low_percentage |-> p[1], critical_percentage |-> p[2], action_percentage |-> p[3],
   low_time |-> t[1], critical_time |-> t[2], action_time |-> t[3]]

MCConfigs ==
  {File(use, p, t) :
     use \in BOOLEAN,
     p \in {<<10, 3, 2>>, <<20, 20, 5>>, <<5, 10, 20>>, <<100, 50, 5>>, <<0, 0, 0>>},
     t \in {<<1200, 300, 120>>, <<600, 600, 60>>, <<100, 50, 20>>}}

MCKinds == {"battery", "line_power", "mouse", "keyboard", "gaming_input"}
MCPercentages == {0, 2, 3, 5, 8, 10, 15, 50, 99, 100}
MCTimesToEmpty == {0, 20, 120, 300, 1200, 4000}
=============================================================================
