----------------------------- MODULE UpPolicy -----------------------------
(***************************************************************************)
(* The warning level policy of src/up-daemon.c: the thresholds read from   *)
(* UPower.conf, their validation, and the level of one set of readings.    *)
(* No state: UpDevice and UpDaemon evaluate these operators.               *)
(*                                                                         *)
(* A percentage is an integer here.  The code compares doubles, but only   *)
(* with integer thresholds; the readings of the instances are integers.    *)
(***************************************************************************)
EXTENDS UpTypes

\* What the configuration can hold.  Unset and negative keys read as 0.
Policy ==
  [use_percentage : BOOLEAN,
   low_percentage : Nat, critical_percentage : Nat, action_percentage : Nat,
   low_time : Nat, critical_time : Nat, action_time : Nat]

IsDescending(x, y, z) == x > y /\ y > z

\* Mutants: a triple is checked for its order or for its range only.
MutNotDescending(c) ==
  c.low_percentage < 100 /\ c.critical_percentage < 100 /\ c.action_percentage < 100
MutNoRange(c) ==
  IsDescending(c.low_percentage, c.critical_percentage, c.action_percentage)

PercentagesValid(c) ==
  /\ c.low_percentage < 100 /\ c.critical_percentage < 100 /\ c.action_percentage < 100
  /\ IsDescending(c.low_percentage, c.critical_percentage, c.action_percentage)

TimesValid(c) == IsDescending(c.low_time, c.critical_time, c.action_time)

LoadPercentageDefaults(c) ==
  [c EXCEPT !.low_percentage = 10, !.critical_percentage = 3, !.action_percentage = 2]

LoadTimeDefaults(c) ==
  [c EXCEPT !.low_time = 1200, !.critical_time = 300, !.action_time = 120]

\* policy_config_validate(): each triple is kept or replaced as a whole.
PolicyConfigValidate(c) ==
  LET q == IF PercentagesValid(c) THEN c ELSE LoadPercentageDefaults(c)
  IN  IF TimesValid(q) THEN q ELSE LoadTimeDefaults(q)

\* The level a reading has on one descending scale of thresholds.
LevelBelow(reading, low, critical, action, default) ==
  IF reading > low THEN default
  ELSE IF reading > critical THEN "low"
  ELSE IF reading > action THEN "critical"
  ELSE "action"

\* Mice and keyboards have a coarser scale and never reach "action".
PeripheralLevel(percentage) ==
  IF percentage <= 5 THEN "critical"
  ELSE IF percentage <= 10 THEN "low"
  ELSE "none"

UsePercentage(c, power_supply, time_to_empty) ==
  ~(power_supply /\ ~c.use_percentage /\ time_to_empty > 0)

\* up_daemon_compute_warning_level()
ComputeWarningLevel(c, state, kind, power_supply, percentage, time_to_empty) ==
  IF state # "discharging" THEN "none"
  ELSE IF kind \in {"mouse", "keyboard"} THEN PeripheralLevel(percentage)
  ELSE LET default == IF kind = "ups" THEN "discharging" ELSE "none"
       IN  IF UsePercentage(c, power_supply, time_to_empty)
             THEN LevelBelow(percentage, c.low_percentage, c.critical_percentage,
                             c.action_percentage, default)
             ELSE LevelBelow(time_to_empty, c.low_time, c.critical_time,
                             c.action_time, default)
=============================================================================
