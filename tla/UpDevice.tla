------------------------------ MODULE UpDevice ------------------------------
(***************************************************************************)
(* One UpDevice (src/up-device.c): the properties a backend sets, and the  *)
(* two the device derives from them in its notify handler, WarningLevel    *)
(* and IconName.  A g_object_set() stores every property it names and then *)
(* notifies each of them, so a set is one step: new values, then the       *)
(* derived properties that the notified names select.                      *)
(*                                                                         *)
(* The actions are the sets up-device-supply.c really makes; the readings   *)
(* are arbitrary.                                                          *)
(***************************************************************************)
EXTENDS UpPolicy, FiniteSets

CONSTANTS
  Configs,        \* configuration files to start from
  Kinds,          \* kinds of device to coldplug
  Percentages,    \* percentages a reading may have
  TimesToEmpty    \* times to empty a reading may have

ASSUME ConfigsAssumption == Configs \subseteq Policy
ASSUME KindsAssumption == Kinds \subseteq DeviceKind
ASSUME ReadingsAssumption ==
  Percentages \subseteq 0..100 /\ TimesToEmpty \subseteq Nat

VARIABLES
  policy,         \* the daemon's validated thresholds
  props,          \* properties the backend sets
  warning_level,  \* the device's WarningLevel
  icon_name       \* the device's IconName, by its meaning

vars == <<policy, props, warning_level, icon_name>>

BatteryLevel == {"unknown", "none", "low", "critical", "normal", "high", "full"}

Props ==
  [type : DeviceKind, state : DeviceState, power_supply : BOOLEAN,
   is_present : BOOLEAN, percentage : 0..100, time_to_empty : Nat,
   battery_level : BatteryLevel]

\* What up_device_init() and a backend's reset leave.
ResetValues(p) ==
  [type |-> p.type, battery_level |-> p.battery_level,
   state |-> "unknown", power_supply |-> FALSE, is_present |-> FALSE,
   percentage |-> 0, time_to_empty |-> 0]

NewProps ==
  ResetValues([type |-> "unknown", state |-> "unknown", power_supply |-> FALSE,
               is_present |-> FALSE, percentage |-> 0, time_to_empty |-> 0,
               battery_level |-> "none"])

Icons == {"ac-adapter", "missing", "empty", "full-charged"}
           \cup ({"caution", "low", "good", "full"} \X BOOLEAN)

\* Mutant: the coarse level is passed through as it is.
MutDeviceWarningLevel(c, p) ==
  IF p.battery_level \notin {"none", "critical"}
    THEN p.battery_level
    ELSE ComputeWarningLevel(c, p.state, p.type, p.power_supply,
                             p.percentage, p.time_to_empty)

\* update_warning_level(): a coarse battery level wins over the readings,
\* except a critical one, which may be worse than it says.
DeviceWarningLevel(c, p) ==
  IF p.battery_level \notin {"none", "critical"}
    THEN IF p.battery_level = "low" THEN "low" ELSE "none"
    ELSE ComputeWarningLevel(c, p.state, p.type, p.power_supply,
                             p.percentage, p.time_to_empty)

\* get_device_charge_icon(): the fill of the battery symbol.
ChargeIcon(p, charging) ==
  LET fill ==
        CASE p.battery_level = "none" ->
               IF p.percentage < 10 THEN "caution"
               ELSE IF p.percentage < 30 THEN "low"
               ELSE IF p.percentage < 60 THEN "good"
               ELSE "full"
          [] p.battery_level = "unknown" -> IF charging THEN "good" ELSE "caution"
          [] p.battery_level \in {"low", "critical"} -> "caution"
          [] p.battery_level = "normal" -> "low"
          [] p.battery_level = "high" -> "good"
          [] p.battery_level = "full" -> "full"
  IN  <<fill, charging>>

\* update_icon_name()
IconName(p) ==
  CASE p.type = "line_power" -> "ac-adapter"
    [] p.type # "line_power" /\ ~p.is_present -> "missing"
    [] OTHER ->
         CASE p.state = "empty" -> "empty"
           [] p.state = "fully_charged" -> "full-charged"
           [] p.state \in {"charging", "pending_charge"} -> ChargeIcon(p, TRUE)
           [] p.state \in {"discharging", "pending_discharge"} -> ChargeIcon(p, FALSE)
           [] OTHER -> "missing"
-----------------------------------------------------------------------------
\* Mutants: a property's name is forgotten in the dispatch.
MutUpdatesWarningLevel(name) ==
  name \in {"time_to_empty", "state", "percentage"}
MutUpdatesIconName(name) ==
  name \in {"type", "state", "percentage", "battery_level"}

\* The notified names that up_device_notify() turns into each derived property.
UpdatesWarningLevel(name) ==
  name \in {"power_supply", "time_to_empty", "state", "percentage", "battery_level"}
UpdatesIconName(name) ==
  name \in {"type", "is_present", "state", "percentage", "battery_level"}

\* g_object_set() of the properties "names" to their values in p.
Set(names, p) ==
  /\ props' = p
  /\ warning_level' = IF \E n \in names : UpdatesWarningLevel(n)
                        THEN DeviceWarningLevel(policy, p) ELSE warning_level
  /\ icon_name' = IF \E n \in names : UpdatesIconName(n)
                    THEN IconName(p) ELSE icon_name
  /\ UNCHANGED policy

Init ==
  /\ policy \in {PolicyConfigValidate(c) : c \in Configs}
  /\ props = NewProps
  /\ warning_level = "unknown"
  /\ icon_name = "missing"

\* The states the kernel's "status" file can name.
KernelStatus ==
  {"unknown", "charging", "discharging", "fully_charged", "empty", "pending_charge"}

\* Coldplug decides the kind, before any reading.
Coldplug(k) ==
  /\ props = NewProps
  /\ Set({"type"}, [props EXCEPT !.type = k])

\* The kernel's "present" file, read first on every battery refresh.
SetPresent(b) ==
  /\ props.type = "battery"
  /\ Set({"is_present"}, [props EXCEPT !.is_present = b])

SetPowerSupply(b) ==
  /\ props.type \in {"battery", "line_power"}
  /\ Set({"power_supply"}, [props EXCEPT !.power_supply = b])

\* The readings of a present laptop battery.
SetBatteryReadings(s, pct, tte) ==
  /\ props.type = "battery" /\ props.is_present
  /\ Set({"percentage", "state", "time_to_empty"},
         [props EXCEPT !.state = s, !.percentage = pct, !.time_to_empty = tte])

\* The first refresh of a peripheral.
SetPeripheralPresent ==
  /\ props.type \notin {"unknown", "battery", "line_power"} /\ ~props.is_present
  /\ Set({"is_present", "power_supply"}, [props EXCEPT !.is_present = TRUE])

\* What a peripheral can read: a capacity, or else a coarse capacity level
\* and the percentage that stands for it.
PeripheralReadings ==
  {<<"none", pct>> : pct \in Percentages}
    \cup {<<"normal", 55>>, <<"high", 70>>, <<"low", 10>>, <<"critical", 5>>,
          <<"full", 100>>, <<"unknown", 50>>}

\* The readings of a peripheral.  At 100 % its own idea of its state is ignored.
SetPeripheralReadings(s, reading) ==
  /\ props.type \notin {"unknown", "battery", "line_power"} /\ props.is_present
  /\ Set({"percentage", "battery_level", "state"},
         [props EXCEPT !.battery_level = reading[1], !.percentage = reading[2],
                       !.state = IF reading[2] = 100 THEN "fully_charged" ELSE s])

\* A peripheral whose capacity could not be read.
SetNoData ==
  /\ props.type \notin {"unknown", "battery", "line_power"} /\ props.is_present
  /\ Set({"state"}, [props EXCEPT !.state = "unknown"])

\* A removed battery's values go back to their defaults.
ResetBattery ==
  /\ props.type = "battery" /\ ~props.is_present
  /\ Set({"state", "power_supply", "is_present", "percentage", "time_to_empty"},
         ResetValues(props))

Next ==
  \/ \E k \in Kinds : Coldplug(k)
  \/ \E b \in BOOLEAN : SetPresent(b)
  \/ \E b \in BOOLEAN : SetPowerSupply(b)
  \/ \E s \in KernelStatus, pct \in Percentages, tte \in TimesToEmpty :
       SetBatteryReadings(s, pct, tte)
  \/ SetPeripheralPresent
  \/ \E s \in KernelStatus, reading \in PeripheralReadings : SetPeripheralReadings(s, reading)
  \/ SetNoData
  \/ ResetBattery

Spec == Init /\ [][Next]_vars
-----------------------------------------------------------------------------
\* The values each variable may take.
TypeOK ==
  /\ policy \in Policy
  /\ props \in Props
  /\ warning_level \in WarningLevel
  /\ icon_name \in Icons

\* A new device that has not been read: the level is worked out with the first
\* reading, and until then it is the skeleton's.
Untold ==
  /\ warning_level = "unknown" /\ props.state = "unknown" /\ ~props.power_supply
  /\ props.percentage = 0 /\ props.time_to_empty = 0 /\ props.battery_level = "none"

\* WarningLevel never lags behind the properties it is derived from, whichever
\* of the backends' g_object_set() groups changed them last: the dispatch in
\* up_device_notify() names every property that update_warning_level() reads,
\* except the type, which may only be set while no reading can raise a level.
LevelIsCurrent == warning_level = DeviceWarningLevel(policy, props) \/ Untold

\* IconName never lags behind either.
IconIsCurrent == icon_name = IconName(props)

\* A device that has drained to a threshold of the loaded policy is warned
\* about at least that severely, on whichever scale the policy uses.  Only
\* descending thresholds give this: the level is found by the first one the
\* reading exceeds.
ThresholdReached ==
  (/\ props.state = "discharging" /\ props.type \notin {"mouse", "keyboard"}
   /\ props.battery_level = "none")
    => LET onPercentage ==
             UsePercentage(policy, props.power_supply, props.time_to_empty)
           Reaches(percentage, time) ==
             IF onPercentage THEN props.percentage <= percentage
                             ELSE props.time_to_empty <= time
       IN  /\ Reaches(policy.low_percentage, policy.low_time)
                => warning_level \in {"low", "critical", "action"}
           /\ Reaches(policy.critical_percentage, policy.critical_time)
                => warning_level \in {"critical", "action"}
           /\ Reaches(policy.action_percentage, policy.action_time)
                => warning_level = "action"

\* Under the percentage policy a full device raises no warning, whatever the
\* configuration file says: validation refuses a threshold of 100 or more.
FullIsQuiet ==
  (props.percentage = 100 /\ UsePercentage(policy, props.power_supply, props.time_to_empty))
    => warning_level = "none"
=============================================================================
