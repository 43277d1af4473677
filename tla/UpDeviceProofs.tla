--------------------------- MODULE UpDeviceProofs ---------------------------
(***************************************************************************)
(* Theorems about UpDevice, for any configuration files, kinds of device   *)
(* and readings.                                                           *)
(***************************************************************************)
EXTENDS UpDevice, TLAPS

\* What every policy in use satisfies.
PolicyValid == policy \in Policy /\ PercentagesValid(policy) /\ TimesValid(policy)

\* What the drivers guarantee about a reading of 100 %: a peripheral takes it for
\* fully charged, and none calls it low.  Batteries have no coarse level.
FullReading ==
  /\ props.type = "battery" => props.battery_level = "none"
  /\ props.percentage = 100 => props.battery_level # "low"
  /\ props.percentage = 100 /\ props.type # "battery" => props.state # "discharging"

\* The inductive invariant.
DeviceInv ==
  /\ PolicyValid
  /\ props \in Props
  /\ FullReading
  /\ LevelIsCurrent
  /\ IconIsCurrent

\* What loading the default times changes and what it keeps.
LEMMA DefaultTimes ==
  ASSUME NEW c \in Policy
  PROVE  LET q == LoadTimeDefaults(c)
         IN  /\ q \in Policy
             /\ q.low_time = 1200 /\ q.critical_time = 300 /\ q.action_time = 120
             /\ q.low_percentage = c.low_percentage
             /\ q.critical_percentage = c.critical_percentage
             /\ q.action_percentage = c.action_percentage
<1> DEFINE a == [c EXCEPT !.low_time = 1200]
           b == [a EXCEPT !.critical_time = 300]
           d == [b EXCEPT !.action_time = 120]
<1>1. a \in Policy /\ a.low_time = 1200 /\ a.low_percentage = c.low_percentage
      /\ a.critical_percentage = c.critical_percentage
      /\ a.action_percentage = c.action_percentage
  BY DEF Policy
<1>2. LoadTimeDefaults(c) = d
  BY DEF LoadTimeDefaults
<1> HIDE DEF a
<1>3. b \in Policy /\ b.low_time = 1200 /\ b.critical_time = 300
      /\ b.low_percentage = c.low_percentage
      /\ b.critical_percentage = c.critical_percentage
      /\ b.action_percentage = c.action_percentage
  BY <1>1 DEF Policy
<1> HIDE DEF b
<1>4. d \in Policy /\ d.low_time = 1200 /\ d.critical_time = 300
      /\ d.action_time = 120
      /\ d.low_percentage = c.low_percentage
      /\ d.critical_percentage = c.critical_percentage
      /\ d.action_percentage = c.action_percentage
  BY <1>3 DEF Policy
<1> HIDE DEF d
<1> QED
  BY <1>2, <1>4

\* Validation keeps valid triples and replaces the others by valid defaults.
LEMMA ValidatedPolicy ==
  ASSUME NEW c \in Policy
  PROVE  LET q == PolicyConfigValidate(c)
         IN  q \in Policy /\ PercentagesValid(q) /\ TimesValid(q)
<1> DEFINE p == IF PercentagesValid(c) THEN c ELSE LoadPercentageDefaults(c)
           q == LoadTimeDefaults(p)
<1>1. p \in Policy /\ PercentagesValid(p)
  <2> DEFINE d == LoadPercentageDefaults(c)
  <2>1. d \in Policy
    BY DEF LoadPercentageDefaults, Policy
  <2>2. d.low_percentage = 10 /\ d.critical_percentage = 3 /\ d.action_percentage = 2
    BY DEF LoadPercentageDefaults, Policy
  <2>3. PercentagesValid(d)
    BY <2>2 DEF PercentagesValid, IsDescending
  <2> QED
    BY <2>1, <2>3
<1>2. PolicyConfigValidate(c) = IF TimesValid(p) THEN p ELSE q
  BY DEF PolicyConfigValidate
<1> HIDE DEF p
<1>3. q \in Policy /\ PercentagesValid(q) /\ TimesValid(q)
  BY <1>1, DefaultTimes DEF PercentagesValid, TimesValid, IsDescending
<1> HIDE DEF q
<1> QED
  BY <1>1, <1>2, <1>3

\* Of a device that knows nothing, the level is "none" whatever its kind.
LEMMA NewLevel ==
  ASSUME NEW c, NEW p, p.state = "unknown", p.battery_level = "none"
  PROVE  DeviceWarningLevel(c, p) = "none"
BY DEF DeviceWarningLevel, ComputeWarningLevel

\* What a reset changes and what it keeps.
LEMMA ResetType ==
  ASSUME NEW p \in Props
  PROVE  /\ ResetValues(p) \in Props
         /\ ResetValues(p).state = "unknown" /\ ResetValues(p).percentage = 0
         /\ ResetValues(p).is_present = FALSE
         /\ ResetValues(p).power_supply = FALSE /\ ResetValues(p).time_to_empty = 0
         /\ ResetValues(p).type = p.type
         /\ ResetValues(p).battery_level = p.battery_level
<1>1. "unknown" \in DeviceState /\ p.type \in DeviceKind /\ p.battery_level \in BatteryLevel
  BY DEF DeviceState, Props
<1> QED
  BY <1>1 DEF ResetValues, Props

LEMMA NewPropsType ==
  /\ NewProps \in Props
  /\ NewProps.state = "unknown" /\ NewProps.battery_level = "none"
  /\ NewProps.percentage = 0 /\ NewProps.is_present = FALSE
  /\ NewProps.power_supply = FALSE /\ NewProps.time_to_empty = 0
  /\ NewProps.type = "unknown"
<1> DEFINE r == [type |-> "unknown", state |-> "unknown", power_supply |-> FALSE,
                 is_present |-> FALSE, percentage |-> 0, time_to_empty |-> 0,
                 battery_level |-> "none"]
<1>1. r \in Props /\ r.type = "unknown" /\ r.battery_level = "none"
  BY DEF Props, DeviceKind, DeviceState, BatteryLevel
<1> QED
  BY <1>1, ResetType DEF NewProps

LEMMA InitDevice == Init => DeviceInv
<1> SUFFICES ASSUME Init PROVE DeviceInv
  OBVIOUS
<1>1. PolicyValid
  BY ValidatedPolicy, ConfigsAssumption DEF Init, PolicyValid
<1>2. props \in Props /\ FullReading
  BY NewPropsType DEF Init, FullReading
<1>3. LevelIsCurrent
  BY NewPropsType DEF Init, LevelIsCurrent, Untold
<1>4. IconIsCurrent
  BY NewPropsType DEF Init, IconIsCurrent, IconName
<1> QED
  BY <1>1, <1>2, <1>3, <1>4 DEF DeviceInv

\* A set that names a property each derived one depends on makes both current.
LEMMA SetBoth ==
  ASSUME NEW names, NEW p, Set(names, p), "state" \in names
  PROVE  LevelIsCurrent' /\ IconIsCurrent'
BY DEF Set, UpdatesWarningLevel, UpdatesIconName, LevelIsCurrent, IconIsCurrent

LEMMA StepKeepsDevice == DeviceInv /\ [Next]_vars => DeviceInv'
<1> SUFFICES ASSUME DeviceInv, [Next]_vars PROVE DeviceInv'
  OBVIOUS
<1> USE DEF DeviceInv
<1>1. PolicyValid'
  BY DEF Next, Coldplug, SetPresent, SetPowerSupply, SetBatteryReadings,
         SetPeripheralPresent, SetPeripheralReadings, SetNoData, ResetBattery, Set,
         PolicyValid, vars
<1>2. ASSUME NEW k \in Kinds, Coldplug(k) PROVE DeviceInv'
  <2> DEFINE p == [props EXCEPT !.type = k]
  <2>1. Set({"type"}, p) /\ props = NewProps
    BY <1>2 DEF Coldplug
  <2>2. props' = p /\ p \in Props /\ p.state = "unknown" /\ p.battery_level = "none"
        /\ p.percentage = 0
    BY <2>1, NewPropsType, KindsAssumption DEF Set, Props
  <2>3. warning_level' = warning_level /\ policy' = policy
    BY <2>1 DEF Set, UpdatesWarningLevel
  <2>4. LevelIsCurrent'
    <3>1. CASE Untold
      BY <2>1, <2>2, <2>3, <3>1, NewPropsType DEF LevelIsCurrent, Untold, Props
    <3>2. CASE warning_level = DeviceWarningLevel(policy, props)
      BY <2>1, <2>2, <2>3, <3>2, NewLevel, NewPropsType DEF LevelIsCurrent
    <3> QED
      BY <3>1, <3>2 DEF LevelIsCurrent
  <2>5. IconIsCurrent'
    BY <2>1 DEF Set, UpdatesIconName, IconIsCurrent
  <2> QED
    BY <1>1, <2>2, <2>4, <2>5 DEF FullReading
<1>3. ASSUME NEW b \in BOOLEAN, SetPresent(b) PROVE DeviceInv'
  <2> DEFINE p == [props EXCEPT !.is_present = b]
  <2>1. Set({"is_present"}, p)
    BY <1>3 DEF SetPresent
  <2>2. props' = p /\ p \in Props /\ FullReading'
    BY <2>1 DEF Set, Props, FullReading
  <2>3. LevelIsCurrent'
    BY <2>1, <2>2 DEF Set, UpdatesWarningLevel, LevelIsCurrent, DeviceWarningLevel, Untold, Props
  <2>4. IconIsCurrent'
    BY <2>1 DEF Set, UpdatesIconName, IconIsCurrent
  <2> QED
    BY <1>1, <2>2, <2>3, <2>4
<1>4. ASSUME NEW b \in BOOLEAN, SetPowerSupply(b) PROVE DeviceInv'
  <2> DEFINE p == [props EXCEPT !.power_supply = b]
  <2>1. Set({"power_supply"}, p)
    BY <1>4 DEF SetPowerSupply
  <2>2. props' = p /\ p \in Props /\ FullReading'
    BY <2>1 DEF Set, Props, FullReading
  <2>3. LevelIsCurrent'
    BY <2>1 DEF Set, UpdatesWarningLevel, LevelIsCurrent
  <2>4. IconIsCurrent'
    BY <2>1, <2>2 DEF Set, UpdatesIconName, IconIsCurrent, IconName, ChargeIcon, Props
  <2> QED
    BY <1>1, <2>2, <2>3, <2>4
<1>5. ASSUME NEW s \in KernelStatus, NEW pct \in Percentages, NEW tte \in TimesToEmpty,
             SetBatteryReadings(s, pct, tte)
      PROVE  DeviceInv'
  <2> DEFINE p == [props EXCEPT !.state = s, !.percentage = pct, !.time_to_empty = tte]
  <2>1. Set({"percentage", "state", "time_to_empty"}, p) /\ props.type = "battery"
    BY <1>5 DEF SetBatteryReadings
  <2>2. props' = p /\ p \in Props /\ FullReading'
    BY <2>1, ReadingsAssumption DEF Set, Props, FullReading, KernelStatus, DeviceState
  <2> QED
    BY <1>1, <2>1, <2>2, SetBoth
<1>6. ASSUME SetPeripheralPresent PROVE DeviceInv'
  <2> DEFINE p == [props EXCEPT !.is_present = TRUE]
  <2>1. Set({"is_present", "power_supply"}, p)
    BY <1>6 DEF SetPeripheralPresent
  <2>2. props' = p /\ p \in Props /\ FullReading'
    BY <2>1 DEF Set, Props, FullReading
  <2>3. LevelIsCurrent' /\ IconIsCurrent'
    BY <2>1 DEF Set, UpdatesWarningLevel, UpdatesIconName, LevelIsCurrent, IconIsCurrent
  <2> QED
    BY <1>1, <2>2, <2>3
<1>7. ASSUME NEW s \in KernelStatus, NEW reading \in PeripheralReadings,
             SetPeripheralReadings(s, reading)
      PROVE  DeviceInv'
  <2> DEFINE state == IF reading[2] = 100 THEN "fully_charged" ELSE s
             p == [props EXCEPT !.battery_level = reading[1], !.percentage = reading[2],
                                !.state = state]
  <2>1. Set({"percentage", "battery_level", "state"}, p) /\ props.type # "battery"
    BY <1>7 DEF SetPeripheralReadings
  <2>2. /\ reading[1] \in BatteryLevel /\ reading[2] \in 0..100
        /\ reading[2] = 100 => reading[1] # "low"
    BY ReadingsAssumption DEF PeripheralReadings, BatteryLevel
  <2>3. state \in DeviceState
    BY DEF KernelStatus, DeviceState
  <2>4. props' = p /\ p \in Props
    BY <2>1, <2>2, <2>3 DEF Set, Props
  <2>5. FullReading'
    BY <2>1, <2>2, <2>4 DEF FullReading, Props
  <2> QED
    BY <1>1, <2>1, <2>4, <2>5, SetBoth
<1>8. ASSUME SetNoData PROVE DeviceInv'
  <2> DEFINE p == [props EXCEPT !.state = "unknown"]
  <2>1. Set({"state"}, p)
    BY <1>8 DEF SetNoData
  <2>2. props' = p /\ p \in Props /\ FullReading'
    BY <2>1 DEF Set, Props, FullReading, DeviceState
  <2> QED
    BY <1>1, <2>1, <2>2, SetBoth
<1>9. ASSUME ResetBattery PROVE DeviceInv'
  <2>1. Set({"state", "power_supply", "is_present", "percentage", "time_to_empty"},
            ResetValues(props))
    BY <1>9 DEF ResetBattery
  <2>2. props' = ResetValues(props)
    BY <2>1 DEF Set
  <2> DEFINE r == ResetValues(props)
  <2>3. /\ r \in Props /\ r.state = "unknown" /\ r.percentage = 0
        /\ r.type = props.type /\ r.battery_level = props.battery_level
    BY ResetType
  <2>4. props' = r
    BY <2>2
  <2> HIDE DEF r
  <2>5. props' \in Props /\ FullReading'
    BY <2>3, <2>4 DEF FullReading
  <2> QED
    BY <1>1, <2>1, <2>5, SetBoth
<1>10. CASE UNCHANGED vars
  BY <1>1, <1>10 DEF vars, FullReading, LevelIsCurrent, IconIsCurrent, Untold
<1> QED
  BY <1>2, <1>3, <1>4, <1>5, <1>6, <1>7, <1>8, <1>9, <1>10 DEF Next

LEMMA DeviceInvariant == Spec => []DeviceInv
<1> QED
  BY InitDevice, StepKeepsDevice, PTL DEF Spec

\* WarningLevel follows from the properties and the policy after every set.
THEOREM LevelSafety == Spec => []LevelIsCurrent
<1>1. DeviceInv => LevelIsCurrent
  BY DEF DeviceInv
<1> QED
  BY <1>1, DeviceInvariant, PTL

\* IconName follows from the properties after every set.
THEOREM IconSafety == Spec => []IconIsCurrent
<1>1. DeviceInv => IconIsCurrent
  BY DEF DeviceInv
<1> QED
  BY <1>1, DeviceInvariant, PTL

\* Whatever UPower.conf holds, a discharging device at or below a threshold of
\* the policy in use is warned about at least that severely.
THEOREM ThresholdSafety == Spec => []ThresholdReached
<1>1. DeviceInv => ThresholdReached
  <2> SUFFICES ASSUME DeviceInv, props.state = "discharging",
                      props.type \notin {"mouse", "keyboard"}, props.battery_level = "none"
               PROVE  ThresholdReached
    BY DEF ThresholdReached
  <2>1. warning_level = ComputeWarningLevel(policy, "discharging", props.type,
          props.power_supply, props.percentage, props.time_to_empty)
    BY DEF DeviceInv, LevelIsCurrent, DeviceWarningLevel, Untold
  <2>2. /\ policy.low_percentage \in Nat /\ policy.critical_percentage \in Nat
        /\ policy.action_percentage \in Nat /\ policy.low_time \in Nat
        /\ policy.critical_time \in Nat /\ policy.action_time \in Nat
        /\ props.percentage \in Nat /\ props.time_to_empty \in Nat
    BY DEF DeviceInv, PolicyValid, Policy, Props
  <2>3. /\ policy.low_percentage > policy.critical_percentage
        /\ policy.critical_percentage > policy.action_percentage
        /\ policy.low_time > policy.critical_time
        /\ policy.critical_time > policy.action_time
    BY DEF DeviceInv, PolicyValid, PercentagesValid, TimesValid, IsDescending
  <2>4. CASE UsePercentage(policy, props.power_supply, props.time_to_empty)
    BY <2>1, <2>2, <2>3, <2>4 DEF ThresholdReached, ComputeWarningLevel, LevelBelow
  <2>5. CASE ~UsePercentage(policy, props.power_supply, props.time_to_empty)
    BY <2>1, <2>2, <2>3, <2>5 DEF ThresholdReached, ComputeWarningLevel, LevelBelow
  <2> QED
    BY <2>4, <2>5
<1> QED
  BY <1>1, DeviceInvariant, PTL

\* Whatever UPower.conf holds, a full device raises no warning by percentage.
THEOREM FullSafety == Spec => []FullIsQuiet
<1>1. DeviceInv => FullIsQuiet
  <2> SUFFICES ASSUME DeviceInv, props.percentage = 100,
                      UsePercentage(policy, props.power_supply, props.time_to_empty)
               PROVE  warning_level = "none"
    BY DEF FullIsQuiet
  <2>1. policy.low_percentage \in Nat /\ policy.low_percentage < 100
    BY DEF DeviceInv, PolicyValid, Policy, PercentagesValid
  <2>2. warning_level = DeviceWarningLevel(policy, props) /\ props.battery_level # "low"
    BY DEF DeviceInv, LevelIsCurrent, FullReading, Untold
  <2>3. CASE props.state # "discharging"
    BY <2>2, <2>3 DEF DeviceWarningLevel, ComputeWarningLevel
  <2>4. CASE props.state = "discharging"
    <3>1. props.type = "battery"
      BY <2>4 DEF DeviceInv, FullReading
    <3> QED
      BY <2>1, <2>2, <3>1 DEF DeviceWarningLevel, ComputeWarningLevel, LevelBelow
  <2> QED
    BY <2>3, <2>4
<1> QED
  BY <1>1, DeviceInvariant, PTL

\* Every property and both derived ones keep their types: a coarse battery level
\* never turns up as a warning level.
THEOREM TypeSafety == Spec => []TypeOK
<1>1. DeviceInv => TypeOK
  <2> SUFFICES ASSUME DeviceInv PROVE TypeOK
    OBVIOUS
  <2>1. warning_level \in WarningLevel
    BY DEF DeviceInv, LevelIsCurrent, DeviceWarningLevel, ComputeWarningLevel,
           PeripheralLevel, LevelBelow, WarningLevel, Untold
  <2>2. props.battery_level \in BatteryLevel
    BY DEF DeviceInv, Props
  <2>3. icon_name \in Icons
    <3>1. ASSUME NEW charging \in BOOLEAN PROVE ChargeIcon(props, charging) \in Icons
      BY <2>2 DEF ChargeIcon, Icons, BatteryLevel
    <3>2. icon_name = IconName(props)
      BY DEF DeviceInv, IconIsCurrent
    <3> QED
      BY <3>1, <3>2 DEF IconName, Icons
  <2> QED
    BY <2>1, <2>3 DEF TypeOK, DeviceInv, PolicyValid
<1> QED
  BY <1>1, DeviceInvariant, PTL
=============================================================================
