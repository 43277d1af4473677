--------------------------- MODULE UpDaemonProofs ---------------------------
(***************************************************************************)
(* Theorems about UpDaemon, for any number of devices, any readings and    *)
(* any configuration.                                                      *)
(***************************************************************************)
EXTENDS UpDaemon, UpLemmas

\* The strengthening that makes TimeoutBelongsToEpisode inductive and maps every
\* step to UpCriticalAction: the fields are flags, and between episodes no
\* action counts as taken.
TimeoutInv ==
  /\ action_timeout_id \in BOOLEAN
  /\ action_timeout_live \in BOOLEAN
  /\ action_taken \in BOOLEAN
  /\ TimeoutBelongsToEpisode
  /\ action_taken => warning_level = "action"

\* The state of the critical action.
timeout == <<warning_level, action_timeout_id, action_timeout_live, action_taken>>

\* Setting the overall level to anything keeps the invariant.
LEMMA SetWarningLevelKeepsTimeoutInv ==
  ASSUME NEW level, TimeoutInv, SetWarningLevel(level)
  PROVE  TimeoutInv'
<1>1. CASE level = warning_level
  BY <1>1 DEF TimeoutInv, TimeoutBelongsToEpisode, SetWarningLevel
<1>2. CASE level # warning_level /\ level = "action"
  BY <1>2 DEF TimeoutInv, TimeoutBelongsToEpisode, SetWarningLevel
<1>3. CASE level # warning_level /\ level # "action"
  BY <1>3 DEF TimeoutInv, TimeoutBelongsToEpisode, SetWarningLevel
<1> QED
  BY <1>1, <1>2, <1>3

\* Every evaluation ends in setting the level.
LEMMA UpdateSetsLevel ==
  ASSUME UpdateWarningLevel
  PROVE  \E level : SetWarningLevel(level)
BY DEF UpdateWarningLevel

\* A step evaluates, takes the action, or leaves the critical action alone.
LEMMA NextCases ==
  ASSUME Next
  PROVE  UpdateWarningLevel \/ TakeActionTimeout \/ UNCHANGED timeout
<1>1. CASE Environment
  BY <1>1 DEF Environment, Change, Plug, Unplug, EnvironmentStep, aggregate, timeout
<1>2. CASE Handler
  BY <1>2 DEF Handler, SetProperties, RefreshNext, RefreshDone, ColdplugSupply,
              ColdplugUsb, Startup, aggregate, timeout
<1>3. CASE DispatchUevent
  BY <1>3 DEF DispatchUevent, UeventRemove, UeventAddOrChange, aggregate, timeout
<1>4. CASE \E d \in Device : PollRefresh(d) \/ ClientRefresh(d)
  BY <1>4 DEF PollRefresh, ClientRefresh, Refresh, aggregate, timeout
<1>5. CASE RefreshBatteryDevices \/ PrepareForSleep \/ WakeUp
  BY <1>5 DEF RefreshBatteryDevices, PrepareForSleep, WakeUp, aggregate, timeout
<1> QED
  BY <1>1, <1>2, <1>3, <1>4, <1>5 DEF Next

LEMMA NextKeepsTimeoutInv == TimeoutInv /\ [Next]_vars => TimeoutInv'
<1> SUFFICES ASSUME TimeoutInv, [Next]_vars
             PROVE  TimeoutInv'
  OBVIOUS
<1>1. CASE UpdateWarningLevel
  BY <1>1, UpdateSetsLevel, SetWarningLevelKeepsTimeoutInv
<1>2. CASE TakeActionTimeout
  BY <1>2 DEF TimeoutInv, TimeoutBelongsToEpisode, TakeActionTimeout
<1>3. CASE UNCHANGED timeout
  BY <1>3 DEF TimeoutInv, TimeoutBelongsToEpisode, timeout
<1>4. UNCHANGED vars => UNCHANGED timeout
  BY DEF vars, aggregate, timeout
<1> QED
  BY <1>1, <1>2, <1>3, <1>4, NextCases

LEMMA TimeoutInvariant == Spec => []TimeoutInv
<1>1. Init => TimeoutInv
  BY DEF Init, TimeoutInv, TimeoutBelongsToEpisode
<1> QED
  BY <1>1, NextKeepsTimeoutInv, PTL DEF Spec

\* The timeout of the critical action never outlives its episode, whatever the
\* devices report and whatever is plugged, polled or refreshed in between.
THEOREM TimeoutSafety == Spec => []TimeoutBelongsToEpisode
<1>1. TimeoutInv => TimeoutBelongsToEpisode
  BY DEF TimeoutInv
<1> QED
  BY <1>1, TimeoutInvariant, PTL

\* The daemon implements UpCriticalAction: the action is taken at most once per
\* episode and only at the end of a grace period that nothing called off.
THEOREM ImplementsCriticalAction == Spec => KeepsCriticalAction
<1>1. Init => CriticalAction!Init
  BY DEF Init, CriticalAction!Init
<1>2. TimeoutInv /\ TimeoutInv' /\ [Next]_vars => [CriticalAction!Next]_CriticalAction!vars
  <2> SUFFICES ASSUME TimeoutInv, TimeoutInv', [Next]_vars
               PROVE  [CriticalAction!Next]_CriticalAction!vars
    OBVIOUS
  <2> USE DEF CriticalAction!Next, CriticalAction!Enter, CriticalAction!TakeAction,
              CriticalAction!Leave, CriticalAction!vars
  <2>1. CASE UpdateWarningLevel
    <3> PICK level : SetWarningLevel(level)
      BY <2>1, UpdateSetsLevel
    <3>1. CASE level = warning_level
      BY <3>1 DEF SetWarningLevel
    <3>2. CASE level # warning_level /\ level = "action"
      BY <3>2 DEF SetWarningLevel, TimeoutInv
    <3>3. CASE level # warning_level /\ level # "action" /\ warning_level = "action"
      BY <3>3 DEF SetWarningLevel, TimeoutInv, TimeoutBelongsToEpisode
    <3>4. CASE level # warning_level /\ level # "action" /\ warning_level # "action"
      BY <3>4 DEF SetWarningLevel, TimeoutInv, TimeoutBelongsToEpisode
    <3> QED
      BY <3>1, <3>2, <3>3, <3>4
  <2>2. CASE TakeActionTimeout
    BY <2>2 DEF TakeActionTimeout, TimeoutInv, TimeoutBelongsToEpisode
  <2>3. CASE UNCHANGED timeout
    BY <2>3 DEF timeout
  <2>4. UNCHANGED vars => UNCHANGED timeout
    BY DEF vars, aggregate, timeout
  <2> QED
    BY <2>1, <2>2, <2>3, <2>4, NextCases
<1> QED
  BY <1>1, <1>2, TimeoutInvariant, PTL DEF Spec, KeepsCriticalAction, CriticalAction!Spec

-----------------------------------------------------------------------------
\* An evaluation makes everything the daemon shows follow from its devices.
LEMMA UpdateMakesCurrent ==
  ASSUME UpdateWarningLevel
  PROVE  AggregateIsCurrent'
BY DEF UpdateWarningLevel, SetWarningLevel, AggregateIsCurrent

\* Everything AggregateIsCurrent speaks of.
shown == <<power_devices, dev, on_battery, warning_level, display, stale>>

LEMMA UnchangedKeepsCurrent ==
  ASSUME AggregateIsCurrent, UNCHANGED shown,
         loop \in {"power_supply", "usb"} => loop' \in {"power_supply", "usb"}
  PROVE  AggregateIsCurrent'
BY DEF AggregateIsCurrent, shown, OnBatteryLocal, OnAcLocal

\* Adding a device leaves everything alone or marks it stale.
LEMMA AddDeviceKeepsCurrent ==
  ASSUME AggregateIsCurrent, NEW d, AddDevice(d), UNCHANGED loop,
         UNCHANGED <<on_battery, warning_level, display>>
  PROVE  AggregateIsCurrent'
<1>1. CASE ColdplugValues(d) = {}
  BY <1>1, UnchangedKeepsCurrent DEF AddDevice, shown
<1>2. CASE ColdplugValues(d) # {}
  BY <1>2 DEF AddDevice, AggregateIsCurrent
<1> QED
  BY <1>1, <1>2

LEMMA NextKeepsCurrent == AggregateIsCurrent /\ [Next]_vars => AggregateIsCurrent'
<1> SUFFICES ASSUME AggregateIsCurrent, [Next]_vars
             PROVE  AggregateIsCurrent'
  OBVIOUS
<1>1. CASE Environment
  BY <1>1, UnchangedKeepsCurrent
     DEF Environment, Change, Plug, Unplug, EnvironmentStep, aggregate, handler, shown
<1>2. CASE Handler
  <2>1. CASE SetProperties \/ Startup
    BY <2>1, UpdateMakesCurrent DEF SetProperties, Startup
  <2>2. CASE RefreshNext \/ RefreshDone
    BY <2>2, UnchangedKeepsCurrent DEF RefreshNext, RefreshDone, aggregate, shown
  <2>3. CASE ColdplugSupply
    <3>1. CASE todo = {}
      BY <2>3, <3>1 DEF ColdplugSupply, AggregateIsCurrent
    <3>2. CASE todo # {}
      BY <2>3, <3>2, AddDeviceKeepsCurrent DEF ColdplugSupply
    <3> QED
      BY <3>1, <3>2
  <2>4. CASE ColdplugUsb
    BY <2>4, AddDeviceKeepsCurrent DEF ColdplugUsb
  <2> QED
    BY <1>2, <2>1, <2>2, <2>3, <2>4 DEF Handler
<1>3. CASE DispatchUevent
  <2>0. UNCHANGED loop
    BY <1>3 DEF DispatchUevent
  <2>1. CASE UeventRemove(Head(uevents).device)
    <3>1. CASE Head(uevents).device \in Range(power_devices)
      BY <2>1, <3>1, UpdateMakesCurrent DEF UeventRemove
    <3>2. CASE Head(uevents).device \notin Range(power_devices)
      BY <2>0, <2>1, <3>2, UnchangedKeepsCurrent DEF UeventRemove, aggregate, shown
    <3> QED
      BY <3>1, <3>2
  <2>2. CASE UeventAddOrChange(Head(uevents).device)
    <3>1. CASE Head(uevents).device \in Range(power_devices)
      BY <2>0, <2>2, <3>1, UnchangedKeepsCurrent DEF UeventAddOrChange, shown
    <3>2. CASE Head(uevents).device \notin Range(power_devices)
      BY <2>0, <2>2, <3>2, AddDeviceKeepsCurrent DEF UeventAddOrChange
    <3> QED
      BY <3>1, <3>2
  <2> QED
    BY <1>3, <2>1, <2>2 DEF DispatchUevent
<1>4. CASE \E d \in Device : PollRefresh(d) \/ ClientRefresh(d)
  BY <1>4, UnchangedKeepsCurrent DEF PollRefresh, ClientRefresh, Refresh, aggregate, shown
<1>5. CASE RefreshBatteryDevices \/ PrepareForSleep \/ WakeUp
  BY <1>5, UnchangedKeepsCurrent
     DEF RefreshBatteryDevices, PrepareForSleep, WakeUp, Dispatching, aggregate, handler, shown
<1>6. CASE TakeActionTimeout
  BY <1>6, UnchangedKeepsCurrent DEF TakeActionTimeout, handler, shown
<1>7. CASE UNCHANGED vars
  BY <1>7, UnchangedKeepsCurrent DEF vars, aggregate, handler, shown
<1> QED
  BY <1>1, <1>2, <1>3, <1>4, <1>5, <1>6, <1>7 DEF Next

\* What the daemon shows follows from its listed devices in every state after
\* startup in which no hot-plugged device waits for its first evaluation.
THEOREM AggregateSafety == Spec => []AggregateIsCurrent
<1>1. Init => AggregateIsCurrent
  BY DEF Init, AggregateIsCurrent
<1> QED
  BY <1>1, NextKeepsCurrent, PTL DEF Spec

-----------------------------------------------------------------------------
(* The device list.                                                        *)

NoRepeats(l) == \A i, j \in DOMAIN l : l[i] = l[j] => i = j

\* Appending a new element to a list without repetitions.
LEMMA AppendNew ==
  ASSUME NEW S, NEW l \in Seq(S), NEW d \in S, NoRepeats(l), d \notin Range(l)
  PROVE  /\ Append(l, d) \in Seq(S)
         /\ NoRepeats(Append(l, d))
         /\ Range(Append(l, d)) = Range(l) \cup {d}
<1> DEFINE m == Append(l, d)
<1>1. /\ m \in Seq(S) /\ Len(m) = Len(l) + 1 /\ m[Len(l) + 1] = d
      /\ \A i \in 1..Len(l) : m[i] = l[i]
      /\ DOMAIN m = 1..(Len(l) + 1) /\ DOMAIN l = 1..Len(l) /\ Len(l) \in Nat
  OBVIOUS
<1>2. NoRepeats(m)
  BY <1>1 DEF NoRepeats, Range
<1>3. Range(m) = Range(l) \cup {d}
  BY <1>1 DEF Range
<1> QED
  BY <1>1, <1>2, <1>3

\* Removing an element from a list without repetitions removes just that one.
LEMMA ListRemoveRemoves ==
  ASSUME NEW S, NEW l \in Seq(S), NEW d, NoRepeats(l), d \in Range(l)
  PROVE  /\ ListRemove(l, d) \in Seq(S)
         /\ NoRepeats(ListRemove(l, d))
         /\ Range(ListRemove(l, d)) = Range(l) \ {d}
<1> DEFINE i == CHOOSE k \in DOMAIN l : l[k] = d
           m == ListRemove(l, d)
<1>1. i \in DOMAIN l /\ l[i] = d
  BY DEF Range
<1>2. DOMAIN l = 1..Len(l) /\ Len(l) \in Nat /\ Len(l) >= 1 /\ i \in 1..Len(l)
  BY <1>1
<1>3. m = [j \in 1..(Len(l) - 1) |-> l[IF j < i THEN j ELSE j + 1]]
  BY DEF ListRemove
<1> HIDE DEF i, m
<1>4. \A j \in 1..(Len(l) - 1) : (IF j < i THEN j ELSE j + 1) \in 1..Len(l)
  BY <1>2
<1>5. m \in [1..(Len(l) - 1) -> S]
  BY <1>3, <1>4
<1>6. m \in Seq(S)
  BY <1>2, <1>5
<1>7. DOMAIN m = 1..(Len(l) - 1)
  BY <1>3
<1>8. NoRepeats(m)
  <2> SUFFICES ASSUME NEW j \in DOMAIN m, NEW k \in DOMAIN m, m[j] = m[k]
               PROVE  j = k
    BY DEF NoRepeats
  <2>1. (IF j < i THEN j ELSE j + 1) = (IF k < i THEN k ELSE k + 1)
    BY <1>2, <1>3, <1>4, <1>7 DEF NoRepeats
  <2> QED
    BY <1>2, <1>7, <2>1
<1>9. Range(m) \subseteq Range(l) \ {d}
  <2> SUFFICES ASSUME NEW j \in DOMAIN m
               PROVE  m[j] \in Range(l) \ {d}
    BY DEF Range
  <2> DEFINE k == IF j < i THEN j ELSE j + 1
  <2>1. k \in 1..Len(l) /\ k # i /\ m[j] = l[k]
    BY <1>2, <1>3, <1>4, <1>7
  <2> HIDE DEF k
  <2> QED
    BY <1>1, <1>2, <2>1 DEF NoRepeats, Range
<1>10. Range(l) \ {d} \subseteq Range(m)
  <2> SUFFICES ASSUME NEW k \in 1..Len(l), l[k] # d
               PROVE  l[k] \in Range(m)
    BY <1>2 DEF Range
  <2> DEFINE j == IF k < i THEN k ELSE k - 1
  <2>1. k # i
    BY <1>1
  <2>2. j \in 1..(Len(l) - 1) /\ (IF j < i THEN j ELSE j + 1) = k
    BY <1>2, <2>1
  <2> HIDE DEF j
  <2>3. m[j] = l[k]
    BY <1>3, <2>2
  <2> QED
    BY <1>7, <2>2, <2>3 DEF Range
<1> QED
  BY <1>6, <1>8, <1>9, <1>10 DEF m

-----------------------------------------------------------------------------
(* The values of the properties a refresh sets.                            *)

\* A battery's percentage is worked out from its energies.
Figures(p) ==
  p.type = "battery" =>
    p.percentage = IF p.energy_full > 0 THEN (100 * p.energy) \div p.energy_full ELSE 0

\* The properties of a device that has been coldplugged, and those of a UPS.
KnownProps == {p \in Props : p.type # "unknown" /\ Figures(p)}
UpsProps == {p \in Props : p.type = "ups"}

LEMMA KeepsFigures ==
  ASSUME NEW p \in KnownProps, NEW q \in Props, q.type = p.type, q.percentage = p.percentage,
         q.energy = p.energy, q.energy_full = p.energy_full
  PROVE  q \in KnownProps
BY DEF KnownProps, Figures

LEMMA BatteryStateType ==
  ASSUME NEW percentage \in Nat, NEW energy \in Nat,
         NEW status \in {"unknown", "charging", "discharging", "fully_charged",
                         "empty", "pending_charge"}
  PROVE  BatteryState(status, percentage, energy) \in DeviceState
<1>1. GuessState(percentage) \in DeviceState
  BY DEF GuessState, DeviceState
<1> QED
  BY <1>1 DEF BatteryState, DeviceState

LEMMA BatteryValuesType ==
  ASSUME NEW d \in Device, NEW p \in KnownProps, StateTypeOK
  PROVE  BatteryValues(d, p) \in KnownProps
<1> DEFINE r == sysfs[d]
           last == IF d \notin plugged THEN 0
                   ELSE IF p.power_supply THEN p.energy_full ELSE EnergyFull[d]
           full == IF r.charge > last THEN r.charge ELSE last
           percentage == IF full > 0 THEN (100 * r.charge) \div full ELSE 0
           state == BatteryState(r.status, percentage, r.charge)
           rate == IF r.charge = 0 THEN 0 ELSE r.rate
           time == IF state = "discharging" /\ rate > 0
                     THEN (3600 * r.charge) \div rate ELSE 0
           told == IF time > 240 * 60 * 60 THEN 0 ELSE time
<1>1. r \in Reading
  BY DEF StateTypeOK
<1>2. r.charge \in Nat /\ r.rate \in Nat /\ p.energy_full \in Nat /\ EnergyFull[d] \in Nat
  BY <1>1, DaemonAssumption DEF Reading, KnownProps, Props
<1>3. last \in Nat /\ full \in Nat /\ rate \in Nat
  BY <1>2
<1>4. percentage \in Nat
  <2>1. 100 * r.charge \in Nat
    BY <1>2
  <2> HIDE DEF full
  <2> QED
    BY <1>3, <2>1, DivNat
<1>5. state \in DeviceState
  <2> HIDE DEF percentage
  <2>1. r.status \in {"unknown", "charging", "discharging", "fully_charged", "empty",
                      "pending_charge"}
    BY <1>1 DEF Reading
  <2> QED
    BY <1>2, <1>4, <2>1, BatteryStateType
<1>6. time \in Nat
  <2>1. 3600 * r.charge \in Nat
    BY <1>2
  <2> HIDE DEF rate, state
  <2> QED
    BY <1>3, <2>1, DivNat
<1>7. BatteryValues(d, p) =
        [p EXCEPT !.present = TRUE, !.power_supply = TRUE, !.energy = r.charge,
                  !.energy_full = full, !.energy_rate = rate,
                  !.percentage = percentage, !.state = state,
                  !.time_to_empty = told]
  BY DEF BatteryValues
<1> HIDE DEF r, last, full, percentage, state, rate, time
<1>8. told \in Nat
  BY <1>6
<1>9. percentage = IF full > 0 THEN (100 * r.charge) \div full ELSE 0
  BY DEF percentage
<1> HIDE DEF told
<1> DEFINE v == BatteryValues(d, p)
<1>10. v \in Props /\ v.type = p.type
  BY <1>2, <1>3, <1>4, <1>5, <1>7, <1>8 DEF KnownProps, Props
<1>11. v.percentage = percentage /\ v.energy = r.charge /\ v.energy_full = full
  BY <1>7 DEF KnownProps, Props
<1> HIDE DEF v
<1> QED
  BY <1>9, <1>10, <1>11 DEF v, KnownProps, Figures

LEMMA ResetValuesType ==
  ASSUME NEW p \in KnownProps
  PROVE  ResetValues(p) \in KnownProps
<1> DEFINE q == ResetValues(p)
<1>1. q \in Props /\ q.type = p.type /\ q.percentage = 0 /\ q.energy_full = 0
  BY DEF ResetValues, KnownProps, Props, DeviceState
<1> QED
  BY <1>1 DEF KnownProps, Figures

LEMMA BatterySetsType ==
  ASSUME NEW d \in Device, NEW p \in KnownProps, StateTypeOK
  PROVE  BatterySets(d, p) \in Seq(KnownProps) /\ BatterySets(d, p) # <<>>
<1> DEFINE here == [p EXCEPT !.present = sysfs[d].present]
<1>1. sysfs[d].present \in BOOLEAN
  BY DEF StateTypeOK, Reading
<1>2. here \in KnownProps /\ [here EXCEPT !.power_supply = TRUE] \in KnownProps
  <2>1. here \in Props /\ [here EXCEPT !.power_supply = TRUE] \in Props
    BY <1>1 DEF KnownProps, Props
  <2> QED
    BY <2>1, KeepsFigures DEF KnownProps, Props
<1>3. BatterySets(d, p) = IF here.present
                            THEN <<here, [here EXCEPT !.power_supply = TRUE], BatteryValues(d, p)>>
                            ELSE <<here, ResetValues(p)>>
  BY DEF BatterySets
<1> HIDE DEF here
<1> QED
  BY <1>2, <1>3, BatteryValuesType, ResetValuesType

LEMMA LinePowerSetsType ==
  ASSUME NEW d \in Device, NEW p \in KnownProps, StateTypeOK
  PROVE  LinePowerSets(d, p) \in Seq(KnownProps) /\ LinePowerSets(d, p) # <<>>
<1> DEFINE supply == [p EXCEPT !.power_supply = TRUE]
<1>1. sysfs[d].online \in BOOLEAN
  BY DEF StateTypeOK, Reading
<1>2. supply \in KnownProps /\ [supply EXCEPT !.online = sysfs[d].online] \in KnownProps
  <2>1. supply \in Props /\ [supply EXCEPT !.online = sysfs[d].online] \in Props
    BY <1>1 DEF KnownProps, Props
  <2> QED
    BY <2>1, KeepsFigures DEF KnownProps, Props
<1>3. LinePowerSets(d, p) = <<supply, [supply EXCEPT !.online = sysfs[d].online]>>
  BY DEF LinePowerSets
<1> QED
  BY <1>2, <1>3

LEMMA UpsAreKnown == UpsProps \subseteq KnownProps
BY DEF UpsProps, KnownProps, Figures

LEMMA UpsSetsType ==
  ASSUME NEW d \in Device, NEW p \in UpsProps, StateTypeOK,
         NEW s \in UpsSets(d, p)
  PROVE  s \in Seq(UpsProps) /\ s # <<>>
<1> DEFINE r == sysfs[d]
           State(q) == IF r.status = "unknown" THEN q ELSE [q EXCEPT !.state = r.status]
           Charge(q) == [q EXCEPT !.percentage = r.charge]
           Runtime(q) == [q EXCEPT !.time_to_empty = r.runtime]
           StateFirst == <<State(p), Charge(State(p)), Runtime(Charge(State(p)))>>
           StateLast == <<Charge(p), Runtime(Charge(p)), State(Runtime(Charge(p)))>>
<1>1. /\ r.charge \in Nat /\ r.runtime \in Nat
      /\ r.status \in {"unknown", "charging", "discharging", "fully_charged", "empty",
                       "pending_charge"}
  BY DEF StateTypeOK, Reading
<1>2. ASSUME NEW q \in UpsProps
      PROVE  /\ State(q) \in UpsProps /\ Charge(q) \in UpsProps
             /\ Runtime(q) \in UpsProps /\ FixupState(q) \in UpsProps
  BY <1>1, <1>2 DEF UpsProps, Props, DeviceState, FixupState
<1>3. UpsSets(d, p) = {Append(t, FixupState(t[3])) : t \in {StateFirst, StateLast}}
  BY DEF UpsSets
<1> HIDE DEF r, State, Charge, Runtime
<1>4. /\ StateFirst \in Seq(UpsProps) /\ StateFirst[3] \in UpsProps
      /\ StateLast \in Seq(UpsProps) /\ StateLast[3] \in UpsProps
  BY <1>2
<1> HIDE DEF StateFirst, StateLast
<1>5. PICK t \in {StateFirst, StateLast} : s = Append(t, FixupState(t[3]))
  BY <1>3
<1>6. t \in Seq(UpsProps) /\ FixupState(t[3]) \in UpsProps
  BY <1>2, <1>4
<1> QED
  BY <1>5, <1>6

LEMMA RefreshSetsType ==
  ASSUME NEW d \in Device, NEW p \in KnownProps, StateTypeOK, NEW s \in RefreshSets(d, p)
  PROVE  s \in Seq(KnownProps)
<1>1. p.type \in {"line_power", "battery", "ups"}
  BY DEF KnownProps, Props
<1>2. CASE p.type = "line_power"
  BY <1>2, LinePowerSetsType DEF RefreshSets
<1>3. CASE p.type = "battery"
  BY <1>3, BatterySetsType DEF RefreshSets
<1>4. CASE p.type = "ups"
  <2>1. CASE d \in unread \cap plugged
    <3>1. p \in UpsProps /\ s \in UpsSets(d, p)
      BY <1>4, <2>1 DEF RefreshSets, KnownProps, UpsProps
    <3> QED
      BY <3>1, UpsSetsType, UpsAreKnown
  <2>2. CASE d \notin unread \cap plugged
    <3>1. RefreshSets(d, p) = {<<>>}
      BY <1>4, <2>2 DEF RefreshSets
    <3>2. s = <<>>
      BY <3>1
    <3> QED
      BY <3>2
  <2> QED
    BY <2>1, <2>2
<1> QED
  BY <1>1, <1>2, <1>3, <1>4

LEMMA LastType ==
  ASSUME NEW S, NEW s \in Seq(S), s # <<>>
  PROVE  s[Len(s)] \in S
OBVIOUS

LEMMA ColdplugValuesType ==
  ASSUME NEW d \in Device, StateTypeOK, NEW v \in ColdplugValues(d)
  PROVE  v \in KnownProps
<1> DEFINE p == [NewDevice EXCEPT !.type = KindOf[d]]
           b == [NewDevice EXCEPT !.type = "battery"]
           u == [p EXCEPT !.power_supply = TRUE, !.present = TRUE]
<1>1. KindOf[d] \in {"line_power", "battery", "ups"}
  BY DaemonAssumption
<1>2. p \in KnownProps /\ b \in KnownProps /\ (KindOf[d] = "ups" => u \in UpsProps)
  <2>1. p \in Props /\ b \in Props /\ u \in Props
    BY <1>1 DEF Props, NewDevice, DeviceState
  <2>2. /\ p.type = KindOf[d] /\ p.percentage = 0 /\ p.energy_full = 0
        /\ b.type = "battery" /\ b.percentage = 0 /\ b.energy_full = 0
        /\ u.type = KindOf[d]
    BY DEF NewDevice
  <2> HIDE DEF p, b, u
  <2> QED
    BY <1>1, <2>1, <2>2 DEF KnownProps, UpsProps, Figures
<1>3. CASE KindOf[d] = "ups"
  <2>1. ColdplugValues(d) = IF d \in plugged THEN {s[Len(s)] : s \in UpsSets(d, u)} ELSE {}
    BY <1>3 DEF ColdplugValues
  <2> HIDE DEF u
  <2>2. PICK s \in UpsSets(d, u) : v = s[Len(s)]
    BY <2>1
  <2>3. s \in Seq(UpsProps) /\ s # <<>>
    BY <1>2, <1>3, UpsSetsType
  <2> QED
    BY <2>2, <2>3, LastType, UpsAreKnown
<1>4. CASE KindOf[d] = "line_power" /\ d \in plugged
  <2>1. v = LinePowerSets(d, p)[Len(LinePowerSets(d, p))]
    BY <1>4 DEF ColdplugValues
  <2> QED
    BY <1>2, <2>1, LinePowerSetsType, LastType
<1>5. CASE KindOf[d] # "ups" /\ ~(KindOf[d] = "line_power" /\ d \in plugged)
  <2>1. v = BatterySets(d, b)[Len(BatterySets(d, b))]
    BY <1>5 DEF ColdplugValues
  <2> QED
    BY <1>2, <2>1, BatterySetsType, LastType
<1> QED
  BY <1>3, <1>4, <1>5

-----------------------------------------------------------------------------
(* Types, and the device list.                                             *)

\* The strengthening of ListedOnce: the enumeration only has unlisted devices
\* left, and the running refresh is one of a listed device.
ListInv ==
  /\ NoRepeats(power_devices)
  /\ \A d \in Range(power_devices) : dev[d] \in KnownProps
  /\ \A d \in Device : d \notin Range(power_devices) => dev[d] = NewDevice
  /\ loop \in {"power_supply", "usb"} => sets = <<>> /\ todo \cap Range(power_devices) = {}
  /\ sets \in Seq(Range(power_devices) \X KnownProps)

StateInv == StateTypeOK /\ ListInv

LEMMA RangeInDevice == StateTypeOK => Range(power_devices) \subseteq Device
BY DEF StateTypeOK, Range

LEMMA LevelOfType == ASSUME NEW c PROVE LevelOf(c) \in WarningLevel
BY DEF LevelOf, ComputeWarningLevel, PeripheralLevel, LevelBelow, WarningLevel

\* The flags and levels an evaluation leaves.
LEMMA UpdateTypes ==
  ASSUME StateTypeOK, UpdateWarningLevel
  PROVE  /\ on_battery' \in BOOLEAN
         /\ warning_level' \in WarningLevel /\ display_level' \in WarningLevel
         /\ action_timeout_id' \in BOOLEAN /\ action_timeout_live' \in BOOLEAN
         /\ action_taken' \in BOOLEAN /\ stale' \in BOOLEAN
<1> DEFINE composite == Composite(power_devices', dev')
           level == WarningLevelLocal(composite, power_devices', dev')
           own == IF composite = display THEN display_level ELSE LevelOf(composite)
<1>1. level \in WarningLevel
  BY LevelOfType DEF WarningLevelLocal, WarningLevel
<1>2. own \in WarningLevel
  BY LevelOfType DEF StateTypeOK
<1>3. /\ on_battery' = (OnBatteryLocal(power_devices', dev') /\ ~OnAcLocal(power_devices', dev'))
      /\ display_level' = IF level = warning_level THEN own ELSE level
      /\ SetWarningLevel(level)
      /\ stale' = FALSE
  BY DEF UpdateWarningLevel
<1> HIDE DEF level, own
<1> QED
  BY <1>1, <1>2, <1>3 DEF SetWarningLevel, StateTypeOK

\* Adding an unlisted device.
LEMMA AddDeviceType ==
  ASSUME StateInv, NEW d \in Device, d \notin Range(power_devices), AddDevice(d)
  PROVE  /\ power_devices' \in Seq(Device) /\ dev' \in [Device -> Props]
         /\ stale' \in BOOLEAN /\ unread' \subseteq Device
         /\ NoRepeats(power_devices')
         /\ Range(power_devices) \subseteq Range(power_devices')
         /\ Range(power_devices') \subseteq Range(power_devices) \cup {d}
         /\ \A e \in Range(power_devices') : dev'[e] \in KnownProps
         /\ \A e \in Device : e \notin Range(power_devices') => dev'[e] = NewDevice
<1> USE DEF StateInv, ListInv
<1>1. CASE ColdplugValues(d) = {}
  BY <1>1 DEF AddDevice, StateTypeOK
<1>2. CASE ColdplugValues(d) # {}
  <2>1. PICK v \in ColdplugValues(d) : dev' = [dev EXCEPT ![d] = v]
    BY <1>2 DEF AddDevice
  <2>2. v \in KnownProps /\ v \in Props
    BY ColdplugValuesType DEF KnownProps
  <2>3. power_devices' = Append(power_devices, d) /\ stale' = TRUE /\ unread' = unread \ {d}
    BY <1>2 DEF AddDevice
  <2>4. /\ power_devices' \in Seq(Device) /\ NoRepeats(power_devices')
        /\ Range(power_devices') = Range(power_devices) \cup {d}
    BY <2>3, AppendNew DEF StateTypeOK
  <2>5. dev' \in [Device -> Props] /\ dev'[d] = v /\ \A e \in Device \ {d} : dev'[e] = dev[e]
    BY <2>1, <2>2 DEF StateTypeOK
  <2> QED
    BY <2>2, <2>3, <2>4, <2>5, RangeInDevice DEF StateTypeOK
<1> QED
  BY <1>1, <1>2

\* Starting the refresh of a listed device.
LEMMA StartRefreshType ==
  ASSUME StateInv, NEW d \in Range(power_devices), StartRefresh(d)
  PROVE  sets' \in Seq(Range(power_devices) \X KnownProps) /\ unread' \subseteq Device
<1>1. d \in Device /\ dev[d] \in KnownProps
  BY RangeInDevice DEF StateInv, ListInv
<1>2. PICK s \in RefreshSets(d, dev[d]) : sets' = [i \in DOMAIN s |-> <<d, s[i]>>]
  BY DEF StartRefresh
<1>3. s \in Seq(KnownProps)
  BY <1>1, RefreshSetsType DEF StateInv
<1>4. sets' \in Seq(Range(power_devices) \X KnownProps)
  <2>1. DOMAIN s = 1..Len(s) /\ Len(s) \in Nat
    BY <1>3
  <2>2. sets' \in [1..Len(s) -> Range(power_devices) \X KnownProps]
    BY <1>2, <1>3, <2>1
  <2> QED
    BY <2>1, <2>2
<1> QED
  BY <1>4 DEF StartRefresh, StateInv, StateTypeOK

\* A sequence of sets of listed devices is a sequence of sets of devices.
LEMMA SetsType ==
  ASSUME NEW R, R \subseteq Device, NEW s \in Seq(R \X KnownProps)
  PROVE  s \in Seq(Device \X Props)
BY DEF KnownProps

LEMMA EnvironmentKeepsState == StateInv /\ Environment => StateInv'
<1> SUFFICES ASSUME StateInv, Environment PROVE StateInv'
  OBVIOUS
<1>1. UNCHANGED <<preparing, power_devices, dev, aggregate, refresh_event_id, poll_paused,
                  handler>> /\ changes' \in Nat
  BY DEF Environment, Change, Plug, Unplug, EnvironmentStep, StateInv, StateTypeOK
<1>2. sysfs' \in [Device -> Reading] /\ plugged' \subseteq Device /\ unread' \subseteq Device
  <2>1. \A d \in Device : Readings[d] \subseteq Reading
    BY DaemonAssumption
  <2>2. Gone \in Reading
    BY DEF Gone, Reading
  <2> QED
    BY <2>1, <2>2 DEF Environment, Change, Plug, Unplug, StateInv, StateTypeOK
<1>3. uevents' \in Seq(Uevent)
  <2>1. ASSUME NEW action \in {"add", "remove", "change"}, NEW d \in Device, Send(action, d)
        PROVE  uevents' \in Seq(Uevent)
    <3>1. [action |-> action, device |-> d] \in Uevent
      BY DEF Uevent
    <3> QED
      BY <2>1, <3>1 DEF Send, StateInv, StateTypeOK
  <2> QED
    BY <2>1 DEF Environment, Change, Plug, Unplug, StateInv, StateTypeOK
<1> QED
  BY <1>1, <1>2, <1>3 DEF StateInv, StateTypeOK, ListInv, aggregate, handler

LEMMA SetPropertiesKeepsState == StateInv /\ SetProperties => StateInv'
<1> SUFFICES ASSUME StateInv, SetProperties PROVE StateInv'
  OBVIOUS
<1> DEFINE d == sets[1][1]
           v == sets[1][2]
<1>1. sets # <<>> /\ d \in Range(power_devices) /\ v \in KnownProps
  BY DEF SetProperties, StateInv, ListInv
<1>2. dev' = [dev EXCEPT ![d] = v] /\ sets' = Tail(sets) /\ UpdateWarningLevel
      /\ UNCHANGED <<kernel, power_devices, poll_paused, loop, todo>>
      /\ refresh_event_id' = (refresh_event_id \/ v.type = "line_power")
  BY DEF SetProperties
<1> HIDE DEF d, v
<1>3. dev' \in [Device -> Props] /\ v \in Props
  BY <1>1, <1>2 DEF StateInv, StateTypeOK, KnownProps
<1>4. \A e \in Range(power_devices) : dev'[e] \in KnownProps
  BY <1>1, <1>2, RangeInDevice DEF StateInv, StateTypeOK, ListInv
<1>5. \A e \in Device : e \notin Range(power_devices) => dev'[e] = NewDevice
  BY <1>1, <1>2, RangeInDevice DEF StateInv, StateTypeOK, ListInv
<1>6. sets' \in Seq(Range(power_devices) \X KnownProps)
  BY <1>1, <1>2 DEF StateInv, ListInv
<1>7. sets' \in Seq(Device \X Props)
  BY <1>6, RangeInDevice, SetsType DEF StateInv
<1>8. loop \notin {"power_supply", "usb"}
  BY <1>1 DEF StateInv, ListInv
<1> QED
  BY <1>2, <1>3, <1>4, <1>5, <1>6, <1>7, <1>8, UpdateTypes
     DEF StateInv, StateTypeOK, ListInv, kernel

LEMMA ColdplugKeepsState == StateInv /\ (ColdplugSupply \/ ColdplugUsb) => StateInv'
<1> SUFFICES ASSUME StateInv, ColdplugSupply \/ ColdplugUsb PROVE StateInv'
  OBVIOUS
<1>1. CASE ColdplugSupply /\ todo = {}
  BY <1>1 DEF ColdplugSupply, StateInv, StateTypeOK, ListInv
<1>2. CASE ~(ColdplugSupply /\ todo = {})
  <2>1. PICK d \in todo : todo' = todo \ {d} /\ AddDevice(d)
    BY <1>2 DEF ColdplugSupply, ColdplugUsb
  <2>2. /\ UNCHANGED <<sysfs, plugged, uevents, preparing, changes, on_battery, warning_level,
                       display, display_level, action_timeout_id, action_timeout_live,
                       action_taken, refresh_event_id, poll_paused, loop, sets>>
        /\ loop \in {"power_supply", "usb"}
    BY <1>2 DEF ColdplugSupply, ColdplugUsb
  <2>3. d \in Device /\ d \notin Range(power_devices) /\ sets = <<>>
    BY <2>1, <2>2 DEF StateInv, StateTypeOK, ListInv
  <2>4. todo' \cap Range(power_devices') = {}
    BY <2>1, <2>2, <2>3, AddDeviceType DEF StateInv, ListInv
  <2>5. sets' \in Seq(Range(power_devices') \X KnownProps)
    BY <2>2, <2>3
  <2> QED
    BY <2>1, <2>2, <2>3, <2>4, <2>5, AddDeviceType DEF StateInv, StateTypeOK, ListInv
<1> QED
  BY <1>1, <1>2

LEMMA StartupKeepsState == StateInv /\ Startup => StateInv'
<1> SUFFICES ASSUME StateInv, Startup PROVE StateInv'
  OBVIOUS
<1>1. /\ UpdateWarningLevel /\ loop' = "none"
      /\ UNCHANGED <<kernel, power_devices, dev, refresh_event_id, poll_paused, todo, sets>>
  BY DEF Startup
<1> QED
  BY <1>1, UpdateTypes DEF StateInv, StateTypeOK, ListInv, kernel

\* The refresh of a listed device, from the main loop or from a refresh loop.
LEMMA RefreshKeepsState ==
  ASSUME StateInv, NEW d \in Range(power_devices), StartRefresh(d), todo' \subseteq Device,
         UNCHANGED <<sysfs, plugged, preparing, changes, power_devices, dev, aggregate,
                     refresh_event_id, poll_paused, loop>>,
         uevents' \in Seq(Uevent), loop \notin {"power_supply", "usb"}
  PROVE  StateInv'
<1>1. sets' \in Seq(Range(power_devices) \X KnownProps) /\ unread' \subseteq Device
  BY StartRefreshType
<1>2. sets' \in Seq(Device \X Props)
  BY <1>1, RangeInDevice, SetsType DEF StateInv
<1> QED
  BY <1>1, <1>2 DEF StateInv, StateTypeOK, ListInv, aggregate

LEMMA RefreshNextKeepsState == StateInv /\ RefreshNext => StateInv'
<1> SUFFICES ASSUME StateInv, RefreshNext PROVE StateInv'
  OBVIOUS
<1>1. /\ loop \in {"idle", "resume"}
      /\ UNCHANGED <<sysfs, plugged, uevents, preparing, changes, power_devices, dev,
                     aggregate, refresh_event_id, poll_paused, loop>>
  BY DEF RefreshNext
<1>2. PICK d \in Range(power_devices) :
        todo' = todo \ {d} /\ (StartRefresh(d) \/ UNCHANGED <<sets, unread>>)
  BY DEF RefreshNext, Range
<1>3. todo' \subseteq Device /\ uevents' \in Seq(Uevent)
  BY <1>1, <1>2 DEF StateInv, StateTypeOK
<1>4. CASE StartRefresh(d)
  BY <1>1, <1>3, <1>4, RefreshKeepsState
<1>5. CASE UNCHANGED <<sets, unread>>
  BY <1>1, <1>3, <1>5 DEF StateInv, StateTypeOK, ListInv, aggregate
<1> QED
  BY <1>2, <1>4, <1>5

LEMMA RefreshDoneKeepsState == StateInv /\ RefreshDone => StateInv'
<1> SUFFICES ASSUME StateInv, RefreshDone PROVE StateInv'
  OBVIOUS
<1>1. /\ UNCHANGED <<kernel, power_devices, dev, aggregate, todo, sets>>
      /\ loop' = "none" /\ refresh_event_id' \in BOOLEAN /\ poll_paused' \in BOOLEAN
  BY DEF RefreshDone, StateInv, StateTypeOK
<1> QED
  BY <1>1 DEF StateInv, StateTypeOK, ListInv, kernel, aggregate

LEMMA ListRemoveOnce ==
  ASSUME StateInv, NEW d \in Range(power_devices)
  PROVE  /\ ListRemove(power_devices, d) \in Seq(Device)
         /\ NoRepeats(ListRemove(power_devices, d))
         /\ Range(ListRemove(power_devices, d)) = Range(power_devices) \ {d}
BY ListRemoveRemoves DEF StateInv, StateTypeOK, ListInv

LEMMA UeventRemoveKeepsState ==
  ASSUME StateInv, NEW d \in Device, Dispatching, UeventRemove(d), uevents' \in Seq(Uevent),
         UNCHANGED <<sysfs, plugged, preparing, changes, poll_paused, loop, todo>>
  PROVE  StateInv'
<1>1. sets = <<>> /\ loop = "none" /\ UNCHANGED <<unread, sets>>
  BY DEF Dispatching, UeventRemove
<1>2. CASE d \notin Range(power_devices)
  <2>1. UNCHANGED <<power_devices, dev, refresh_event_id, aggregate>>
    BY <1>2 DEF UeventRemove
  <2> QED
    BY <1>1, <2>1 DEF StateInv, StateTypeOK, ListInv, aggregate
<1>3. CASE d \in Range(power_devices)
  <2>1. /\ power_devices' = ListRemove(power_devices, d)
        /\ dev' = [dev EXCEPT ![d] = NewDevice]
        /\ refresh_event_id' = TRUE /\ UpdateWarningLevel
    BY <1>3 DEF UeventRemove
  <2>2. /\ power_devices' \in Seq(Device) /\ NoRepeats(power_devices')
        /\ Range(power_devices') = Range(power_devices) \ {d}
    BY <1>3, <2>1, ListRemoveOnce
  <2>3. NewDevice \in Props
    BY DEF NewDevice, Props, DeviceState
  <2>4. dev' \in [Device -> Props] /\ dev'[d] = NewDevice
        /\ \A e \in Device \ {d} : dev'[e] = dev[e]
    BY <2>1, <2>3 DEF StateInv, StateTypeOK
  <2>5. /\ \A e \in Range(power_devices') : dev'[e] \in KnownProps
        /\ \A e \in Device : e \notin Range(power_devices') => dev'[e] = NewDevice
    BY <2>2, <2>4, RangeInDevice DEF StateInv, ListInv
  <2>6. sets' \in Seq(Range(power_devices') \X KnownProps) /\ sets' \in Seq(Device \X Props)
    BY <1>1
  <2> QED
    BY <1>1, <2>1, <2>2, <2>4, <2>5, <2>6, UpdateTypes DEF StateInv, StateTypeOK, ListInv
<1> QED
  BY <1>2, <1>3

LEMMA UeventAddOrChangeKeepsState ==
  ASSUME StateInv, NEW d \in Device, Dispatching, UeventAddOrChange(d), uevents' \in Seq(Uevent),
         UNCHANGED <<sysfs, plugged, preparing, changes, poll_paused, loop, todo>>
  PROVE  StateInv'
<1>1. /\ sets = <<>> /\ loop = "none"
      /\ UNCHANGED <<on_battery, warning_level, display, display_level, action_timeout_id,
                     action_timeout_live, action_taken, refresh_event_id>>
  BY DEF Dispatching, UeventAddOrChange
<1>2. CASE d \in Range(power_devices)
  <2>1. StartRefresh(d) /\ UNCHANGED <<power_devices, dev, stale>>
    BY <1>2 DEF UeventAddOrChange
  <2>2. UNCHANGED aggregate /\ todo' \subseteq Device
    BY <1>1, <2>1 DEF aggregate, StateInv, StateTypeOK
  <2> QED
    BY <1>1, <1>2, <2>1, <2>2, RefreshKeepsState
<1>3. CASE d \notin Range(power_devices)
  <2>1. AddDevice(d) /\ UNCHANGED sets
    BY <1>3 DEF UeventAddOrChange
  <2>2. sets' \in Seq(Range(power_devices') \X KnownProps)
    BY <1>1, <2>1
  <2> QED
    BY <1>1, <1>3, <2>1, <2>2, AddDeviceType DEF StateInv, StateTypeOK, ListInv
<1> QED
  BY <1>2, <1>3

LEMMA DispatchUeventKeepsState == StateInv /\ DispatchUevent => StateInv'
<1> SUFFICES ASSUME StateInv, DispatchUevent PROVE StateInv'
  OBVIOUS
<1>1. /\ Dispatching /\ uevents # <<>> /\ uevents' = Tail(uevents)
      /\ \/ UeventRemove(Head(uevents).device)
         \/ UeventAddOrChange(Head(uevents).device)
      /\ UNCHANGED <<sysfs, plugged, preparing, changes, poll_paused, loop, todo>>
  BY DEF DispatchUevent
<1>2. uevents \in Seq(Uevent)
  BY DEF StateInv, StateTypeOK
<1>3. Head(uevents) \in Uevent /\ uevents' \in Seq(Uevent)
  BY <1>1, <1>2
<1>4. PICK d \in Device : d = Head(uevents).device
  BY <1>3 DEF Uevent
<1>5. CASE UeventRemove(d)
  BY <1>1, <1>3, <1>5, UeventRemoveKeepsState
<1>6. CASE UeventAddOrChange(d)
  BY <1>1, <1>3, <1>6, UeventAddOrChangeKeepsState
<1> QED
  BY <1>1, <1>4, <1>5, <1>6

LEMMA RefreshOneKeepsState == StateInv /\ (\E d \in Device : Refresh(d)) => StateInv'
<1> SUFFICES ASSUME StateInv, NEW d \in Device, Refresh(d) PROVE StateInv'
  OBVIOUS
<1>1. /\ Dispatching /\ d \in Range(power_devices) /\ StartRefresh(d)
      /\ UNCHANGED <<sysfs, plugged, uevents, preparing, changes, power_devices, dev, aggregate,
                     refresh_event_id, poll_paused, loop, todo>>
  BY DEF Refresh
<1>2. todo' \subseteq Device /\ uevents' \in Seq(Uevent) /\ loop = "none"
  BY <1>1 DEF Dispatching, StateInv, StateTypeOK
<1> QED
  BY <1>1, <1>2, RefreshKeepsState

LEMMA OtherHandlersKeepState ==
  StateInv /\ (RefreshBatteryDevices \/ PrepareForSleep \/ WakeUp \/ TakeActionTimeout) => StateInv'
<1> SUFFICES ASSUME StateInv,
                    RefreshBatteryDevices \/ PrepareForSleep \/ WakeUp \/ TakeActionTimeout
             PROVE StateInv'
  OBVIOUS
<1>1. CASE RefreshBatteryDevices
  BY <1>1, RangeInDevice DEF RefreshBatteryDevices, StateInv, StateTypeOK, ListInv, kernel,
                              aggregate
<1>2. CASE PrepareForSleep
  BY <1>2 DEF PrepareForSleep, StateInv, StateTypeOK, ListInv, aggregate, handler
<1>3. CASE WakeUp
  BY <1>3, RangeInDevice DEF WakeUp, StateInv, StateTypeOK, ListInv, aggregate
<1>4. CASE TakeActionTimeout
  BY <1>4 DEF TakeActionTimeout, StateInv, StateTypeOK, ListInv, kernel, handler
<1> QED
  BY <1>1, <1>2, <1>3, <1>4

LEMMA InitState == Init => StateInv
<1> SUFFICES ASSUME Init PROVE StateInv
  OBVIOUS
<1>1. Gone \in Reading /\ \A d \in Device : Readings[d] \subseteq Reading
  BY DaemonAssumption DEF Gone, Reading
<1>2. sysfs \in [Device -> Reading] /\ plugged \subseteq Device
  BY <1>1, DaemonAssumption DEF Init
<1>3. NewDevice \in Props
  BY DEF NewDevice, Props, DeviceState
<1>4. Range(power_devices) = {} /\ power_devices \in Seq(Device) /\ NoRepeats(power_devices)
  BY DEF Init, Range, NoRepeats
<1>5. sets \in Seq(Device \X Props) /\ sets \in Seq(Range(power_devices) \X KnownProps)
      /\ uevents \in Seq(Uevent)
  BY DEF Init
<1> QED
  BY <1>2, <1>3, <1>4, <1>5 DEF Init, StateInv, StateTypeOK, ListInv, WarningLevel

LEMMA StepKeepsState == StateInv /\ [Next]_vars => StateInv'
<1> SUFFICES ASSUME StateInv, [Next]_vars PROVE StateInv'
  OBVIOUS
<1>1. CASE Environment
  BY <1>1, EnvironmentKeepsState
<1>2. CASE Handler
  BY <1>2, SetPropertiesKeepsState, RefreshNextKeepsState, RefreshDoneKeepsState,
     ColdplugKeepsState, StartupKeepsState DEF Handler
<1>3. CASE DispatchUevent
  BY <1>3, DispatchUeventKeepsState
<1>4. CASE \E d \in Device : PollRefresh(d) \/ ClientRefresh(d)
  BY <1>4, RefreshOneKeepsState DEF PollRefresh, ClientRefresh
<1>5. CASE RefreshBatteryDevices \/ PrepareForSleep \/ WakeUp \/ TakeActionTimeout
  BY <1>5, OtherHandlersKeepState
<1>6. CASE UNCHANGED vars
  BY <1>6 DEF vars, StateInv, StateTypeOK, ListInv, kernel, aggregate, handler
<1> QED
  BY <1>1, <1>2, <1>3, <1>4, <1>5, <1>6 DEF Next

\* A device is listed once and only listed devices hold values: the lookup that
\* up_backend_device_add() makes is enough for every order of the startup query
\* and the uevents.
THEOREM ListedOnceSafety == Spec => []ListedOnce
<1>1. StateInv => ListedOnce
  BY DEF StateInv, ListInv, ListedOnce, NoRepeats
<1> QED
  BY <1>1, InitState, StepKeepsState, PTL DEF Spec

-----------------------------------------------------------------------------
(* The display device.                                                     *)

\* The values of the display device.
Display ==
  [type : DeviceKind, state : DeviceState, percentage : Nat, energy : Nat,
   energy_full : Nat, energy_rate : Nat, time_to_empty : Nat]

LEMMA CompositeStateType ==
  ASSUME NEW l \in Seq(Device), NEW ds \in [Device -> Props], NEW batteries
  PROVE  /\ CompositeState(l, ds, batteries) \in DeviceState
         /\ CompositeState(l, ds, batteries) = "discharging" =>
              \E d \in batteries : ds[d].state = "discharging"
<1> DEFINE Idle(d) == d \in batteries /\ ds[d].state \in {"pending_charge", "fully_charged"}
           First1 == CHOOSE i \in DOMAIN l : Idle(l[i]) /\ \A j \in DOMAIN l : Idle(l[j]) => i <= j
<1>1. CASE \E d \in Range(l) : Idle(d)
  <2>1. \E i \in DOMAIN l : Idle(l[i]) /\ \A j \in DOMAIN l : Idle(l[j]) => i <= j
    <3> DEFINE T == {i \in DOMAIN l : Idle(l[i])}
    <3>1. T # {} /\ T \in SUBSET (DOMAIN l)
      BY <1>1 DEF Range
    <3>2. PICK i \in T : \A j \in T : i <= j
      <4> HIDE DEF T
      <4> QED
        BY <3>1, LeastIndex
    <3> QED
      BY <3>2
  <2>2. First1 \in DOMAIN l /\ Idle(l[First1])
    BY <2>1
  <2>3. First(l, Idle) = l[First1]
    BY DEF First
  <2>4. ds[First(l, Idle)].state \in {"pending_charge", "fully_charged"}
    BY <2>2, <2>3
  <2> QED
    BY <1>1, <2>4 DEF CompositeState, Some, DeviceState
<1>2. CASE ~\E d \in Range(l) : Idle(d)
  BY <1>2 DEF CompositeState, Some, DeviceState
<1> QED
  BY <1>1, <1>2

\* What the display device shows of a UPS with the properties p.
ShownUps(p) ==
  [type |-> "ups", state |-> p.state, percentage |-> p.percentage, energy |-> p.energy,
   energy_full |-> p.energy_full, energy_rate |-> p.energy_rate,
   time_to_empty |-> p.time_to_empty]

\* The batteries that a composite is made of.
Batteries(l, ds) == {d \in Range(l) : ds[d].type = "battery" /\ ds[d].power_supply}

\* What it shows of batteries with this state and these sums.
ShownBatteries(batteries, state, percentage, energy, full, rate, time) ==
  [type |-> IF batteries = {} THEN "unknown" ELSE "battery",
   state |-> state,
   percentage |-> IF Cardinality(batteries) > 1 /\ full > 0 THEN (100 * energy) \div full
                  ELSE percentage,
   energy |-> energy, energy_full |-> full, energy_rate |-> rate,
   time_to_empty |->
     IF Cardinality(batteries) > 1 /\ rate > 0 /\ state = "discharging"
       THEN (3600 * energy) \div rate ELSE time]

\* The first UPS of a list that has one is one of its devices.
LEMMA FirstUps ==
  ASSUME NEW l \in Seq(Device), NEW ds, \E d \in Range(l) : ds[d].type = "ups"
  PROVE  \E d \in Range(l) :
           d \in Device /\ ds[d].type = "ups" /\ Composite(l, ds) = ShownUps(ds[d])
<1> DEFINE IsUps(d) == ds[d].type = "ups"
           i == CHOOSE n \in DOMAIN l : IsUps(l[n]) /\ \A j \in DOMAIN l : IsUps(l[j]) => n <= j
           T == {n \in DOMAIN l : IsUps(l[n])}
<1>1. T # {} /\ T \in SUBSET (DOMAIN l)
  BY DEF Range
<1>2. PICK n \in T : \A j \in T : n <= j
  <2> HIDE DEF T
  <2> QED
    BY <1>1, LeastIndex
<1>3. i \in DOMAIN l /\ IsUps(l[i])
  BY <1>2
<1>4. First(l, IsUps) = l[i]
  BY DEF First
<1>6. Some(l, IsUps)
  BY DEF Some
<1> HIDE DEF i
<1>5. l[i] \in Device /\ l[i] \in Range(l)
  BY <1>3 DEF Range
<1>7. Composite(l, ds) = ShownUps(ds[l[i]])
  BY <1>4, <1>6 DEF Composite, ShownUps
<1> QED
  BY <1>3, <1>5, <1>7

LEMMA NoUps ==
  ASSUME NEW l, NEW ds, ~\E d \in Range(l) : ds[d].type = "ups"
  PROVE  Composite(l, ds) = BatteryComposite(l, ds)
BY DEF Composite, Some

LEMMA BatteriesAreFinite ==
  ASSUME NEW l \in Seq(Device), NEW ds
  PROVE  IsFiniteSet(Batteries(l, ds)) /\ Batteries(l, ds) \subseteq Range(l)
         /\ Batteries(l, ds) \subseteq Device
<1>1. IsFiniteSet(Range(l)) /\ Batteries(l, ds) \in SUBSET Range(l)
  BY ListIsFinite DEF Batteries
<1> QED
  BY <1>1, FS_Subset DEF Range

\* The composite of the batteries, with its sums named.
LEMMA BatteryCompositeIs ==
  ASSUME NEW l \in Seq(Device), NEW ds \in [Device -> Props]
  PROVE  \E percentage, energy, full, rate, time \in Nat :
           /\ percentage = SumFunction([d \in Batteries(l, ds) |-> ds[d].percentage])
           /\ energy = SumFunction([d \in Batteries(l, ds) |-> ds[d].energy])
           /\ full = SumFunction([d \in Batteries(l, ds) |-> ds[d].energy_full])
           /\ BatteryComposite(l, ds) =
                ShownBatteries(Batteries(l, ds), CompositeState(l, ds, Batteries(l, ds)),
                               percentage, energy, full, rate, time)
<1> DEFINE batteries == Batteries(l, ds)
           percentages == [d \in batteries |-> ds[d].percentage]
           energies == [d \in batteries |-> ds[d].energy]
           fulls == [d \in batteries |-> ds[d].energy_full]
           rates == [d \in batteries |-> ds[d].energy_rate]
           times == [d \in batteries |-> ds[d].time_to_empty]
<1>1. IsFiniteSet(batteries) /\ batteries \subseteq Device
  BY BatteriesAreFinite
<1>2. /\ percentages \in [batteries -> Nat] /\ energies \in [batteries -> Nat]
      /\ fulls \in [batteries -> Nat] /\ rates \in [batteries -> Nat]
      /\ times \in [batteries -> Nat]
  <2> HIDE DEF batteries
  <2> QED
    BY <1>1 DEF Props
<1>3. /\ SumFunction(percentages) \in Nat /\ SumFunction(energies) \in Nat
      /\ SumFunction(fulls) \in Nat /\ SumFunction(rates) \in Nat
      /\ SumFunction(times) \in Nat
  <2> HIDE DEF batteries, percentages, energies, fulls, rates, times
  <2> QED
    BY <1>1, <1>2, SumFunctionNat
<1>4. BatteryComposite(l, ds) =
        ShownBatteries(batteries, CompositeState(l, ds, batteries),
                       SumFunction(percentages), SumFunction(energies), SumFunction(fulls),
                       SumFunction(rates), SumFunction(times))
  BY DEF BatteryComposite, ShownBatteries, Batteries
<1> QED
  BY <1>3, <1>4, Zenon

LEMMA ShownBatteriesType ==
  ASSUME NEW batteries, NEW state \in DeviceState, NEW percentage \in Nat, NEW energy \in Nat,
         NEW full \in Nat, NEW rate \in Nat, NEW time \in Nat
  PROVE  ShownBatteries(batteries, state, percentage, energy, full, rate, time) \in Display
<1> DEFINE several == Cardinality(batteries) > 1
           p == IF several /\ full > 0 THEN (100 * energy) \div full ELSE percentage
           t == IF several /\ rate > 0 /\ state = "discharging"
                  THEN (3600 * energy) \div rate ELSE time
           k == IF batteries = {} THEN "unknown" ELSE "battery"
<1>1. ShownBatteries(batteries, state, percentage, energy, full, rate, time) =
        [type |-> k, state |-> state, percentage |-> p, energy |-> energy,
         energy_full |-> full, energy_rate |-> rate, time_to_empty |-> t]
  BY DEF ShownBatteries
<1> HIDE DEF several
<1>2. p \in Nat /\ t \in Nat
  <2>1. 100 * energy \in Nat /\ 3600 * energy \in Nat
    OBVIOUS
  <2> QED
    BY <2>1, DivNat
<1>3. k \in DeviceKind
  BY DEF DeviceKind
<1> HIDE DEF p, t, k
<1> QED
  BY <1>1, <1>2, <1>3 DEF Display

\* Whatever the devices' properties are, the display device's are of their types.
LEMMA CompositeType ==
  ASSUME NEW l \in Seq(Device), NEW ds \in [Device -> Props]
  PROVE  Composite(l, ds) \in Display
<1>1. CASE \E d \in Range(l) : ds[d].type = "ups"
  <2>1. PICK d \in Device : Composite(l, ds) = ShownUps(ds[d])
    BY <1>1, FirstUps
  <2>2. ds[d] \in Props
    OBVIOUS
  <2> QED
    BY <2>1, <2>2 DEF Props, Display, DeviceKind, ShownUps
<1>2. CASE ~\E d \in Range(l) : ds[d].type = "ups"
  <2>1. CompositeState(l, ds, Batteries(l, ds)) \in DeviceState
    BY CompositeStateType
  <2>2. PICK percentage, energy, full, rate, time \in Nat :
          BatteryComposite(l, ds) =
            ShownBatteries(Batteries(l, ds), CompositeState(l, ds, Batteries(l, ds)),
                           percentage, energy, full, rate, time)
    <3>1. \E percentage, energy, full, rate, time \in Nat :
           /\ percentage = SumFunction([d \in Batteries(l, ds) |-> ds[d].percentage])
           /\ energy = SumFunction([d \in Batteries(l, ds) |-> ds[d].energy])
           /\ full = SumFunction([d \in Batteries(l, ds) |-> ds[d].energy_full])
           /\ BatteryComposite(l, ds) =
                ShownBatteries(Batteries(l, ds), CompositeState(l, ds, Batteries(l, ds)),
                               percentage, energy, full, rate, time)
      BY BatteryCompositeIs
    <3> QED
      BY <3>1, Zenon
  <2> QED
    BY <1>2, <2>1, <2>2, NoUps, ShownBatteriesType
<1> QED
  BY <1>1, <1>2
-----------------------------------------------------------------------------
(* The action level.                                                       *)

\* What ActionNeedsAnEmptySupply asks of the devices.
HasEmptySupply(l, ds) ==
  LET Supply == {d \in Range(l) : ds[d].type \in {"battery", "ups"}}
  IN  /\ \E d \in Supply : ds[d].state = "discharging"
      /\ policy.use_percentage =>
           \E d \in Supply : ds[d].percentage <= policy.action_percentage

LEMMA ThresholdsType ==
  /\ policy.low_percentage \in Nat /\ policy.critical_percentage \in Nat
  /\ policy.action_percentage \in Nat
<1>1. Config \in Policy
  BY DaemonAssumption
<1>2. ASSUME NEW q \in Policy PROVE LoadPercentageDefaults(q) \in Policy
  BY DEF LoadPercentageDefaults, Policy
<1>3. ASSUME NEW q \in Policy
      PROVE  /\ LoadTimeDefaults(q).low_percentage = q.low_percentage
             /\ LoadTimeDefaults(q).critical_percentage = q.critical_percentage
             /\ LoadTimeDefaults(q).action_percentage = q.action_percentage
  BY DEF LoadTimeDefaults, Policy
<1>4. PICK q \in Policy : policy = IF TimesValid(q) THEN q ELSE LoadTimeDefaults(q)
  BY <1>1, <1>2 DEF policy, PolicyConfigValidate
<1>5. /\ q.low_percentage \in Nat /\ q.critical_percentage \in Nat
      /\ q.action_percentage \in Nat
  BY DEF Policy
<1> QED
  BY <1>3, <1>4, <1>5

\* A supply at the action level is discharging and, under the percentage policy,
\* down to the action threshold.
LEMMA ActionLevel ==
  ASSUME NEW c \in Display, LevelOf(c) = "action"
  PROVE  /\ c.state = "discharging"
         /\ policy.use_percentage => c.percentage <= policy.action_percentage
<1>1. c.percentage \in Nat /\ c.time_to_empty \in Nat
  BY DEF Display
<1>2. policy.low_percentage \in Nat /\ policy.critical_percentage \in Nat
      /\ policy.action_percentage \in Nat
  BY ThresholdsType
<1>3. c.state = "discharging"
  BY DEF LevelOf, ComputeWarningLevel
<1>4. ASSUME policy.use_percentage
      PROVE  c.percentage <= policy.action_percentage
  <2>1. c.type \notin {"mouse", "keyboard"}
    BY <1>3 DEF LevelOf, ComputeWarningLevel, PeripheralLevel
  <2>2. PICK default \in {"discharging", "none"} :
          LevelBelow(c.percentage, policy.low_percentage, policy.critical_percentage,
                     policy.action_percentage, default) = "action"
    BY <1>3, <1>4, <2>1 DEF LevelOf, ComputeWarningLevel, UsePercentage
  <2> QED
    BY <1>1, <1>2, <2>2 DEF LevelBelow
<1> QED
  BY <1>3, <1>4

\* When all batteries are above k %, so is their composite.
LEMMA CompositePercentage ==
  ASSUME NEW batteries, IsFiniteSet(batteries), batteries # {},
         NEW ds, \A d \in batteries : ds[d] \in Props /\ ds[d].type = "battery" /\ Figures(ds[d]),
         NEW k \in Nat, \A d \in batteries : ds[d].percentage > k,
         NEW state, NEW rate, NEW time, NEW percentage, NEW energy, NEW full,
         percentage = SumFunction([d \in batteries |-> ds[d].percentage]),
         energy = SumFunction([d \in batteries |-> ds[d].energy]),
         full = SumFunction([d \in batteries |-> ds[d].energy_full])
  PROVE  ShownBatteries(batteries, state, percentage, energy, full, rate, time).percentage > k
<1> DEFINE percentages == [d \in batteries |-> ds[d].percentage]
           energies == [d \in batteries |-> ds[d].energy]
           fulls == [d \in batteries |-> ds[d].energy_full]
<1>1. /\ percentages \in [batteries -> Nat] /\ energies \in [batteries -> Nat]
      /\ fulls \in [batteries -> Nat]
  BY DEF Props
<1>2. ASSUME NEW d \in batteries
      PROVE  fulls[d] > 0 /\ (k + 1) * fulls[d] <= 100 * energies[d]
  <2>1. ds[d].energy \in Nat /\ ds[d].energy_full \in Nat /\ ds[d].percentage \in Nat
    BY <1>2 DEF Props
  <2>2. ds[d].energy_full > 0 /\ (100 * ds[d].energy) \div ds[d].energy_full > k
    BY <1>2, <2>1 DEF Figures
  <2>3. 100 * ds[d].energy \in Nat /\ k + 1 \in Nat
    BY <2>1
  <2>4. (100 * ds[d].energy) \div ds[d].energy_full \in Nat
    BY <2>1, <2>2, <2>3, DivNat
  <2>5. (100 * ds[d].energy) \div ds[d].energy_full >= k + 1
    BY <2>2, <2>4
  <2>6. 100 * ds[d].energy >= (k + 1) * ds[d].energy_full
    BY <2>1, <2>2, <2>3, <2>5, DivBound
  <2> QED
    BY <1>2, <2>1, <2>2, <2>3, <2>6
<1>3. energy \in Nat /\ full \in Nat /\ full > 0 /\ (k + 1) * full <= 100 * energy
  <2>1. energy = SumFunction(energies) /\ full = SumFunction(fulls) /\ k + 1 \in Nat
    OBVIOUS
  <2> HIDE DEF energies, fulls
  <2>2. SumFunction(energies) \in Nat /\ SumFunction(fulls) \in Nat
    BY <1>1, SumFunctionNat
  <2>3. SumFunction(fulls) > 0
    BY <1>1, <1>2, SumPositive
  <2>4. (k + 1) * SumFunction(fulls) <= 100 * SumFunction(energies)
    <3> DEFINE m == k + 1
    <3> HIDE DEF m
    <3>1. m \in Nat /\ \A d \in batteries : m * fulls[d] <= 100 * energies[d]
      BY <1>2, <2>1 DEF m
    <3>2. m * SumFunction(fulls) <= 100 * SumFunction(energies)
      BY <1>1, <3>1, ShareOfSums
    <3> QED
      BY <3>2 DEF m
  <2> QED
    BY <2>1, <2>2, <2>3, <2>4
<1>4. CASE Cardinality(batteries) > 1
  <2>1. ShownBatteries(batteries, state, percentage, energy, full, rate, time).percentage
          = (100 * energy) \div full
    BY <1>3, <1>4 DEF ShownBatteries
  <2>2. 100 * energy \in Nat /\ k + 1 \in Nat
    BY <1>3
  <2>3. (100 * energy) \div full >= k + 1
    BY <1>3, <2>2, DivBound
  <2>4. (100 * energy) \div full \in Nat
    BY <1>3, <2>2, DivNat
  <2> QED
    BY <2>1, <2>3, <2>4
<1>5. CASE ~(Cardinality(batteries) > 1)
  <2>1. Cardinality(batteries) = 1
    <3>1. Cardinality(batteries) \in Nat
      BY FS_CardinalityType
    <3>2. Cardinality(batteries) # 0
      BY FS_EmptySet
    <3> QED
      BY <1>5, <3>1, <3>2
  <2>2. PICK d : batteries = {d}
    BY <2>1, FS_Singleton
  <2>3. percentage = ds[d].percentage
    <3>1. percentages \in [{d} -> Nat] /\ percentage = SumFunction(percentages)
      BY <1>1, <2>2
    <3>2. percentages[d] = ds[d].percentage
      BY <2>2
    <3> HIDE DEF percentages
    <3> QED
      BY <3>1, <3>2, SumOfOne
  <2>4. ShownBatteries(batteries, state, percentage, energy, full, rate, time).percentage
          = percentage
    BY <1>5 DEF ShownBatteries
  <2> QED
    BY <2>2, <2>3, <2>4
<1> QED
  BY <1>4, <1>5

\* The level that an evaluation finds is "action" only with an empty supply.
LEMMA ActionLevelLocal ==
  ASSUME NEW l \in Seq(Device), NEW ds \in [Device -> Props],
         \A d \in Range(l) : Figures(ds[d]),
         WarningLevelLocal(Composite(l, ds), l, ds) = "action"
  PROVE  HasEmptySupply(l, ds)
<1> DEFINE c == Composite(l, ds)
<1>1. c \in Display
  BY CompositeType
<1>2. LevelOf(c) = "action" /\ c.type \in {"ups", "battery"}
  BY DEF WarningLevelLocal
<1>3. /\ c.state = "discharging"
      /\ policy.use_percentage => c.percentage <= policy.action_percentage
  BY <1>1, <1>2, ActionLevel
<1>4. CASE \E d \in Range(l) : ds[d].type = "ups"
  <2>1. PICK d \in Range(l) : ds[d].type = "ups" /\ c = ShownUps(ds[d])
    BY <1>4, FirstUps
  <2> QED
    BY <1>3, <2>1 DEF ShownUps, HasEmptySupply
<1>5. CASE ~\E d \in Range(l) : ds[d].type = "ups"
  <2> DEFINE batteries == Batteries(l, ds)
             state == CompositeState(l, ds, batteries)
  <2>1. /\ IsFiniteSet(batteries) /\ batteries \subseteq Range(l) /\ batteries \subseteq Device
        /\ \A d \in batteries : ds[d].type = "battery"
    BY BatteriesAreFinite DEF Batteries
  <2>2. PICK percentage, energy, full, rate, time \in Nat :
           /\ percentage = SumFunction([d \in batteries |-> ds[d].percentage])
           /\ energy = SumFunction([d \in batteries |-> ds[d].energy])
           /\ full = SumFunction([d \in batteries |-> ds[d].energy_full])
           /\ BatteryComposite(l, ds) =
                ShownBatteries(batteries, state, percentage, energy, full, rate, time)
    BY BatteryCompositeIs
  <2>3. c = ShownBatteries(batteries, state, percentage, energy, full, rate, time)
    BY <1>5, <2>2, NoUps
  <2>4. batteries # {} /\ state = "discharging"
    BY <1>2, <1>3, <2>3 DEF ShownBatteries
  <2>5. PICK d \in batteries : ds[d].state = "discharging"
    BY <2>4, CompositeStateType
  <2>6. ASSUME policy.use_percentage
        PROVE  \E e \in batteries : ds[e].percentage <= policy.action_percentage
    <3> DEFINE k == policy.action_percentage
    <3>1. k \in Nat
      BY ThresholdsType
    <3>2. \A e \in batteries : ds[e] \in Props /\ ds[e].percentage \in Nat
      BY <2>1 DEF Props
    <3> SUFFICES ASSUME \A e \in batteries : ds[e].percentage > k PROVE FALSE
      BY <3>1, <3>2
    <3>3. c.percentage <= k /\ c.percentage \in Nat
      BY <1>1, <1>3, <2>6 DEF Display
    <3> HIDE DEF k, batteries, state, c
    <3>4. c.percentage > k
      BY <2>1, <2>2, <2>3, <2>4, <3>1, <3>2, CompositePercentage
    <3> QED
      BY <3>1, <3>3, <3>4
  <2> HIDE DEF batteries
  <2> QED
    BY <2>1, <2>5, <2>6 DEF HasEmptySupply
<1> QED
  BY <1>4, <1>5

\* What the daemon shows is of its type, and the action level has its supply.
SupplyInv == display \in Display /\ ActionNeedsAnEmptySupply

\* An evaluation establishes both.
LEMMA UpdateMakesSupply ==
  ASSUME StateInv', UpdateWarningLevel
  PROVE  SupplyInv'
<1> DEFINE level == WarningLevelLocal(Composite(power_devices', dev'), power_devices', dev')
<1>1. display' = Composite(power_devices', dev') /\ warning_level' = level
  BY DEF UpdateWarningLevel, SetWarningLevel
<1>2. /\ power_devices' \in Seq(Device) /\ dev' \in [Device -> Props]
      /\ \A d \in Range(power_devices') : Figures(dev'[d])
  BY DEF StateInv, StateTypeOK, ListInv, KnownProps
<1>3. display' \in Display
  BY <1>1, <1>2, CompositeType
<1>4. warning_level' = "action" => HasEmptySupply(power_devices', dev')
  BY <1>1, <1>2, ActionLevelLocal
<1>5. ActionNeedsAnEmptySupply' =
        (warning_level' = "action" => HasEmptySupply(power_devices', dev'))
  BY DEF ActionNeedsAnEmptySupply, HasEmptySupply
<1> QED
  BY <1>3, <1>4, <1>5 DEF SupplyInv

\* The listed devices stay listed and keep their properties.
ListedStay ==
  \A d \in Range(power_devices) : d \in Range(power_devices') /\ dev'[d] = dev[d]

LEMMA StayKeepsSupply ==
  ASSUME SupplyInv, ListedStay, UNCHANGED <<warning_level, display>>
  PROVE  SupplyInv'
BY DEF SupplyInv, ListedStay, ActionNeedsAnEmptySupply

LEMMA AddDeviceStays ==
  ASSUME StateInv, NEW d \in Device, d \notin Range(power_devices), AddDevice(d)
  PROVE  ListedStay
<1>1. CASE ColdplugValues(d) = {}
  BY <1>1 DEF AddDevice, ListedStay
<1>2. CASE ColdplugValues(d) # {}
  <2>1. PICK v \in ColdplugValues(d) : dev' = [dev EXCEPT ![d] = v]
    BY <1>2 DEF AddDevice
  <2>2. dev \in [Device -> Props] /\ Range(power_devices) \subseteq Device
    BY RangeInDevice DEF StateInv, StateTypeOK
  <2>3. \A e \in Range(power_devices) : dev'[e] = dev[e]
    BY <2>1, <2>2
  <2> QED
    BY <2>3, AddDeviceType DEF ListedStay
<1> QED
  BY <1>1, <1>2

\* A step evaluates, or leaves the level and the listed devices alone.
LEMMA SupplyCases ==
  ASSUME StateInv, Next
  PROVE  UpdateWarningLevel \/ (ListedStay /\ UNCHANGED <<warning_level, display>>)
<1>0. UNCHANGED <<power_devices, dev>> => ListedStay
  BY DEF ListedStay
<1>1. CASE Environment
  BY <1>0, <1>1 DEF Environment, Change, Plug, Unplug, EnvironmentStep, aggregate
<1>2. CASE Handler
  <2>1. CASE SetProperties \/ Startup
    BY <2>1 DEF SetProperties, Startup
  <2>2. CASE RefreshNext \/ RefreshDone
    BY <1>0, <2>2 DEF RefreshNext, RefreshDone, aggregate
  <2>3. CASE ColdplugSupply /\ todo = {}
    BY <1>0, <2>3 DEF ColdplugSupply
  <2>4. CASE (ColdplugSupply \/ ColdplugUsb) /\ todo # {}
    <3>1. PICK d \in todo : AddDevice(d)
      BY <2>4 DEF ColdplugSupply, ColdplugUsb
    <3>2. UNCHANGED <<warning_level, display>> /\ loop \in {"power_supply", "usb"}
      BY <2>4 DEF ColdplugSupply, ColdplugUsb
    <3>3. d \in Device /\ d \notin Range(power_devices)
      BY <3>2 DEF StateInv, StateTypeOK, ListInv
    <3> QED
      BY <3>1, <3>2, <3>3, AddDeviceStays
  <2>5. ColdplugUsb => todo # {}
    BY DEF ColdplugUsb
  <2> QED
    BY <1>2, <2>1, <2>2, <2>3, <2>4, <2>5 DEF Handler
<1>3. CASE DispatchUevent
  <2>1. CASE UeventRemove(Head(uevents).device)
    BY <1>0, <2>1 DEF UeventRemove, aggregate
  <2>2. CASE UeventAddOrChange(Head(uevents).device)
    <3> DEFINE d == Head(uevents).device
    <3>1. UNCHANGED <<warning_level, display>>
      BY <2>2 DEF UeventAddOrChange
    <3>2. d \in Device
      <4>1. uevents \in Seq(Uevent) /\ uevents # <<>>
        BY <1>3 DEF DispatchUevent, StateInv, StateTypeOK
      <4>2. Head(uevents) \in Uevent
        BY <4>1
      <4> QED
        BY <4>2 DEF Uevent
    <3>3. CASE d \in Range(power_devices)
      BY <1>0, <2>2, <3>1, <3>3 DEF UeventAddOrChange
    <3>4. CASE d \notin Range(power_devices)
      BY <2>2, <3>1, <3>2, <3>4, AddDeviceStays DEF UeventAddOrChange
    <3> QED
      BY <3>3, <3>4
  <2> QED
    BY <1>3, <2>1, <2>2 DEF DispatchUevent
<1>4. CASE \E d \in Device : PollRefresh(d) \/ ClientRefresh(d)
  BY <1>0, <1>4 DEF PollRefresh, ClientRefresh, Refresh, aggregate
<1>5. CASE RefreshBatteryDevices \/ PrepareForSleep \/ WakeUp \/ TakeActionTimeout
  BY <1>0, <1>5 DEF RefreshBatteryDevices, PrepareForSleep, WakeUp, TakeActionTimeout, aggregate
<1> QED
  BY <1>1, <1>2, <1>3, <1>4, <1>5 DEF Next

LEMMA SupplyInvariant == Spec => [](StateInv /\ SupplyInv)
<1>1. Init => StateInv /\ SupplyInv
  <2>1. NoDisplay \in Display
    BY DEF NoDisplay, Display, DeviceKind, DeviceState
  <2> QED
    BY <2>1, InitState DEF Init, SupplyInv, ActionNeedsAnEmptySupply
<1>2. StateInv /\ SupplyInv /\ [Next]_vars => (StateInv /\ SupplyInv)'
  <2> SUFFICES ASSUME StateInv, SupplyInv, [Next]_vars PROVE StateInv' /\ SupplyInv'
    OBVIOUS
  <2>1. StateInv'
    BY StepKeepsState
  <2>2. CASE UpdateWarningLevel
    BY <2>1, <2>2, UpdateMakesSupply
  <2>3. CASE ListedStay /\ UNCHANGED <<warning_level, display>>
    BY <2>1, <2>3, StayKeepsSupply
  <2>4. UNCHANGED vars => ListedStay /\ UNCHANGED <<warning_level, display>>
    BY DEF vars, aggregate, ListedStay
  <2> QED
    BY <2>2, <2>3, <2>4, SupplyCases
<1> QED
  BY <1>1, <1>2, PTL DEF Spec

\* Every variable keeps its type, the sums on the display device among them:
\* whatever the batteries report, no percentage, time or state leaves its range.
THEOREM TypeSafety == Spec => []TypeOK
<1>1. StateInv /\ SupplyInv => TypeOK
  BY DEF StateInv, SupplyInv, TypeOK, Display
<1> QED
  BY <1>1, SupplyInvariant, PTL

\* The machine is only brought down for a supply that discharges and, under the
\* percentage policy, one that is itself down to the action threshold: the sum
\* of several batteries is never emptier than the emptiest of them.
THEOREM ActionSafety == Spec => []ActionNeedsAnEmptySupply
<1>1. SupplyInv => ActionNeedsAnEmptySupply
  BY DEF SupplyInv
<1> QED
  BY <1>1, SupplyInvariant, PTL
=============================================================================
