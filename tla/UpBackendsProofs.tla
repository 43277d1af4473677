-------------------------- MODULE UpBackendsProofs ---------------------------
(***************************************************************************)
(* Theorems about UpApm, UpAcpi and UpBattery, for any power, batteries,   *)
(* names of batteries, files of their drivers, energies and numbers of     *)
(* changes.                                                                *)
(***************************************************************************)
EXTENDS UpApm, UpAcpi, UpBattery, SequenceTheorems, UpLemmas

-----------------------------------------------------------------------------
(* OpenBSD: the power is told when nothing is left to do.                  *)

\* Each callback, event of the power and thread that is awake comes of a change.
Underway(event, thread) ==
  (IF event = "power" THEN 1 ELSE 0) + (IF thread = "woken" THEN 1 ELSE 0)

CallbacksComeOfChanges ==
  apm_callbacks + Underway(apm_event, apm_thread) <= apm_changes

\* What the values say of is-present: a battery that is "empty" was so at the
\* hardware, and in one way that is now hidden.
BatteryRemembers ==
  /\ apm_battery.state \in {"charging", "discharging", "fully_charged"} =>
       apm_battery.is_present = TRUE
  /\ apm_battery.state = "unknown" =>
       apm_battery.is_present = FALSE \/ apm_battery.percentage = 0
  /\ apm_battery.state = "empty" =>
       \E i \in PowerInfos : /\ LooksEmpty(i) /\ i.life = apm_battery.percentage
                             /\ apm_battery.is_present = Present(i)

\* The last part of ApmIsFollowed.
BatteryTells ==
  /\ apm_battery.percentage = apm_info.life
  /\ (Present(apm_info) /\ apm_info.ac = "on") =>
       apm_battery.state \in {"charging", "fully_charged"}
  /\ (Present(apm_info) /\ apm_info.ac = "off") => apm_battery.state = "discharging"
  /\ ~SeemsTheSame(apm_info) => apm_battery.is_present = Present(apm_info)

NothingIsUnderWay ==
  apm_coldplugged /\ apm_event # "power" /\ apm_thread # "woken" /\ apm_callbacks = 0

MainsAreTold ==
  NothingIsUnderWay => ("mains" \notin apm_missed => apm_ac = (apm_info.ac = "on"))
BatteryIsTold ==
  NothingIsUnderWay /\ ~apm_callback_at => ("battery" \notin apm_missed => BatteryTells)

ApmIInv ==
  /\ ApmTypeOK /\ CallbacksComeOfChanges
  /\ BatteryRemembers /\ MainsAreTold /\ BatteryIsTold

ApmBatteryType ==
  [state : {"unknown", "charging", "discharging", "empty", "fully_charged"},
   percentage : 0..100, time_to_empty : Nat, is_present : BOOLEAN]

LEMMA PowerInfoType ==
  ASSUME NEW i \in PowerInfos
  PROVE  /\ i.ac \in {"off", "on", "unknown"} /\ i.battery \in ApmBattery
         /\ i.life \in 0..100 /\ i.minutes \in Int
BY ApmAssumption

LEMMA NewStates ==
  ASSUME NEW i \in PowerInfos, NEW more \in BOOLEAN
  PROVE  LET state == NewBatteryState(i, more)
         IN  /\ state \in {"unknown", "charging", "discharging", "empty", "fully_charged"}
             /\ state = "unknown" <=> i.battery = "unknown"
             /\ state = "empty" => LooksEmpty(i)
             /\ i.battery = "absent" => state = "empty"
             /\ Present(i) /\ i.ac = "on" => state \in {"charging", "fully_charged"}
             /\ Present(i) /\ i.ac = "off" => state = "discharging"
<1> DEFINE state == NewBatteryState(i, more)
<1>1. i.ac \in {"off", "on", "unknown"} /\ i.battery \in ApmBattery
  BY PowerInfoType
<1>2. CASE i.battery = "absent"
  <2>1. state = "empty"
    BY <1>2 DEF NewBatteryState
  <2> QED  BY <1>2, <2>1 DEF LooksEmpty, Present
<1>3. CASE i.battery = "unknown"
  <2>1. state = "unknown"
    BY <1>3 DEF NewBatteryState
  <2> QED  BY <1>3, <2>1 DEF LooksEmpty, Present
<1>4. CASE Present(i) /\ i.ac = "on"
  <2>1. state = "fully_charged" \/ state = "charging"
    BY <1>4 DEF NewBatteryState, Present
  <2> QED  BY <1>4, <2>1 DEF Present
<1>5. CASE Present(i) /\ i.ac # "on"
  <2>1. \/ state = "discharging"
        \/ i.ac # "off" /\ state = BatteryStateValue(i.battery)
    BY <1>5, Zenon DEF NewBatteryState, Present
  <2>2. /\ BatteryStateValue(i.battery) \in {"charging", "discharging", "empty", "fully_charged"}
        /\ BatteryStateValue(i.battery) = "empty" => i.battery = "critical"
    BY <1>1, <1>5 DEF BatteryStateValue, ApmBattery, Present
  <2> HIDE DEF state
  <2>3. /\ state \in {"charging", "discharging", "empty", "fully_charged"}
        /\ state = "empty" => i.battery = "critical" /\ i.ac = "unknown"
        /\ i.ac = "off" => state = "discharging"
    BY <1>1, <1>5, <2>1, <2>2
  <2> QED  BY <1>5, <2>3 DEF state, LooksEmpty, Present
<1> QED  BY <1>2, <1>3, <1>4, <1>5 DEF Present

LEMMA BatteryIsUpdated ==
  ASSUME ApmTypeOK, BatteryRemembers, UpdateBatteryState, apm_info' = apm_info
  PROVE  apm_battery' \in ApmBatteryType /\ BatteryRemembers' /\ BatteryTells'
<1>1. apm_info \in PowerInfos /\ apm_battery \in ApmBatteryType
  BY DEF ApmTypeOK, ApmBatteryType
<1>2. PICK more \in BOOLEAN :
        LET state == NewBatteryState(apm_info, more)
            minutes == IF state = "discharging" /\ apm_info.minutes > 0
                         THEN apm_info.minutes ELSE 0
        IN  apm_battery' =
              IF \/ apm_battery.state # state
                 \/ apm_battery.percentage # apm_info.life
                 \/ apm_battery.time_to_empty # minutes
                THEN [state |-> state, percentage |-> apm_info.life,
                      time_to_empty |-> minutes * 60,
                      is_present |-> apm_info.battery \notin {"absent", "unknown"}]
                ELSE apm_battery
  BY Zenon DEF UpdateBatteryState
<1> DEFINE state == NewBatteryState(apm_info, more)
           minutes == IF state = "discharging" /\ apm_info.minutes > 0
                        THEN apm_info.minutes ELSE 0
           present == Present(apm_info)
<1>3. \/ apm_battery' = [state |-> state, percentage |-> apm_info.life,
                         time_to_empty |-> minutes * 60, is_present |-> present]
      \/ /\ apm_battery' = apm_battery
         /\ apm_battery.state = state /\ apm_battery.percentage = apm_info.life
  BY <1>2, Zenon DEF Present
<1>4. /\ state \in {"unknown", "charging", "discharging", "empty", "fully_charged"}
      /\ state = "unknown" <=> apm_info.battery = "unknown"
      /\ state = "empty" => LooksEmpty(apm_info)
      /\ apm_info.battery = "absent" => state = "empty"
      /\ present /\ apm_info.ac = "on" => state \in {"charging", "fully_charged"}
      /\ present /\ apm_info.ac = "off" => state = "discharging"
  BY <1>1, NewStates, Zenon
<1>5. apm_info.life \in 0..100 /\ minutes \in Nat
  BY <1>1, PowerInfoType
<1>6. present \in BOOLEAN
  BY Zenon DEF Present
<1>7. (present = FALSE) <=> (apm_info.battery \in {"absent", "unknown"})
  BY Zenon DEF Present
<1> HIDE DEF state, minutes, present
<1>8. /\ apm_battery' \in ApmBatteryType /\ apm_battery'.state = state
      /\ apm_battery'.percentage = apm_info.life
      /\ apm_battery'.is_present = present \/ apm_battery' = apm_battery
  BY <1>1, <1>3, <1>4, <1>5, <1>6 DEF ApmBatteryType
<1>9. BatteryRemembers'
  <2>1. CASE apm_battery' = apm_battery
    BY <2>1, Zenon DEF BatteryRemembers
  <2>2. CASE apm_battery'.is_present = present
    <3>1. state \in {"charging", "discharging", "fully_charged"} => present = TRUE
      BY <1>4, <1>6, <1>7
    <3>2. state = "unknown" => present = FALSE
      BY <1>4, <1>7
    <3> QED  BY <1>1, <1>4, <1>8, <2>2, <3>1, <3>2, Zenon DEF BatteryRemembers, present
  <2> QED  BY <1>8, <2>1, <2>2
<1>10. ASSUME ~SeemsTheSame(apm_info) PROVE apm_battery'.is_present = present
  <2>1. CASE apm_battery' = apm_battery
    <3>1. apm_battery.state = state /\ apm_battery.percentage = apm_info.life
      BY <1>8, <2>1
    <3>2. CASE state \in {"charging", "discharging", "fully_charged"}
      <4>1. present = TRUE
        BY <1>4, <1>6, <1>7, <3>2
      <4> QED  BY <2>1, <3>1, <3>2, <4>1 DEF BatteryRemembers
    <3>3. CASE state = "unknown"
      <4>1. apm_info.life # 0 /\ present = FALSE
        BY <1>4, <1>7, <1>10, <3>3 DEF SeemsTheSame
      <4> QED  BY <2>1, <3>1, <3>3, <4>1 DEF BatteryRemembers
    <3>4. CASE state = "empty"
      <4>1. PICK i \in PowerInfos : /\ LooksEmpty(i) /\ i.life = apm_info.life
                                    /\ apm_battery.is_present = Present(i)
        BY <3>1, <3>4, Zenon DEF BatteryRemembers
      <4>2. LooksEmpty(apm_info)
        BY <1>4, <3>4
      <4>3. Present(i) = Present(apm_info)
        BY <1>10, <4>1, <4>2, Zenon DEF SeemsTheSame
      <4> QED  BY <2>1, <4>1, <4>3, Zenon DEF present
    <3> QED  BY <1>4, <3>2, <3>3, <3>4
  <2> QED  BY <1>8, <2>1
<1>11. BatteryTells'
  BY <1>4, <1>8, <1>10, Zenon DEF BatteryTells, present
<1> QED  BY <1>8, <1>9, <1>11

\* The hardware, the mains and the loop may do as they like: what concerns the
\* battery holds if it is not touched, or if it is refreshed.
LEMMA LidIsUpdated ==
  ASSUME UpdateLidStatus PROVE apm_daemon_lid' \in [present : BOOLEAN, closed : BOOLEAN]
<1>1. (apm_lid # "none") \in BOOLEAN /\ (apm_lid # "open") \in BOOLEAN
  BY Zenon
<1> QED  BY <1>1, Zenon DEF UpdateLidStatus

LEMMA MainsAreUpdated ==
  ASSUME UpdateAcState
  PROVE  /\ apm_ac' = (apm_info.ac = "on") /\ apm_ac' \in BOOLEAN
         /\ apm_daemon_lid' \in [present : BOOLEAN, closed : BOOLEAN]
BY LidIsUpdated, Zenon DEF UpdateAcState

LEMMA ApmTypeParts ==
  ApmTypeOK <=>
    /\ apm_info \in PowerInfos /\ apm_lid \in LidSensors /\ apm_changes \in 0..MaxApmChanges
    /\ apm_event \in {"none", "power", "other"}
    /\ apm_thread \in {"starting", "waiting", "woken"}
    /\ apm_callbacks \in 0..MaxApmChanges /\ apm_callback_at \in BOOLEAN
    /\ apm_coldplugged \in BOOLEAN /\ apm_ac \in BOOLEAN
    /\ apm_battery \in ApmBatteryType
    /\ apm_daemon_lid \in [present : BOOLEAN, closed : BOOLEAN]
    /\ apm_missed \subseteq ApmDeviceNames
BY Zenon DEF ApmTypeOK, ApmBatteryType

LEMMA ApmStep ==
  ASSUME ApmIInv, [ApmNext]_apmVars PROVE ApmIInv'
<1>1. ApmTypeOK /\ CallbacksComeOfChanges /\ BatteryRemembers /\ MainsAreTold /\ BatteryIsTold
  BY DEF ApmIInv
<1> USE ApmTypeParts
<1>2. ASSUME ApmColdplug PROVE ApmIInv'
  <2>1. /\ apm_info' = apm_info /\ apm_lid' = apm_lid /\ apm_changes' = apm_changes
        /\ apm_event' = apm_event /\ apm_thread' = apm_thread
        /\ apm_callbacks' = apm_callbacks /\ apm_callback_at' = apm_callback_at
        /\ apm_coldplugged' = TRUE /\ UpdateAcState /\ UpdateBatteryState
        /\ apm_missed' \subseteq ApmDeviceNames
    BY <1>2, Zenon DEF ApmColdplug, apmHardwareVars
  <2>2. apm_battery' \in ApmBatteryType /\ BatteryRemembers' /\ BatteryTells'
    BY <1>1, <2>1, BatteryIsUpdated, Zenon
  <2>3. /\ apm_ac' = (apm_info.ac = "on") /\ apm_ac' \in BOOLEAN
        /\ apm_daemon_lid' \in [present : BOOLEAN, closed : BOOLEAN]
    BY <2>1, MainsAreUpdated, Zenon
  <2>4. ApmTypeOK' /\ CallbacksComeOfChanges'
    BY <1>1, <2>1, <2>2, <2>3, Zenon DEF ApmTypeOK, ApmBatteryType, CallbacksComeOfChanges
  <2> QED  BY <2>1, <2>2, <2>3, <2>4, Zenon DEF ApmIInv, MainsAreTold, BatteryIsTold
<1>3. ASSUME ApmThreadWakes PROVE ApmIInv'
  <2>1. /\ apm_info' = apm_info /\ apm_lid' = apm_lid /\ apm_changes' = apm_changes
        /\ apm_event' = "none" /\ apm_thread = "waiting"
        /\ apm_thread' = IF apm_event = "power" THEN "woken" ELSE "waiting"
        /\ UNCHANGED <<apm_callbacks, apm_callback_at, apm_coldplugged, apm_ac, apm_battery,
                       apm_daemon_lid, apm_missed>>
    BY <1>3, Zenon DEF ApmThreadWakes, apmHardwareVars
  <2>2. CallbacksComeOfChanges'
    BY <1>1, <2>1 DEF CallbacksComeOfChanges, Underway
  <2>3. ApmTypeOK' /\ BatteryRemembers'
    BY <1>1, <2>1, Zenon DEF ApmTypeOK, BatteryRemembers
  <2>4. NothingIsUnderWay' => NothingIsUnderWay
    BY <2>1 DEF NothingIsUnderWay
  <2>5. MainsAreTold' /\ BatteryIsTold'
    BY <1>1, <2>1, <2>4, Zenon DEF MainsAreTold, BatteryIsTold, BatteryTells
  <2> QED  BY <2>2, <2>3, <2>5, Zenon DEF ApmIInv
<1>4. ASSUME ApmThreadQueues PROVE ApmIInv'
  <2>1. /\ apm_info' = apm_info /\ apm_lid' = apm_lid /\ apm_changes' = apm_changes
        /\ apm_thread = "woken" /\ apm_thread' = "waiting"
        /\ apm_callbacks' = apm_callbacks + 1
        /\ UNCHANGED <<apm_event, apm_callback_at, apm_coldplugged, apm_ac, apm_battery,
                       apm_daemon_lid, apm_missed>>
    BY <1>1, <1>4, Zenon DEF ApmThreadQueues, apmHardwareVars
  <2>2. CallbacksComeOfChanges' /\ apm_callbacks' \in 0..MaxApmChanges /\ apm_callbacks' # 0
    BY <1>1, <2>1, ApmAssumption DEF CallbacksComeOfChanges, Underway
  <2>3. ApmTypeOK' /\ BatteryRemembers'
    BY <1>1, <2>1, <2>2, Zenon DEF ApmTypeOK, BatteryRemembers
  <2>4. ~NothingIsUnderWay'
    BY <2>2 DEF NothingIsUnderWay
  <2> QED  BY <2>2, <2>3, <2>4, Zenon DEF ApmIInv, MainsAreTold, BatteryIsTold
<1>5. ASSUME PowerchangeEventCb PROVE ApmIInv'
  <2>1. /\ apm_info' = apm_info /\ apm_lid' = apm_lid /\ apm_changes' = apm_changes
        /\ apm_callbacks > 0 /\ apm_callbacks' = apm_callbacks - 1
        /\ apm_callback_at' = TRUE /\ UpdateAcState /\ apm_missed' = apm_missed \ {"mains"}
        /\ apm_missed' \subseteq apm_missed
        /\ UNCHANGED <<apm_event, apm_thread, apm_coldplugged, apm_battery>>
    BY <1>1, <1>5, Zenon DEF PowerchangeEventCb, apmHardwareVars
  <2>2. CallbacksComeOfChanges' /\ apm_callbacks' \in 0..MaxApmChanges
    BY <1>1, <2>1, ApmAssumption DEF CallbacksComeOfChanges, Underway
  <2>3. /\ apm_ac' = (apm_info.ac = "on") /\ apm_ac' \in BOOLEAN
        /\ apm_daemon_lid' \in [present : BOOLEAN, closed : BOOLEAN]
    BY <2>1, MainsAreUpdated, Zenon
  <2>4. ApmTypeOK' /\ BatteryRemembers'
    BY <1>1, <2>1, <2>2, <2>3, Zenon DEF ApmTypeOK, BatteryRemembers
  <2> QED  BY <2>1, <2>2, <2>3, <2>4, Zenon DEF ApmIInv, MainsAreTold, BatteryIsTold
<1>6. ASSUME PowerchangeEventBattery PROVE ApmIInv'
  <2>1. /\ apm_info' = apm_info /\ apm_lid' = apm_lid /\ apm_changes' = apm_changes
        /\ apm_callback_at' = FALSE /\ UpdateBatteryState
        /\ apm_missed' = apm_missed \ {"battery"} /\ apm_missed' \subseteq apm_missed
        /\ "mains" \in apm_missed <=> "mains" \in apm_missed'
        /\ UNCHANGED <<apm_event, apm_thread, apm_callbacks, apm_coldplugged, apm_ac,
                       apm_daemon_lid>>
    BY <1>1, <1>6, Zenon DEF PowerchangeEventBattery, apmHardwareVars
  <2>2. apm_battery' \in ApmBatteryType /\ BatteryRemembers' /\ BatteryTells'
    BY <1>1, <2>1, BatteryIsUpdated, Zenon
  <2>3. ApmTypeOK' /\ CallbacksComeOfChanges'
    BY <1>1, <2>1, <2>2, Zenon DEF ApmTypeOK, ApmBatteryType, CallbacksComeOfChanges
  <2>4. MainsAreTold'
    BY <1>1, <2>1, Zenon DEF MainsAreTold, NothingIsUnderWay
  <2> QED  BY <2>2, <2>3, <2>4, Zenon DEF ApmIInv, BatteryIsTold
<1>7. ASSUME ApmDeviceRefresh PROVE ApmIInv'
  <2>1. /\ apm_info' = apm_info /\ apm_lid' = apm_lid /\ apm_changes' = apm_changes
        /\ UNCHANGED <<apm_event, apm_thread, apm_callbacks, apm_callback_at, apm_coldplugged>>
        /\ \/ /\ UpdateAcState /\ apm_missed' = apm_missed \ {"mains"}
              /\ UNCHANGED apm_battery
           \/ /\ UpdateBatteryState /\ apm_missed' = apm_missed \ {"battery"}
              /\ UNCHANGED <<apm_ac, apm_daemon_lid>>
    BY <1>7, Zenon DEF ApmDeviceRefresh, apmHardwareVars, apmLoopVars
  <2>2. CASE UpdateAcState /\ apm_missed' = apm_missed \ {"mains"} /\ UNCHANGED apm_battery
    <3>a. /\ apm_missed' \subseteq apm_missed
          /\ "battery" \in apm_missed <=> "battery" \in apm_missed'
      BY <2>2
    <3>1. /\ apm_ac' = (apm_info.ac = "on") /\ apm_ac' \in BOOLEAN
          /\ apm_daemon_lid' \in [present : BOOLEAN, closed : BOOLEAN]
      BY <2>2, MainsAreUpdated, Zenon
    <3>2. ApmTypeOK' /\ CallbacksComeOfChanges' /\ BatteryRemembers'
      BY <1>1, <2>1, <2>2, <3>1, <3>a, Zenon
         DEF ApmTypeOK, CallbacksComeOfChanges, BatteryRemembers
    <3>3. BatteryIsTold'
      BY <1>1, <2>1, <2>2, <3>a, Zenon DEF BatteryIsTold, NothingIsUnderWay, BatteryTells
    <3> QED  BY <2>1, <3>1, <3>2, <3>3, Zenon DEF ApmIInv, MainsAreTold
  <2>3. CASE /\ UpdateBatteryState /\ apm_missed' = apm_missed \ {"battery"}
             /\ UNCHANGED <<apm_ac, apm_daemon_lid>>
    <3>a. /\ apm_missed' \subseteq apm_missed
          /\ "mains" \in apm_missed <=> "mains" \in apm_missed'
      BY <2>3
    <3>1. apm_battery' \in ApmBatteryType /\ BatteryRemembers' /\ BatteryTells'
      BY <1>1, <2>1, <2>3, BatteryIsUpdated, Zenon
    <3>2. ApmTypeOK' /\ CallbacksComeOfChanges'
      BY <1>1, <2>1, <2>3, <3>1, <3>a, Zenon
         DEF ApmTypeOK, ApmBatteryType, CallbacksComeOfChanges
    <3>3. MainsAreTold'
      BY <1>1, <2>1, <2>3, <3>a, Zenon DEF MainsAreTold, NothingIsUnderWay
    <3> QED  BY <3>1, <3>2, <3>3, Zenon DEF ApmIInv, BatteryIsTold
  <2> QED  BY <2>1, <2>2, <2>3
<1>8. ASSUME NEW info \in PowerInfos, ApmPowerChange(info) PROVE ApmIInv'
  <2>1. /\ apm_info' \in PowerInfos /\ apm_lid' = apm_lid
        /\ apm_changes < MaxApmChanges /\ apm_changes' = apm_changes + 1
        /\ IF apm_thread = "starting" THEN apm_missed' = ApmDeviceNames /\ UNCHANGED apm_event
           ELSE apm_event' = "power" /\ UNCHANGED apm_missed
        /\ UNCHANGED <<apm_thread, apm_callbacks, apm_callback_at, apm_coldplugged, apm_ac,
                       apm_battery, apm_daemon_lid>>
    BY <1>8, Zenon DEF ApmPowerChange
  <2>2. CallbacksComeOfChanges' /\ apm_changes' \in 0..MaxApmChanges
    BY <1>1, <2>1, ApmAssumption DEF CallbacksComeOfChanges, Underway
  <2>3. apm_callbacks' \in 0..MaxApmChanges /\ apm_missed' \subseteq ApmDeviceNames
        /\ apm_event' \in {"none", "power", "other"}
    BY <1>1, <2>1
  <2>4. ApmTypeOK' /\ BatteryRemembers'
    BY <1>1, <2>1, <2>2, <2>3, Zenon DEF ApmTypeOK, BatteryRemembers
  <2>5. NothingIsUnderWay' => apm_missed' = {"mains", "battery"}
    BY <2>1 DEF NothingIsUnderWay, ApmDeviceNames
  <2>6. MainsAreTold' /\ BatteryIsTold'
    BY <2>5 DEF MainsAreTold, BatteryIsTold
  <2> QED  BY <2>2, <2>4, <2>6, Zenon DEF ApmIInv
<1>9. ASSUME NEW lid \in LidSensors, ApmLidChange(lid) PROVE ApmIInv'
  <2>1. /\ apm_info' = apm_info /\ apm_lid' \in LidSensors
        /\ apm_changes < MaxApmChanges /\ apm_changes' = apm_changes + 1
        /\ UNCHANGED <<apm_event, apm_thread, apm_callbacks, apm_callback_at, apm_coldplugged,
                       apm_ac, apm_battery, apm_daemon_lid, apm_missed>>
    BY <1>9, Zenon DEF ApmLidChange, apmLoopVars
  <2>2. CallbacksComeOfChanges' /\ apm_changes' \in 0..MaxApmChanges
    BY <1>1, <2>1, ApmAssumption DEF CallbacksComeOfChanges, Underway
  <2>a. apm_missed' \subseteq ApmDeviceNames
    BY <1>1, <2>1
  <2>b. BatteryRemembers'
    BY <1>1, <2>1, Zenon DEF BatteryRemembers
  <2>3. ApmTypeOK' /\ BatteryRemembers'
    BY <1>1, <2>1, <2>2, <2>a, <2>b DEF ApmTypeOK
  <2>4. MainsAreTold' /\ BatteryIsTold'
    BY <1>1, <2>1, Zenon DEF MainsAreTold, BatteryIsTold, NothingIsUnderWay, BatteryTells
  <2> QED  BY <2>2, <2>3, <2>4, Zenon DEF ApmIInv
<1>10. ASSUME UNCHANGED apmVars PROVE ApmIInv'
  <2>1. UNCHANGED <<apm_info, apm_lid, apm_changes, apm_event, apm_thread, apm_callbacks,
                    apm_callback_at, apm_coldplugged, apm_ac, apm_battery, apm_daemon_lid,
                    apm_missed>>
    BY <1>10, Zenon DEF apmVars, apmHardwareVars, apmLoopVars
  <2>a. apm_missed' \subseteq ApmDeviceNames
    BY <1>1, <2>1
  <2>b. BatteryRemembers' /\ CallbacksComeOfChanges'
    BY <1>1, <2>1, Zenon DEF BatteryRemembers, CallbacksComeOfChanges
  <2>2. ApmTypeOK' /\ BatteryRemembers' /\ CallbacksComeOfChanges'
    BY <1>1, <2>1, <2>a, <2>b DEF ApmTypeOK
  <2>3. MainsAreTold' /\ BatteryIsTold'
    BY <1>1, <2>1, Zenon DEF MainsAreTold, BatteryIsTold, NothingIsUnderWay, BatteryTells
  <2> QED  BY <2>2, <2>3, Zenon DEF ApmIInv
<1>11. ASSUME ApmThreadRegisters PROVE ApmIInv'
  <2>1. /\ apm_info' = apm_info /\ apm_lid' = apm_lid /\ apm_changes' = apm_changes
        /\ apm_thread = "starting" /\ apm_thread' = "waiting"
        /\ UNCHANGED <<apm_event, apm_callbacks, apm_callback_at, apm_coldplugged, apm_ac,
                       apm_battery, apm_daemon_lid, apm_missed>>
    BY <1>11, Zenon DEF ApmThreadRegisters, apmHardwareVars
  <2>2. CallbacksComeOfChanges'
    BY <1>1, <2>1 DEF CallbacksComeOfChanges, Underway
  <2>3. ApmTypeOK' /\ BatteryRemembers'
    BY <1>1, <2>1, Zenon DEF ApmTypeOK, BatteryRemembers
  <2>4. NothingIsUnderWay' => NothingIsUnderWay
    BY <2>1 DEF NothingIsUnderWay
  <2>5. MainsAreTold' /\ BatteryIsTold'
    BY <1>1, <2>1, <2>4, Zenon DEF MainsAreTold, BatteryIsTold, BatteryTells
  <2> QED  BY <2>2, <2>3, <2>5, Zenon DEF ApmIInv
<1>12. ASSUME ApmOtherEvent PROVE ApmIInv'
  <2>1. /\ apm_info' = apm_info /\ apm_lid' = apm_lid /\ apm_changes' = apm_changes
        /\ apm_event' = "other"
        /\ apm_missed' = IF apm_event = "power" THEN ApmDeviceNames ELSE apm_missed
        /\ UNCHANGED <<apm_thread, apm_callbacks, apm_callback_at, apm_coldplugged, apm_ac,
                       apm_battery, apm_daemon_lid>>
    BY <1>12, Zenon DEF ApmOtherEvent, apmHardwareVars
  <2>2. CallbacksComeOfChanges'
    BY <1>1, <2>1 DEF CallbacksComeOfChanges, Underway
  <2>3. apm_missed' \subseteq ApmDeviceNames
    BY <1>1, <2>1
  <2>4. ApmTypeOK' /\ BatteryRemembers'
    BY <1>1, <2>1, <2>3, Zenon DEF ApmTypeOK, BatteryRemembers
  <2>5. \/ apm_missed' = {"mains", "battery"}
        \/ apm_missed' = apm_missed /\ (NothingIsUnderWay' => NothingIsUnderWay)
    BY <2>1 DEF NothingIsUnderWay, ApmDeviceNames
  <2>6. MainsAreTold' /\ BatteryIsTold'
    <3>1. CASE apm_missed' = {"mains", "battery"}
      BY <3>1 DEF MainsAreTold, BatteryIsTold
    <3>2. CASE apm_missed' = apm_missed /\ (NothingIsUnderWay' => NothingIsUnderWay)
      BY <1>1, <2>1, <3>2, Zenon DEF MainsAreTold, BatteryIsTold, BatteryTells
    <3> QED  BY <2>5, <3>1, <3>2
  <2> QED  BY <2>2, <2>4, <2>6, Zenon DEF ApmIInv
<1> QED
  BY <1>2, <1>3, <1>4, <1>5, <1>6, <1>7, <1>8, <1>9, <1>10, <1>11, <1>12, Zenon DEF ApmNext

LEMMA ApmInitIsGood == ApmInit => ApmIInv
<1> SUFFICES ASSUME ApmInit PROVE ApmIInv
  OBVIOUS
<1>1. /\ apm_battery.state = "unknown" /\ apm_battery.percentage = 0
      /\ apm_battery \in ApmBatteryType
      /\ apm_daemon_lid \in [present : BOOLEAN, closed : BOOLEAN]
  BY DEF ApmInit, ApmBatteryType
<1>2. ApmTypeOK
  <2>1. /\ 0 \in 0..MaxApmChanges /\ apm_changes = 0 /\ apm_callbacks = 0
    BY ApmAssumption DEF ApmInit
  <2>2. /\ apm_callback_at \in BOOLEAN
        /\ apm_coldplugged \in BOOLEAN /\ apm_ac \in BOOLEAN
    BY Zenon DEF ApmInit
  <2>3. /\ apm_info \in PowerInfos /\ apm_lid \in LidSensors
        /\ apm_event \in {"none", "power", "other"}
        /\ apm_thread \in {"starting", "waiting", "woken"}
        /\ apm_missed \subseteq ApmDeviceNames
    BY Zenon DEF ApmInit
  <2> QED  BY <1>1, <2>1, <2>2, <2>3, ApmTypeParts, Zenon
<1>3. CallbacksComeOfChanges
  BY DEF ApmInit, CallbacksComeOfChanges, Underway
<1>4. BatteryRemembers
  BY <1>1 DEF BatteryRemembers
<1>5. ~NothingIsUnderWay
  BY DEF ApmInit, NothingIsUnderWay
<1> QED  BY <1>2, <1>3, <1>4, <1>5, Zenon DEF ApmIInv, MainsAreTold, BatteryIsTold

\* Types, and with them that no more callbacks are queued than the power changed.
THEOREM ApmTypeSafety == ApmSpec => []ApmTypeOK
<1>1. ApmIInv /\ [ApmNext]_apmVars => ApmIInv'
  BY ApmStep
<1>2. ApmIInv => ApmTypeOK
  BY DEF ApmIInv
<1> QED  BY <1>1, <1>2, ApmInitIsGood, PTL DEF ApmSpec

\* Whatever the power does between the event, the thread, the callback and its two
\* halves, the devices tell it once nothing is left to do, if its event was made
\* and not replaced by another, or if they were read since.
THEOREM ApmSafety == ApmSpec => []ApmIsFollowed
<1>1. ApmIInv /\ [ApmNext]_apmVars => ApmIInv'
  BY ApmStep
<1>2. ApmIInv => ApmIsFollowed
  <2>1. ApmIsFollowed <=>
          (NothingIsUnderWay /\ ~apm_callback_at =>
             /\ "mains" \notin apm_missed => apm_ac = (apm_info.ac = "on")
             /\ "battery" \notin apm_missed => BatteryTells)
    BY Zenon DEF ApmIsFollowed, NothingIsUnderWay, BatteryTells
  <2> QED  BY <2>1, Zenon DEF ApmIInv, MainsAreTold, BatteryIsTold
<1> QED  BY <1>1, <1>2, ApmInitIsGood, PTL DEF ApmSpec

-----------------------------------------------------------------------------
(* FreeBSD: the devices and the lid are told when devd's events are read.  *)

DevdEvent == [subsystem : {"Lid", "ACAD", "CMBAT"}, of : AcpiDevices, closed : BOOLEAN]

Flags == [BatteryUnits -> SUBSET {"not_present", "discharg", "charging", "critical"}]

AcpiTyped ==
  /\ devd_events \in Seq(DevdEvent)
  /\ devd_channel \in {"unopened", "open", "ended"}
  /\ DOMAIN acpi_devices \subseteq AcpiDevices
  /\ acpi_flags \in Flags
  /\ acpi_daemon_lid \in [present : BOOLEAN, closed : BOOLEAN]

\* What is written to a channel that is not open is lost.
NoEventsWithoutDevd == devd_channel # "open" => devd_events = <<>>

\* Every battery that is listed and tells its firmware's name can be found by it.
HandlesAreKnown ==
  DOMAIN acpi_devices \cap HasHandle \subseteq handle_map

\* An event that devd tells of a device.
TellsOf(e, d) ==
  IF d = ACLine THEN e.subsystem = "ACAD" ELSE e.subsystem = "CMBAT" /\ e.of = d

\* A device that was read tells what the hardware does, or an event of it waits
\* whose name leads to it.
DevicesAreFollowed ==
  \A d \in DOMAIN acpi_devices \ acpi_unread :
    \/ acpi_devices[d] = AcpiRead(d)
    \/ Named(d) /\ \E i \in 1..Len(devd_events) : TellsOf(devd_events[i], d)

\* The last lid event that waits tells the lid's state, and if none waits, the
\* daemon does.
NoLidEventAfter(events, i) ==
  \A j \in 1..Len(events) : j > i => events[j].subsystem # "Lid"

LidIsFollowed ==
  /\ \A i \in 1..Len(devd_events) :
       devd_events[i].subsystem = "Lid" /\ NoLidEventAfter(devd_events, i) =>
         devd_events[i].closed = (acpi_lid = "closed")
  /\ acpi_lid_told /\ NoLidEventAfter(devd_events, 0) =>
       acpi_daemon_lid.closed = (acpi_lid = "closed")

AcpiIInv ==
  /\ AcpiTyped /\ NoEventsWithoutDevd /\ HandlesAreKnown
  /\ DevicesAreFollowed /\ LidIsFollowed

\* A device that was read now is up to date, and another as it was.
LEMMA WhatIsRead ==
  ASSUME NEW devices \in SUBSET AcpiDevices, NEW failed \in SUBSET devices,
         RefreshAcpi(devices, failed), UNCHANGED <<acpi_mains, acpi_flags>>
  PROVE  /\ DOMAIN acpi_devices' = DOMAIN acpi_devices \cup (devices \ failed)
         /\ \A d \in DOMAIN acpi_devices' \ acpi_unread' :
              /\ d \in devices => acpi_devices'[d] = AcpiRead(d)'
              /\ d \notin devices =>
                   /\ d \in DOMAIN acpi_devices \ acpi_unread
                   /\ acpi_devices'[d] = acpi_devices[d] /\ AcpiRead(d)' = AcpiRead(d)
<1>1. acpi_devices' = [d \in DOMAIN acpi_devices \cup (devices \ failed) |->
                        IF d \in devices \ failed THEN AcpiRead(d) ELSE acpi_devices[d]]
  BY DEF RefreshAcpi
<1>2. acpi_unread' = (acpi_unread \ devices) \cup failed
  BY DEF RefreshAcpi
<1>3. ASSUME NEW d PROVE AcpiRead(d)' = AcpiRead(d)
  BY Zenon DEF AcpiRead
<1>4. DOMAIN acpi_devices' = DOMAIN acpi_devices \cup (devices \ failed)
  BY <1>1, Zenon
<1>5. ASSUME NEW d \in DOMAIN acpi_devices \cup (devices \ failed)
      PROVE  acpi_devices'[d] = IF d \in devices \ failed THEN AcpiRead(d) ELSE acpi_devices[d]
  BY <1>1, Zenon
<1>6. ASSUME NEW d \in DOMAIN acpi_devices' \ acpi_unread'
      PROVE  /\ d \in devices => acpi_devices'[d] = AcpiRead(d)
             /\ d \notin devices =>
                  d \in DOMAIN acpi_devices \ acpi_unread /\ acpi_devices'[d] = acpi_devices[d]
  BY <1>2, <1>4, <1>5, Zenon
<1> QED  BY <1>3, <1>4, <1>6, Zenon

\* A refresh that learns the handles of what it adds keeps the devices followed, if
\* each event that is taken away is of a device that is read.
LEMMA AcpiRefreshStep ==
  ASSUME AcpiIInv, NEW devices \in SUBSET AcpiDevices, NEW failed \in SUBSET devices,
         RefreshAcpi(devices, failed), UNCHANGED <<acpi_mains, acpi_flags>>,
         \/ LearnHandles(devices \ failed)
         \/ handle_map' = handle_map /\ devices \cap HasHandle \subseteq DOMAIN acpi_devices,
         \A d \in DOMAIN acpi_devices \ (acpi_unread \cup devices),
            i \in 1..Len(devd_events) :
           Named(d) /\ TellsOf(devd_events[i], d) =>
             \E j \in 1..Len(devd_events') : devd_events'[j] = devd_events[i]
  PROVE  HandlesAreKnown' /\ DevicesAreFollowed' /\ DOMAIN acpi_devices' \subseteq AcpiDevices
<1>1. /\ DOMAIN acpi_devices' = DOMAIN acpi_devices \cup (devices \ failed)
      /\ \A d \in DOMAIN acpi_devices' \ acpi_unread' :
           /\ d \in devices => acpi_devices'[d] = AcpiRead(d)'
           /\ d \notin devices =>
                /\ d \in DOMAIN acpi_devices \ acpi_unread
                /\ acpi_devices'[d] = acpi_devices[d] /\ AcpiRead(d)' = AcpiRead(d)
  BY WhatIsRead, Zenon
<1>2. DOMAIN acpi_devices' \subseteq AcpiDevices
  BY <1>1 DEF AcpiIInv, AcpiTyped
<1>3. HandlesAreKnown'
  <2>1. handle_map \subseteq handle_map'
    BY DEF LearnHandles
  <2>2. CASE LearnHandles(devices \ failed)
    <3>1. (devices \ failed) \cap HasHandle \subseteq handle_map'
      BY <2>2 DEF LearnHandles
    <3> QED  BY <1>1, <2>1, <3>1 DEF AcpiIInv, HandlesAreKnown
  <2>3. CASE handle_map' = handle_map /\ devices \cap HasHandle \subseteq DOMAIN acpi_devices
    BY <1>1, <2>3 DEF AcpiIInv, HandlesAreKnown
  <2> QED  BY <2>2, <2>3
<1>4. ASSUME NEW d \in DOMAIN acpi_devices' \ acpi_unread'
      PROVE  \/ acpi_devices'[d] = AcpiRead(d)'
             \/ Named(d) /\ \E i \in 1..Len(devd_events') : TellsOf(devd_events'[i], d)
  <2>1. CASE d \in devices
    BY <1>1, <2>1, Zenon
  <2>2. CASE d \notin devices
    <3>1. /\ d \in DOMAIN acpi_devices \ (acpi_unread \cup devices)
          /\ acpi_devices'[d] = acpi_devices[d] /\ AcpiRead(d)' = AcpiRead(d)
      BY <1>1, <1>4, <2>2, Zenon
    <3>2. CASE acpi_devices[d] = AcpiRead(d)
      BY <3>1, <3>2, Zenon
    <3>3. CASE Named(d) /\ \E i \in 1..Len(devd_events) : TellsOf(devd_events[i], d)
      BY <3>1, <3>3, Zenon
    <3> QED  BY <3>1, <3>2, <3>3, Zenon DEF AcpiIInv, DevicesAreFollowed
  <2> QED  BY <2>1, <2>2
<1>5. DevicesAreFollowed'
  BY <1>4, Zenon DEF DevicesAreFollowed, Named, TellsOf
<1> QED  BY <1>2, <1>3, <1>5

LEMMA TailOfEvents ==
  ASSUME AcpiTyped, devd_events # <<>>, devd_events' = Tail(devd_events)
  PROVE  /\ devd_events' \in Seq(DevdEvent) /\ Head(devd_events) = devd_events[1]
         /\ 1 \in 1..Len(devd_events) /\ devd_events[1] \in DevdEvent
         /\ \A i \in 1..Len(devd_events') :
              i + 1 \in 1..Len(devd_events) /\ devd_events'[i] = devd_events[i + 1]
         /\ \A i \in 1..Len(devd_events) : i # 1 =>
              i - 1 \in 1..Len(devd_events') /\ devd_events'[i - 1] = devd_events[i]
BY DEF AcpiTyped

\* The lid, when the first event is read.
LEMMA LidIsRead ==
  ASSUME AcpiIInv, devd_events # <<>>, devd_events' = Tail(devd_events), acpi_lid' = acpi_lid,
         IF Head(devd_events).subsystem = "Lid"
           THEN acpi_daemon_lid'.closed = Head(devd_events).closed
           ELSE UNCHANGED <<acpi_daemon_lid, acpi_lid_told>>
  PROVE  LidIsFollowed'
<1>1. AcpiTyped /\ LidIsFollowed
  BY DEF AcpiIInv
<1>2. /\ Head(devd_events) = devd_events[1] /\ 1 \in 1..Len(devd_events)
      /\ \A i \in 1..Len(devd_events') :
           i + 1 \in 1..Len(devd_events) /\ devd_events'[i] = devd_events[i + 1]
      /\ \A i \in 1..Len(devd_events) : i # 1 =>
           i - 1 \in 1..Len(devd_events') /\ devd_events'[i - 1] = devd_events[i]
  BY <1>1, TailOfEvents
<1>3. ASSUME NEW i \in Nat, NoLidEventAfter(devd_events', i)
      PROVE  NoLidEventAfter(devd_events, i + 1)
  <2>1. ASSUME NEW j \in 1..Len(devd_events), j > i + 1
        PROVE  devd_events[j].subsystem # "Lid"
    <3>1. j # 1 /\ j - 1 > i
      BY <2>1
    <3> QED  BY <1>2, <1>3, <2>1, <3>1 DEF NoLidEventAfter
  <2> QED  BY <2>1 DEF NoLidEventAfter
<1>4. ASSUME NEW i \in 1..Len(devd_events'), devd_events'[i].subsystem = "Lid",
             NoLidEventAfter(devd_events', i)
      PROVE  devd_events'[i].closed = (acpi_lid' = "closed")
  <2>1. i + 1 \in 1..Len(devd_events) /\ devd_events'[i] = devd_events[i + 1]
    BY <1>2
  <2>2. NoLidEventAfter(devd_events, i + 1)
    BY <1>3, <1>4
  <2> QED  BY <1>1, <1>4, <2>1, <2>2, Zenon DEF LidIsFollowed
<1>5. ASSUME acpi_lid_told', NoLidEventAfter(devd_events', 0)
      PROVE  acpi_daemon_lid'.closed = (acpi_lid' = "closed")
  <2>1. NoLidEventAfter(devd_events, 1)
    <3>1. 0 + 1 = 1 /\ 0 \in Nat
      OBVIOUS
    <3> QED  BY <1>3, <1>5, <3>1, Zenon
  <2>2. CASE Head(devd_events).subsystem = "Lid"
    <3>1. acpi_daemon_lid'.closed = devd_events[1].closed
      BY <1>2, <2>2, Zenon
    <3> QED  BY <1>1, <1>2, <2>1, <2>2, <3>1, Zenon DEF LidIsFollowed
  <2>3. CASE Head(devd_events).subsystem # "Lid"
    <3>1. NoLidEventAfter(devd_events, 0)
      BY <1>2, <2>1, <2>3 DEF NoLidEventAfter
    <3>2. UNCHANGED <<acpi_daemon_lid, acpi_lid_told>>
      BY <2>3
    <3> QED  BY <1>1, <1>5, <3>1, <3>2, Zenon DEF LidIsFollowed
  <2> QED  BY <2>2, <2>3
<1> QED  BY <1>4, <1>5, Zenon DEF LidIsFollowed

LEMMA NotifyStep ==
  ASSUME AcpiIInv, DevdEventCb PROVE AcpiIInv'
<1> DEFINE event == Head(devd_events)
<1>1. AcpiTyped /\ HandlesAreKnown /\ DevicesAreFollowed /\ LidIsFollowed
  BY DEF AcpiIInv
<1>2. /\ devd_events # <<>> /\ devd_events' = Tail(devd_events) /\ devd_channel = "open"
      /\ UNCHANGED <<acpi_mains, acpi_flags, acpi_lid, acpi_changes, devd_channel>>
      /\ \/ event.subsystem = "Lid" /\ NotifyLid(event.closed)
         \/ event.subsystem = "ACAD" /\ NotifyMains
         \/ event.subsystem = "CMBAT" /\ NotifyBattery(event.of)
  BY Zenon DEF DevdEventCb, acpiHardwareVars
<1>3. /\ devd_events' \in Seq(DevdEvent) /\ event = devd_events[1] /\ event \in DevdEvent
      /\ 1 \in 1..Len(devd_events)
      /\ \A i \in 1..Len(devd_events) : i # 1 =>
           i - 1 \in 1..Len(devd_events') /\ devd_events'[i - 1] = devd_events[i]
  BY <1>1, <1>2, TailOfEvents
<1>4. NoEventsWithoutDevd'
  BY <1>2 DEF NoEventsWithoutDevd
<1>5. CASE event.subsystem = "Lid"
  <2>1. NotifyLid(event.closed)
    BY <1>2, <1>5, Zenon
  <2>2. acpi_daemon_lid' = [present |-> acpi_daemon_lid.present \/ acpi_lid # "none",
                            closed |-> event.closed]
    BY <2>1, Zenon DEF NotifyLid
  <2>3. (acpi_daemon_lid.present \/ acpi_lid # "none") \in BOOLEAN /\ event.closed \in BOOLEAN
    <3>1. event.closed \in BOOLEAN
      BY <1>3 DEF DevdEvent
    <3> QED  BY <3>1, Zenon
  <2>4. /\ acpi_daemon_lid' \in [present : BOOLEAN, closed : BOOLEAN]
        /\ acpi_daemon_lid'.closed = event.closed
    <3> DEFINE present == acpi_daemon_lid.present \/ acpi_lid # "none"
    <3>1. acpi_daemon_lid' = [present |-> present, closed |-> event.closed]
      BY <2>2
    <3>2. present \in BOOLEAN
      BY <2>3
    <3> HIDE DEF present
    <3> QED  BY <2>3, <3>1, <3>2
  <2>5. LidIsFollowed'
    BY <1>2, <1>5, <2>4, LidIsRead, Zenon
  <2>6. UNCHANGED <<acpi_devices, handle_map, acpi_unread>>
    BY <2>1, Zenon DEF NotifyLid
  <2>7. AcpiTyped' /\ HandlesAreKnown'
    BY <1>1, <1>2, <1>3, <2>4, <2>6, Zenon DEF AcpiTyped, HandlesAreKnown
  <2>8. DevicesAreFollowed'
    <3>1. ASSUME NEW d \in DOMAIN acpi_devices \ acpi_unread
          PROVE  \/ acpi_devices[d] = AcpiRead(d)
                 \/ Named(d) /\ \E i \in 1..Len(devd_events') : TellsOf(devd_events'[i], d)
      <4>1. CASE acpi_devices[d] = AcpiRead(d)
        BY <4>1
      <4>2. ASSUME NEW i \in 1..Len(devd_events), TellsOf(devd_events[i], d)
            PROVE  \E j \in 1..Len(devd_events') : TellsOf(devd_events'[j], d)
        <5>1. i # 1
          BY <1>3, <1>5, <4>2 DEF TellsOf
        <5> QED  BY <1>3, <4>2, <5>1
      <4> QED  BY <1>1, <4>1, <4>2, Zenon DEF DevicesAreFollowed
    <3>2. \A d : AcpiRead(d)' = AcpiRead(d)
      BY <1>2, Zenon DEF AcpiRead
    <3> QED  BY <2>6, <3>1, <3>2, Zenon DEF DevicesAreFollowed, Named, TellsOf
  <2> QED  BY <1>4, <2>5, <2>7, <2>8 DEF AcpiIInv
<1>6. ASSUME event.subsystem # "Lid", UNCHANGED <<acpi_daemon_lid, acpi_lid_told>>,
             HandlesAreKnown', DevicesAreFollowed', DOMAIN acpi_devices' \subseteq AcpiDevices
      PROVE  AcpiIInv'
  <2>1. LidIsFollowed'
    BY <1>2, <1>6, LidIsRead, Zenon
  <2>2. AcpiTyped'
    BY <1>1, <1>2, <1>3, <1>6, Zenon DEF AcpiTyped
  <2> QED  BY <1>4, <1>6, <2>1, <2>2 DEF AcpiIInv
<1>7. ASSUME NEW devices \in SUBSET AcpiDevices, NEW failed \in SUBSET devices,
             event.subsystem # "Lid", UNCHANGED <<acpi_daemon_lid, acpi_lid_told>>,
             RefreshAcpi(devices, failed),
             \/ LearnHandles(devices \ failed)
             \/ handle_map' = handle_map /\ devices \subseteq DOMAIN acpi_devices,
             \A d \in DOMAIN acpi_devices : Named(d) /\ TellsOf(event, d) => d \in devices
      PROVE  AcpiIInv'
  <2>1. ASSUME NEW d \in DOMAIN acpi_devices \ (acpi_unread \cup devices),
               NEW i \in 1..Len(devd_events), Named(d) /\ TellsOf(devd_events[i], d)
        PROVE  \E j \in 1..Len(devd_events') : devd_events'[j] = devd_events[i]
    <3>1. i # 1
      BY <1>3, <1>7, <2>1, Zenon
    <3> QED  BY <1>3, <2>1, <3>1, Zenon
  <2>2. \/ LearnHandles(devices \ failed)
        \/ handle_map' = handle_map /\ devices \cap HasHandle \subseteq DOMAIN acpi_devices
    BY <1>7
  <2>3. HandlesAreKnown' /\ DevicesAreFollowed' /\ DOMAIN acpi_devices' \subseteq AcpiDevices
    BY <1>2, <1>7, <2>1, <2>2, AcpiRefreshStep, Zenon
  <2> QED  BY <1>6, <1>7, <2>3, Zenon
<1>8. CASE event.subsystem = "ACAD" /\ NotifyMains
  <2>1. {ACLine} \subseteq AcpiDevices
    BY DEF AcpiDevices
  <2>2. \A d : TellsOf(event, d) => d \in {ACLine}
    BY <1>8 DEF TellsOf
  <2>3. UNCHANGED <<acpi_daemon_lid, acpi_lid_told>> /\ event.subsystem # "Lid"
    BY <1>8 DEF NotifyMains
  <2>4. PICK failed \in SUBSET {ACLine} :
          /\ RefreshAcpi({ACLine}, failed)
          /\ \/ LearnHandles({ACLine} \ failed)
             \/ handle_map' = handle_map /\ {ACLine} \subseteq DOMAIN acpi_devices
    <3>1. CASE ACLine \in DOMAIN acpi_devices
      <4>1. NotifyKnown({ACLine}) /\ {ACLine} \subseteq DOMAIN acpi_devices
        BY <1>8, <3>1, Zenon DEF NotifyMains
      <4> QED  BY <4>1, Zenon DEF NotifyKnown
    <3>2. CASE ACLine \notin DOMAIN acpi_devices
      <4>1. MakeDevice({ACLine})
        BY <1>8, <3>2, Zenon DEF NotifyMains
      <4> QED  BY <4>1, Zenon DEF MakeDevice
    <3> QED  BY <3>1, <3>2
  <2> QED  BY <1>7, <2>1, <2>2, <2>3, <2>4, Zenon
<1>9. CASE event.subsystem = "CMBAT" /\ NotifyBattery(event.of)
  <2> DEFINE u == event.of
             number == FirmwareNumber[u]
  <2>1. UNCHANGED <<acpi_daemon_lid, acpi_lid_told>> /\ event.subsystem # "Lid"
    BY <1>9 DEF NotifyBattery
  <2>2. /\ DOMAIN acpi_devices \subseteq AcpiDevices
        /\ \A d : TellsOf(event, d) => d = u /\ d # ACLine
    BY <1>1, <1>9 DEF TellsOf, AcpiTyped
  <2>3. FindBattery(u) \subseteq DOMAIN acpi_devices
    BY Zenon DEF FindBattery
  <2>4. ASSUME u \in DOMAIN acpi_devices, u # ACLine, Named(u)
        PROVE  number # NoNumber /\ u \in FindBattery(u)
    <3>1. u \in BatteryUnits /\ u \in Nat /\ number \in Nat \cup {NoNumber}
      BY <2>2, <2>4, AcpiAssumption DEF AcpiDevices
    <3>2. CASE number = u
      <4>1. number # NoNumber
        BY <3>1, <3>2 DEF NoNumber
      <4> QED  BY <2>4, <3>2, <4>1, Zenon DEF FindBattery
    <3>3. CASE number # u
      <4>1. u \in HasHandle /\ number \notin BatteryUnits \cup {NoNumber}
        BY <2>4, <3>3, Zenon DEF Named
      <4>2. number \notin DOMAIN acpi_devices
        BY <2>2, <3>1, <4>1 DEF AcpiDevices, ACLine
      <4>3. u \in handle_map
        BY <1>1, <2>4, <4>1, Zenon DEF HandlesAreKnown
      <4> QED  BY <2>4, <4>1, <4>2, <4>3, Zenon DEF FindBattery
    <3> QED  BY <3>2, <3>3
  <2>5. \A d \in DOMAIN acpi_devices :
          Named(d) /\ TellsOf(event, d) => number # NoNumber /\ d \in FindBattery(u)
    <3>1. ASSUME NEW d \in DOMAIN acpi_devices, Named(d), TellsOf(event, d)
          PROVE  number # NoNumber /\ d \in FindBattery(u)
      <4>1. d = u /\ d # ACLine
        BY <2>2, <3>1, Zenon
      <4>2. u \in DOMAIN acpi_devices /\ u # ACLine /\ Named(u)
        BY <3>1, <4>1, Zenon
      <4> QED  BY <2>4, <4>1, <4>2, Zenon
    <3> QED  BY <3>1
  <2>6. CASE number = NoNumber
    <3>1. UNCHANGED <<acpi_devices, acpi_unread, handle_map>>
      BY <1>9, <2>6, Zenon DEF NotifyBattery
    <3>2. HandlesAreKnown' /\ DOMAIN acpi_devices' \subseteq AcpiDevices
      BY <1>1, <2>2, <3>1, Zenon DEF HandlesAreKnown
    <3>3. \A d : AcpiRead(d)' = AcpiRead(d)
      BY <1>2, Zenon DEF AcpiRead
    <3>4. ASSUME NEW d \in DOMAIN acpi_devices, Named(d), NEW i \in 1..Len(devd_events),
                 TellsOf(devd_events[i], d)
          PROVE  \E j \in 1..Len(devd_events') : TellsOf(devd_events'[j], d)
      <4>1. i # 1
        BY <1>3, <2>5, <2>6, <3>4, Zenon
      <4> QED  BY <1>3, <3>4, <4>1, Zenon
    <3>5. DevicesAreFollowed'
      BY <1>1, <3>1, <3>3, <3>4, Zenon DEF DevicesAreFollowed, Named, TellsOf
    <3> QED  BY <1>6, <2>1, <3>2, <3>5, Zenon
  <2>7. CASE number # NoNumber /\ FindBattery(u) # {}
    <3>1. PICK failed \in SUBSET FindBattery(u) : RefreshAcpi(FindBattery(u), failed)
      BY <1>9, <2>7, Zenon DEF NotifyBattery, NotifyKnown
    <3>2. handle_map' = handle_map
      BY <1>9, <2>7, Zenon DEF NotifyBattery, NotifyKnown
    <3>3. FindBattery(u) \subseteq AcpiDevices
      BY <2>2, <2>3
    <3> QED  BY <1>7, <2>1, <2>3, <2>5, <3>1, <3>2, <3>3, Zenon
  <2>8. CASE number # NoNumber /\ FindBattery(u) = {}
    <3> DEFINE unit == {number} \cap BatteryUnits
    <3>1. PICK failed \in SUBSET unit : RefreshAcpi(unit, failed) /\ LearnHandles(unit \ failed)
      BY <1>9, <2>8, Zenon DEF NotifyBattery, MakeDevice
    <3>2. unit \subseteq AcpiDevices
      BY DEF AcpiDevices
    <3>3. \A d \in DOMAIN acpi_devices : Named(d) /\ TellsOf(event, d) => d \in unit
      BY <2>5, <2>8
    <3> HIDE DEF unit
    <3> QED  BY <1>7, <2>1, <3>1, <3>2, <3>3, Zenon
  <2> QED  BY <2>6, <2>7, <2>8
<1> QED  BY <1>2, <1>5, <1>8, <1>9, Zenon

\* What a step that reads devices does not touch, and one that touches neither.
LEMMA SameLid ==
  ASSUME LidIsFollowed, acpi_lid' = acpi_lid, devd_events' = devd_events,
         acpi_lid_told' = acpi_lid_told, acpi_daemon_lid'.closed = acpi_daemon_lid.closed
  PROVE  LidIsFollowed'
BY Zenon DEF LidIsFollowed, NoLidEventAfter

LEMMA SameDevices ==
  ASSUME AcpiIInv, UNCHANGED <<acpi_mains, acpi_flags, acpi_devices, acpi_unread, handle_map,
                              devd_events>>
  PROVE  HandlesAreKnown' /\ DevicesAreFollowed'
<1>1. \A d : AcpiRead(d)' = AcpiRead(d)
  BY Zenon DEF AcpiRead
<1> QED
  BY <1>1, Zenon DEF AcpiIInv, HandlesAreKnown, DevicesAreFollowed, Named, TellsOf

LEMMA ColdplugStep ==
  ASSUME AcpiIInv, AcpiColdplug PROVE AcpiIInv'
<1>1. PICK failed \in SUBSET AcpiDevices :
        RefreshAcpi(AcpiDevices, failed) /\ LearnHandles(AcpiDevices \ failed)
  BY Zenon DEF AcpiColdplug
<1>2. UNCHANGED <<acpi_mains, acpi_flags, acpi_lid, devd_events, devd_channel, acpi_lid_told>>
  BY Zenon DEF AcpiColdplug, acpiHardwareVars, acpiDevdVars
<1>3. HandlesAreKnown' /\ DevicesAreFollowed' /\ DOMAIN acpi_devices' \subseteq AcpiDevices
  BY <1>1, <1>2, AcpiRefreshStep, Zenon
<1>4. /\ acpi_daemon_lid' \in [present : BOOLEAN, closed : BOOLEAN]
      /\ acpi_daemon_lid'.closed = acpi_daemon_lid.closed
  <2> DEFINE present == acpi_lid # "none"
  <2>1. acpi_daemon_lid' = [acpi_daemon_lid EXCEPT !.present = present] /\ present \in BOOLEAN
    BY Zenon DEF AcpiColdplug
  <2> HIDE DEF present
  <2> QED  BY <2>1 DEF AcpiIInv, AcpiTyped
<1>5. LidIsFollowed'
  BY <1>2, <1>4, SameLid, Zenon DEF AcpiIInv
<1>6. AcpiTyped' /\ NoEventsWithoutDevd'
  BY <1>2, <1>3, <1>4, Zenon DEF AcpiIInv, AcpiTyped, NoEventsWithoutDevd
<1> QED  BY <1>3, <1>5, <1>6 DEF AcpiIInv

LEMMA TimerStep ==
  ASSUME AcpiIInv, RefreshDevices PROVE AcpiIInv'
<1>1. PICK failed \in SUBSET DOMAIN acpi_devices : RefreshAcpi(DOMAIN acpi_devices, failed)
  BY Zenon DEF RefreshDevices
<1>2. UNCHANGED <<acpi_mains, acpi_flags, acpi_lid, devd_events, devd_channel, acpi_lid_told,
                  handle_map, acpi_daemon_lid>>
  BY Zenon DEF RefreshDevices, acpiHardwareVars, acpiDevdVars
<1>3. DOMAIN acpi_devices \in SUBSET AcpiDevices
  BY DEF AcpiIInv, AcpiTyped
<1>4. HandlesAreKnown' /\ DevicesAreFollowed' /\ DOMAIN acpi_devices' \subseteq AcpiDevices
  BY <1>1, <1>2, <1>3, AcpiRefreshStep, Zenon
<1>5. LidIsFollowed'
  BY <1>2, SameLid, Zenon DEF AcpiIInv
<1>6. AcpiTyped' /\ NoEventsWithoutDevd'
  BY <1>2, <1>4, Zenon DEF AcpiIInv, AcpiTyped, NoEventsWithoutDevd
<1> QED  BY <1>4, <1>5, <1>6 DEF AcpiIInv

LEMMA DevdSteps ==
  ASSUME AcpiIInv, DevdInit \/ DevdGoes PROVE AcpiIInv'
<1>1. UNCHANGED <<acpi_mains, acpi_flags, acpi_lid, devd_events, acpi_devices, handle_map,
                  acpi_daemon_lid, acpi_unread, acpi_lid_told>>
  BY Zenon DEF DevdInit, DevdGoes, acpiHardwareVars
<1>2. devd_channel' \in {"unopened", "open", "ended"}
  BY Zenon DEF DevdInit, DevdGoes, AcpiIInv, AcpiTyped
<1>3. devd_channel' # "open" => devd_events = <<>>
  BY Zenon DEF DevdInit, DevdGoes, AcpiIInv, NoEventsWithoutDevd
<1>4. AcpiTyped' /\ NoEventsWithoutDevd'
  BY <1>1, <1>2, <1>3, Zenon DEF AcpiIInv, AcpiTyped, NoEventsWithoutDevd
<1>5. HandlesAreKnown' /\ DevicesAreFollowed' /\ LidIsFollowed'
  BY <1>1, SameDevices, SameLid, Zenon DEF AcpiIInv
<1> QED  BY <1>4, <1>5 DEF AcpiIInv

\* A change that devd tells: its event is the last, and one that it does not tell,
\* or under a name that does not lead to it, leaves the device unread.
HardwareChanges(subsystem, device, closed) ==
  /\ subsystem \in {"Lid", "ACAD", "CMBAT"} /\ device \in AcpiDevices /\ closed \in BOOLEAN
  /\ AcpiEvent(subsystem, device, closed)
  /\ acpi_flags' \in Flags
  /\ \A d \in DOMAIN acpi_devices :
       d # device \/ subsystem = "Lid" => AcpiRead(d)' = AcpiRead(d)
  /\ subsystem # "Lid" =>
       \A e \in DevdEvent : e.subsystem = subsystem /\ e.of = device => TellsOf(e, device)
  /\ IF subsystem = "Lid" THEN closed = (acpi_lid' = "closed") ELSE acpi_lid' = acpi_lid

LEMMA ChangeStep ==
  ASSUME AcpiIInv, NEW subsystem, NEW device, NEW closed,
         HardwareChanges(subsystem, device, closed)
  PROVE  AcpiIInv'
<1> USE DEF HardwareChanges
<1> DEFINE event == [subsystem |-> subsystem, of |-> device, closed |-> closed]
           unread == acpi_unread \cup ({device} \cap DOMAIN acpi_devices)
<1>1. AcpiTyped /\ NoEventsWithoutDevd /\ HandlesAreKnown /\ DevicesAreFollowed /\ LidIsFollowed
  BY DEF AcpiIInv
<1>2. /\ UNCHANGED <<devd_channel, acpi_devices, handle_map, acpi_daemon_lid>>
      /\ \/ devd_channel = "open" /\ devd_events' = Append(devd_events, event)
         \/ devd_channel # "open" /\ UNCHANGED devd_events
      /\ \/ /\ UNCHANGED acpi_unread
            /\ subsystem = "Lid" \/ (devd_channel = "open" /\ Named(device))
         \/ acpi_unread' = unread /\ subsystem # "Lid"
  BY Zenon DEF AcpiEvent
<1>3. HandlesAreKnown'
  BY <1>1, <1>2, Zenon DEF HandlesAreKnown
<1>4. ASSUME NEW d \in DOMAIN acpi_devices \ acpi_unread',
             \A i \in 1..Len(devd_events) : i \in 1..Len(devd_events')
                                           /\ devd_events'[i] = devd_events[i],
             devd_channel = "open" => \E i \in 1..Len(devd_events') : devd_events'[i] = event
      PROVE  \/ acpi_devices[d] = AcpiRead(d)'
             \/ Named(d) /\ \E i \in 1..Len(devd_events') : TellsOf(devd_events'[i], d)
  <2>1. d \in DOMAIN acpi_devices \ acpi_unread
    BY <1>2, <1>4
  <2>2. CASE d # device \/ subsystem = "Lid"
    <3>1. AcpiRead(d)' = AcpiRead(d)
      BY <2>1, <2>2, Zenon
    <3> QED  BY <1>1, <1>4, <2>1, <3>1, Zenon DEF DevicesAreFollowed
  <2>3. CASE d = device /\ subsystem # "Lid"
    <3>1. devd_channel = "open" /\ Named(device)
      <4>1. acpi_unread' # unread
        BY <1>4, <2>3
      <4> HIDE DEF unread
      <4> QED  BY <1>2, <2>3, <4>1, Zenon
    <3>2. event \in DevdEvent /\ event.subsystem = subsystem /\ event.of = device
      BY DEF DevdEvent
    <3> HIDE DEF event
    <3>3. TellsOf(event, device)
      BY <2>3, <3>2, Zenon
    <3> QED  BY <1>4, <2>3, <3>1, <3>3, Zenon
  <2> QED  BY <2>2, <2>3
<1>5. CASE devd_channel = "open" /\ devd_events' = Append(devd_events, event)
  <2> DEFINE n == Len(devd_events)
  <2>1. /\ event \in DevdEvent /\ event.subsystem = subsystem /\ event.closed = closed
    BY DEF DevdEvent
  <2>2. devd_events \in Seq(DevdEvent) /\ n \in Nat
    BY <1>1 DEF AcpiTyped
  <2> HIDE DEF event
  <2>4. /\ devd_events' \in Seq(DevdEvent) /\ Len(devd_events') = n + 1
        /\ devd_events'[n + 1] = event
        /\ \A i \in 1..n : devd_events'[i] = devd_events[i]
    BY <1>5, <2>1, <2>2
  <2>5. AcpiTyped' /\ NoEventsWithoutDevd'
    BY <1>1, <1>2, <1>5, <2>4, Zenon DEF AcpiTyped, NoEventsWithoutDevd
  <2>6. 1..n \subseteq 1..(n + 1) /\ n + 1 \in 1..(n + 1)
    BY <2>2
  <2>7. DevicesAreFollowed'
    <3>1. /\ \A i \in 1..Len(devd_events) : i \in 1..Len(devd_events')
                                           /\ devd_events'[i] = devd_events[i]
          /\ \E i \in 1..Len(devd_events') : devd_events'[i] = event
      BY <2>4, <2>6
    <3>2. ASSUME NEW d \in DOMAIN acpi_devices \ acpi_unread'
          PROVE  \/ acpi_devices[d] = AcpiRead(d)'
                 \/ Named(d) /\ \E i \in 1..Len(devd_events') : TellsOf(devd_events'[i], d)
      BY <1>4, <3>1, <3>2, Zenon
    <3> QED  BY <1>2, <3>2, Zenon DEF DevicesAreFollowed, Named, TellsOf
  <2>8. LidIsFollowed'
    <3>1. CASE subsystem = "Lid"
      <4>1. ASSUME NEW i \in 1..(n + 1), NoLidEventAfter(devd_events', i)
            PROVE  i = n + 1
        BY <2>1, <2>2, <2>4, <2>6, <3>1, <4>1 DEF NoLidEventAfter
      <4>2. ~NoLidEventAfter(devd_events', 0)
        BY <2>1, <2>2, <2>4, <2>6, <3>1 DEF NoLidEventAfter
      <4>3. event.closed = (acpi_lid' = "closed")
        BY <2>1, <3>1, Zenon
      <4> QED  BY <2>4, <4>1, <4>2, <4>3, Zenon DEF LidIsFollowed
    <3>2. CASE subsystem # "Lid"
      <4>1. ASSUME NEW i, NoLidEventAfter(devd_events', i)
            PROVE  NoLidEventAfter(devd_events, i)
        BY <2>4, <2>6, <4>1 DEF NoLidEventAfter
      <4>2. ASSUME NEW i \in 1..(n + 1), devd_events'[i].subsystem = "Lid"
            PROVE  i \in 1..n
        BY <2>1, <2>2, <2>4, <3>2, <4>2
      <4>3. acpi_lid' = acpi_lid /\ (acpi_lid_told' => acpi_lid_told)
        BY <3>2, Zenon DEF AcpiEvent
      <4> QED  BY <1>1, <1>2, <2>4, <4>1, <4>2, <4>3, Zenon DEF LidIsFollowed
    <3> QED  BY <3>1, <3>2
  <2> QED  BY <1>3, <2>5, <2>7, <2>8 DEF AcpiIInv
<1>6. CASE devd_channel # "open" /\ UNCHANGED devd_events
  <2>1. AcpiTyped' /\ NoEventsWithoutDevd'
    BY <1>1, <1>2, <1>6, Zenon DEF AcpiTyped, NoEventsWithoutDevd
  <2>2. DevicesAreFollowed'
    <3>1. ASSUME NEW d \in DOMAIN acpi_devices \ acpi_unread'
          PROVE  \/ acpi_devices[d] = AcpiRead(d)'
                 \/ Named(d) /\ \E i \in 1..Len(devd_events') : TellsOf(devd_events'[i], d)
      BY <1>4, <1>6, <3>1, Zenon
    <3> QED  BY <1>2, <3>1, Zenon DEF DevicesAreFollowed, Named, TellsOf
  <2>3. LidIsFollowed'
    <3>1. devd_events' = devd_events /\ Len(devd_events) = 0
      BY <1>1, <1>6 DEF NoEventsWithoutDevd
    <3>2. \A i : i \notin 1..0
      OBVIOUS
    <3>3. acpi_lid_told' => acpi_lid_told /\ subsystem # "Lid" /\ acpi_lid' = acpi_lid
      BY <1>6, Zenon DEF AcpiEvent
    <3> QED
      BY <1>1, <1>2, <3>1, <3>2, <3>3, Zenon DEF LidIsFollowed, NoLidEventAfter
  <2> QED  BY <1>3, <2>1, <2>2, <2>3 DEF AcpiIInv
<1> QED  BY <1>2, <1>5, <1>6

LEMMA HardwareSteps ==
  ASSUME AcpiIInv,
         \/ MainsChange \/ LidChange
         \/ \E u \in BatteryUnits, flags \in AcpiFlags : BatteryChange(u, flags)
  PROVE  AcpiIInv'
<1>1. acpi_flags \in Flags /\ DOMAIN acpi_devices \subseteq AcpiDevices
  BY DEF AcpiIInv, AcpiTyped
<1>2. ACLine \in AcpiDevices /\ ACLine \notin BatteryUnits
  BY AcpiAssumption DEF ACLine, AcpiDevices
<1>3. ASSUME MainsChange PROVE AcpiIInv'
  <2>1. AcpiEvent("ACAD", ACLine, FALSE) /\ UNCHANGED <<acpi_flags, acpi_lid>>
    BY <1>3, Zenon DEF MainsChange
  <2>2. \A d \in DOMAIN acpi_devices : d # ACLine \/ "ACAD" = "Lid" => AcpiRead(d)' = AcpiRead(d)
    <3>1. \A d \in DOMAIN acpi_devices : d # ACLine => AcpiRead(d)' = AcpiRead(d)
      BY <2>1, Zenon DEF AcpiRead
    <3> QED  BY <3>1
  <2>3. \A e \in DevdEvent :
          e.subsystem = "ACAD" /\ e.of = ACLine => TellsOf(e, ACLine)
    BY Zenon DEF TellsOf
  <2>4. acpi_flags' \in Flags
    BY <1>1, <2>1, Zenon
  <2>5. IF "ACAD" = "Lid" THEN FALSE = (acpi_lid' = "closed") ELSE acpi_lid' = acpi_lid
    BY <2>1
  <2>6. FALSE \in BOOLEAN /\ "ACAD" \in {"Lid", "ACAD", "CMBAT"}
    OBVIOUS
  <2>7. HardwareChanges("ACAD", ACLine, FALSE)
    BY <1>2, <2>1, <2>2, <2>3, <2>4, <2>5, <2>6, Zenon DEF HardwareChanges
  <2> QED  BY <2>7, ChangeStep
<1>4. ASSUME LidChange PROVE AcpiIInv'
  <2> DEFINE closed == acpi_lid' = "closed"
  <2>1. AcpiEvent("Lid", ACLine, closed) /\ UNCHANGED <<acpi_mains, acpi_flags>>
    BY <1>4, Zenon DEF LidChange
  <2>2. \A d : AcpiRead(d)' = AcpiRead(d)
    BY <2>1, Zenon DEF AcpiRead
  <2>3. acpi_flags' \in Flags
    BY <1>1, <2>1, Zenon
  <2>4. closed \in BOOLEAN /\ closed = (acpi_lid' = "closed") /\ "Lid" \in {"Lid", "ACAD", "CMBAT"}
    BY Zenon
  <2> HIDE DEF closed
  <2>5. HardwareChanges("Lid", ACLine, closed)
    BY <1>2, <2>1, <2>2, <2>3, <2>4, Zenon DEF HardwareChanges
  <2> QED  BY <2>5, ChangeStep
<1>5. ASSUME NEW u \in BatteryUnits, NEW flags \in AcpiFlags, BatteryChange(u, flags)
      PROVE  AcpiIInv'
  <2>1. /\ acpi_flags' = [acpi_flags EXCEPT ![u] = flags]
        /\ AcpiEvent("CMBAT", u, FALSE)
        /\ UNCHANGED <<acpi_mains, acpi_lid>>
    BY <1>5, Zenon DEF BatteryChange
  <2>2. /\ acpi_flags' \in Flags
        /\ \A d \in BatteryUnits : d # u => acpi_flags'[d] = acpi_flags[d]
    BY <1>1, <2>1, AcpiAssumption DEF Flags
  <2>3. ASSUME NEW d \in DOMAIN acpi_devices, d # u PROVE AcpiRead(d)' = AcpiRead(d)
    <3>1. CASE d = ACLine
      BY <2>1, <3>1, Zenon DEF AcpiRead
    <3>2. CASE d # ACLine
      <4>1. acpi_flags'[d] = acpi_flags[d]
        BY <1>1, <2>2, <2>3, <3>2 DEF AcpiDevices
      <4> QED  BY <3>2, <4>1, Zenon DEF AcpiRead
    <3> QED  BY <3>1, <3>2
  <2>4. \A d \in DOMAIN acpi_devices : d # u \/ "CMBAT" = "Lid" => AcpiRead(d)' = AcpiRead(d)
    BY <2>3
  <2>5. \A e \in DevdEvent : e.subsystem = "CMBAT" /\ e.of = u => TellsOf(e, u)
    <3>1. u # ACLine
      BY <1>2
    <3> QED  BY <3>1, Zenon DEF TellsOf
  <2>6. IF "CMBAT" = "Lid" THEN FALSE = (acpi_lid' = "closed") ELSE acpi_lid' = acpi_lid
    BY <2>1
  <2>7. /\ FALSE \in BOOLEAN /\ "CMBAT" \in {"Lid", "ACAD", "CMBAT"} /\ u \in AcpiDevices
    BY DEF AcpiDevices
  <2>8. HardwareChanges("CMBAT", u, FALSE)
    BY <2>1, <2>2, <2>4, <2>5, <2>6, <2>7, Zenon DEF HardwareChanges
  <2> QED  BY <2>8, ChangeStep
<1> QED  BY <1>3, <1>4, <1>5, Zenon

LEMMA AcpiStep ==
  ASSUME AcpiIInv, [AcpiNext]_acpiVars PROVE AcpiIInv'
<1>1. ASSUME UNCHANGED acpiVars PROVE AcpiIInv'
  <2>1. UNCHANGED <<acpi_mains, acpi_flags, acpi_lid, devd_events, devd_channel, acpi_devices,
                    handle_map, acpi_daemon_lid, acpi_unread, acpi_lid_told>>
    BY <1>1, Zenon DEF acpiVars, acpiHardwareVars, acpiDevdVars
  <2>2. AcpiTyped' /\ NoEventsWithoutDevd'
    BY <2>1, Zenon DEF AcpiIInv, AcpiTyped, NoEventsWithoutDevd
  <2>3. HandlesAreKnown' /\ DevicesAreFollowed' /\ LidIsFollowed'
    BY <2>1, SameDevices, SameLid, Zenon DEF AcpiIInv
  <2> QED  BY <2>2, <2>3 DEF AcpiIInv
<1> QED
  BY <1>1, ColdplugStep, DevdSteps, NotifyStep, TimerStep, HardwareSteps, Zenon DEF AcpiNext

LEMMA AcpiInitIsGood == AcpiInit => AcpiIInv
<1> SUFFICES ASSUME AcpiInit PROVE AcpiIInv
  OBVIOUS
<1>1. /\ devd_events = <<>> /\ devd_channel = "unopened" /\ DOMAIN acpi_devices = {}
      /\ acpi_lid_told = FALSE
  BY DEF AcpiInit
<1>2. /\ acpi_flags \in Flags
      /\ acpi_daemon_lid \in [present : BOOLEAN, closed : BOOLEAN]
  BY DEF AcpiInit, Flags
<1>3. AcpiTyped /\ NoEventsWithoutDevd
  BY <1>1, <1>2 DEF AcpiTyped, NoEventsWithoutDevd
<1>4. HandlesAreKnown /\ DevicesAreFollowed
  BY <1>1 DEF HandlesAreKnown, DevicesAreFollowed
<1>5. LidIsFollowed
  <2>1. Len(devd_events) = 0
    BY <1>1
  <2>2. \A i : i \notin 1..0
    OBVIOUS
  <2> QED  BY <1>1, <2>1, <2>2, Zenon DEF LidIsFollowed
<1> QED  BY <1>3, <1>4, <1>5 DEF AcpiIInv

\* Once devd's events are read, the mains, the batteries and a lid that was told of
\* are told as they are, for any names and numbers of the firmware's; excepted are
\* those in acpi_unread, among them batteries that changed under a name that does
\* not lead to them, up to the timer.
THEOREM AcpiSafety == AcpiSpec => []AcpiIsFollowed
<1>1. AcpiIInv /\ [AcpiNext]_acpiVars => AcpiIInv'
  BY AcpiStep
<1>2. ASSUME AcpiIInv PROVE AcpiIsFollowed
  <2> SUFFICES ASSUME devd_events = <<>>
               PROVE  /\ \A d \in DOMAIN acpi_devices \ acpi_unread :
                           acpi_devices[d] = AcpiRead(d)
                      /\ acpi_lid_told => acpi_daemon_lid.closed = (acpi_lid = "closed")
    BY Zenon DEF AcpiIsFollowed
  <2>1. Len(devd_events) = 0
    OBVIOUS
  <2>2. \A i : i \notin 1..0
    OBVIOUS
  <2>3. \A d \in DOMAIN acpi_devices \ acpi_unread : acpi_devices[d] = AcpiRead(d)
    BY <1>2, <2>1, <2>2, Zenon DEF AcpiIInv, DevicesAreFollowed
  <2>4. acpi_lid_told => acpi_daemon_lid.closed = (acpi_lid = "closed")
    BY <1>2, <2>1, <2>2, Zenon DEF AcpiIInv, LidIsFollowed, NoLidEventAfter
  <2> QED  BY <2>3, <2>4
<1> QED  BY <1>1, <1>2, AcpiInitIsGood, PTL DEF AcpiSpec

\* What the variables are that AcpiTyped does not speak of.
AcpiRest ==
  /\ acpi_mains \in BOOLEAN /\ acpi_flags \in [BatteryUnits -> AcpiFlags]
  /\ acpi_lid \in {"none", "open", "closed"} /\ acpi_changes \in 0..MaxAcpiChanges
  /\ acpi_step \in {"devices", "connect", "running"} /\ acpi_unread \subseteq AcpiDevices
  /\ handle_map \subseteq BatteryUnits /\ acpi_lid_told \in BOOLEAN

\* Devices that are read are no others, nor are the names they are known by.
LEMMA AcpiReadTypes ==
  ASSUME AcpiRest, NEW devices \in SUBSET AcpiDevices, NEW failed \in SUBSET devices,
         RefreshAcpi(devices, failed), LearnHandles(devices \ failed) \/ UNCHANGED handle_map
  PROVE  acpi_unread' \subseteq AcpiDevices /\ handle_map' \subseteq BatteryUnits
<1>1. acpi_unread' \subseteq AcpiDevices
  BY DEF AcpiRest, RefreshAcpi
<1>2. handle_map' \subseteq BatteryUnits
  BY AcpiAssumption DEF AcpiRest, LearnHandles
<1> QED  BY <1>1, <1>2

\* An event of the hardware.
LEMMA EventTypes ==
  ASSUME AcpiRest, NEW subsystem, NEW device \in AcpiDevices, NEW closed,
         AcpiEvent(subsystem, device, closed)
  PROVE  /\ acpi_changes' \in 0..MaxAcpiChanges /\ acpi_unread' \subseteq AcpiDevices
         /\ acpi_lid_told' \in BOOLEAN /\ UNCHANGED <<acpi_step, handle_map>>
<1>1. acpi_changes' \in 0..MaxAcpiChanges
  BY AcpiAssumption DEF AcpiRest, AcpiEvent
<1>2. acpi_unread' \subseteq AcpiDevices
  BY DEF AcpiRest, AcpiEvent
<1>3. acpi_lid_told' \in BOOLEAN
  BY Zenon DEF AcpiRest, AcpiEvent
<1> QED  BY <1>1, <1>2, <1>3 DEF AcpiEvent

LEMMA RestStep ==
  ASSUME AcpiIInv, AcpiRest, [AcpiNext]_acpiVars
  PROVE  AcpiRest'
<1>1. DOMAIN acpi_devices \subseteq AcpiDevices /\ devd_events \in Seq(DevdEvent)
  BY DEF AcpiIInv, AcpiTyped
<1>2. ASSUME NEW devices \in SUBSET AcpiDevices, NEW failed \in SUBSET devices,
             RefreshAcpi(devices, failed), LearnHandles(devices \ failed) \/ UNCHANGED handle_map,
             UNCHANGED <<acpiHardwareVars, acpi_lid_told>>,
             acpi_step' \in {"devices", "connect", "running"}
      PROVE  AcpiRest'
  <2>1. acpi_unread' \subseteq AcpiDevices /\ handle_map' \subseteq BatteryUnits
    BY <1>2, AcpiReadTypes
  <2> QED  BY <1>2, <2>1 DEF AcpiRest, acpiHardwareVars
<1>3. CASE AcpiColdplug
  <2>1. PICK failed \in SUBSET AcpiDevices :
          RefreshAcpi(AcpiDevices, failed) /\ LearnHandles(AcpiDevices \ failed)
    BY <1>3 DEF AcpiColdplug
  <2>2. acpi_step' = "connect" /\ UNCHANGED <<acpiHardwareVars, acpi_lid_told>>
    BY <1>3 DEF AcpiColdplug
  <2> QED  BY <1>2, <2>1, <2>2
<1>4. CASE DevdInit \/ DevdGoes
  BY <1>4 DEF DevdInit, DevdGoes, AcpiRest, acpiHardwareVars
<1>5. CASE DevdEventCb
  <2> DEFINE event == Head(devd_events)
  <2>1. event \in DevdEvent
    BY <1>1, <1>5 DEF DevdEventCb
  <2>2. UNCHANGED <<acpiHardwareVars, acpi_step>>
    BY <1>5 DEF DevdEventCb
  <2>3. acpi_step' \in {"devices", "connect", "running"}
    BY <2>2 DEF AcpiRest
  <2>4. CASE NotifyLid(event.closed)
    BY <2>2, <2>4 DEF NotifyLid, AcpiRest, acpiHardwareVars
  <2>5. ASSUME NEW device \in SUBSET AcpiDevices, NotifyKnown(device) \/ MakeDevice(device),
               UNCHANGED acpi_lid_told
        PROVE  AcpiRest'
    <3>1. PICK failed \in SUBSET device :
            /\ RefreshAcpi(device, failed)
            /\ LearnHandles(device \ failed) \/ UNCHANGED handle_map
      BY <2>5, Zenon DEF NotifyKnown, MakeDevice
    <3> QED  BY <1>2, <2>2, <2>3, <2>5, <3>1, Zenon
  <2>6. CASE NotifyMains
    <3>1. NotifyKnown({ACLine}) \/ MakeDevice({ACLine})
      BY <2>6, Zenon DEF NotifyMains
    <3>2. {ACLine} \subseteq AcpiDevices /\ UNCHANGED acpi_lid_told
      BY <2>6 DEF AcpiDevices, NotifyMains
    <3> QED  BY <2>5, <3>1, <3>2, Zenon
  <2>7. CASE NotifyBattery(event.of)
    <3> DEFINE u == event.of
               unit == {FirmwareNumber[u]} \cap BatteryUnits
    <3>1. \/ NotifyKnown(FindBattery(u)) \/ MakeDevice(unit)
          \/ UNCHANGED <<acpi_devices, acpi_unread, handle_map>>
      BY <2>7, Zenon DEF NotifyBattery
    <3>2. FindBattery(u) \subseteq AcpiDevices /\ unit \subseteq AcpiDevices
      BY <1>1 DEF FindBattery, AcpiDevices
    <3>3. UNCHANGED acpi_lid_told
      BY <2>7, Zenon DEF NotifyBattery
    <3>4. CASE UNCHANGED <<acpi_devices, acpi_unread, handle_map>>
      BY <2>2, <3>3, <3>4 DEF AcpiRest, acpiHardwareVars
    <3> HIDE DEF unit
    <3> QED  BY <2>5, <3>1, <3>2, <3>3, <3>4, Zenon
  <2> QED  BY <1>5, <2>4, <2>6, <2>7, Zenon DEF DevdEventCb
<1>6. CASE RefreshDevices
  <2>1. PICK failed \in SUBSET DOMAIN acpi_devices : RefreshAcpi(DOMAIN acpi_devices, failed)
    BY <1>6 DEF RefreshDevices
  <2>2. acpi_step' \in {"devices", "connect", "running"}
        /\ UNCHANGED <<acpiHardwareVars, acpi_lid_told, handle_map>>
    BY <1>6 DEF RefreshDevices, AcpiRest
  <2> QED  BY <1>1, <1>2, <2>1, <2>2
<1>7. CASE MainsChange
  <2>1. /\ acpi_mains' = ~acpi_mains /\ UNCHANGED <<acpi_flags, acpi_lid>>
        /\ AcpiEvent("ACAD", ACLine, FALSE)
    BY <1>7, Zenon DEF MainsChange
  <2>2. ACLine \in AcpiDevices
    BY DEF AcpiDevices
  <2>3. /\ acpi_changes' \in 0..MaxAcpiChanges /\ acpi_unread' \subseteq AcpiDevices
        /\ acpi_lid_told' \in BOOLEAN /\ UNCHANGED <<acpi_step, handle_map>>
    BY <2>1, <2>2, EventTypes
  <2> QED  BY <2>1, <2>3 DEF AcpiRest
<1>8. CASE LidChange
  <2>1. /\ acpi_lid' \in {"none", "open", "closed"} /\ UNCHANGED <<acpi_mains, acpi_flags>>
        /\ AcpiEvent("Lid", ACLine, acpi_lid' = "closed")
    BY <1>8 DEF LidChange
  <2>2. ACLine \in AcpiDevices
    BY DEF AcpiDevices
  <2>3. /\ acpi_changes' \in 0..MaxAcpiChanges /\ acpi_unread' \subseteq AcpiDevices
        /\ acpi_lid_told' \in BOOLEAN /\ UNCHANGED <<acpi_step, handle_map>>
    BY <2>1, <2>2, EventTypes
  <2> QED  BY <2>1, <2>3 DEF AcpiRest
<1>9. ASSUME NEW u \in BatteryUnits, NEW flags \in AcpiFlags, BatteryChange(u, flags)
      PROVE  AcpiRest'
  <2>1. /\ acpi_flags' = [acpi_flags EXCEPT ![u] = flags] /\ UNCHANGED <<acpi_mains, acpi_lid>>
        /\ AcpiEvent("CMBAT", u, FALSE)
    BY <1>9, Zenon DEF BatteryChange
  <2>2. u \in AcpiDevices
    BY DEF AcpiDevices
  <2>3. /\ acpi_changes' \in 0..MaxAcpiChanges /\ acpi_unread' \subseteq AcpiDevices
        /\ acpi_lid_told' \in BOOLEAN /\ UNCHANGED <<acpi_step, handle_map>>
    BY <2>1, <2>2, EventTypes
  <2>4. acpi_flags' \in [BatteryUnits -> AcpiFlags]
    BY <2>1 DEF AcpiRest
  <2> QED  BY <2>1, <2>3, <2>4 DEF AcpiRest
<1>10. CASE UNCHANGED acpiVars
  BY <1>10 DEF AcpiRest, acpiVars, acpiHardwareVars
<1> QED
  BY <1>3, <1>4, <1>5, <1>6, <1>7, <1>8, <1>9, <1>10, Zenon DEF AcpiNext

\* The invariant with all the types.
AcpiAll == AcpiIInv /\ AcpiRest

LEMMA AcpiInitAll == AcpiInit => AcpiAll
<1>1. ASSUME AcpiInit PROVE AcpiRest
  <2>1. acpi_flags \in [BatteryUnits -> AcpiFlags] /\ acpi_changes \in 0..MaxAcpiChanges
    BY <1>1, AcpiAssumption DEF AcpiInit
  <2>2. acpi_mains \in BOOLEAN /\ acpi_lid_told \in BOOLEAN
    BY <1>1, Zenon DEF AcpiInit
  <2>3. acpi_unread = {} /\ handle_map = {} /\ acpi_lid \in {"none", "open", "closed"}
        /\ acpi_step = "devices"
    BY <1>1 DEF AcpiInit
  <2> QED  BY <2>1, <2>2, <2>3 DEF AcpiRest
<1> QED  BY <1>1, AcpiInitIsGood DEF AcpiAll

LEMMA AcpiStepAll == AcpiAll /\ [AcpiNext]_acpiVars => AcpiAll'
BY AcpiStep, RestStep DEF AcpiAll

LEMMA AcpiTypesFollow == AcpiAll => AcpiTypeOK
BY Zenon DEF AcpiAll, AcpiIInv, AcpiTyped, AcpiRest, AcpiTypeOK

-----------------------------------------------------------------------------
(* A battery's figures: the energies that are remembered are of one        *)
(* battery, and so is the full energy.                                     *)

EmptyRing == [i \in Slots |-> NoSlot]

KindOf(f) == [names |-> f.names, full |-> f.full]

\* What the driver of one of the batteries can say.
KnownFiles == {f \in BatteryFile : KindOf(f) \in BatteryKinds /\ f.cell \in CellLevels(f.full)}

RingSlot == [energy : Nat, time : 0..MaxBatteryClock]

BatteryPrivs ==
  [coldplugged : BOOLEAN, units : {"energy", "charge"}, ring : [Slots -> RingSlot],
   first : Slots, rate_old : Nat \X Nat]

BatteryTypes ==
  /\ bat_files \in KnownFiles
  /\ bat_clock \in TicksPerSecond..MaxBatteryClock /\ bat_upsets \in 0..MaxUpsets
  /\ bat_priv \in BatteryPrivs
  /\ bat_shown \in [present : BOOLEAN, read : KnownFiles, energy : Nat, full : Nat,
                    rate : Nat \X Nat, state : CellStatus \cup {"unknown"}]
  /\ bat_broken \in [ring : BOOLEAN, rate : BOOLEAN, full : BOOLEAN]

Believable(rate) == rate[1] <= 2 * MaxSlope * rate[2]

\* The full energy is read once for each battery, the ring is emptied with the
\* rest, and the rate that is kept is one the driver told.
FiguresAreRemembered ==
  /\ bat_priv.coldplugged <=> bat_shown.present
  /\ ~bat_shown.present => bat_priv.ring = EmptyRing
  /\ Believable(bat_priv.rate_old)
  /\ bat_shown.present => /\ bat_shown.energy = EnergyTold(bat_shown.read, bat_shown.full)
                          /\ bat_shown.energy <= bat_shown.full
  /\ bat_shown.present /\ ~bat_broken.full =>
       /\ KindOf(bat_shown.read) = KindOf(bat_files)
       /\ bat_files.names \cap FullFiles # {} => bat_shown.full = bat_files.full

\* The figures a and b are no further apart than so many ticks allow.
Near(a, b, ticks) == a - b <= MaxStep * ticks /\ b - a <= MaxStep * ticks

\* One energy that is remembered, seen from the battery and from the newest, of
\* which only the second is known.
RememberedAt(ring, first, i, cell, clock) ==
  ring[i].time # 0 =>
    /\ TicksPerSecond * ring[i].time <= clock
    /\ ring[i].time <= ring[first].time
    /\ ring[i].energy # 0 => Near(cell, ring[i].energy, clock - TicksPerSecond * ring[i].time)
    /\ ring[i].energy # 0 /\ ring[first].energy # 0 =>
         Near(ring[first].energy, ring[i].energy,
              TicksPerSecond * (ring[first].time - ring[i].time + 1))

OneBattery(ring, first, cell, clock) ==
  \A i \in Slots : RememberedAt(ring, first, i, cell, clock)

RingIsOneBattery ==
  ~bat_broken.ring => OneBattery(bat_priv.ring, bat_priv.first, bat_files.cell, bat_clock)

RateIsBounded == bat_shown.present /\ ~bat_broken.rate => Believable(bat_shown.rate)

BatteryIInv == BatteryTypes /\ FiguresAreRemembered /\ RingIsOneBattery /\ RateIsBounded

\* An empty ring is of any battery.
LEMMA EmptyRingIsOneBattery ==
  ASSUME NEW first \in Slots, NEW cell, NEW clock
  PROVE  OneBattery(EmptyRing, first, cell, clock)
BY DEF OneBattery, RememberedAt, EmptyRing, NoSlot, Slots

\* What a division by the voltage gives back, and what a share of a hundred is.
LEMMA DivisionIsExact ==
  ASSUME NEW a \in Nat, NEW d \in Nat, d > 0
  PROVE  /\ a \div d \in Nat /\ (a \div d) * d <= a /\ a < (a \div d) * d + d
         /\ a % d = 0 => (a \div d) * d = a
OBVIOUS

LEMMA MultipleOfMultiple ==
  ASSUME NEW a \in Nat, NEW b \in Nat, b > 0, NEW d \in Nat, d > 0, a % b = 0, b % d = 0
  PROVE  a % d = 0
<1>1. PICK m \in Nat : a = m * b
  <2>1. a = (a \div b) * b /\ a \div b \in Nat
    BY DivisionIsExact
  <2> QED
    BY <2>1
<1>2. PICK n \in Nat : b = n * d
  <2>1. b = (b \div d) * d /\ b \div d \in Nat
    BY DivisionIsExact
  <2> QED
    BY <2>1
<1>3. a = (m * n) * d /\ m * n \in Nat
  BY <1>1, <1>2
<1>4. \A k \in Nat : (k * d) % d = 0
  OBVIOUS
<1> QED
  BY <1>3, <1>4

\* What is read: the energy or none of it, and no rate but the battery's own.
LEMMA ReadIsRight ==
  ASSUME NEW f \in KnownFiles
  PROVE  /\ f.cell \in Nat /\ f.full \in Nat \ {0} /\ f.cell <= f.full
         /\ f.full % 100 = 0
         /\ EnergyRead(f) \in {0, f.cell}
         /\ HasFigures(f) => EnergyRead(f) = f.cell /\ f.names \cap FullFiles # {}
         /\ RateRead(f) \in Nat /\ RateRead(f) <= MaxSlope
         /\ (IF EnergyFull(f) = 0 THEN ChargeFull(f) * DesignVoltage ELSE EnergyFull(f))
              = IF f.names \cap FullFiles # {} THEN f.full ELSE 0
<1> USE BatteryAssumption
<1>1. /\ f.cell \in Nat /\ f.full \in Nat \ {0} /\ f.cell <= f.full /\ f.power \in 0..MaxSlope
      /\ f.cell % Grain = 0 /\ f.full % Grain = 0 /\ f.full % 100 = 0 /\ Grain % DesignVoltage = 0
      /\ f.names \subseteq BatteryFileNames
  <2>1. KindOf(f).full % Grain = 0 /\ KindOf(f).full % 100 = 0
    BY DEF KnownFiles
  <2>2. f.cell \in CellLevels(f.full) /\ f.full \in Nat \ {0} /\ f.power \in PowerReadings
        /\ f.names \subseteq BatteryFileNames
    BY DEF KnownFiles, BatteryFile
  <2>3. KindOf(f).full = f.full
    BY DEF KindOf
  <2>4. f.cell \in 0..f.full /\ f.cell % Grain = 0
    BY <2>2 DEF CellLevels
  <2>5. f.cell \in Nat /\ f.cell <= f.full
    BY <2>2, <2>4
  <2>6. f.power \in 0..MaxSlope
    BY <2>2
  <2> HIDE BatteryAssumption
  <2> QED
    BY <2>1, <2>2, <2>3, <2>4, <2>5, <2>6, BatteryAssumption, Zenon
<1>2. /\ (f.cell \div DesignVoltage) * DesignVoltage = f.cell
      /\ (f.full \div DesignVoltage) * DesignVoltage = f.full
      /\ f.cell \div DesignVoltage \in Nat /\ f.full \div DesignVoltage \in Nat
      /\ f.power \div DesignVoltage \in Nat /\ f.power \in Nat /\ f.power <= MaxSlope
      /\ (f.power \div DesignVoltage) * DesignVoltage <= f.power
  <2>1. f.cell % DesignVoltage = 0 /\ f.full % DesignVoltage = 0
    <3> HIDE BatteryAssumption
    <3>1. /\ f.cell \in Nat /\ f.full \in Nat /\ Grain \in Nat /\ Grain > 0 /\ DesignVoltage \in Nat
          /\ DesignVoltage > 0
      BY <1>1, BatteryAssumption
    <3> QED
      BY <1>1, <3>1, MultipleOfMultiple
  <2>2. f.power \in Nat /\ f.power <= MaxSlope
    BY <1>1
  <2>3. ASSUME NEW a \in Nat
        PROVE  /\ a \div DesignVoltage \in Nat /\ (a \div DesignVoltage) * DesignVoltage <= a
               /\ a % DesignVoltage = 0 => (a \div DesignVoltage) * DesignVoltage = a
    <3>1. DesignVoltage \in Nat /\ DesignVoltage > 0
      OBVIOUS
    <3> HIDE BatteryAssumption
    <3> QED
      BY <3>1, DivisionIsExact
  <2>4. f.full \in Nat
    BY <1>1
  <2> HIDE BatteryAssumption
  <2> QED
    BY <1>1, <2>1, <2>2, <2>3, <2>4, Zenon
<1> HIDE DEF MaxSlope
<1>3. EnergyNow(f) \in {0, f.cell} /\ ChargeNow(f) * DesignVoltage \in {0, f.cell}
  BY <1>2 DEF EnergyNow, ChargeNow, Figure
<1>4. EnergyRead(f) \in {0, f.cell}
  BY <1>3 DEF EnergyRead
<1>5. ASSUME HasFigures(f)
      PROVE  EnergyRead(f) = f.cell /\ f.names \cap FullFiles # {}
  <2>1. CASE f.names \cap EnergyFiles # {} /\ "energy_full" \in f.names
    <3>1. EnergyNow(f) = f.cell
      BY <2>1 DEF EnergyNow, Figure
    <3>2. EnergyRead(f) = f.cell
      BY <1>3, <3>1 DEF EnergyRead
    <3> QED
      BY <2>1, <3>2 DEF FullFiles
  <2>2. CASE /\ f.names \cap EnergyFiles = {} /\ f.names \cap ChargeFiles # {} /\ PowerNow(f) = 0
             /\ f.names \cap FullFiles = {"charge_full"}
    <3>1. EnergyNow(f) = 0 /\ ChargeNow(f) = f.cell \div DesignVoltage
      BY <2>2 DEF EnergyNow, ChargeNow, Figure
    <3>2. EnergyRead(f) = f.cell
      BY <1>2, <2>2, <3>1 DEF EnergyRead
    <3> QED
      BY <2>2, <3>2
  <2> QED
    BY <1>5, <2>1, <2>2 DEF HasFigures
<1>6. RateRead(f) \in Nat /\ RateRead(f) <= MaxSlope
  <2>1. PowerNow(f) \in {0, f.power}
    BY DEF PowerNow, Figure
  <2>2. ChargeFull(f) # 0 => CurrentNow(f) \in {0, f.power \div DesignVoltage}
    BY DEF CurrentNow, Figure
  <2>3. ChargeFull(f) = 0 => CurrentNow(f) \in {0, f.power}
    BY DEF CurrentNow, Figure
  <2>4. /\ CurrentNow(f) * (IF ChargeFull(f) # 0 THEN DesignVoltage ELSE 1) \in Nat
        /\ CurrentNow(f) * (IF ChargeFull(f) # 0 THEN DesignVoltage ELSE 1) <= f.power
    <3>1. CASE ChargeFull(f) # 0
      <4>1. CurrentNow(f) * DesignVoltage \in {0, (f.power \div DesignVoltage) * DesignVoltage}
        BY <1>2, <2>2, <3>1
      <4>2. (f.power \div DesignVoltage) * DesignVoltage \in Nat
        BY <1>2
      <4> QED
        BY <1>2, <3>1, <4>1, <4>2
    <3>2. CASE ChargeFull(f) = 0
      BY <1>2, <2>3, <3>2
    <3> QED
      BY <3>1, <3>2
  <2>5. 0 \in Nat /\ 0 <= MaxSlope /\ f.power \in Nat /\ f.power <= MaxSlope /\ MaxSlope \in Nat
    BY <1>2 DEF MaxSlope
  <2> DEFINE told == CurrentNow(f) * (IF ChargeFull(f) # 0 THEN DesignVoltage ELSE 1)
             rate == IF PowerNow(f) # 0 THEN PowerNow(f) ELSE told
  <2>6. RateRead(f) = IF rate > RateCap THEN 0 ELSE rate
    BY DEF RateRead
  <2> HIDE DEF told
  <2>7. told \in Nat /\ told <= f.power
    BY <2>4 DEF told
  <2>8. rate \in Nat /\ rate <= MaxSlope
    BY <2>1, <2>5, <2>7
  <2> HIDE DEF rate
  <2> QED
    BY <2>5, <2>6, <2>8
<1>7. (IF EnergyFull(f) = 0 THEN ChargeFull(f) * DesignVoltage ELSE EnergyFull(f))
        = IF f.names \cap FullFiles # {} THEN f.full ELSE 0
  <2>1. CASE "energy_full" \in f.names
    BY <1>1, <2>1 DEF EnergyFull, Figure, FullFiles
  <2>2. CASE "energy_full" \notin f.names /\ "charge_full" \in f.names
    <3>1. EnergyFull(f) = 0 /\ ChargeFull(f) = f.full \div DesignVoltage
      BY <2>2 DEF EnergyFull, ChargeFull, Figure
    <3> QED
      BY <1>2, <2>2, <3>1 DEF FullFiles
  <2>3. CASE "energy_full" \notin f.names /\ "charge_full" \notin f.names
    <3>1. EnergyFull(f) = 0 /\ ChargeFull(f) = 0
      BY <2>3 DEF EnergyFull, ChargeFull, Figure
    <3> QED
      BY <2>3, <3>1 DEF FullFiles
  <2> QED
    BY <2>1, <2>2, <2>3
<1> QED
  BY <1>1, <1>4, <1>5, <1>6, <1>7

\* An energy that is stored is the newest of the ring; when it is the battery's, or
\* none, the ring is of one battery as before.
LEMMA PushedRing ==
  ASSUME NEW priv \in BatteryPrivs, NEW energy \in Nat, NEW cell \in Nat,
         bat_clock \in TicksPerSecond..MaxBatteryClock
  PROVE  LET pushed == PushNewEnergy(priv, energy)
         IN  /\ pushed \in BatteryPrivs
             /\ pushed.coldplugged = priv.coldplugged /\ pushed.rate_old = priv.rate_old
             /\ pushed.units = priv.units
             /\ pushed.ring[pushed.first].energy = energy
             /\ priv.ring[priv.first].energy = energy => pushed = priv
             /\ energy \in {0, cell} /\ OneBattery(priv.ring, priv.first, cell, bat_clock) =>
                  OneBattery(pushed.ring, pushed.first, cell, bat_clock)
<1> DEFINE pushed == PushNewEnergy(priv, energy)
           new == (priv.first + 3) % 4
           second == bat_clock \div TicksPerSecond
           slot == [energy |-> energy, time |-> second]
<1>1. /\ TicksPerSecond \in Nat /\ TicksPerSecond > 0 /\ bat_clock \in Nat
      /\ bat_clock <= MaxBatteryClock /\ MaxBatteryClock \in Nat /\ MaxStep \in Nat
  BY BatteryAssumption
<1>2. /\ second \in Nat /\ second * TicksPerSecond <= bat_clock
      /\ bat_clock < second * TicksPerSecond + TicksPerSecond
  BY <1>1, DivisionIsExact
<1>3. TicksPerSecond * second <= bat_clock /\ bat_clock < TicksPerSecond * (second + 1)
  <2> HIDE DEF second
  <2> QED
    BY <1>1, <1>2
<1>4. second <= MaxBatteryClock
  <2>1. second * TicksPerSecond >= second
    <3> HIDE DEF second
    <3> QED
      BY <1>1, <1>2
  <2> HIDE DEF second
  <2> QED
    BY <1>1, <1>2, <2>1
<1>5. CASE priv.ring[priv.first].energy # energy
  <2>1. new \in Slots
    BY DEF BatteryPrivs, Slots
  <2>2. slot \in RingSlot
    BY <1>1, <1>2, <1>4 DEF RingSlot
  <2>3. pushed = [priv EXCEPT !.ring[new] = slot, !.first = new]
    BY <1>5 DEF PushNewEnergy
  <2> HIDE DEF pushed, new, slot
  <2>4. /\ pushed.ring = [priv.ring EXCEPT ![new] = slot] /\ pushed.first = new
        /\ pushed.coldplugged = priv.coldplugged /\ pushed.rate_old = priv.rate_old
        /\ pushed.units = priv.units
        /\ pushed = [coldplugged |-> pushed.coldplugged, units |-> pushed.units,
                     ring |-> pushed.ring, first |-> pushed.first, rate_old |-> pushed.rate_old]
    BY <2>3 DEF BatteryPrivs
  <2>5. pushed.ring \in [Slots -> RingSlot]
    BY <2>1, <2>2, <2>4 DEF BatteryPrivs
  <2>6. pushed \in BatteryPrivs
    BY <2>1, <2>4, <2>5 DEF BatteryPrivs
  <2>7. pushed.ring[new] = slot /\ \A i \in Slots : i # new => pushed.ring[i] = priv.ring[i]
    BY <2>1, <2>4 DEF BatteryPrivs
  <2>8. slot.energy = energy /\ slot.time = second
    BY DEF slot
  <2>9. ASSUME energy \in {0, cell}, OneBattery(priv.ring, priv.first, cell, bat_clock)
        PROVE  OneBattery(pushed.ring, pushed.first, cell, bat_clock)
    <3>1. ASSUME NEW i \in Slots
          PROVE  RememberedAt(pushed.ring, new, i, cell, bat_clock)
      <4>1. CASE i = new
        <5>1. \A t \in Nat : MaxStep * t \in Nat
          BY <1>1
        <5>2. /\ TicksPerSecond * (second - second + 1) \in Nat
              /\ bat_clock - TicksPerSecond * second \in Nat
          <6> HIDE DEF second
          <6> QED
            BY <1>1, <1>2, <1>3
        <5>3. \A t \in Nat : Near(energy, energy, t)
          BY <5>1 DEF Near
        <5> HIDE DEF second
        <5>4. second <= second
          BY <1>2
        <5>5. energy # 0 => energy = cell
          BY <2>9
        <5> QED
          BY <1>3, <2>7, <2>8, <4>1, <5>2, <5>3, <5>4, <5>5, Zenon DEF RememberedAt
      <4>2. CASE i # new
        <5> DEFINE t == priv.ring[i].time
                   e == priv.ring[i].energy
        <5>1. /\ RememberedAt(priv.ring, priv.first, i, cell, bat_clock)
              /\ pushed.ring[i].time = t /\ pushed.ring[i].energy = e
              /\ pushed.ring[new].time = second /\ pushed.ring[new].energy = energy
          BY <2>7, <2>8, <2>9, <4>2 DEF OneBattery
        <5>2. t \in Nat /\ e \in Nat
          BY DEF BatteryPrivs, RingSlot
        <5>3. CASE t = 0
          BY <5>1, <5>3 DEF RememberedAt
        <5>4. CASE t # 0
          <6>1. /\ TicksPerSecond * t <= bat_clock
                /\ e # 0 => Near(cell, e, bat_clock - TicksPerSecond * t)
            BY <5>1, <5>4 DEF RememberedAt
          <6> HIDE DEF t, e, second
          <6>2. t <= second
            <7>1. TicksPerSecond * t < TicksPerSecond * (second + 1)
              BY <1>1, <1>2, <1>3, <5>2, <6>1
            <7>2. ASSUME t >= second + 1 PROVE FALSE
              <8>1. TicksPerSecond * t >= TicksPerSecond * (second + 1)
                BY <1>1, <1>2, <5>2, <7>2
              <8> QED
                BY <1>1, <1>2, <5>2, <7>1, <8>1
            <7> QED
              BY <1>2, <5>2, <7>2
          <6>3. ASSUME e # 0, energy # 0
                PROVE  Near(energy, e, TicksPerSecond * (second - t + 1))
            <7> DEFINE a == bat_clock - TicksPerSecond * t
                       b == TicksPerSecond * (second - t + 1)
            <7>1. a \in Nat /\ b \in Nat /\ a <= b
              BY <1>1, <1>2, <1>3, <5>2, <6>1, <6>2
            <7>2. energy = cell
              BY <2>9, <6>3
            <7>3. Near(cell, e, a)
              BY <6>1, <6>3
            <7> HIDE DEF a, b
            <7>4. MaxStep * a <= MaxStep * b /\ MaxStep * a \in Nat /\ MaxStep * b \in Nat
              BY <1>1, <7>1
            <7>5. Near(energy, e, b)
              BY <5>2, <7>2, <7>3, <7>4 DEF Near
            <7> QED
              BY <7>5 DEF b
          <6> QED
            BY <5>1, <6>1, <6>2, <6>3, Zenon DEF RememberedAt
        <5> QED
          BY <5>3, <5>4
      <4> QED
        BY <4>1, <4>2
    <3> QED
      BY <2>4, <3>1 DEF OneBattery
  <2> QED
    BY <1>5, <2>4, <2>6, <2>7, <2>8, <2>9 DEF pushed
<1>6. CASE priv.ring[priv.first].energy = energy
  BY <1>6 DEF PushNewEnergy
<1> QED
  BY <1>5, <1>6

\* The estimate is a rate that can be believed, when the ring is of one battery.
LEMMA EstimateIsBounded ==
  ASSUME NEW priv \in BatteryPrivs, NEW energy \in Nat, NEW cell \in Nat, NEW clock \in Nat,
         priv.ring[priv.first].energy = energy
  PROVE  LET rate == CalculateRate(priv, energy)
         IN  /\ rate \in Nat \X Nat
             /\ energy < Least => rate = <<0, 1>>
             /\ (/\ OneBattery(priv.ring, priv.first, cell, clock)
                 /\ Believable(priv.rate_old)) => Believable(rate)
<1> DEFINE now == priv.ring[priv.first].time
           valid == {i \in Slots : priv.ring[i].time # 0 /\ priv.ring[i].energy # 0}
           age(i) == now - priv.ring[i].time
           change(i) == energy - priv.ring[i].energy
           size(n) == IF n < 0 THEN -n ELSE n
           xx == [i \in valid |-> age(i) * age(i)]
           xy == [i \in valid |-> size(age(i) * change(i))]
           sum_x == SumFunction(xx)
           sum_xy == SumFunction(xy)
           rate == CalculateRate(priv, energy)
           twice == 2 * MaxSlope
<1>0. /\ TicksPerSecond \in Nat /\ MaxStep \in Nat /\ Least \in Nat \ {0} /\ RateCap \in Nat
      /\ MaxSlope \in Nat /\ MaxSlope = TicksPerSecond * MaxStep
  BY BatteryAssumption DEF MaxSlope
<1>1. IsFiniteSet(valid)
  <2>1. 0 \in Int /\ 3 \in Int
    OBVIOUS
  <2>2. IsFiniteSet(Slots)
    BY <2>1, FS_Interval, Zenon DEF Slots
  <2> QED
    BY <2>2, FS_Subset
<1>2. \A i \in valid : age(i) \in Int /\ change(i) \in Int
  BY DEF BatteryPrivs, RingSlot
<1>3. xx \in [valid -> Nat]
  <2>1. \A i \in valid : age(i) * age(i) \in Nat
    BY <1>2
  <2> QED
    BY <2>1
<1>4. xy \in [valid -> Nat]
  <2>1. \A n \in Int : size(n) \in Nat
    OBVIOUS
  <2>2. \A i \in valid : age(i) * change(i) \in Int
    BY <1>2
  <2>3. \A i \in valid : size(age(i) * change(i)) \in Nat
    BY <2>1, <2>2
  <2> QED
    BY <2>3
<1>5. sum_x \in Nat /\ sum_xy \in Nat
  <2> HIDE DEF xx, xy, valid
  <2> QED
    BY <1>1, <1>3, <1>4, SumFunctionNat
<1>6. rate \in {<<0, 1>>, priv.rate_old, <<sum_xy, sum_x>>}
  BY DEF CalculateRate
<1>7. energy < Least \/ energy = 0 => rate = <<0, 1>>
  <2>1. energy < Least \/ energy = 0 => energy < Least
    BY <1>0
  <2>2. energy < Least => rate = <<0, 1>>
    BY Zenon DEF CalculateRate
  <2> QED
    BY <2>1, <2>2, Zenon
<1>8. ASSUME OneBattery(priv.ring, priv.first, cell, clock), energy # 0
      PROVE  sum_xy <= twice * sum_x
  <2>0. twice \in Nat
    BY <1>0
  <2>1. ASSUME NEW i \in valid PROVE 1 * xy[i] <= twice * xx[i]
    <3>1. RememberedAt(priv.ring, priv.first, i, cell, clock)
      BY <1>8 DEF OneBattery
    <3>2. age(i) \in Nat /\ change(i) \in Int /\ Near(energy, priv.ring[i].energy,
                                                      TicksPerSecond * (age(i) + 1))
      BY <1>8, <3>1 DEF RememberedAt, BatteryPrivs, RingSlot
    <3>3. change(i) <= MaxSlope * (age(i) + 1) /\ -change(i) <= MaxSlope * (age(i) + 1)
      <4>1. ASSUME NEW a \in Nat
            PROVE  MaxStep * (TicksPerSecond * (a + 1)) = MaxSlope * (a + 1)
        BY <1>0
      <4>2. MaxStep * (TicksPerSecond * (age(i) + 1)) = MaxSlope * (age(i) + 1)
        <5> HIDE DEF age
        <5> QED
          BY <3>2, <4>1
      <4>3. /\ change(i) <= MaxStep * (TicksPerSecond * (age(i) + 1))
            /\ priv.ring[i].energy - energy <= MaxStep * (TicksPerSecond * (age(i) + 1))
        BY <3>2, Zenon DEF Near
      <4>4. -change(i) = priv.ring[i].energy - energy
        BY DEF BatteryPrivs, RingSlot
      <4> HIDE DEF age, change
      <4> QED
        BY <4>2, <4>3, <4>4, Zenon
    <3>4. ASSUME NEW a \in Nat, NEW c \in Int, c <= MaxSlope * (a + 1), -c <= MaxSlope * (a + 1)
          PROVE  size(a * c) <= twice * (a * a)
      <4>1. CASE a = 0
        BY <1>0, <4>1
      <4>2. CASE a >= 1
        <5>1. /\ MaxSlope * (a + 1) = MaxSlope * a + MaxSlope
              /\ twice * a = MaxSlope * a + MaxSlope * a
              /\ MaxSlope * a >= MaxSlope
          BY <1>0, <4>2
        <5>2. c <= twice * a /\ -c <= twice * a
          BY <1>0, <3>4, <5>1
        <5> HIDE DEF twice
        <5>3. a * c <= a * (twice * a) /\ a * (-c) <= a * (twice * a)
          BY <2>0, <4>2, <5>2
        <5>4. a * (-c) = -(a * c) /\ a * (twice * a) = twice * (a * a) /\ a * c \in Int
          BY <2>0
        <5>5. a * c <= twice * (a * a) /\ -(a * c) <= twice * (a * a)
          BY <5>3, <5>4
        <5> QED
          BY <5>4, <5>5
      <4> QED
        BY <4>1, <4>2
    <3> HIDE DEF twice
    <3>5. size(age(i) * change(i)) <= twice * (age(i) * age(i))
      <4> HIDE DEF age, change, size
      <4> QED
        BY <3>2, <3>3, <3>4
    <3>6. xy[i] = size(age(i) * change(i)) /\ xx[i] = age(i) * age(i)
      OBVIOUS
    <3>7. xy[i] \in Nat /\ xx[i] \in Nat
      BY <1>3, <1>4
    <3> HIDE DEF xx, xy, age, change, size
    <3> QED
      BY <3>5, <3>6, <3>7
  <2> HIDE DEF twice
  <2>2. 1 * sum_xy <= twice * sum_x
    <3> HIDE DEF xx, xy, valid
    <3> QED
      BY <1>1, <1>3, <1>4, <2>0, <2>1, ShareOfSums
  <2> HIDE DEF sum_x, sum_xy
  <2> QED
    BY <1>5, <2>2
<1> HIDE DEF rate, sum_x, sum_xy
<1>9. rate \in Nat \X Nat
  BY <1>5, <1>6 DEF BatteryPrivs
<1>10. Believable(<<0, 1>>)
  BY <1>0 DEF Believable
<1> QED
  BY <1>6, <1>7, <1>8, <1>9, <1>10 DEF rate, Believable

\* The values at the start, and after a battery has gone.
LEMMA ResetIsTyped ==
  /\ BatteryReset(bat_priv) \in BatteryPrivs
  /\ BatteryReset(bat_priv).ring = EmptyRing /\ ~BatteryReset(bat_priv).coldplugged
  /\ Believable(BatteryReset(bat_priv).rate_old)
<1>1. NoSlot \in RingSlot /\ 0 \in Slots
  BY BatteryAssumption DEF NoSlot, Slots, RingSlot
<1>2. Believable(<<0, 1>>)
  BY BatteryAssumption DEF Believable, MaxSlope
<1> QED
  BY <1>1, <1>2 DEF BatteryReset, BatteryPrivs, EmptyRing

LEMMA BatteryInitially == BatteryInit => BatteryIInv
<1> SUFFICES ASSUME BatteryInit PROVE BatteryIInv
  OBVIOUS
<1>1. bat_priv = BatteryReset(bat_priv)
  BY DEF BatteryInit, BatteryReset
<1>2. bat_files \in KnownFiles
  <2>1. PICK kind \in BatteryKinds :
          bat_files = [present |-> TRUE, names |-> kind.names, full |-> kind.full,
                       cell |-> kind.full, power |-> 0, status |-> "discharging"]
    BY DEF BatteryInit
  <2>2. /\ kind = [names |-> kind.names, full |-> kind.full]
        /\ kind.names \in SUBSET BatteryFileNames /\ kind.full \in Nat \ {0}
        /\ kind.full % Grain = 0 /\ 0 \in PowerReadings
    BY BatteryAssumption
  <2>3. kind.full \in CellLevels(kind.full)
    BY <2>2 DEF CellLevels
  <2>4. bat_files \in BatteryFile
    BY <2>1, <2>2 DEF BatteryFile, CellStatus
  <2>5. KindOf(bat_files) = kind /\ bat_files.cell = kind.full /\ bat_files.full = kind.full
    BY <2>1, <2>2 DEF KindOf
  <2> QED
    BY <2>3, <2>4, <2>5 DEF KnownFiles
<1>3. BatteryTypes
  <2>1. bat_clock \in TicksPerSecond..MaxBatteryClock /\ bat_upsets \in 0..MaxUpsets
    BY BatteryAssumption DEF BatteryInit
  <2>2. bat_shown \in [present : BOOLEAN, read : KnownFiles, energy : Nat, full : Nat,
                       rate : Nat \X Nat, state : CellStatus \cup {"unknown"}]
    BY <1>2 DEF BatteryInit, ShownReset
  <2>3. bat_broken \in [ring : BOOLEAN, rate : BOOLEAN, full : BOOLEAN]
    BY DEF BatteryInit
  <2> QED
    BY <1>1, <1>2, <2>1, <2>2, <2>3, ResetIsTyped DEF BatteryTypes
<1>4. ~bat_shown.present
  BY DEF BatteryInit, ShownReset
<1>5. bat_priv.first \in Slots
  BY <1>3 DEF BatteryTypes, BatteryPrivs
<1> QED
  BY <1>1, <1>3, <1>4, <1>5, ResetIsTyped, EmptyRingIsOneBattery
  DEF BatteryIInv, FiguresAreRemembered, RingIsOneBattery, RateIsBounded

-----------------------------------------------------------------------------
\* An energy that is told is not above the full one.
LEMMA ToldIsBounded ==
  ASSUME NEW f \in KnownFiles, NEW full \in Nat, EnergyRead(f) <= full
  PROVE  EnergyTold(f, full) \in Nat /\ EnergyTold(f, full) <= full
<1>1. /\ f.cell \in Nat /\ f.full \in Nat \ {0} /\ f.cell <= f.full /\ EnergyRead(f) \in Nat
  BY ReadIsRight
<1>2. CASE IsFromCapacity(f, full)
  <2>1. Capacity(f) \in Nat /\ Capacity(f) <= 100
    <3>1. 100 * f.cell \in Nat /\ f.full > 0 /\ 100 * f.cell <= 100 * f.full
      BY <1>1
    <3>2. /\ Capacity(f) \in Nat /\ Capacity(f) * f.full <= 100 * f.cell
      BY <1>1, <3>1, DivisionIsExact DEF Capacity
    <3>3. ASSUME Capacity(f) >= 101 PROVE FALSE
      <4>1. Capacity(f) * f.full >= 101 * f.full
        BY <1>1, <3>2, <3>3
      <4> QED
        BY <1>1, <3>1, <3>2, <4>1
    <3> QED
      BY <3>2, <3>3
  <2>2. full * Capacity(f) \in Nat /\ full * Capacity(f) <= full * 100
    BY <2>1
  <2>3. ASSUME NEW a \in Nat, a <= full * 100
        PROVE  a \div 100 \in Nat /\ a \div 100 <= full
    BY <2>3
  <2> QED
    BY <1>2, <2>2, <2>3 DEF EnergyTold
<1>3. CASE ~IsFromCapacity(f, full)
  BY <1>1, <1>3 DEF EnergyTold
<1> QED
  BY <1>2, <1>3

\* What is told after a look at a battery that is present.
LEMMA BatteryIsRead ==
  ASSUME BatteryIInv, bat_files.present, RefreshPresent(bat_files),
         UNCHANGED <<bat_files, bat_clock, bat_upsets>>
  PROVE  BatteryIInv'
<1> DEFINE f == bat_files
           known == EnergyRead(f)
           cold == BatteryColdplug(bat_priv, f)
           full == IF known > cold.full THEN known ELSE cold.full
           energy == EnergyTold(f, full)
           estimated == RateRead(f) = 0
           read == IF estimated THEN PushNewEnergy(cold.priv, known) ELSE cold.priv
           rate == IF energy < Least THEN <<0, 1>>
                   ELSE IF estimated THEN CalculateRate(read, known) ELSE <<RateRead(f), 1>>
           pushed == PushNewEnergy(read, energy)
           stored == IF pushed # read THEN [pushed EXCEPT !.rate_old = rate] ELSE pushed
           same == f.status = bat_shown.state
           emptied == [stored EXCEPT !.ring = [i \in Slots |-> NoSlot], !.first = 0]
           made == IsFromCapacity(f, full)
<1>0. /\ bat_shown' = [present |-> TRUE, read |-> f, energy |-> energy, full |-> full,
                       rate |-> rate, state |-> f.status]
      /\ bat_priv' = IF same THEN stored ELSE emptied
      /\ bat_broken' = [ring |-> same /\ (bat_broken.ring \/ made),
                        rate |-> estimated /\ bat_broken.ring,
                        full |-> bat_broken.full /\ ~IsCold(bat_priv, f)]
  BY DEF RefreshPresent
<1>1. /\ f \in KnownFiles /\ f.cell \in Nat /\ f.full \in Nat \ {0} /\ f.cell <= f.full
      /\ known \in {0, f.cell}
      /\ RateRead(f) \in Nat /\ RateRead(f) <= MaxSlope
      /\ (IF EnergyFull(f) = 0 THEN ChargeFull(f) * DesignVoltage ELSE EnergyFull(f))
           = IF f.names \cap FullFiles # {} THEN f.full ELSE 0
  <2>1. f \in KnownFiles
    BY DEF BatteryIInv, BatteryTypes
  <2> QED
    BY <2>1, ReadIsRight
<1>2. /\ cold.priv \in BatteryPrivs /\ cold.priv.coldplugged
      /\ cold.priv.ring = bat_priv.ring /\ cold.priv.first = bat_priv.first
      /\ cold.priv.rate_old = bat_priv.rate_old
      /\ cold.full = IF ~IsCold(bat_priv, f) THEN bat_shown.full
                     ELSE IF f.names \cap FullFiles # {} THEN f.full ELSE 0
  <2>1. CASE IsCold(bat_priv, f)
    <3> DEFINE first_full == IF EnergyFull(f) = 0 THEN ChargeFull(f) * DesignVoltage
                             ELSE EnergyFull(f)
               priv == [bat_priv EXCEPT !.coldplugged = TRUE,
                                        !.units = IF EnergyFull(f) = 0 THEN "charge" ELSE @]
    <3>1. cold = [priv |-> priv, full |-> first_full]
      BY <2>1 DEF BatteryColdplug
    <3>2. /\ priv \in BatteryPrivs /\ priv.coldplugged
          /\ priv.ring = bat_priv.ring /\ priv.first = bat_priv.first
          /\ priv.rate_old = bat_priv.rate_old
      BY DEF BatteryIInv, BatteryTypes, BatteryPrivs
    <3> HIDE DEF cold, first_full, priv
    <3>3. cold.priv = priv /\ cold.full = first_full
      BY <3>1
    <3>4. first_full = IF f.names \cap FullFiles # {} THEN f.full ELSE 0
      BY <1>1, Zenon DEF first_full
    <3> QED
      BY <2>1, <3>2, <3>3, <3>4
  <2>2. CASE ~IsCold(bat_priv, f)
    <3>1. cold = [priv |-> bat_priv, full |-> bat_shown.full]
      BY <2>2 DEF BatteryColdplug
    <3>2. bat_priv \in BatteryPrivs /\ bat_priv.coldplugged
      BY <2>2 DEF BatteryIInv, BatteryTypes, IsCold
    <3> HIDE DEF cold
    <3> QED
      BY <2>2, <3>1, <3>2
  <2> QED
    BY <2>1, <2>2
<1> HIDE DEF cold
<1>3. cold.full \in Nat /\ bat_clock \in TicksPerSecond..MaxBatteryClock
  BY <1>1, <1>2 DEF BatteryIInv, BatteryTypes
<1>4. known \in Nat /\ full \in Nat /\ known <= full /\ cold.full <= full
  BY <1>1, <1>3
<1>5. energy \in Nat /\ energy <= full
  <2> HIDE DEF full
  <2> QED
    BY <1>1, <1>4, ToldIsBounded
<1>6. ~made => energy = known
  BY Zenon DEF EnergyTold
<1>7. made => known < Least
  BY Zenon DEF IsFromCapacity
<1> HIDE DEF full, energy, made, known
<1>8. /\ read \in BatteryPrivs /\ read.coldplugged /\ read.rate_old = bat_priv.rate_old
      /\ estimated => read.ring[read.first].energy = known
      /\ ~bat_broken.ring => OneBattery(read.ring, read.first, f.cell, bat_clock)
  <2>1. ~bat_broken.ring => OneBattery(cold.priv.ring, cold.priv.first, f.cell, bat_clock)
    BY <1>2 DEF BatteryIInv, RingIsOneBattery
  <2>2. CASE estimated
    <3>1. read = PushNewEnergy(cold.priv, known)
      BY <2>2
    <3> HIDE DEF read
    <3> QED
      BY <1>1, <1>2, <1>3, <1>4, <2>1, <3>1, PushedRing
  <2>3. CASE ~estimated
    <3>1. read = cold.priv
      BY <2>3
    <3> HIDE DEF read
    <3> QED
      BY <1>2, <2>1, <2>3, <3>1
  <2> QED
    BY <2>2, <2>3
<1> HIDE DEF read
<1>9. /\ pushed \in BatteryPrivs /\ pushed.coldplugged /\ pushed.rate_old = bat_priv.rate_old
      /\ read.ring[read.first].energy = energy => pushed = read
      /\ ~bat_broken.ring /\ ~made => OneBattery(pushed.ring, pushed.first, f.cell, bat_clock)
  BY <1>1, <1>3, <1>5, <1>6, <1>8, PushedRing
<1> HIDE DEF pushed
<1>10. Believable(bat_priv.rate_old) /\ bat_priv.rate_old \in Nat \X Nat
  BY DEF BatteryIInv, BatteryTypes, BatteryPrivs, FiguresAreRemembered
<1>11. Believable(<<0, 1>>) /\ Believable(<<RateRead(f), 1>>)
  <2>1. MaxSlope \in Nat
    BY BatteryAssumption DEF MaxSlope
  <2> QED
    BY <1>1, <2>1 DEF Believable
<1>12. /\ CalculateRate(read, known) \in Nat \X Nat \/ ~estimated
       /\ estimated /\ known < Least => CalculateRate(read, known) = <<0, 1>>
       /\ estimated /\ ~bat_broken.ring => Believable(CalculateRate(read, known))
  <2>1. bat_clock \in Nat
    BY <1>3, BatteryAssumption
  <2> QED
    BY <1>1, <1>4, <1>8, <1>10, <2>1, EstimateIsBounded
<1>13. /\ rate \in Nat \X Nat
       /\ ~(estimated /\ bat_broken.ring) => Believable(rate)
       /\ pushed # read => Believable(rate)
  <2>1. CASE energy < Least
    BY <1>11, <2>1
  <2>2. CASE ~(energy < Least) /\ estimated
    <3>1. rate = CalculateRate(read, known)
      BY <2>2
    <3>2. pushed # read => known < Least
      BY <1>6, <1>7, <1>8, <1>9, <2>2
    <3> HIDE DEF rate
    <3> QED
      BY <1>11, <1>12, <2>2, <3>1, <3>2
  <2>3. CASE ~(energy < Least) /\ ~estimated
    BY <1>1, <1>11, <2>3
  <2> QED
    BY <2>1, <2>2, <2>3
<1> HIDE DEF rate
<1>14. /\ stored \in BatteryPrivs /\ stored.coldplugged
       /\ stored.ring = pushed.ring /\ stored.first = pushed.first
       /\ Believable(stored.rate_old)
  <2>1. CASE pushed # read
    <3>1. stored = [pushed EXCEPT !.rate_old = rate]
      BY <2>1
    <3> HIDE DEF stored
    <3>2. stored \in BatteryPrivs /\ stored.rate_old = rate /\ stored.coldplugged
          /\ stored.ring = pushed.ring /\ stored.first = pushed.first
      BY <1>9, <1>13, <3>1 DEF BatteryPrivs
    <3> QED
      BY <1>13, <2>1, <3>2
  <2>2. CASE pushed = read
    BY <1>9, <1>10, <2>2
  <2> QED
    BY <2>1, <2>2
<1> HIDE DEF stored
<1>15. /\ emptied \in BatteryPrivs /\ emptied.coldplugged /\ emptied.ring = EmptyRing
       /\ emptied.first \in Slots /\ emptied.rate_old = stored.rate_old
  <2>1. NoSlot \in RingSlot /\ 0 \in Slots
    BY BatteryAssumption DEF NoSlot, Slots, RingSlot
  <2>2. EmptyRing \in [Slots -> RingSlot]
    BY <2>1 DEF EmptyRing
  <2>3. emptied = [stored EXCEPT !.ring = EmptyRing, !.first = 0]
    BY DEF EmptyRing
  <2> HIDE DEF emptied
  <2> QED
    BY <1>14, <2>1, <2>2, <2>3 DEF BatteryPrivs
<1> HIDE DEF emptied
<1>16. /\ bat_priv' \in BatteryPrivs /\ bat_priv'.coldplugged
       /\ Believable(bat_priv'.rate_old)
  <2>1. CASE same
    BY <1>0, <1>14, <2>1
  <2>2. CASE ~same
    <3>1. bat_priv' = emptied
      BY <1>0, <2>2
    <3> QED
      BY <1>14, <1>15, <3>1
  <2> QED
    BY <2>1, <2>2
<1>17. /\ bat_broken' \in [ring : BOOLEAN, rate : BOOLEAN, full : BOOLEAN]
       /\ bat_broken'.ring = (same /\ (bat_broken.ring \/ made))
       /\ bat_broken'.rate = (estimated /\ bat_broken.ring)
       /\ bat_broken'.full = (bat_broken.full /\ ~IsCold(bat_priv, f))
  <2> DEFINE broken_ring == same /\ (bat_broken.ring \/ made)
             broken_rate == estimated /\ bat_broken.ring
             broken_full == bat_broken.full /\ ~IsCold(bat_priv, f)
  <2>1. broken_ring \in BOOLEAN /\ broken_rate \in BOOLEAN /\ broken_full \in BOOLEAN
    OBVIOUS
  <2>2. bat_broken' = [ring |-> broken_ring, rate |-> broken_rate, full |-> broken_full]
    BY <1>0
  <2> HIDE DEF broken_ring, broken_rate, broken_full
  <2>3. /\ bat_broken' \in [ring : BOOLEAN, rate : BOOLEAN, full : BOOLEAN]
        /\ bat_broken'.ring = broken_ring /\ bat_broken'.rate = broken_rate
        /\ bat_broken'.full = broken_full
    BY <2>1, <2>2
  <2> QED
    BY <2>3 DEF broken_ring, broken_rate, broken_full
<1>18. /\ bat_shown' \in [present : BOOLEAN, read : KnownFiles, energy : Nat, full : Nat,
                          rate : Nat \X Nat, state : CellStatus \cup {"unknown"}]
       /\ bat_shown'.present /\ bat_shown'.read = f /\ bat_shown'.energy = energy
       /\ bat_shown'.full = full /\ bat_shown'.rate = rate
  <2>1. f.status \in CellStatus
    BY <1>1 DEF KnownFiles, BatteryFile
  <2> HIDE DEF f
  <2> QED
    BY <1>0, <1>1, <1>4, <1>5, <1>13, <2>1
<1>19. ~bat_broken'.full /\ f.names \cap FullFiles # {} => full = f.full
  <2>1. SUFFICES ASSUME ~bat_broken'.full, f.names \cap FullFiles # {} PROVE cold.full = f.full
    BY <1>1, <1>3 DEF full
  <2>2. CASE IsCold(bat_priv, f)
    BY <1>2, <2>1, <2>2
  <2>3. CASE ~IsCold(bat_priv, f)
    <3>1. ~bat_broken.full /\ bat_shown.present
      BY <1>17, <2>1, <2>3 DEF IsCold, BatteryIInv, FiguresAreRemembered
    <3>2. bat_shown.full = f.full
      BY <2>1, <3>1 DEF BatteryIInv, FiguresAreRemembered
    <3> QED
      BY <1>2, <2>3, <3>2
  <2> QED
    BY <2>2, <2>3
<1>20. BatteryTypes'
  BY <1>16, <1>17, <1>18 DEF BatteryIInv, BatteryTypes
<1>21. FiguresAreRemembered'
  <2>1. energy = EnergyTold(f, full)
    BY DEF energy
  <2>2. bat_files' = f
    OBVIOUS
  <2>3. EnergyTold(bat_shown.read, bat_shown.full)' = EnergyTold(f, full)
    BY <1>18 DEF EnergyTold, IsFromCapacity, EnergyRead, Capacity, PowerNow, EnergyNow,
                 ChargeNow, Figure
  <2> HIDE DEF f
  <2> QED
    BY <1>5, <1>16, <1>18, <1>19, <2>1, <2>2, <2>3 DEF FiguresAreRemembered, Believable, KindOf
<1>22. RingIsOneBattery'
  <2>1. CASE same
    BY <1>0, <1>9, <1>14, <1>17, <2>1 DEF RingIsOneBattery
  <2>2. CASE ~same
    BY <1>0, <1>15, <2>2, EmptyRingIsOneBattery DEF RingIsOneBattery
  <2> QED
    BY <2>1, <2>2
<1>23. RateIsBounded'
  BY <1>13, <1>17, <1>18 DEF RateIsBounded, Believable
<1> QED
  BY <1>20, <1>21, <1>22, <1>23 DEF BatteryIInv

-----------------------------------------------------------------------------
\* A look at the battery, whether it is there or not.
LEMMA BatteryRefreshKeeps ==
  ASSUME BatteryIInv, BatteryRefresh
  PROVE  BatteryIInv'
<1>1. CASE bat_files.present
  BY <1>1, BatteryIsRead DEF BatteryRefresh
<1>2. CASE ~bat_files.present
  <2>1. /\ bat_priv' = BatteryReset(bat_priv) /\ bat_shown' = ShownReset(bat_files)
        /\ bat_broken' = [ring |-> FALSE, rate |-> FALSE, full |-> FALSE]
        /\ UNCHANGED <<bat_files, bat_clock, bat_upsets>>
    BY <1>2 DEF BatteryRefresh
  <2>2. bat_files \in KnownFiles
    BY DEF BatteryIInv, BatteryTypes
  <2>3. /\ bat_shown' \in [present : BOOLEAN, read : KnownFiles, energy : Nat, full : Nat,
                           rate : Nat \X Nat, state : CellStatus \cup {"unknown"}]
        /\ ~bat_shown'.present
    BY <2>1, <2>2 DEF ShownReset
  <2>4. /\ bat_priv' \in BatteryPrivs /\ bat_priv'.ring = EmptyRing /\ ~bat_priv'.coldplugged
        /\ Believable(bat_priv'.rate_old)
    BY <2>1, ResetIsTyped
  <2>5. BatteryTypes'
    BY <2>1, <2>3, <2>4 DEF BatteryIInv, BatteryTypes
  <2>6. FiguresAreRemembered' /\ RateIsBounded'
    BY <2>3, <2>4 DEF FiguresAreRemembered, RateIsBounded, Believable
  <2>7. RingIsOneBattery'
    <3>1. bat_priv'.first \in Slots
      BY <2>4 DEF BatteryPrivs
    <3> QED
      BY <2>4, <3>1, EmptyRingIsOneBattery DEF RingIsOneBattery
  <2> QED
    BY <2>5, <2>6, <2>7 DEF BatteryIInv
<1> QED
  BY <1>1, <1>2

\* In a tick the battery changes by no more than it can.
LEMMA BatteryTimeKeeps ==
  ASSUME BatteryIInv, NEW cell \in CellLevels(bat_files.full), NEW power \in PowerReadings,
         NEW status \in CellStatus, BatteryTime(cell, power, status)
  PROVE  BatteryIInv'
<1>0. TicksPerSecond \in Nat /\ MaxStep \in Nat /\ MaxBatteryClock \in Nat
  BY BatteryAssumption
<1>1. /\ bat_clock < MaxBatteryClock /\ bat_clock' = bat_clock + 1
      /\ cell - bat_files.cell \in -MaxStep..MaxStep
      /\ bat_files' = [bat_files EXCEPT !.cell = cell, !.power = power, !.status = status]
      /\ UNCHANGED <<bat_priv, bat_shown, bat_upsets, bat_broken>>
  BY DEF BatteryTime
<1>2. bat_files \in BatteryFile /\ KindOf(bat_files) \in BatteryKinds
  BY DEF BatteryIInv, BatteryTypes, KnownFiles
<1>3. /\ bat_files' = [present |-> bat_files.present, names |-> bat_files.names,
                       full |-> bat_files.full, cell |-> cell, power |-> power,
                       status |-> status]
      /\ cell \in Nat
  <2>1. bat_files.full \in Nat
    BY <1>2 DEF BatteryFile
  <2>2. cell \in Nat
    BY <2>1 DEF CellLevels
  <2> QED
    BY <1>1, <1>2, <2>2 DEF BatteryFile
<1>4. /\ bat_files'.cell = cell /\ bat_files'.full = bat_files.full
      /\ bat_files'.names = bat_files.names /\ bat_files' \in BatteryFile
  BY <1>2, <1>3 DEF BatteryFile
<1>5. KindOf(bat_files') = KindOf(bat_files)
  BY <1>4 DEF KindOf
<1>6. bat_files' \in KnownFiles
  BY <1>2, <1>4, <1>5 DEF KnownFiles
<1>7. bat_clock \in Nat /\ bat_clock' \in TicksPerSecond..MaxBatteryClock /\ bat_files.cell \in Nat
  BY <1>0, <1>1, <1>2 DEF BatteryIInv, BatteryTypes, BatteryFile
<1>8. BatteryTypes' /\ RateIsBounded'
  BY <1>1, <1>6, <1>7 DEF BatteryIInv, BatteryTypes, RateIsBounded, Believable
<1>9. FiguresAreRemembered'
  <2>1. EnergyTold(bat_shown.read, bat_shown.full)' = EnergyTold(bat_shown.read, bat_shown.full)
    BY <1>1 DEF EnergyTold, IsFromCapacity, EnergyRead, Capacity, PowerNow, EnergyNow,
                ChargeNow, Figure
  <2> QED
    BY <1>1, <1>4, <1>5, <2>1 DEF BatteryIInv, FiguresAreRemembered, Believable, KindOf
<1>10. ASSUME NEW i \in Slots,
              RememberedAt(bat_priv.ring, bat_priv.first, i, bat_files.cell, bat_clock)
       PROVE  RememberedAt(bat_priv.ring, bat_priv.first, i, cell, bat_clock + 1)
  <2> DEFINE slot == bat_priv.ring[i]
             then == TicksPerSecond * slot.time
             age == bat_clock - then
  <2>1. slot.energy \in Nat /\ slot.time \in Nat /\ then \in Nat
    BY <1>0 DEF BatteryIInv, BatteryTypes, BatteryPrivs, RingSlot
  <2>2. (bat_clock + 1) - then = age + 1 /\ age \in Int
    BY <1>7, <2>1
  <2>3. MaxStep * (age + 1) = MaxStep * age + MaxStep /\ MaxStep * age \in Int
    <3> HIDE DEF age
    <3> QED
      BY <1>0, <2>2
  <2>4. cell - bat_files.cell <= MaxStep /\ bat_files.cell - cell <= MaxStep
    BY <1>0, <1>1, <1>3, <1>7
  <2>5. CASE slot.time # 0
    <3>1. then <= bat_clock /\ (slot.energy # 0 => Near(bat_files.cell, slot.energy, age))
      BY <1>10, <2>5 DEF RememberedAt
    <3> HIDE DEF age, slot, then
    <3>2. slot.energy # 0 => Near(cell, slot.energy, age + 1)
      <4> DEFINE most == MaxStep * age
                 more == MaxStep * (age + 1)
                 e == slot.energy
      <4>1. /\ most \in Int /\ more = most + MaxStep /\ e \in Nat /\ cell \in Nat
            /\ bat_files.cell \in Nat
        BY <1>3, <1>7, <2>1, <2>3
      <4>2. e # 0 => bat_files.cell - e <= most /\ e - bat_files.cell <= most
        BY <3>1 DEF Near
      <4> HIDE DEF most, more, e
      <4>3. e # 0 => cell - e <= more /\ e - cell <= more
        BY <1>0, <2>4, <4>1, <4>2
      <4> QED
        BY <4>3 DEF Near, more, e
    <3>3. slot.energy # 0 => Near(cell, slot.energy, (bat_clock + 1) - then)
      BY <2>2, <3>2
    <3>4. then <= bat_clock + 1
      BY <1>7, <2>1, <3>1
    <3> QED
      BY <1>10, <3>3, <3>4, Zenon DEF RememberedAt, slot, then
  <2> QED
    BY <2>5 DEF RememberedAt
<1>11. RingIsOneBattery'
  BY <1>1, <1>4, <1>10 DEF BatteryIInv, RingIsOneBattery, OneBattery
<1> QED
  BY <1>8, <1>9, <1>11 DEF BatteryIInv

\* Someone sets the clock, or takes the battery out.
LEMMA BatteryUpsetKeeps ==
  ASSUME BatteryIInv, SetClock \/ TakeOut
  PROVE  BatteryIInv'
<1>0. /\ bat_priv.first \in Slots /\ bat_upsets \in 0..MaxUpsets /\ MaxUpsets \in Nat
      /\ bat_broken \in [ring : BOOLEAN, rate : BOOLEAN, full : BOOLEAN]
  BY BatteryAssumption DEF BatteryIInv, BatteryTypes, BatteryPrivs
<1>1. ASSUME UNCHANGED bat_shown
      PROVE  EnergyTold(bat_shown.read, bat_shown.full)'
               = EnergyTold(bat_shown.read, bat_shown.full)
  BY <1>1 DEF EnergyTold, IsFromCapacity, EnergyRead, Capacity, PowerNow, EnergyNow,
              ChargeNow, Figure
<1>2. CASE SetClock
  <2>1. /\ bat_clock' \in TicksPerSecond..MaxBatteryClock /\ bat_upsets' \in 0..MaxUpsets
        /\ UNCHANGED <<bat_files, bat_priv, bat_shown>>
        /\ bat_broken' = [bat_broken EXCEPT !.ring = bat_priv.ring # EmptyRing]
    BY <1>0, <1>2 DEF SetClock, Upset, EmptyRing
  <2>2. /\ bat_broken' \in [ring : BOOLEAN, rate : BOOLEAN, full : BOOLEAN]
        /\ bat_broken'.rate = bat_broken.rate /\ bat_broken'.full = bat_broken.full
        /\ bat_broken'.ring = (bat_priv.ring # EmptyRing)
    BY <1>0, <2>1
  <2>3. BatteryTypes' /\ RateIsBounded'
    BY <2>1, <2>2 DEF BatteryIInv, BatteryTypes, RateIsBounded, Believable
  <2>4. FiguresAreRemembered'
    BY <1>1, <2>1, <2>2 DEF BatteryIInv, FiguresAreRemembered, Believable, KindOf
  <2>5. RingIsOneBattery'
    BY <1>0, <2>1, <2>2, EmptyRingIsOneBattery DEF RingIsOneBattery
  <2> QED
    BY <2>3, <2>4, <2>5 DEF BatteryIInv
<1>3. CASE TakeOut
  <2>1. /\ bat_upsets' \in 0..MaxUpsets
        /\ bat_files' = [bat_files EXCEPT !.present = FALSE]
        /\ UNCHANGED <<bat_clock, bat_priv, bat_shown, bat_broken>>
    BY <1>0, <1>3 DEF TakeOut, Upset
  <2>2. bat_files \in BatteryFile
    BY DEF BatteryIInv, BatteryTypes, KnownFiles
  <2>3. /\ bat_files'.cell = bat_files.cell /\ bat_files'.full = bat_files.full
        /\ bat_files'.names = bat_files.names /\ bat_files' \in BatteryFile
    BY <2>1, <2>2 DEF BatteryFile
  <2>4. KindOf(bat_files') = KindOf(bat_files)
    BY <2>3 DEF KindOf
  <2>5. bat_files' \in KnownFiles
    BY <2>3, <2>4 DEF BatteryIInv, BatteryTypes, KnownFiles
  <2>6. BatteryTypes' /\ RateIsBounded'
    BY <2>1, <2>5 DEF BatteryIInv, BatteryTypes, RateIsBounded, Believable
  <2>7. FiguresAreRemembered'
    BY <1>1, <2>1, <2>3, <2>4 DEF BatteryIInv, FiguresAreRemembered, Believable, KindOf
  <2>8. RingIsOneBattery'
    BY <2>1, <2>3 DEF BatteryIInv, RingIsOneBattery
  <2> QED
    BY <2>6, <2>7, <2>8 DEF BatteryIInv
<1> QED
  BY <1>2, <1>3

\* A battery that comes before the other was seen to be gone breaks what is
\* remembered; otherwise nothing is.
LEMMA PutInKeeps ==
  ASSUME BatteryIInv, NEW kind \in BatteryKinds, NEW cell \in CellLevels(kind.full),
         PutIn(kind, cell)
  PROVE  BatteryIInv'
<1>1. /\ bat_files' = [bat_files EXCEPT !.present = TRUE, !.names = kind.names,
                                        !.full = kind.full, !.cell = cell, !.power = 0]
      /\ bat_broken' = [bat_broken EXCEPT !.ring = @ \/ bat_shown.present,
                                          !.full = @ \/ bat_shown.present]
      /\ UNCHANGED <<bat_clock, bat_priv, bat_shown, bat_upsets>>
  BY DEF PutIn
<1>2. /\ bat_files \in BatteryFile /\ bat_shown.present \in BOOLEAN /\ bat_priv.first \in Slots
      /\ bat_broken \in [ring : BOOLEAN, rate : BOOLEAN, full : BOOLEAN]
  BY DEF BatteryIInv, BatteryTypes, KnownFiles, BatteryPrivs
<1>3. /\ kind = [names |-> kind.names, full |-> kind.full] /\ 0 \in PowerReadings
      /\ kind.names \in SUBSET BatteryFileNames /\ kind.full \in Nat \ {0}
  BY BatteryAssumption
<1>4. cell \in Nat
  BY <1>3 DEF CellLevels
<1>5. bat_files' = [present |-> TRUE, names |-> kind.names, full |-> kind.full, cell |-> cell,
                    power |-> 0, status |-> bat_files.status]
  BY <1>1, <1>2 DEF BatteryFile
<1>6. bat_files' \in BatteryFile /\ bat_files'.cell = cell /\ bat_files'.full = kind.full
  BY <1>2, <1>3, <1>4, <1>5 DEF BatteryFile
<1>7. KindOf(bat_files') = kind
  BY <1>3, <1>5 DEF KindOf
<1>8. bat_files' \in KnownFiles
  BY <1>6, <1>7 DEF KnownFiles
<1>9. /\ bat_broken' \in [ring : BOOLEAN, rate : BOOLEAN, full : BOOLEAN]
      /\ bat_broken'.ring = (bat_broken.ring \/ bat_shown.present)
      /\ bat_broken'.full = (bat_broken.full \/ bat_shown.present)
      /\ bat_broken'.rate = bat_broken.rate
  <2> DEFINE broken_ring == bat_broken.ring \/ bat_shown.present
             broken_full == bat_broken.full \/ bat_shown.present
  <2>1. broken_ring \in BOOLEAN /\ broken_full \in BOOLEAN
    OBVIOUS
  <2>2. bat_broken' = [bat_broken EXCEPT !.ring = broken_ring, !.full = broken_full]
    BY <1>1
  <2> HIDE DEF broken_ring, broken_full
  <2>3. /\ bat_broken' \in [ring : BOOLEAN, rate : BOOLEAN, full : BOOLEAN]
        /\ bat_broken'.ring = broken_ring /\ bat_broken'.full = broken_full
        /\ bat_broken'.rate = bat_broken.rate
    BY <1>2, <2>1, <2>2
  <2> QED
    BY <2>3 DEF broken_ring, broken_full
<1>10. BatteryTypes' /\ RateIsBounded'
  BY <1>1, <1>8, <1>9 DEF BatteryIInv, BatteryTypes, RateIsBounded, Believable
<1>11. FiguresAreRemembered'
  <2>1. EnergyTold(bat_shown.read, bat_shown.full)' = EnergyTold(bat_shown.read, bat_shown.full)
    BY <1>1 DEF EnergyTold, IsFromCapacity, EnergyRead, Capacity, PowerNow, EnergyNow,
                ChargeNow, Figure
  <2>2. bat_shown'.present => bat_broken'.full
    BY <1>1, <1>9
  <2> QED
    BY <1>1, <2>1, <2>2 DEF BatteryIInv, FiguresAreRemembered, Believable
<1>12. RingIsOneBattery'
  <2>1. ~bat_broken'.ring => bat_priv'.ring = EmptyRing /\ bat_priv'.first \in Slots
    BY <1>1, <1>2, <1>9 DEF BatteryIInv, FiguresAreRemembered
  <2> QED
    BY <2>1, EmptyRingIsOneBattery DEF RingIsOneBattery
<1> QED
  BY <1>10, <1>11, <1>12 DEF BatteryIInv

LEMMA BatteryStep == BatteryIInv /\ [BatteryNext]_batteryVars => BatteryIInv'
<1> SUFFICES ASSUME BatteryIInv, [BatteryNext]_batteryVars PROVE BatteryIInv'
  OBVIOUS
<1>1. CASE UNCHANGED batteryVars
  <2>1. /\ UNCHANGED <<bat_files, bat_clock, bat_priv, bat_shown, bat_upsets, bat_broken>>
        /\ EnergyTold(bat_shown.read, bat_shown.full)'
             = EnergyTold(bat_shown.read, bat_shown.full)
    BY <1>1 DEF batteryVars, EnergyTold, IsFromCapacity, EnergyRead, Capacity, PowerNow,
                EnergyNow, ChargeNow, Figure
  <2> QED
    BY <2>1 DEF BatteryIInv, BatteryTypes, FiguresAreRemembered, RingIsOneBattery,
                RateIsBounded, Believable, KindOf
<1>2. CASE BatteryNext
  BY <1>2, BatteryRefreshKeeps, BatteryTimeKeeps, BatteryUpsetKeeps, PutInKeeps DEF BatteryNext
<1> QED
  BY <1>1, <1>2

\* The energy that is told is its share of the full one.
LEMMA ShareIsTold ==
  ASSUME BatteryIInv, bat_shown.present, ~bat_broken.full
  PROVE  LET f == bat_shown.read
             made == IsFromCapacity(f, bat_shown.full)
         IN  /\ ~made /\ HasFigures(f) => bat_shown.energy * f.full = f.cell * bat_shown.full
             /\ made /\ f.names \cap FullFiles # {} =>
                  100 * (f.cell * bat_shown.full - bat_shown.energy * f.full)
                    \in 0..(f.full * bat_shown.full)
<1> DEFINE f == bat_shown.read
           full == bat_shown.full
           energy == bat_shown.energy
           made == IsFromCapacity(f, full)
<1>1. /\ f \in KnownFiles /\ full \in Nat /\ energy \in Nat /\ energy = EnergyTold(f, full)
      /\ f.names = bat_files.names /\ f.full = bat_files.full
      /\ f.names \cap FullFiles # {} => full = f.full
  <2>1. KindOf(f) = KindOf(bat_files)
    BY DEF BatteryIInv, FiguresAreRemembered
  <2>2. f.names = bat_files.names /\ f.full = bat_files.full
    BY <2>1 DEF KindOf
  <2> QED
    BY <2>2 DEF BatteryIInv, BatteryTypes, FiguresAreRemembered
<1>2. /\ f.cell \in Nat /\ f.full \in Nat /\ f.full > 0 /\ f.full % 100 = 0
      /\ HasFigures(f) => EnergyRead(f) = f.cell /\ f.names \cap FullFiles # {}
  BY <1>1, ReadIsRight
<1>3. ASSUME ~made, HasFigures(f)
      PROVE  energy * f.full = f.cell * full
  <2>1. energy = f.cell
    BY <1>1, <1>2, <1>3 DEF EnergyTold
  <2>2. full = f.full
    BY <1>1, <1>2, <1>3
  <2> HIDE DEF f, full, energy
  <2> QED
    BY <2>1, <2>2
<1>4. ASSUME made, f.names \cap FullFiles # {}
      PROVE  100 * (f.cell * full - energy * f.full) \in 0..(f.full * full)
  <2> DEFINE c == f.cell
             F == f.full
             pct == Capacity(f)
             q == F \div 100
  <2>1. full = F /\ c \in Nat /\ F \in Nat /\ F > 0 /\ 100 * c \in Nat
    BY <1>1, <1>2, <1>4
  <2>2. pct \in Nat /\ pct * F <= 100 * c /\ 100 * c < pct * F + F
    BY <2>1, DivisionIsExact DEF Capacity
  <2>3. q \in Nat /\ q * 100 = F
    BY <1>2, DivisionIsExact
  <2>4. energy = (F * pct) \div 100
    BY <1>1, <1>4, <2>1 DEF EnergyTold
  <2> HIDE DEF pct, q, c, F, energy, full
  <2>5. F * pct = (q * pct) * 100 /\ q * pct \in Nat
    BY <2>2, <2>3
  <2>6. \A n \in Nat : (n * 100) \div 100 = n
    OBVIOUS
  <2>7. energy = q * pct
    BY <2>4, <2>5, <2>6
  <2>8. 100 * energy = F * pct /\ energy \in Nat
    BY <2>5, <2>7
  <2> DEFINE short == 100 * c - F * pct
  <2>9. short \in Nat /\ short <= F
    BY <2>1, <2>2
  <2>10. 100 * (c * F - energy * F) = short * F
    <3>1. 100 * (c * F - energy * F) = (100 * c) * F - (100 * energy) * F
      BY <2>1, <2>8
    <3>2. (100 * c) * F - (F * pct) * F = (100 * c - F * pct) * F
      BY <2>1, <2>2
    <3> QED
      BY <2>8, <3>1, <3>2
  <2> HIDE DEF short
  <2>11. short * F \in 0..(F * F)
    BY <2>1, <2>9
  <2>12. 100 * (c * full - energy * F) \in 0..(F * full)
    BY <2>1, <2>10, <2>11
  <2> QED
    BY <2>12 DEF c, F
<1> QED
  BY <1>3, <1>4

\* Whatever files the battery's driver has, however often it is exchanged or the
\* clock set, and whenever it is looked at: the energy that is told is its share of
\* the full one, and a rate is no more than twice one that the battery has, unless
\* the estimate was upset.
THEOREM BatterySupplySafety == BatterySpec => []BatteryReadsTrue
<1>1. BatteryInit => BatteryIInv
  BY BatteryInitially
<1>2. BatteryIInv /\ [BatteryNext]_batteryVars => BatteryIInv'
  BY BatteryStep
<1>3. BatteryIInv => BatteryReadsTrue
  <2> SUFFICES ASSUME BatteryIInv, bat_shown.present PROVE BatteryReadsTrue
    BY DEF BatteryReadsTrue
  <2>1. ~bat_broken.rate => bat_shown.rate[1] <= 2 * MaxSlope * bat_shown.rate[2]
    BY DEF BatteryIInv, RateIsBounded, Believable
  <2>2. bat_shown.energy <= bat_shown.full
    BY DEF BatteryIInv, FiguresAreRemembered
  <2> QED
    BY <2>1, <2>2, ShareIsTold, Zenon DEF BatteryReadsTrue
<1> QED
  BY <1>1, <1>2, <1>3, PTL DEF BatterySpec
=============================================================================
