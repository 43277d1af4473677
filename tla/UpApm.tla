------------------------------- MODULE UpApm --------------------------------
(***************************************************************************)
(* The OpenBSD backend (src/openbsd/up-backend.c): a thread waits for      *)
(* events of /dev/apm, and for one of the power it queues a callback in    *)
(* the main loop, which reads the state of the mains and then, by a second *)
(* ioctl(), of the battery.  The energies of acpibat0 are left out.        *)
(***************************************************************************)
EXTENDS Integers

CONSTANTS
  PowerInfos,      \* what APM_IOC_GETPOWER may say
  LidSensors,      \* what the acpibtn sensors may say of the lid
  MaxApmChanges    \* bound: changes of the hardware

ApmBattery == {"high", "low", "critical", "charging", "absent", "unknown"}

ASSUME ApmAssumption ==
  /\ PowerInfos \subseteq [ac : {"off", "on", "unknown"}, battery : ApmBattery,
                           life : 0..100, minutes : Int]
  /\ LidSensors \subseteq {"none", "open", "closed"}
  /\ MaxApmChanges \in Nat

VARIABLES
  apm_info,        \* the state of the power
  apm_lid,         \* the state of the lid
  apm_changes,     \* changes so far
  apm_event,       \* the event the kqueue has (EV_CLEAR: one, of the last one's type)
  apm_thread,      \* "starting", "waiting" in kevent(), or "woken" by a change of power
  apm_callbacks,   \* callbacks in the main loop
  apm_callback_at, \* a callback has the battery left to refresh
  apm_coldplugged, \* the devices are announced
  apm_ac,          \* online of the mains device
  apm_battery,     \* the properties of the battery device
  apm_daemon_lid,  \* LidIsPresent and LidIsClosed
  apm_missed       \* the devices not read since a change of power whose event was
                   \* never made, or was replaced (history variable)

apmHardwareVars == <<apm_info, apm_lid, apm_changes>>
apmLoopVars == <<apm_event, apm_thread, apm_callbacks, apm_callback_at, apm_coldplugged>>
apmVars == <<apmHardwareVars, apmLoopVars, apm_ac, apm_battery, apm_daemon_lid, apm_missed>>

ApmDeviceNames == {"mains", "battery"}

\* up_backend_apm_get_battery_state_value()
BatteryStateValue(b) ==
  CASE b = "high" -> "fully_charged"
    [] b = "low" -> "discharging"
    [] b \in {"critical", "absent"} -> "empty"
    [] b = "charging" -> "charging"
    [] OTHER -> "unknown"

\* up_backend_update_lid_status(): no lid is told as a closed one.
UpdateLidStatus == apm_daemon_lid' = [present |-> apm_lid # "none", closed |-> apm_lid # "open"]

\* up_backend_update_ac_state()
UpdateAcState == UpdateLidStatus /\ apm_ac' = (apm_info.ac = "on")

\* The state that up_backend_update_battery_state() finds; more_minutes is the
\* comparison with new_time_to_empty, which is read before it is assigned.
NewBatteryState(a, more_minutes) ==
  CASE a.battery = "absent" -> "empty"
    [] a.battery = "unknown" -> "unknown"
    [] a.battery \notin {"absent", "unknown"} /\ a.ac = "on" ->
         IF a.life >= 99 THEN "fully_charged" ELSE "charging"
    [] OTHER ->
         IF apm_battery.percentage < a.life \/ more_minutes \/ a.ac = "off" THEN "discharging"
         ELSE BatteryStateValue(a.battery)

\* up_backend_update_battery_state(): the time is told in seconds, and compared in
\* minutes; nothing is set, not even is-present, unless one of three has changed.
UpdateBatteryState ==
  \E more_minutes \in BOOLEAN :
    LET state == NewBatteryState(apm_info, more_minutes)
        minutes == IF state = "discharging" /\ apm_info.minutes > 0 THEN apm_info.minutes ELSE 0
    IN  apm_battery' =
          IF \/ apm_battery.state # state
             \/ apm_battery.percentage # apm_info.life
             \/ apm_battery.time_to_empty # minutes
            THEN [state |-> state, percentage |-> apm_info.life, time_to_empty |-> minutes * 60,
                  is_present |-> apm_info.battery \notin {"absent", "unknown"}]
            ELSE apm_battery

\* up_backend_coldplug() of a laptop, both devices, and the lid.
ApmColdplug ==
  /\ ~apm_coldplugged /\ apm_coldplugged' = TRUE /\ ~apm_callback_at
  /\ UpdateAcState /\ UpdateBatteryState /\ apm_missed' = {}
  /\ UNCHANGED <<apmHardwareVars, apm_event, apm_thread, apm_callbacks, apm_callback_at>>

\* up_backend_apm_event_thread() registers with the kqueue; there is no event before.
ApmThreadRegisters ==
  /\ apm_thread = "starting" /\ apm_thread' = "waiting"
  /\ UNCHANGED <<apmHardwareVars, apm_event, apm_callbacks, apm_callback_at, apm_coldplugged,
                 apm_ac, apm_battery, apm_daemon_lid, apm_missed>>

\* Mutant: the filter is not EV_CLEAR, and the event stays.
MutApmThreadWakes ==
  /\ apm_thread = "waiting" /\ apm_event # "none"
  /\ apm_thread' = IF apm_event = "power" THEN "woken" ELSE "waiting"
  /\ UNCHANGED <<apmHardwareVars, apm_event, apm_callbacks, apm_callback_at, apm_coldplugged,
                 apm_ac, apm_battery, apm_daemon_lid, apm_missed>>

\* kevent() returns: an event that is not of the power is passed over.
ApmThreadWakes ==
  /\ apm_thread = "waiting" /\ apm_event # "none"
  /\ apm_event' = "none"
  /\ apm_thread' = IF apm_event = "power" THEN "woken" ELSE "waiting"
  /\ UNCHANGED <<apmHardwareVars, apm_callbacks, apm_callback_at, apm_coldplugged, apm_ac,
                 apm_battery, apm_daemon_lid, apm_missed>>

\* Then the callback is queued.
ApmThreadQueues ==
  /\ apm_thread = "woken" /\ apm_thread' = "waiting"
  /\ apm_callbacks' = apm_callbacks + 1
  /\ UNCHANGED <<apmHardwareVars, apm_event, apm_callback_at, apm_coldplugged, apm_ac,
                 apm_battery, apm_daemon_lid, apm_missed>>

\* Mutant: the battery is refreshed only when the mains have changed.
MutPowerchangeEventCb ==
  /\ apm_callbacks > 0 /\ apm_callbacks' = apm_callbacks - 1 /\ ~apm_callback_at
  /\ UpdateAcState /\ apm_missed' = apm_missed \ {"mains"}
  /\ apm_callback_at' = (apm_ac' # apm_ac)
  /\ UNCHANGED <<apmHardwareVars, apm_event, apm_thread, apm_coldplugged, apm_battery>>

\* up_backend_apm_powerchange_event_cb(): the mains, and then the battery.
PowerchangeEventCb ==
  /\ apm_callbacks > 0 /\ apm_callbacks' = apm_callbacks - 1 /\ ~apm_callback_at
  /\ UpdateAcState /\ apm_missed' = apm_missed \ {"mains"}
  /\ apm_callback_at' = TRUE
  /\ UNCHANGED <<apmHardwareVars, apm_event, apm_thread, apm_coldplugged, apm_battery>>

PowerchangeEventBattery ==
  /\ apm_callback_at /\ apm_callback_at' = FALSE
  /\ UpdateBatteryState /\ apm_missed' = apm_missed \ {"battery"}
  /\ UNCHANGED <<apmHardwareVars, apm_event, apm_thread, apm_callbacks, apm_coldplugged,
                 apm_ac, apm_daemon_lid>>

\* up_apm_device_refresh(), asked for by a bus client or by the daemon.
ApmDeviceRefresh ==
  /\ apm_coldplugged /\ ~apm_callback_at
  /\ \/ UpdateAcState /\ apm_missed' = apm_missed \ {"mains"} /\ UNCHANGED apm_battery
     \/ /\ UpdateBatteryState /\ apm_missed' = apm_missed \ {"battery"}
        /\ UNCHANGED <<apm_ac, apm_daemon_lid>>
  /\ UNCHANGED <<apmHardwareVars, apmLoopVars>>

\* The power changes, which is an event for a thread that is registered; the lid
\* does, which is none.
ApmPowerChange(info) ==
  /\ info # apm_info /\ apm_info' = info
  /\ IF apm_thread = "starting" THEN apm_missed' = ApmDeviceNames /\ UNCHANGED apm_event
     ELSE apm_event' = "power" /\ UNCHANGED apm_missed
  /\ apm_changes < MaxApmChanges /\ apm_changes' = apm_changes + 1
  /\ UNCHANGED <<apm_lid, apm_thread, apm_callbacks, apm_callback_at, apm_coldplugged,
                 apm_ac, apm_battery, apm_daemon_lid>>

ApmLidChange(lid) ==
  /\ lid # apm_lid /\ apm_lid' = lid
  /\ apm_changes < MaxApmChanges /\ apm_changes' = apm_changes + 1
  /\ UNCHANGED <<apm_info, apmLoopVars, apm_ac, apm_battery, apm_daemon_lid, apm_missed>>

\* Another event of the driver takes the place of the one that is unread.
ApmOtherEvent ==
  /\ apm_thread # "starting" /\ apm_event' = "other"
  /\ apm_missed' = IF apm_event = "power" THEN ApmDeviceNames ELSE apm_missed
  /\ UNCHANGED <<apmHardwareVars, apm_thread, apm_callbacks, apm_callback_at, apm_coldplugged,
                 apm_ac, apm_battery, apm_daemon_lid>>

\* up_backend_init(): the devices as they are made.
ApmInit ==
  /\ apm_info \in PowerInfos /\ apm_lid \in LidSensors /\ apm_changes = 0
  /\ apm_event = "none" /\ apm_thread = "starting" /\ apm_callbacks = 0
  /\ apm_callback_at = FALSE /\ apm_coldplugged = FALSE /\ apm_ac = TRUE
  /\ apm_battery = [state |-> "unknown", percentage |-> 0, time_to_empty |-> 0,
                    is_present |-> TRUE]
  /\ apm_daemon_lid = [present |-> FALSE, closed |-> FALSE] /\ apm_missed = {}

ApmNext ==
  \/ ApmColdplug \/ ApmThreadRegisters \/ ApmThreadWakes \/ ApmThreadQueues
  \/ PowerchangeEventCb \/ PowerchangeEventBattery \/ ApmDeviceRefresh \/ ApmOtherEvent
  \/ \E info \in PowerInfos : ApmPowerChange(info)
  \/ \E lid \in LidSensors : ApmLidChange(lid)

ApmSpec == ApmInit /\ [][ApmNext]_apmVars
-----------------------------------------------------------------------------
ApmTypeOK ==
  /\ apm_info \in PowerInfos /\ apm_lid \in LidSensors /\ apm_changes \in 0..MaxApmChanges
  /\ apm_event \in {"none", "power", "other"}
  /\ apm_thread \in {"starting", "waiting", "woken"}
  /\ apm_callbacks \in 0..MaxApmChanges /\ apm_callback_at \in BOOLEAN
  /\ apm_coldplugged \in BOOLEAN /\ apm_ac \in BOOLEAN
  /\ apm_battery \in [state : {"unknown", "charging", "discharging", "empty", "fully_charged"},
                      percentage : 0..100, time_to_empty : Nat, is_present : BOOLEAN]
  /\ apm_daemon_lid \in [present : BOOLEAN, closed : BOOLEAN]
  /\ apm_missed \subseteq ApmDeviceNames

\* Wherever the power changes between the event, the thread, the callback and its
\* two halves: when nothing is left to do, a device tells what the hardware does,
\* unless the change was before the thread registered or another event took the
\* place of its own, and the device was not read since.  Excepted are also the
\* state when the mains are unknown, and is-present of a battery that never told
\* anything, or that is "empty" both when it is critical and when it is absent:
\* between these two none of the three values changes.
Present(i) == i.battery \notin {"absent", "unknown"}
LooksEmpty(i) == i.battery = "absent" \/ (i.battery = "critical" /\ i.ac = "unknown")
SeemsTheSame(i) ==
  \/ i.battery = "unknown" /\ i.life = 0
  \/ LooksEmpty(i) /\ \E j \in PowerInfos :
       LooksEmpty(j) /\ j.life = i.life /\ Present(j) # Present(i)

ApmIsFollowed ==
  (/\ apm_coldplugged /\ apm_event # "power" /\ apm_thread # "woken"
   /\ apm_callbacks = 0 /\ ~apm_callback_at) =>
     /\ "mains" \notin apm_missed => apm_ac = (apm_info.ac = "on")
     /\ "battery" \notin apm_missed =>
          /\ apm_battery.percentage = apm_info.life
          /\ (Present(apm_info) /\ apm_info.ac = "on") =>
               apm_battery.state \in {"charging", "fully_charged"}
          /\ (Present(apm_info) /\ apm_info.ac = "off") => apm_battery.state = "discharging"
          /\ ~SeemsTheSame(apm_info) => apm_battery.is_present = Present(apm_info)
=============================================================================
