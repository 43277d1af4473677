------------------------------ MODULE UpDaemon ------------------------------
(***************************************************************************)
(* The daemon's core: the list of power devices, their refreshing from the *)
(* kernel (src/linux/up-backend.c, up-device-supply.c, up-device-hid.c),   *)
(* and what up-daemon.c makes of them - OnBattery, the display device, the *)
(* overall warning level and the critical action it arms.                  *)
(*                                                                         *)
(* The daemon is one thread in a GLib main loop: a handler runs to its end *)
(* before the next is dispatched.  The kernel does not wait for it, so a   *)
(* handler that touches several devices or sets several groups of          *)
(* properties is modelled in steps (loop, todo and sets say where it is):  *)
(* one g_object_set() per step, with the "notify" handler it runs, and     *)
(* nothing else is dispatched in between.                                  *)
(*                                                                         *)
(* Energies are integers in one unit and readings are chosen so that every *)
(* percentage is exact.  Voltages, charges in Ah and the times to full are *)
(* left out; an energy below the code's 0.01 and 0.1 Wh tests is 0.        *)
(***************************************************************************)
EXTENDS UpPolicy, Sequences, FiniteSets, Functions

CONSTANTS
  Device,            \* the devices that may be plugged in
  KindOf,            \* "line_power", "battery" or "ups"
  EnergyFull,        \* the energy_full file of each battery
  Readings,          \* what each device may report
  InitiallyPlugged,  \* the sets of devices a run may start with
  Config,            \* UPower.conf
  MaxUevents,        \* bound: uevents the kernel has queued
  MaxChanges         \* bound: changes of the environment in a run

\* A device's files, or a UPS's report (whose status is "unknown" when it
\* raises neither the charging nor the discharging flag).
Reading ==
  [present : BOOLEAN, online : BOOLEAN,
   status : {"unknown", "charging", "discharging", "fully_charged", "empty",
             "pending_charge"},
   charge : Nat,     \* energy_now; a UPS's remaining capacity in percent
   rate : Nat,       \* power_now, or the estimate made without it
   runtime : Nat]    \* a UPS's time to empty

\* A device that is gone reads as a directory without files.
Gone == [present |-> TRUE, online |-> FALSE, status |-> "unknown",
         charge |-> 0, rate |-> 0, runtime |-> 0]

ASSUME DaemonAssumption ==
  /\ KindOf \in [Device -> {"line_power", "battery", "ups"}]
  /\ EnergyFull \in [Device -> Nat]
  /\ Readings \in [Device -> SUBSET Reading]
  /\ InitiallyPlugged \subseteq SUBSET Device
  /\ Config \in Policy
  /\ MaxUevents \in Nat /\ MaxChanges \in Nat

VARIABLES
  \* the kernel
  sysfs,          \* each device's files
  plugged,        \* the devices there are
  unread,         \* UPSes with a report that has not been read
  uevents,        \* uevents on their way to the daemon
  preparing,      \* logind has announced sleep, and not yet the return from it
  changes,        \* changes made so far (bounds the environment)
  \* the devices
  power_devices,  \* the device list, in the order of insertion
  dev,            \* the properties of each listed device
  \* the daemon
  on_battery,
  warning_level,
  display,              \* the composite's values last put on the display device
  display_level,        \* the display device's own WarningLevel
  action_timeout_id,    \* the field is non-zero
  action_timeout_live,  \* the main loop still has that timeout
  refresh_event_id,     \* a refresh of the batteries is queued
  poll_paused,
  \* the handler that is running
  loop,           \* the loop over devices it is in, or "none"
  todo,           \* the devices this loop has still to do
  sets,           \* the property sets of the refresh it is in: <<device, values>>
  \* history
  action_taken,   \* the critical action was taken since the level became "action"
  stale           \* a device was added and nothing evaluated since

kernel == <<sysfs, plugged, unread, uevents, preparing, changes>>
aggregate == <<on_battery, warning_level, display, display_level,
               action_timeout_id, action_timeout_live, action_taken, stale>>
handler == <<loop, todo, sets>>
vars == <<kernel, power_devices, dev, aggregate, refresh_event_id, poll_paused, handler>>

policy == PolicyConfigValidate(Config)

Props ==
  [type : {"unknown", "line_power", "battery", "ups"}, present : BOOLEAN,
   power_supply : BOOLEAN, online : BOOLEAN, state : DeviceState,
   percentage : Nat, energy : Nat, energy_full : Nat, energy_rate : Nat,
   time_to_empty : Nat]

\* up_device_supply_reset_values()
ResetValues(p) ==
  [p EXCEPT !.present = FALSE, !.power_supply = FALSE, !.online = FALSE,
            !.state = "unknown", !.percentage = 0, !.energy = 0,
            !.energy_full = 0, !.energy_rate = 0, !.time_to_empty = 0]

NewDevice ==
  [type |-> "unknown", present |-> FALSE, power_supply |-> FALSE,
   online |-> FALSE, state |-> "unknown", percentage |-> 0, energy |-> 0,
   energy_full |-> 0, energy_rate |-> 0, time_to_empty |-> 0]

NoDisplay ==
  [type |-> "unknown", state |-> "unknown", percentage |-> 0, energy |-> 0,
   energy_full |-> 0, energy_rate |-> 0, time_to_empty |-> 0]
-----------------------------------------------------------------------------
(* What the daemon computes from its devices: l is a device list, ds the   *)
(* devices' properties.                                                    *)

\* The backends' get_on_battery() and get_online().
DeviceOnBattery(p) ==
  /\ p.type = "ups" \/ (p.type = "battery" /\ p.power_supply)
  /\ p.present
  /\ p.state = "discharging"

DeviceOnline(p) == p.type = "line_power" /\ p.online

OnBatteryLocal(l, ds) == \E d \in Range(l) : DeviceOnBattery(ds[d])
OnAcLocal(l, ds) == \E d \in Range(l) : DeviceOnline(ds[d])

\* The first device of the list that satisfies P, and whether there is one.
Some(l, P(_)) == \E d \in Range(l) : P(d)
First(l, P(_)) ==
  l[CHOOSE i \in DOMAIN l : P(l[i]) /\ \A j \in DOMAIN l : P(l[j]) => i <= j]

\* Mutant: batteries that say nothing are taken to be discharging.
MutCompositeState(l, ds, batteries) ==
  IF \E d \in batteries : ds[d].state = "charging" THEN "charging"
  ELSE IF \A d \in batteries : ds[d].state \notin {"pending_charge", "fully_charged"}
    THEN "discharging" ELSE "unknown"

\* The composite's state.  Charging beats discharging, which beats the rest;
\* of pending-charge and fully-charged, the one that is listed first wins.
CompositeState(l, ds, batteries) ==
  LET Idle(d) == d \in batteries /\ ds[d].state \in {"pending_charge", "fully_charged"}
  IN  IF \E d \in batteries : ds[d].state = "charging" THEN "charging"
      ELSE IF \E d \in batteries : ds[d].state = "discharging" THEN "discharging"
      ELSE IF Some(l, Idle) THEN ds[First(l, Idle)].state
      ELSE "unknown"

\* The composite of the laptop batteries.  A single one is shown as it is; of
\* several, the percentage and the time are worked out from the sums.
BatteryComposite(l, ds) ==
  LET batteries == {d \in Range(l) : ds[d].type = "battery" /\ ds[d].power_supply}
      state == CompositeState(l, ds, batteries)
      percentage == SumFunction([d \in batteries |-> ds[d].percentage])
      energy == SumFunction([d \in batteries |-> ds[d].energy])
      full == SumFunction([d \in batteries |-> ds[d].energy_full])
      rate == SumFunction([d \in batteries |-> ds[d].energy_rate])
      time == SumFunction([d \in batteries |-> ds[d].time_to_empty])
      several == Cardinality(batteries) > 1
  IN  [type |-> IF batteries = {} THEN "unknown" ELSE "battery",
       state |-> state,
       percentage |-> IF several /\ full > 0 THEN (100 * energy) \div full ELSE percentage,
       energy |-> energy, energy_full |-> full, energy_rate |-> rate,
       time_to_empty |->
         IF several /\ rate > 0 /\ state = "discharging" THEN (3600 * energy) \div rate
         ELSE time]

\* up_daemon_update_display_battery(): a UPS hides the batteries.  (It reports
\* neither an energy nor a rate, so that batteries listed before it leave no
\* trace in the percentage and the time.)
Composite(l, ds) ==
  LET IsUps(d) == ds[d].type = "ups"
  IN  IF Some(l, IsUps)
        THEN LET p == ds[First(l, IsUps)]
             IN  [type |-> "ups", state |-> p.state, percentage |-> p.percentage,
                  energy |-> p.energy, energy_full |-> p.energy_full,
                  energy_rate |-> p.energy_rate, time_to_empty |-> p.time_to_empty]
        ELSE BatteryComposite(l, ds)

LevelOf(c) ==
  ComputeWarningLevel(policy, c.state, c.type, TRUE, c.percentage, c.time_to_empty)

\* up_daemon_get_warning_level_local(), of the composite c
WarningLevelLocal(c, l, ds) ==
  IF \/ c.type \notin {"ups", "battery"}
     \/ c.type = "ups" /\ c.state # "discharging"
     \/ c.type = "battery" /\ OnAcLocal(l, ds)
    THEN "none"
    ELSE LevelOf(c)

\* Mutant: leaving the level does not remove the timeout.
MutSetWarningLevel(level) ==
  /\ warning_level' = level
  /\ action_timeout_id' = (action_timeout_id \/ (level # warning_level /\ level = "action"))
  /\ action_timeout_live' = (action_timeout_live
                             \/ (level # warning_level /\ level = "action" /\ ~action_timeout_id))
  /\ action_taken' = (action_taken /\ level = warning_level)

\* up_daemon_set_warning_level(): entering "action" arms the timeout unless the
\* field says there is one; leaving it removes the timeout, and keeps the field.
SetWarningLevel(level) ==
  /\ warning_level' = level
  /\ IF level = warning_level
       THEN UNCHANGED <<action_timeout_id, action_timeout_live, action_taken>>
       ELSE IF level = "action"
         THEN /\ action_timeout_id' = TRUE
              /\ action_timeout_live' = IF action_timeout_id THEN action_timeout_live
                                                             ELSE TRUE
              /\ action_taken' = FALSE
         ELSE /\ action_timeout_live' = IF action_timeout_id THEN FALSE
                                                             ELSE action_timeout_live
              /\ action_taken' = FALSE
              /\ UNCHANGED action_timeout_id

\* Mutant: the level is worked out from the composite there was before.
MutUpdateWarningLevel ==
  LET composite == Composite(power_devices', dev')
      level == WarningLevelLocal(display, power_devices', dev')
  IN  /\ on_battery' = (/\ OnBatteryLocal(power_devices', dev')
                        /\ ~OnAcLocal(power_devices', dev'))
      /\ display' = composite
      /\ display_level' = IF level = warning_level THEN display_level ELSE level
      /\ SetWarningLevel(level)
      /\ stale' = FALSE

\* up_daemon_update_warning_level(), on the new list and the new properties.
\* Putting a new composite on the display device makes that device work out a
\* warning level of its own; the overall level is put on it when it changes.
UpdateWarningLevel ==
  LET composite == Composite(power_devices', dev')
      level == WarningLevelLocal(composite, power_devices', dev')
      own == IF composite = display THEN display_level ELSE LevelOf(composite)
  IN  /\ on_battery' = (/\ OnBatteryLocal(power_devices', dev')
                        /\ ~OnAcLocal(power_devices', dev'))
      /\ display' = composite
      /\ display_level' = IF level = warning_level THEN own ELSE level
      /\ SetWarningLevel(level)
      /\ stale' = FALSE
-----------------------------------------------------------------------------
(* What a refresh reads: the values of the property sets it makes, in      *)
(* their order.                                                            *)

BatteryCount == Cardinality({d \in Range(power_devices) : dev[d].type = "battery"})

\* Mutant: a warning level is taken for a state.
MutGuessState(percentage) == IF percentage <= 10 THEN "low" ELSE "discharging"

\* A battery that does not know its state: ask the first AC adapter listed, or
\* take a lone battery to be discharging.
GuessState(percentage) ==
  LET IsAc(d) == dev[d].type = "line_power"
      OffLine == IF percentage < 1 THEN "empty" ELSE "discharging"
  IN  IF Some(power_devices, IsAc)
        THEN IF dev[First(power_devices, IsAc)].online
               THEN IF percentage > 90 THEN "fully_charged" ELSE "charging"
               ELSE OffLine
        ELSE IF BatteryCount = 1 THEN OffLine ELSE "unknown"

\* The state of a battery with these readings.
BatteryState(status, percentage, energy) ==
  LET known == IF status = "pending_charge" /\ percentage = 100 THEN "fully_charged"
               ELSE status
      guess == IF known = "unknown" THEN GuessState(percentage) ELSE known
  IN  IF guess = "unknown" /\ energy = 0 THEN "empty" ELSE guess

\* The values of a present battery, p being its properties before.  The full
\* energy is read once, on the first refresh and after a removal; when the
\* energy files are missing it is read again, as 0.
BatteryValues(d, p) ==
  LET r == sysfs[d]
      last == IF d \notin plugged THEN 0
              ELSE IF p.power_supply THEN p.energy_full ELSE EnergyFull[d]
      full == IF r.charge > last THEN r.charge ELSE last
      percentage == IF full > 0 THEN (100 * r.charge) \div full ELSE 0
      state == BatteryState(r.status, percentage, r.charge)
      rate == IF r.charge = 0 THEN 0 ELSE r.rate
      time == IF state = "discharging" /\ rate > 0 THEN (3600 * r.charge) \div rate ELSE 0
  IN  [p EXCEPT !.present = TRUE, !.power_supply = TRUE, !.energy = r.charge,
                !.energy_full = full, !.energy_rate = rate,
                !.percentage = percentage, !.state = state,
                !.time_to_empty = IF time > 240 * 60 * 60 THEN 0 ELSE time]

BatterySets(d, p) ==
  LET here == [p EXCEPT !.present = sysfs[d].present]
  IN  IF here.present
        THEN <<here, [here EXCEPT !.power_supply = TRUE], BatteryValues(d, p)>>
        ELSE <<here, ResetValues(p)>>

LinePowerSets(d, p) ==
  LET supply == [p EXCEPT !.power_supply = TRUE]
  IN  <<supply, [supply EXCEPT !.online = sysfs[d].online]>>

\* up_device_hid_fixup_state(): states the UPS cannot express.
FixupState(p) ==
  [p EXCEPT !.state = IF p.percentage = 0 THEN "empty"
                      ELSE IF p.percentage = 100 THEN "fully_charged"
                      ELSE p.state]

\* A UPS's report: one set per usage, in the order the UPS declares them.
UpsSets(d, p) ==
  LET r == sysfs[d]
      State(q) == IF r.status = "unknown" THEN q ELSE [q EXCEPT !.state = r.status]
      Charge(q) == [q EXCEPT !.percentage = r.charge]
      Runtime(q) == [q EXCEPT !.time_to_empty = r.runtime]
      StateFirst == <<State(p), Charge(State(p)), Runtime(Charge(State(p)))>>
      StateLast == <<Charge(p), Runtime(Charge(p)), State(Runtime(Charge(p)))>>
  IN  {Append(s, FixupState(s[3])) : s \in {StateFirst, StateLast}}

\* Every way klass->refresh() may set the properties of d, which are p.
RefreshSets(d, p) ==
  CASE p.type = "line_power" -> {LinePowerSets(d, p)}
    [] p.type = "battery" -> {BatterySets(d, p)}
    [] p.type = "ups" -> IF d \in unread \cap plugged THEN UpsSets(d, p) ELSE {<<>>}

\* up_device_refresh_internal() of a listed device: the sets are made in the
\* next steps.
StartRefresh(d) ==
  /\ \E s \in RefreshSets(d, dev[d]) : sets' = [i \in DOMAIN s |-> <<d, s[i]>>]
  /\ unread' = IF dev[d].type = "ups" THEN unread \ {d} ELSE unread
-----------------------------------------------------------------------------
(* The kernel: it changes what devices report, and devices come and go.    *)

Uevent == [action : {"add", "remove", "change"}, device : Device]

Send(action, d) ==
  /\ Len(uevents) < MaxUevents
  /\ uevents' = Append(uevents, [action |-> action, device |-> d])

EnvironmentStep ==
  /\ changes < MaxChanges
  /\ changes' = changes + 1
  /\ UNCHANGED <<preparing, power_devices, dev, aggregate, refresh_event_id, poll_paused,
                 handler>>

\* An AC adapter always tells; a battery may; a UPS has a report to be read.
Change(d, r) ==
  /\ d \in plugged /\ sysfs[d] # r
  /\ sysfs' = [sysfs EXCEPT ![d] = r]
  /\ unread' = IF KindOf[d] = "ups" THEN unread \cup {d} ELSE unread
  /\ \/ KindOf[d] # "ups" /\ Send("change", d)
     \/ KindOf[d] # "line_power" /\ UNCHANGED uevents
  /\ UNCHANGED plugged
  /\ EnvironmentStep

Plug(d, r) ==
  /\ d \notin plugged
  /\ plugged' = plugged \cup {d}
  /\ sysfs' = [sysfs EXCEPT ![d] = r]
  /\ Send("add", d)
  /\ UNCHANGED unread
  /\ EnvironmentStep

Unplug(d) ==
  /\ d \in plugged
  /\ plugged' = plugged \ {d}
  /\ sysfs' = [sysfs EXCEPT ![d] = Gone]
  /\ unread' = unread \ {d}
  /\ Send("remove", d)
  /\ EnvironmentStep
-----------------------------------------------------------------------------
(* The daemon's handlers.                                                  *)

\* No handler is running: the main loop may dispatch.
Dispatching == loop = "none" /\ sets = <<>>

\* Mutant: nobody is connected to the device's "notify".
MutSetProperties ==
  /\ sets # <<>>
  /\ dev' = [dev EXCEPT ![sets[1][1]] = sets[1][2]]
  /\ sets' = Tail(sets)
  /\ UNCHANGED <<kernel, power_devices, aggregate, refresh_event_id, poll_paused, loop, todo>>

\* One g_object_set() of the running refresh, and device_changed_cb().
SetProperties ==
  /\ sets # <<>>
  /\ dev' = [dev EXCEPT ![sets[1][1]] = sets[1][2]]
  /\ sets' = Tail(sets)
  /\ refresh_event_id' = (refresh_event_id \/ sets[1][2].type = "line_power")
  /\ UNCHANGED power_devices
  /\ UpdateWarningLevel
  /\ UNCHANGED <<kernel, poll_paused, loop, todo>>

\* The properties of a device that up_backend_device_new() has coldplugged, or
\* none when that fails.  Nobody listens to the device yet.  A supply that has
\* gone since is taken for a battery; a UPS must still be there.
ColdplugValues(d) ==
  LET p == [NewDevice EXCEPT !.type = KindOf[d]]
      b == [NewDevice EXCEPT !.type = "battery"]
      LastOf(s) == s[Len(s)]
  IN  CASE KindOf[d] = "ups" ->
             IF d \in plugged
               THEN {LastOf(s) : s \in UpsSets(d, [p EXCEPT !.power_supply = TRUE,
                                                            !.present = TRUE])}
               ELSE {}
        [] KindOf[d] = "line_power" /\ d \in plugged -> {LastOf(LinePowerSets(d, p))}
        [] OTHER -> {LastOf(BatterySets(d, b))}

\* up_backend_device_add() of a device that is not listed.  The overall level
\* and OnBattery are not evaluated.
AddDevice(d) ==
  IF ColdplugValues(d) = {}
    THEN UNCHANGED <<power_devices, dev, stale, unread>>
    ELSE /\ power_devices' = Append(power_devices, d)
         /\ \E p \in ColdplugValues(d) : dev' = [dev EXCEPT ![d] = p]
         /\ stale' = TRUE
         /\ unread' = unread \ {d}

\* up_backend_coldplug(): the power supplies there are, in any order ...
ColdplugSupply ==
  /\ loop = "power_supply"
  /\ IF todo = {}
       THEN /\ loop' = "usb"
            /\ todo' = {d \in plugged : KindOf[d] = "ups"} \ Range(power_devices)
            /\ UNCHANGED <<power_devices, dev, stale, unread>>
       ELSE /\ \E d \in todo : todo' = todo \ {d} /\ AddDevice(d)
            /\ UNCHANGED loop
  /\ UNCHANGED <<sysfs, plugged, uevents, preparing, changes, on_battery, warning_level, display,
                 display_level, action_timeout_id, action_timeout_live, action_taken,
                 refresh_event_id, poll_paused, sets>>

\* ... then the UPSes ...
ColdplugUsb ==
  /\ loop = "usb" /\ todo # {}
  /\ \E d \in todo : todo' = todo \ {d} /\ AddDevice(d)
  /\ UNCHANGED <<sysfs, plugged, uevents, preparing, changes, on_battery, warning_level, display,
                 display_level, action_timeout_id, action_timeout_live, action_taken,
                 refresh_event_id, poll_paused, loop, sets>>

\* ... and the end of up_daemon_startup().
Startup ==
  /\ loop = "usb" /\ todo = {}
  /\ loop' = "none"
  /\ UNCHANGED <<power_devices, dev>>
  /\ UpdateWarningLevel
  /\ UNCHANGED <<kernel, refresh_event_id, poll_paused, todo, sets>>

\* g_ptr_array_remove(): d, which is listed once, goes and the rest closes up.
ListRemove(l, d) ==
  LET i == CHOOSE i \in DOMAIN l : l[i] = d
  IN  [j \in 1..(Len(l) - 1) |-> l[IF j < i THEN j ELSE j + 1]]

\* Mutant: the list is left to the next change to evaluate.
MutUeventRemove(d) ==
  /\ IF d \in Range(power_devices)
       THEN /\ power_devices' = ListRemove(power_devices, d)
            /\ dev' = [dev EXCEPT ![d] = NewDevice]
            /\ refresh_event_id' = TRUE
       ELSE UNCHANGED <<power_devices, dev, refresh_event_id>>
  /\ UNCHANGED <<aggregate, unread, sets>>

\* A listed device leaves, or an unlisted one joins, or one is refreshed.
UeventRemove(d) ==
  /\ IF d \in Range(power_devices)
       THEN /\ power_devices' = ListRemove(power_devices, d)
            /\ dev' = [dev EXCEPT ![d] = NewDevice]
            /\ refresh_event_id' = TRUE
            /\ UpdateWarningLevel
       ELSE UNCHANGED <<power_devices, dev, refresh_event_id, aggregate>>
  /\ UNCHANGED <<unread, sets>>

\* Mutant: an add event is not looked up in the list.
MutUeventAddOrChange(d) ==
  /\ AddDevice(d)
  /\ UNCHANGED <<sets, on_battery, warning_level, display, display_level, action_timeout_id,
                 action_timeout_live, action_taken, refresh_event_id>>

UeventAddOrChange(d) ==
  /\ IF d \in Range(power_devices)
       THEN StartRefresh(d) /\ UNCHANGED <<power_devices, dev, stale>>
       ELSE AddDevice(d) /\ UNCHANGED sets
  /\ UNCHANGED <<on_battery, warning_level, display, display_level, action_timeout_id,
                 action_timeout_live, action_taken, refresh_event_id>>

\* up_backend_uevent_signal_handler_cb()
DispatchUevent ==
  /\ Dispatching /\ uevents # <<>>
  /\ uevents' = Tail(uevents)
  /\ IF Head(uevents).action = "remove" THEN UeventRemove(Head(uevents).device)
                                        ELSE UeventAddOrChange(Head(uevents).device)
  /\ UNCHANGED <<sysfs, plugged, preparing, changes, poll_paused, loop, todo>>

Refresh(d) ==
  /\ Dispatching /\ d \in Range(power_devices)
  /\ StartRefresh(d)
  /\ UNCHANGED <<sysfs, plugged, uevents, preparing, changes, power_devices, dev, aggregate,
                 refresh_event_id, poll_paused, loop, todo>>

\* The device's own timer: a battery's stops during sleep, a UPS's does not.
PollRefresh(d) == (dev[d].type = "ups" \/ (dev[d].type = "battery" /\ ~poll_paused)) /\ Refresh(d)

\* A client's Refresh() call.
ClientRefresh(d) == Refresh(d)

\* up_daemon_refresh_battery_devices_cb(), the idle source
RefreshBatteryDevices ==
  /\ Dispatching /\ refresh_event_id
  /\ loop' = "idle" /\ todo' = Range(power_devices)
  /\ UNCHANGED <<kernel, power_devices, dev, aggregate, refresh_event_id, poll_paused, sets>>

\* up_backend_prepare_for_sleep(TRUE)
PrepareForSleep ==
  /\ Dispatching /\ ~preparing
  /\ preparing' = TRUE
  /\ poll_paused' = TRUE
  /\ UNCHANGED <<sysfs, plugged, unread, uevents, changes, power_devices, dev, aggregate,
                 refresh_event_id, handler>>

\* up_backend_prepare_for_sleep(FALSE): refresh everything, then resume polling.
WakeUp ==
  /\ Dispatching /\ preparing
  /\ preparing' = FALSE
  /\ loop' = "resume" /\ todo' = Range(power_devices)
  /\ UNCHANGED <<sysfs, plugged, unread, uevents, changes, power_devices, dev, aggregate,
                 refresh_event_id, poll_paused, sets>>

\* The next device of a refresh loop, in the order of the list.
RefreshNext ==
  /\ loop \in {"idle", "resume"} /\ todo # {} /\ sets = <<>>
  /\ \E i \in DOMAIN power_devices :
       LET d == power_devices[i]
       IN  /\ d \in todo /\ \A j \in 1..(i - 1) : power_devices[j] \notin todo
           /\ todo' = todo \ {d}
           /\ IF loop = "resume" \/ (dev[d].type = "battery" /\ dev[d].power_supply)
                THEN StartRefresh(d)
                ELSE UNCHANGED <<sets, unread>>
  /\ UNCHANGED <<sysfs, plugged, uevents, preparing, changes, power_devices, dev, aggregate,
                 refresh_event_id, poll_paused, loop>>

\* Mutant: polling is not resumed.
MutRefreshDone ==
  /\ loop \in {"idle", "resume"} /\ todo = {} /\ sets = <<>>
  /\ loop' = "none"
  /\ refresh_event_id' = IF loop = "idle" THEN FALSE ELSE refresh_event_id
  /\ UNCHANGED <<kernel, power_devices, dev, aggregate, poll_paused, todo, sets>>

RefreshDone ==
  /\ loop \in {"idle", "resume"} /\ todo = {} /\ sets = <<>>
  /\ loop' = "none"
  /\ refresh_event_id' = IF loop = "idle" THEN FALSE ELSE refresh_event_id
  /\ poll_paused' = IF loop = "resume" THEN FALSE ELSE poll_paused
  /\ UNCHANGED <<kernel, power_devices, dev, aggregate, todo, sets>>

\* Mutant: the callback returns G_SOURCE_CONTINUE.
MutTakeActionTimeout ==
  /\ Dispatching /\ action_timeout_live
  /\ action_timeout_id' = FALSE
  /\ action_taken' = TRUE
  /\ UNCHANGED <<kernel, power_devices, dev, on_battery, warning_level, display,
                 display_level, action_timeout_live, stale, refresh_event_id, poll_paused,
                 handler>>

\* take_action_timeout_cb()
TakeActionTimeout ==
  /\ Dispatching /\ action_timeout_live
  /\ action_timeout_id' = FALSE
  /\ action_timeout_live' = FALSE
  /\ action_taken' = TRUE
  /\ UNCHANGED <<kernel, power_devices, dev, on_battery, warning_level, display,
                 display_level, stale, refresh_event_id, poll_paused, handler>>
-----------------------------------------------------------------------------
Init ==
  /\ plugged \in InitiallyPlugged
  /\ sysfs \in {f \in [Device -> {Gone} \cup UNION {Readings[d] : d \in Device}] :
                  \A d \in Device : IF d \in plugged THEN f[d] \in Readings[d]
                                    ELSE f[d] = Gone}
  /\ unread = {} /\ uevents = <<>> /\ preparing = FALSE /\ changes = 0
  /\ power_devices = <<>>
  /\ dev = [d \in Device |-> NewDevice]
  /\ on_battery = FALSE
  /\ warning_level = "unknown"
  /\ display = NoDisplay /\ display_level = "none"
  /\ action_timeout_id = FALSE /\ action_timeout_live = FALSE
  /\ action_taken = FALSE
  /\ stale = FALSE
  /\ refresh_event_id = FALSE
  /\ poll_paused = FALSE
  /\ loop = "power_supply" /\ todo = {d \in plugged : KindOf[d] # "ups"}
  /\ sets = <<>>

Environment ==
  \/ \E d \in Device : \E r \in Readings[d] : Change(d, r) \/ Plug(d, r)
  \/ \E d \in Device : Unplug(d)

\* The steps of a handler that has been dispatched.
Handler == SetProperties \/ RefreshNext \/ RefreshDone \/ ColdplugSupply \/ ColdplugUsb \/ Startup

Next ==
  \/ Environment
  \/ Handler
  \/ DispatchUevent
  \/ \E d \in Device : PollRefresh(d) \/ ClientRefresh(d)
  \/ RefreshBatteryDevices
  \/ PrepareForSleep
  \/ WakeUp
  \/ TakeActionTimeout

Spec == Init /\ [][Next]_vars

\* The main loop finishes the handler it runs, and dispatches every source that
\* keeps being ready; a machine that sleeps wakes up.
Fairness ==
  /\ WF_vars(Handler)
  /\ SF_vars(DispatchUevent)
  /\ \A d \in Device : SF_vars(PollRefresh(d))
  /\ SF_vars(RefreshBatteryDevices)
  /\ SF_vars(WakeUp)
  /\ SF_vars(TakeActionTimeout)

FairSpec == Spec /\ Fairness
-----------------------------------------------------------------------------
\* The values each variable may take, first without the sums.
StateTypeOK ==
  /\ sysfs \in [Device -> Reading]
  /\ plugged \subseteq Device /\ unread \subseteq Device
  /\ uevents \in Seq(Uevent) /\ preparing \in BOOLEAN /\ changes \in Nat
  /\ power_devices \in Seq(Device) /\ dev \in [Device -> Props]
  /\ on_battery \in BOOLEAN
  /\ warning_level \in WarningLevel /\ display_level \in WarningLevel
  /\ action_timeout_id \in BOOLEAN /\ action_timeout_live \in BOOLEAN
  /\ refresh_event_id \in BOOLEAN /\ poll_paused \in BOOLEAN
  /\ loop \in {"none", "power_supply", "usb", "idle", "resume"}
  /\ todo \subseteq Device /\ sets \in Seq(Device \X Props)
  /\ action_taken \in BOOLEAN /\ stale \in BOOLEAN

TypeOK ==
  /\ StateTypeOK
  /\ display \in [type : DeviceKind, state : DeviceState, percentage : Nat,
                  energy : Nat, energy_full : Nat, energy_rate : Nat,
                  time_to_empty : Nat]

\* A device is listed once, whatever the order in which the startup query and
\* the uevents report it, and only listed devices hold values.
ListedOnce ==
  /\ \A i, j \in DOMAIN power_devices : power_devices[i] = power_devices[j] => i = j
  /\ \A d \in Device : d \notin Range(power_devices) => dev[d] = NewDevice

\* The timeout of the critical action only runs while the overall level is
\* "action", for an episode in which the action was not taken yet, and the
\* daemon knows about it: whatever takes the level away also stops the timeout.
TimeoutBelongsToEpisode ==
  action_timeout_live => action_timeout_id /\ warning_level = "action" /\ ~action_taken

\* After startup OnBattery, the display device and the overall level always
\* follow from the listed devices' present properties; only a device that was
\* hot-plugged since the last evaluation may be missing from them.
AggregateIsCurrent ==
  (loop \notin {"power_supply", "usb"} /\ ~stale) =>
    /\ display = Composite(power_devices, dev)
    /\ warning_level = WarningLevelLocal(display, power_devices, dev)
    /\ on_battery = (OnBatteryLocal(power_devices, dev) /\ ~OnAcLocal(power_devices, dev))

\* The action level needs a listed supply that is discharging, and under the
\* percentage policy one that is itself down to the action threshold: a yanked
\* battery, or a full one beside an empty one, does not bring the machine down.
ActionNeedsAnEmptySupply ==
  LET Supply == {d \in Range(power_devices) : dev[d].type \in {"battery", "ups"}}
  IN  warning_level = "action" =>
        /\ \E d \in Supply : dev[d].state = "discharging"
        /\ policy.use_percentage =>
             \E d \in Supply : dev[d].percentage <= policy.action_percentage

\* The promise about the critical action.
CriticalAction ==
  INSTANCE UpCriticalAction WITH
    at_action <- warning_level = "action",
    armed <- action_timeout_live,
    taken <- action_taken

\* The daemon keeps the promise of UpCriticalAction in every step.
KeepsCriticalAction == CriticalAction!Spec

\* A grace period that has started ends: the action is taken, or called off.
GracePeriodEnds == action_timeout_live ~> ~action_timeout_live

\* What the daemon shows is what the kernel would tell it now.
Settled ==
  /\ Range(power_devices) = plugged
  /\ \A d \in plugged : LET p == dev[d]
                            r == sysfs[d]
     IN  CASE KindOf[d] = "line_power" -> p.type = "line_power" /\ p.online = r.online
           [] KindOf[d] = "ups" -> p.type = "ups" /\ p.percentage = r.charge
           [] KindOf[d] = "battery" ->
                /\ p.type = "battery" /\ p.present = r.present
                /\ r.present => p.energy = r.charge
                /\ (r.present /\ r.status # "unknown" /\ r.status # "pending_charge")
                     => p.state = r.status
  /\ warning_level = WarningLevelLocal(Composite(power_devices, dev), power_devices, dev)
  /\ on_battery = (OnBatteryLocal(power_devices, dev) /\ ~OnAcLocal(power_devices, dev))

\* Once the environment stops changing, the daemon catches up for good, however
\* uevents, polls, clients' refreshes, sleep and the queued refresh interleaved,
\* and although batteries' uevents may be missing.
CatchesUp == <>[]Settled
-----------------------------------------------------------------------------
(* What a test or a document of the repository says, and the code does not *)
(* do.                                                                     *)

\* "check that critical action works repeatedly (eg. after resume)": every time
\* the overall level becomes "action", the timeout is armed.
EveryEpisodeIsArmed ==
  [][(warning_level # "action" /\ warning_level' = "action") => action_timeout_live']_vars

\* The display device's WarningLevel is "The same as the overall WarningLevel".
DisplayLevelIsOverall == warning_level # "unknown" => display_level = warning_level

\* "only guess when we have only one battery": without an AC adapter, a battery
\* whose state the kernel does not know is not taken for discharging while
\* another battery is listed.
GuessesForALoneBattery ==
  [][\A d \in Device :
       (/\ d \notin Range(power_devices) /\ d \in Range(power_devices')
        /\ sysfs[d].present /\ sysfs[d].status = "unknown"
        /\ \A x \in Range(power_devices') : dev'[x].type = "battery"
        /\ Len(power_devices') > 1)
         => dev'[d].state # "discharging"]_vars
=============================================================================
