------------------------------- MODULE UpAcpi -------------------------------
(***************************************************************************)
(* The FreeBSD backend (src/freebsd/up-backend.c, up-device-supply.c and   *)
(* up-devd.c): the mains and the ACPI batteries are read when devd tells   *)
(* of a change, and all of them by a timer.  devd names a battery by the   *)
(* name firmware gave it.  The number in that name is taken for the unit   *)
(* of its driver, which it may be, or another battery's, or no unit at     *)
(* all; and the name may hold none.  The energies, which are arithmetic    *)
(* only, are left out.                                                     *)
(***************************************************************************)
EXTENDS Integers, Sequences

CONSTANTS
  BatteryUnits,     \* units of the driver "battery", from 0 on
  FirmwareNumber,   \* the number after ".BAT" in the firmware's name of each
  HasHandle,        \* the units that tell that name in their %location
  AcpiFlags,        \* the sets of flags a battery may have
  MaxDevdEvents,    \* bound: events on their way
  MaxAcpiChanges    \* bound: changes of the hardware

NoNumber == -2      \* the name holds none

ASSUME AcpiAssumption ==
  /\ BatteryUnits \subseteq Nat
  /\ FirmwareNumber \in [BatteryUnits -> Nat \cup {NoNumber}]
  /\ HasHandle \subseteq BatteryUnits
  /\ AcpiFlags \subseteq SUBSET {"not_present", "discharg", "charging", "critical"}
  /\ {} \in AcpiFlags
  /\ MaxDevdEvents \in Nat /\ MaxAcpiChanges \in Nat

ACLine == -1        \* stands for hw.acpi.acline
AcpiDevices == BatteryUnits \cup {ACLine}

VARIABLES
  acpi_mains,      \* hw.acpi.acline
  acpi_flags,      \* the flags of each battery
  acpi_lid,        \* hw.acpi.lid_switch_state, "none" without one
  acpi_changes,    \* changes so far
  devd_events,     \* lines in the socket
  devd_channel,    \* "unopened", "open", or "ended" since devd went
  acpi_step,       \* up_backend_coldplug(): "devices", "connect", then "running"
  acpi_devices,    \* the device list: what each device tells, for those listed
  handle_map,      \* the units whose firmware's name is known
  acpi_daemon_lid, \* LidIsPresent and LidIsClosed
  acpi_unread,     \* devices that nobody asked to be read, or that could not be,
                   \* since their last change (history variable)
  acpi_lid_told    \* a lid event was handled and none lost since (history variable)

acpiHardwareVars == <<acpi_mains, acpi_flags, acpi_lid, acpi_changes>>
acpiDevdVars == <<devd_events, devd_channel>>
acpiVars == <<acpiHardwareVars, acpiDevdVars, acpi_step, acpi_devices, handle_map,
              acpi_daemon_lid, acpi_unread, acpi_lid_told>>

\* The state that up_device_supply_battery_set_properties() makes of the flags.
AcpiState(flags) ==
  CASE "not_present" \in flags -> "unknown"
    [] "not_present" \notin flags /\ "discharg" \in flags -> "discharging"
    [] flags \cap {"not_present", "discharg"} = {} /\ "charging" \in flags -> "charging"
    [] flags = {"critical"} -> "empty"
    [] OTHER -> "fully_charged"

\* What up_device_supply_refresh() reads, of the mains and of a battery; one that is
\* not present is reset.
AcpiRead(d) ==
  IF d = ACLine THEN [online |-> acpi_mains, is_present |-> FALSE, state |-> "unknown"]
  ELSE [online |-> FALSE, is_present |-> "not_present" \notin acpi_flags[d],
        state |-> AcpiState(acpi_flags[d])]

\* The list with some devices read: those in failed could not be.
RefreshAcpi(devices, failed) ==
  /\ acpi_devices' = [d \in DOMAIN acpi_devices \cup (devices \ failed) |->
                        IF d \in devices \ failed THEN AcpiRead(d) ELSE acpi_devices[d]]
  /\ acpi_unread' = (acpi_unread \ devices) \cup failed

\* up_backend_create_new_device() learns the handles of the batteries it lists, the
\* whole names.
LearnHandles(devices) == handle_map' = handle_map \cup (devices \cap HasHandle)

\* up_backend_coldplug(): the batteries, the mains and the lid; an ioctl() may fail.
AcpiColdplug ==
  /\ acpi_step = "devices" /\ acpi_step' = "connect"
  /\ \E failed \in SUBSET AcpiDevices :
       RefreshAcpi(AcpiDevices, failed) /\ LearnHandles(AcpiDevices \ failed)
  /\ acpi_daemon_lid' = [acpi_daemon_lid EXCEPT !.present = acpi_lid # "none"]
  /\ UNCHANGED <<acpiHardwareVars, acpiDevdVars, acpi_lid_told>>

\* up_devd_init(): without devd there is the timer.
DevdInit ==
  /\ acpi_step = "connect" /\ acpi_step' = "running"
  /\ \/ devd_channel' = "open"
     \/ UNCHANGED devd_channel
  /\ UNCHANGED <<acpiHardwareVars, devd_events, acpi_devices, handle_map, acpi_daemon_lid,
                 acpi_unread, acpi_lid_told>>

\* Mutant: no second look-up, by the firmware's name.
MutFindBattery(u) == {FirmwareNumber[u]} \cap DOMAIN acpi_devices

\* The device that up_backend_acpi_devd_notify() finds under the name of a battery,
\* as a set of none or one: the unit with its number, which may be another
\* battery's, or else the one that told the name.
FindBattery(u) ==
  IF FirmwareNumber[u] \in DOMAIN acpi_devices THEN {FirmwareNumber[u]}
  ELSE {u} \cap handle_map \cap DOMAIN acpi_devices

\* A device that is not found is made, under the number in the name.
MakeDevice(unit) ==
  \E failed \in SUBSET unit :
    RefreshAcpi(unit, failed) /\ LearnHandles(unit \ failed)

NotifyKnown(device) ==
  /\ \E failed \in SUBSET device : RefreshAcpi(device, failed)
  /\ UNCHANGED handle_map

\* up_backend_acpi_devd_notify() for the mains and for a battery.  A name without a
\* number is passed over.
NotifyMains ==
  /\ IF ACLine \in DOMAIN acpi_devices THEN NotifyKnown({ACLine}) ELSE MakeDevice({ACLine})
  /\ UNCHANGED <<acpi_daemon_lid, acpi_lid_told>>

NotifyBattery(u) ==
  /\ IF FirmwareNumber[u] = NoNumber
       THEN UNCHANGED <<acpi_devices, acpi_unread, handle_map>>
     ELSE IF FindBattery(u) # {} THEN NotifyKnown(FindBattery(u))
     ELSE MakeDevice({FirmwareNumber[u]} \cap BatteryUnits)
  /\ UNCHANGED <<acpi_daemon_lid, acpi_lid_told>>

\* For the lid: one that was not there at the start is now.
NotifyLid(closed) ==
  /\ acpi_daemon_lid' = [present |-> acpi_daemon_lid.present \/ acpi_lid # "none",
                         closed |-> closed]
  /\ acpi_lid_told' = TRUE
  /\ UNCHANGED <<acpi_devices, handle_map, acpi_unread>>

\* up_devd_event_cb(): one line.  At the end of the channel it is called again and
\* again, and does nothing.
DevdEventCb ==
  /\ acpi_step = "running" /\ devd_channel = "open" /\ devd_events # <<>>
  /\ devd_events' = Tail(devd_events)
  /\ LET event == Head(devd_events)
     IN  \/ event.subsystem = "Lid" /\ NotifyLid(event.closed)
         \/ event.subsystem = "ACAD" /\ NotifyMains
         \/ event.subsystem = "CMBAT" /\ NotifyBattery(event.of)
  /\ UNCHANGED <<acpiHardwareVars, devd_channel, acpi_step>>

\* up_backend_refresh_devices(), by the timer: every device that is listed.
RefreshDevices ==
  /\ acpi_step = "running"
  /\ \E failed \in SUBSET DOMAIN acpi_devices : RefreshAcpi(DOMAIN acpi_devices, failed)
  /\ UNCHANGED <<acpiHardwareVars, acpiDevdVars, acpi_step, handle_map, acpi_daemon_lid,
                 acpi_lid_told>>
-----------------------------------------------------------------------------
\* Whether the name that devd tells of a device leads to it: its number is its
\* unit's, or no unit's, so that the whole name is looked up.
Named(d) ==
  \/ d = ACLine \/ FirmwareNumber[d] = d
  \/ d \in HasHandle /\ FirmwareNumber[d] \notin BatteryUnits \cup {NoNumber}

\* The hardware changes, and devd tells those that are connected.
AcpiEvent(subsystem, device, closed) ==
  LET told == devd_channel = "open" /\ (subsystem = "Lid" \/ Named(device))
  IN  /\ acpi_changes < MaxAcpiChanges /\ acpi_changes' = acpi_changes + 1
      /\ Len(devd_events) < MaxDevdEvents
      /\ devd_events' = IF devd_channel = "open"
                          THEN Append(devd_events, [subsystem |-> subsystem, of |-> device,
                                                    closed |-> closed])
                          ELSE devd_events
      /\ acpi_unread' = IF told \/ subsystem = "Lid" THEN acpi_unread
                        ELSE acpi_unread \cup ({device} \cap DOMAIN acpi_devices)
      /\ acpi_lid_told' = (acpi_lid_told /\ (told \/ subsystem # "Lid"))
      /\ UNCHANGED <<devd_channel, acpi_step, acpi_devices, handle_map, acpi_daemon_lid>>

MainsChange ==
  /\ acpi_mains' = ~acpi_mains
  /\ AcpiEvent("ACAD", ACLine, FALSE)
  /\ UNCHANGED <<acpi_flags, acpi_lid>>

BatteryChange(u, flags) ==
  /\ flags # acpi_flags[u] /\ acpi_flags' = [acpi_flags EXCEPT ![u] = flags]
  /\ AcpiEvent("CMBAT", u, FALSE)
  /\ UNCHANGED <<acpi_mains, acpi_lid>>

LidChange ==
  /\ acpi_lid # "none" /\ acpi_lid' = IF acpi_lid = "open" THEN "closed" ELSE "open"
  /\ AcpiEvent("Lid", ACLine, acpi_lid' = "closed")
  /\ UNCHANGED <<acpi_mains, acpi_flags>>

\* devd is stopped or restarted: what it has written is still read.
DevdGoes ==
  /\ devd_channel = "open" /\ devd_events = <<>> /\ devd_channel' = "ended"
  /\ UNCHANGED <<acpiHardwareVars, devd_events, acpi_step, acpi_devices, handle_map,
                 acpi_daemon_lid, acpi_unread, acpi_lid_told>>

AcpiInit ==
  /\ acpi_mains = TRUE /\ acpi_flags = [u \in BatteryUnits |-> {}]
  /\ acpi_lid \in {"none", "open"} /\ acpi_changes = 0
  /\ devd_events = <<>> /\ devd_channel = "unopened" /\ acpi_step = "devices"
  /\ acpi_devices = [d \in {} |-> {}] /\ handle_map = {}
  /\ acpi_daemon_lid = [present |-> FALSE, closed |-> FALSE]
  /\ acpi_unread = {} /\ acpi_lid_told = FALSE

AcpiNext ==
  \/ AcpiColdplug \/ DevdInit \/ DevdEventCb \/ RefreshDevices
  \/ MainsChange \/ LidChange \/ DevdGoes
  \/ \E u \in BatteryUnits, flags \in AcpiFlags : BatteryChange(u, flags)

AcpiSpec == AcpiInit /\ [][AcpiNext]_acpiVars
-----------------------------------------------------------------------------
AcpiTypeOK ==
  /\ acpi_mains \in BOOLEAN /\ acpi_flags \in [BatteryUnits -> AcpiFlags]
  /\ acpi_lid \in {"none", "open", "closed"} /\ acpi_changes \in 0..MaxAcpiChanges
  /\ devd_channel \in {"unopened", "open", "ended"}
  /\ acpi_step \in {"devices", "connect", "running"}
  /\ DOMAIN acpi_devices \subseteq AcpiDevices /\ acpi_unread \subseteq AcpiDevices
  /\ handle_map \subseteq BatteryUnits
  /\ acpi_daemon_lid \in [present : BOOLEAN, closed : BOOLEAN]
  /\ acpi_lid_told \in BOOLEAN

\* When devd's events are all read, each listed device tells what the hardware
\* does.  Excepted is one whose reading failed, whose change devd did not tell, or
\* told under a name that does not lead to it, until it is read for another
\* reason, at the latest by the timer.  A lid that was told of is told as it is.
AcpiIsFollowed ==
  devd_events = <<>> =>
    /\ \A d \in DOMAIN acpi_devices \ acpi_unread : acpi_devices[d] = AcpiRead(d)
    /\ acpi_lid_told => acpi_daemon_lid.closed = (acpi_lid = "closed")
=============================================================================
