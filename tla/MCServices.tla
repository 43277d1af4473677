---------------------------- MODULE MCServices ----------------------------
(***************************************************************************)
(* The instance of the services for TLC: the parts of the daemon, of its   *)
(* backends and of its clients that share no state with each other.  A     *)
(* behaviour is one of a single service; the others stay as they start.    *)
(***************************************************************************)
EXTENDS UpHistory, UpWakeups, UpLid, UpKbdBacklight, UpHidpp, UpBluez, UpLogind, UpBattery,
        UpApm, UpAcpi, UpPeripherals, UpClient

VARIABLE service   \* the one that runs

Services ==
  {"history", "wakeups", "lid", "kbd", "hidpp", "bluez", "logind", "battery", "apm", "acpi",
   "wup", "csr", "idevice", "client"}
-----------------------------------------------------------------------------
(* Values of the constants.                                                *)
CONSTANTS m1, m2, m3   \* devices paired with a receiver

ReadingOf(state, charge, rate) ==
  [state |-> state,
   value |-> [rate |-> rate, charge |-> charge, time_full |-> 0, time_empty |-> 0]]

\* A battery that drains to low power, and is charged a little.
MCReading ==
  {ReadingOf("discharging", 11, 5), ReadingOf("discharging", 9, 5), ReadingOf("charging", 9, 7)}

\* One device of the second protocol, two of the first.
MCFeatures == [d \in HidppDevices |-> IF d = m1 THEN {"battery", "solar"} ELSE {}]

\* The lid's bit and another.
MCCapabilities == <<{0, 3}>>

\* A gfloat of two digits tells no two times apart that differ by less than an eighth.
MCFloatExponents == -3..3

MCRequests == {-1, 1, 5}

\* A mouse, as BlueZ tells it.
MCAppearances == [o \in BluezObjects |-> <<15, 2>>]

MCPowerInfos ==
  {[ac |-> "on", battery |-> "charging", life |-> 50, minutes |-> 5],
   [ac |-> "on", battery |-> "high", life |-> 99, minutes |-> -1],
   [ac |-> "off", battery |-> "low", life |-> 50, minutes |-> 5],
   [ac |-> "off", battery |-> "absent", life |-> 0, minutes |-> -1],
   [ac |-> "unknown", battery |-> "unknown", life |-> 0, minutes |-> -1],
   [ac |-> "unknown", battery |-> "critical", life |-> 0, minutes |-> 1]}

\* A driver that counts energy; one that counts charges and their current; one that
\* counts averages of charges and has power_now; and two that mix the units.
Kind(names, full) == [names |-> names, full |-> full]
MCKinds ==
  {Kind({"energy_now", "energy_full"}, 600),
   Kind({"charge_now", "charge_full", "current_now"}, 200),
   Kind({"charge_avg", "charge_full", "power_now", "capacity"}, 100),
   Kind({"energy_avg", "charge_full", "power_now"}, 100),
   Kind({"charge_now", "charge_full", "power_now"}, 100)}

\* The number of a battery's firmware name is another battery's, which has a handle;
\* no unit's; and there is none.
MCFirmwareNumber == 0 :> 1 @@ 1 :> 7 @@ 2 :> NoNumber
-----------------------------------------------------------------------------
\* Every other service stays as it is.
Alone(s) ==
  /\ service = s /\ UNCHANGED service
  /\ IF s = "history" THEN TRUE ELSE UNCHANGED historyVars
  /\ IF s = "wakeups" THEN TRUE ELSE UNCHANGED wakeupsVars
  /\ IF s = "lid" THEN TRUE ELSE UNCHANGED lidVars
  /\ IF s = "kbd" THEN TRUE ELSE UNCHANGED kbdVars
  /\ IF s = "hidpp" THEN TRUE ELSE UNCHANGED hidppVars
  /\ IF s = "bluez" THEN TRUE ELSE UNCHANGED bluezVars
  /\ IF s = "logind" THEN TRUE ELSE UNCHANGED logindVars
  /\ IF s = "battery" THEN TRUE ELSE UNCHANGED batteryVars
  /\ IF s = "apm" THEN TRUE ELSE UNCHANGED apmVars
  /\ IF s = "acpi" THEN TRUE ELSE UNCHANGED acpiVars
  /\ IF s = "wup" THEN TRUE ELSE UNCHANGED wupVars
  /\ IF s = "csr" THEN TRUE ELSE UNCHANGED csr
  /\ IF s = "idevice" THEN TRUE ELSE UNCHANGED idevice
  /\ IF s = "client" THEN TRUE ELSE UNCHANGED clientVars

\* One that does not run has one initial state.
ServicesInit ==
  /\ service \in Services
  /\ HistoryInit /\ WakeupsInit /\ LidInit /\ KbdInit /\ HidppInit /\ BluezInit
  /\ LogindInit /\ (service # "logind" => logind_config = "none")
  /\ BatteryInit /\ (service # "battery" => "energy_now" \in bat_files.names)
  /\ ApmInit /\ (service # "apm" => apm_lid = "none" /\ apm_info.battery = "high")
  /\ AcpiInit /\ (service # "acpi" => acpi_lid = "none")
  /\ PeripheralsInit /\ ClientInit

ServicesNext ==
  \/ Alone("history") /\ HistoryNext
  \/ Alone("wakeups") /\ WakeupsNext
  \/ Alone("lid") /\ LidNext
  \/ Alone("kbd") /\ KbdNext
  \/ Alone("hidpp") /\ HidppNext
  \/ Alone("bluez") /\ BluezNext
  \/ Alone("logind") /\ LogindNext
  \/ Alone("battery") /\ BatteryNext
  \/ Alone("apm") /\ ApmNext
  \/ Alone("acpi") /\ AcpiNext
  \/ Alone("wup") /\ WupNext
  \/ Alone("csr") /\ CsrNext
  \/ Alone("idevice") /\ IdeviceNext
  \/ Alone("client") /\ ClientNext

servicesVars ==
  <<service, historyVars, wakeupsVars, lidVars, kbdVars, hidppVars, bluezVars, logindVars,
    batteryVars, apmVars, acpiVars, peripheralsVars, clientVars>>

ServicesSpec == ServicesInit /\ [][ServicesNext]_servicesVars
-----------------------------------------------------------------------------
\* Type correctness of all the services' variables.
ServicesTypeOK ==
  /\ HistoryTypeOK /\ WakeupsTypeOK /\ LidTypeOK /\ KbdTypeOK /\ HidppTypeOK /\ BluezTypeOK
  /\ LogindTypeOK /\ BatteryTypeOK /\ ApmTypeOK /\ AcpiTypeOK /\ PeripheralsTypeOK
  /\ ClientTypeOK
=============================================================================
