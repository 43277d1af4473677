----------------------------- MODULE MCUpDaemon -----------------------------
(* The instances of UpDaemon for TLC.  Energies are out of 100, so that    *)
(* every percentage is exact: for two batteries, sums of charges are even. *)
EXTENDS UpDaemon, TLC

CONSTANTS AC, BAT0, BAT1, UPS

MCKindOf == [d \in Device |-> IF d = AC THEN "line_power"
                              ELSE IF d = UPS THEN "ups" ELSE "battery"]
MCEnergyFull == [d \in Device |-> IF MCKindOf[d] = "battery" THEN 100 ELSE 0]

File(use) ==
  [use_percentage |-> use,
   low_percentage |-> 10, critical_percentage |-> 3, action_percentage |-> 2,
   low_time |-> 1200, critical_time |-> 300, action_time |-> 120]
ByPercentage == File(TRUE)
ByTime == File(FALSE)

AcReading(online) ==
  [present |-> TRUE, online |-> online, status |-> "unknown",
   charge |-> 0, rate |-> 0, runtime |-> 0]
BatteryReading(status, charge, rate) ==
  [present |-> TRUE, online |-> FALSE, status |-> status,
   charge |-> charge, rate |-> rate, runtime |-> 0]
NoBattery == [BatteryReading("unknown", 0, 0) EXCEPT !.present = FALSE]
UpsReading(status, charge, runtime) ==
  [present |-> TRUE, online |-> FALSE, status |-> status,
   charge |-> charge, rate |-> 0, runtime |-> runtime]

\* A laptop: its battery drains to the action level, is charged, is swapped,
\* or does not know its state.
LaptopReadings ==
  [d \in Device |->
     IF d = AC THEN {AcReading(TRUE), AcReading(FALSE)}
     ELSE {BatteryReading("discharging", 2, 10), BatteryReading("charging", 50, 10),
           BatteryReading("unknown", 2, 0), NoBattery}]

\* The same for the liveness run, without the swap; draining fast enough for
\* the action level by time.
LiveReadings ==
  [d \in Device |->
     IF d = AC THEN {AcReading(TRUE), AcReading(FALSE)}
     ELSE {BatteryReading("discharging", 2, 100), BatteryReading("charging", 50, 10)}]

\* Two batteries and, in one run, a UPS; no adapter.
SupplyReadings ==
  [d \in Device |->
     IF d = UPS THEN {UpsReading("discharging", 2, 100), UpsReading("discharging", 0, 0),
                      UpsReading("charging", 100, 0)}
     ELSE {BatteryReading("discharging", 2, 10), BatteryReading("pending_charge", 50, 0),
           BatteryReading("fully_charged", 100, 0), BatteryReading("unknown", 2, 0)}]

\* The batteries are alike.
Batteries == Permutations({BAT0, BAT1})

\* A run starts with all the devices, or without the adapter or the UPS.
MCPlugged == {Device, Device \ {AC, UPS}}
=============================================================================
