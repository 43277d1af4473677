----------------------------- MODULE UpBattery ------------------------------
(***************************************************************************)
(* The figures of a battery (src/linux/up-device-supply.c): the files its  *)
(* driver has, in units of energy, of charge, or of both, what is read of  *)
(* them, and the rate that is estimated from the last four energies when   *)
(* the driver has none.  UpDaemon, where rates and energies are given, has *)
(* what is made of them.                                                   *)
(*                                                                         *)
(* Energies are whole numbers of a small unit; a figure below 0.01 is 0.   *)
(* The clock is finer than the seconds that are kept of it.  A rate is a   *)
(* fraction, of energy per second.  One voltage turns the driver's charges *)
(* into energies, and all files are read at one time.  Left out are the    *)
(* guesses from the voltage for a battery that is not calibrated, what the *)
(* battery was designed for, and the times.                                *)
(***************************************************************************)
EXTENDS Integers, FiniteSets, Functions

CONSTANTS
  DesignVoltage,   \* of get_design_voltage()
  BatteryKinds,    \* the batteries there are: their files and their full energy
  Grain,           \* the steps of a driver's figures, in energy
  Least,           \* 0.1 Wh
  TicksPerSecond,  \* of the clock
  MaxStep,         \* the most that the figures gain or lose in a tick
  RateCap,         \* 100 W
  PowerReadings,   \* what the driver says of the rate, 0 when it says nothing
  MaxBatteryClock, \* bound: ticks
  MaxUpsets        \* bound: bat_upsets

EnergyFiles == {"energy_now", "energy_avg"}
ChargeFiles == {"charge_now", "charge_avg"}
FullFiles == {"energy_full", "charge_full"}
RateFiles == {"power_now", "current_now"}
BatteryFileNames == EnergyFiles \cup ChargeFiles \cup FullFiles \cup RateFiles
                      \cup {"capacity"}

MaxSlope == TicksPerSecond * MaxStep   \* the most in a second

ASSUME BatteryAssumption ==
  /\ DesignVoltage \in Nat \ {0} /\ Grain \in Nat \ {0} /\ Grain % DesignVoltage = 0
  /\ BatteryKinds \subseteq [names : SUBSET BatteryFileNames, full : Nat \ {0}]
  /\ \A k \in BatteryKinds : k.full % Grain = 0 /\ k.full % 100 = 0
  /\ TicksPerSecond \in Nat \ {0} /\ MaxStep \in Nat /\ RateCap \in Nat
  /\ MaxBatteryClock \in Nat /\ TicksPerSecond <= MaxBatteryClock
  /\ Least \in Nat \ {0} /\ MaxUpsets \in Nat
  /\ PowerReadings \subseteq 0..MaxSlope /\ 0 \in PowerReadings

VARIABLES
  bat_files,    \* the battery: present, its files and full energy, the energy, the
                \* rate and the status
  bat_clock,    \* the wall clock
  bat_priv,     \* the fields of UpDeviceSupplyPrivate
  bat_shown,    \* the properties of the device, and what they were made of (read,
                \* history)
  bat_upsets,   \* how often the battery was taken out or the clock set
  bat_broken    \* history variables: the ring is not of one battery on one clock, or
                \* has energies that were made from the capacity; the rate that is
                \* told was estimated from it; the full energy is another battery's

batteryVars == <<bat_files, bat_clock, bat_priv, bat_shown, bat_upsets, bat_broken>>

Slots == 0..3          \* UP_DEVICE_SUPPLY_ENERGY_OLD_LENGTH
NoSlot == [energy |-> 0, time |-> 0]
CellLevels(full) == {e \in 0..full : e % Grain = 0}
CellStatus == {"charging", "discharging"}

\* What the files say; one that does not exist says 0.
Figure(f, files, value) == IF f.names \cap files # {} THEN value ELSE 0
ChargeNow(f) == Figure(f, ChargeFiles, f.cell \div DesignVoltage)
ChargeFull(f) == Figure(f, {"charge_full"}, f.full \div DesignVoltage)
EnergyNow(f) == Figure(f, EnergyFiles, f.cell)
EnergyFull(f) == Figure(f, {"energy_full"}, f.full)
PowerNow(f) == Figure(f, {"power_now"}, f.power)

\* A driver that counts no charges says the power under this name too.
CurrentNow(f) ==
  Figure(f, {"current_now"}, IF ChargeFull(f) # 0 THEN f.power \div DesignVoltage ELSE f.power)
Capacity(f) == (100 * f.cell) \div f.full

\* Mutant: the ring outlives the battery.
MutBatteryReset(priv) == [priv EXCEPT !.coldplugged = FALSE, !.units = "energy"]

\* The part of up_device_supply_reset_values() that is about the fields.
BatteryReset(priv) ==
  [coldplugged |-> FALSE, units |-> "energy", ring |-> [i \in Slots |-> NoSlot],
   first |-> 0, rate_old |-> <<0, 1>>]

ShownReset(f) == [present |-> FALSE, read |-> f, energy |-> 0, full |-> 0, rate |-> <<0, 1>>,
                  state |-> "unknown"]

\* up_device_supply_units_changed()
UnitsChanged(priv, f) ==
  f.names \cap (IF priv.units = "charge" THEN ChargeFiles ELSE EnergyFiles) = {}

\* up_device_supply_push_new_energy(): only an energy that is new is stored, with
\* the whole seconds of its time.
PushNewEnergy(priv, energy) ==
  LET new_position == (priv.first + 3) % 4
      slot == [energy |-> energy, time |-> bat_clock \div TicksPerSecond]
  IN  IF priv.ring[priv.first].energy # energy
        THEN [priv EXCEPT !.ring[new_position] = slot, !.first = new_position]
        ELSE priv

\* up_device_supply_calculate_rate(), once the energy is stored: a regression
\* through the newest point, over the slots that hold one.
CalculateRate(priv, energy) ==
  LET now == priv.ring[priv.first].time
      valid == {i \in Slots : priv.ring[i].time # 0 /\ priv.ring[i].energy # 0}
      age(i) == now - priv.ring[i].time
      change(i) == energy - priv.ring[i].energy
      size(n) == IF n < 0 THEN -n ELSE n
      sum_x == SumFunction([i \in valid |-> age(i) * age(i)])
      sum_xy == SumFunction([i \in valid |-> size(age(i) * change(i))])
  IN  IF energy < Least \/ priv.ring[priv.first].energy < Least THEN <<0, 1>>
      ELSE IF sum_x = 0 \/ Cardinality(valid) < 3 \/ sum_xy = 0 \/ sum_xy > RateCap * sum_x
        THEN priv.rate_old
        ELSE <<sum_xy, sum_x>>

\* The initial values of up_device_supply_refresh_battery(): the full energy, in
\* the units there are.
IsCold(priv, f) == ~priv.coldplugged \/ UnitsChanged(priv, f)
BatteryColdplug(priv, f) ==
  IF IsCold(priv, f)
    THEN [priv |-> [priv EXCEPT !.coldplugged = TRUE,
                                !.units = IF EnergyFull(f) = 0 THEN "charge" ELSE @],
          full |-> IF EnergyFull(f) = 0 THEN ChargeFull(f) * DesignVoltage ELSE EnergyFull(f)]
    ELSE [priv |-> priv, full |-> bat_shown.full]

\* The energy: charges are converted only where there is no power_now.
EnergyRead(f) ==
  IF PowerNow(f) = 0 /\ EnergyNow(f) = 0 THEN ChargeNow(f) * DesignVoltage ELSE EnergyNow(f)

\* The rate the driver tells: no more than RateCap is believed.
RateRead(f) ==
  LET rate == IF PowerNow(f) # 0 THEN PowerNow(f)
              ELSE CurrentNow(f) * (IF ChargeFull(f) # 0 THEN DesignVoltage ELSE 1)
  IN  IF rate > RateCap THEN 0 ELSE rate

\* Where hardly an energy was read, it is made from the capacity, if there is one.
IsFromCapacity(f, full) == "capacity" \in f.names /\ EnergyRead(f) < Least /\ full > 0
EnergyTold(f, full) ==
  IF IsFromCapacity(f, full) THEN (full * Capacity(f)) \div 100 ELSE EnergyRead(f)

\* up_device_supply_refresh_battery() of a battery that is present: the rate is the
\* driver's or the estimate, for which the energy that was read goes into the ring
\* first; the rate that comes with an energy that is new after that becomes
\* rate_old.  A change of state empties the ring, after the rate has been taken
\* from it.
RefreshPresent(f) ==
  LET cold == BatteryColdplug(bat_priv, f)
      full == IF EnergyRead(f) > cold.full THEN EnergyRead(f) ELSE cold.full
      energy == EnergyTold(f, full)
      estimated == RateRead(f) = 0
      read == IF estimated THEN PushNewEnergy(cold.priv, EnergyRead(f)) ELSE cold.priv
      rate == IF energy < Least THEN <<0, 1>>
              ELSE IF estimated THEN CalculateRate(read, EnergyRead(f)) ELSE <<RateRead(f), 1>>
      pushed == PushNewEnergy(read, energy)
      stored == IF pushed # read THEN [pushed EXCEPT !.rate_old = rate] ELSE pushed
      same == f.status = bat_shown.state
  IN  /\ bat_shown' = [present |-> TRUE, read |-> f, energy |-> energy, full |-> full,
                       rate |-> rate, state |-> f.status]
      /\ bat_priv' = IF same THEN stored
                     ELSE [stored EXCEPT !.ring = [i \in Slots |-> NoSlot], !.first = 0]
      /\ bat_broken' = [ring |-> same /\ (bat_broken.ring \/ IsFromCapacity(f, full)),
                        rate |-> estimated /\ bat_broken.ring,
                        full |-> bat_broken.full /\ ~IsCold(bat_priv, f)]

\* Of one that is not: everything is reset.
BatteryRefresh ==
  /\ IF bat_files.present
       THEN RefreshPresent(bat_files)
       ELSE /\ bat_priv' = BatteryReset(bat_priv)
            /\ bat_shown' = ShownReset(bat_files)
            /\ bat_broken' = [ring |-> FALSE, rate |-> FALSE, full |-> FALSE]
  /\ UNCHANGED <<bat_files, bat_clock, bat_upsets>>
-----------------------------------------------------------------------------
\* Time passes, and the battery's energy, rate and status change with it.
BatteryTime(cell, power, status) ==
  /\ bat_clock < MaxBatteryClock /\ bat_clock' = bat_clock + 1
  /\ cell - bat_files.cell \in -MaxStep..MaxStep
  /\ power # 0 => bat_files.names \cap RateFiles # {}
  /\ bat_files' = [bat_files EXCEPT !.cell = cell, !.power = power, !.status = status]
  /\ UNCHANGED <<bat_priv, bat_shown, bat_upsets, bat_broken>>

\* Something that upsets the estimate.
Upset == bat_upsets < MaxUpsets /\ bat_upsets' = bat_upsets + 1

\* Someone sets the clock.
SetClock ==
  /\ Upset
  /\ bat_clock' \in TicksPerSecond..MaxBatteryClock \ {bat_clock}
  /\ bat_broken' = [bat_broken EXCEPT !.ring = bat_priv.ring # [i \in Slots |-> NoSlot]]
  /\ UNCHANGED <<bat_files, bat_priv, bat_shown>>

\* The battery is taken out; one is put in, or the same with another driver.  The
\* daemon may look between the two, or not.
TakeOut ==
  /\ Upset
  /\ bat_files.present /\ bat_files' = [bat_files EXCEPT !.present = FALSE]
  /\ UNCHANGED <<bat_clock, bat_priv, bat_shown, bat_broken>>

PutIn(kind, cell) ==
  /\ ~bat_files.present
  /\ bat_files' = [bat_files EXCEPT !.present = TRUE, !.names = kind.names, !.full = kind.full,
                                    !.cell = cell, !.power = 0]
  /\ bat_broken' = [bat_broken EXCEPT !.ring = @ \/ bat_shown.present,
                                      !.full = @ \/ bat_shown.present]
  /\ UNCHANGED <<bat_clock, bat_priv, bat_shown, bat_upsets>>

BatteryInit ==
  /\ \E kind \in BatteryKinds :
       bat_files = [present |-> TRUE, names |-> kind.names, full |-> kind.full,
                    cell |-> kind.full, power |-> 0, status |-> "discharging"]
  /\ bat_clock = TicksPerSecond
  /\ bat_priv = [coldplugged |-> FALSE, units |-> "energy", ring |-> [i \in Slots |-> NoSlot],
                 first |-> 0, rate_old |-> <<0, 1>>]
  /\ bat_shown = ShownReset(bat_files) /\ bat_upsets = 0
  /\ bat_broken = [ring |-> FALSE, rate |-> FALSE, full |-> FALSE]

BatteryNext ==
  \/ BatteryRefresh \/ TakeOut \/ SetClock
  \/ \E cell \in CellLevels(bat_files.full), power \in PowerReadings, status \in CellStatus :
       BatteryTime(cell, power, status)
  \/ \E kind \in BatteryKinds : \E cell \in CellLevels(kind.full) : PutIn(kind, cell)

BatterySpec == BatteryInit /\ [][BatteryNext]_batteryVars
-----------------------------------------------------------------------------
BatteryFile == [present : BOOLEAN, names : SUBSET BatteryFileNames, full : Nat \ {0},
                cell : Nat, power : PowerReadings, status : CellStatus]

BatteryTypeOK ==
  /\ bat_files \in BatteryFile /\ bat_files.cell <= bat_files.full
  /\ bat_clock \in TicksPerSecond..MaxBatteryClock /\ bat_upsets \in 0..MaxUpsets
  /\ bat_priv.ring \in [Slots -> [energy : Nat, time : 0..MaxBatteryClock]]
  /\ bat_priv.first \in Slots /\ bat_priv.units \in {"energy", "charge"}
  /\ bat_shown.energy \in Nat /\ bat_shown.full \in Nat /\ bat_shown.read \in BatteryFile
  /\ bat_broken \in [ring : BOOLEAN, rate : BOOLEAN, full : BOOLEAN]

\* The driver's figures of the energy: it is counted in energy, or in charges that
\* power_now does not keep from being converted, and in those the full one is too.
HasFigures(f) ==
  \/ f.names \cap EnergyFiles # {} /\ "energy_full" \in f.names
  \/ /\ f.names \cap EnergyFiles = {} /\ f.names \cap ChargeFiles # {} /\ PowerNow(f) = 0
     /\ f.names \cap FullFiles = {"charge_full"}

\* However the battery charges, discharges, is exchanged and changes its files, and
\* at whatever fractions of a second it is looked at: a rate is at most twice one
\* that the battery has, since it is taken over truncated seconds; and the energy
\* is never above the full one, and is its share of it, to one in a hundred where
\* it is made from the capacity.  Excepted are rates estimated after the clock was
\* set, after an exchange that the daemon did not see, or from capacities; the
\* share after such an exchange while the units stay; and the share of drivers
\* that mix the units, among them those with charges and power_now.
BatteryReadsTrue ==
  bat_shown.present =>
    LET f == bat_shown.read
        made == IsFromCapacity(f, bat_shown.full)
    IN  /\ ~bat_broken.rate => bat_shown.rate[1] <= 2 * MaxSlope * bat_shown.rate[2]
        /\ bat_shown.energy <= bat_shown.full
        /\ (~bat_broken.full /\ ~made /\ HasFigures(f)) =>
             bat_shown.energy * f.full = f.cell * bat_shown.full
        /\ (~bat_broken.full /\ made /\ f.names \cap FullFiles # {}) =>
             100 * (f.cell * bat_shown.full - bat_shown.energy * f.full)
               \in 0..(f.full * bat_shown.full)
=============================================================================
