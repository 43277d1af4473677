------------------------------ MODULE UpBluez ------------------------------
(***************************************************************************)
(* Bluetooth batteries: src/linux/up-backend.c follows the object manager  *)
(* of BlueZ, and src/linux/up-device-bluez.c makes a device of each object *)
(* with the interface org.bluez.Battery1.  up-daemon.c lists the devices   *)
(* by object path, and announces them.                                     *)
(*                                                                         *)
(* BlueZ gives an object its interfaces one by one: an object that comes   *)
(* and goes with all of its interfaces at once raises other signals, which *)
(* the daemon does not connect to.                                         *)
(***************************************************************************)
EXTENDS Integers, Sequences

CONSTANTS
  BluezObjects,     \* object paths
  Appearances,      \* the values of Appearance, as <<category, subcategory>>
  BluezLevels,      \* the values of Percentage
  MaxBluezSignals   \* bound: signals on their way

ASSUME BluezAssumption ==
  /\ Appearances \in [BluezObjects -> Nat \X Nat]
  /\ BluezLevels \subseteq 0..255 /\ BluezLevels # {}
  /\ MaxBluezSignals \in Nat

VARIABLES
  bluez_running,    \* the name org.bluez has an owner
  bluez_ifaces,     \* the interfaces of each object
  bluez_level,      \* its Percentage
  bluez_signals,    \* signals on their way: <<object, what, interface or level>>
  bluez_client,     \* there is an object manager client
  bluez_view,       \* the interfaces it knows of
  bluez_devices,    \* the device list: a set of records, one per object path
  bluez_announced,  \* DeviceAdded without DeviceRemoved, as bus clients see them
  bluez_lost,       \* objects whose coldplug failed (history variable)
  bluez_stale       \* objects listed when BlueZ vanished (history variable)

bluezVars == <<bluez_running, bluez_ifaces, bluez_level, bluez_signals, bluez_client,
               bluez_view, bluez_devices, bluez_announced, bluez_lost, bluez_stale>>
bluezServiceVars == <<bluez_running, bluez_ifaces, bluez_level>>
bluezListVars == <<bluez_devices, bluez_announced, bluez_lost, bluez_stale>>

BluezInterfaces == {"Device1", "MediaControl1", "Battery1"}

\* appearance_to_kind()
AppearanceKind(a) ==
  CASE a[1] = 1 -> "phone"
    [] a[1] = 2 -> "computer"
    [] a[1] = 5 -> "monitor"
    [] a[1] = 10 -> "media_player"
    [] a = <<15, 1>> -> "keyboard"
    [] a = <<15, 2>> -> "mouse"
    [] a \in {<<15, 3>>, <<15, 4>>} -> "gaming_input"
    [] a = <<15, 5>> -> "tablet"
    [] OTHER -> "unknown"

\* up_device_list_lookup(), as a set of none or one
BluezLookup(o) == {d \in bluez_devices : d.path = o}

\* up_device_bluez_coldplug(): it asks BlueZ itself, which may be ahead of the
\* signals; a property that is gone by then reads as 0.
BluezColdplug(o) ==
  LET Property(iface, value) == IF iface \in bluez_ifaces[o] THEN value ELSE 0
  IN  [path |-> o,
       type |-> IF "Device1" \in bluez_ifaces[o] THEN AppearanceKind(Appearances[o])
                ELSE "unknown",
       percentage |-> Property("Battery1", bluez_level[o])]

\* bluez_interface_added() for each of a set of objects, and the daemon's handler:
\* one that is listed is left as it is, and of the others some cannot be read.
BluezAdd(objects, view) ==
  LET new == {o \in objects : "Battery1" \in view[o] /\ BluezLookup(o) = {}}
  IN  \E failed \in SUBSET new :
        /\ bluez_view' = view
        /\ bluez_devices' = bluez_devices \cup {BluezColdplug(o) : o \in new \ failed}
        /\ bluez_announced' = bluez_announced \cup (new \ failed)
        /\ bluez_lost' = (bluez_lost \ new) \cup failed
        /\ UNCHANGED bluez_stale

\* bluez_appeared(): what BlueZ has already is added.
BluezAppeared ==
  /\ bluez_running /\ ~bluez_client /\ bluez_client' = TRUE
  /\ BluezAdd(BluezObjects, bluez_ifaces)
  /\ UNCHANGED <<bluezServiceVars, bluez_signals>>

\* The next signal that the client has for its callbacks.
NextSignal(o, what) ==
  /\ bluez_client /\ bluez_signals # <<>>
  /\ Head(bluez_signals)[1] = o /\ Head(bluez_signals)[2] = what
  /\ bluez_signals' = Tail(bluez_signals)
  /\ UNCHANGED <<bluezServiceVars, bluez_client>>

\* bluez_interface_added(), for any interface of the object.
BluezInterfaceAdded(o) ==
  /\ NextSignal(o, "added")
  /\ BluezAdd({o}, [bluez_view EXCEPT ![o] = @ \cup {Head(bluez_signals)[3]}])

\* What the daemon does of a device that is gone.
BluezRemove(o) ==
  /\ bluez_devices' = bluez_devices \ BluezLookup(o)
  /\ bluez_announced' = bluez_announced \ {o}
  /\ bluez_stale' = bluez_stale \ {o}
  /\ bluez_lost' = bluez_lost \ {o}

\* Mutant: any interface that goes takes the device with it.
MutBluezInterfaceRemoved(o) ==
  /\ NextSignal(o, "removed")
  /\ bluez_view' = [bluez_view EXCEPT ![o] = @ \ {Head(bluez_signals)[3]}]
  /\ BluezRemove(o)

\* bluez_interface_removed(): another interface may have gone.
BluezInterfaceRemoved(o) ==
  /\ NextSignal(o, "removed")
  /\ bluez_view' = [bluez_view EXCEPT ![o] = @ \ {Head(bluez_signals)[3]}]
  /\ IF "Battery1" \in bluez_view'[o] THEN UNCHANGED bluezListVars ELSE BluezRemove(o)

\* bluez_proxies_changed() and up_device_bluez_update(): a device that is not
\* listed is left alone.
BluezProxiesChanged(o) ==
  /\ NextSignal(o, "changed")
  /\ bluez_devices' = {IF d.path = o THEN [d EXCEPT !.percentage = Head(bluez_signals)[3]]
                       ELSE d : d \in bluez_devices}
  /\ UNCHANGED <<bluez_view, bluez_announced, bluez_lost, bluez_stale>>

\* bluez_vanished(): "device-removed" is emitted for each device, but with the
\* native object in the place of the device, so that the daemon's handler returns
\* at its UP_IS_DEVICE() and the lists stay what they are.
BluezVanished ==
  /\ ~bluez_running /\ bluez_client /\ bluez_signals = <<>> /\ bluez_client' = FALSE
  /\ bluez_view' = [o \in BluezObjects |-> {}]
  /\ bluez_stale' = {d.path : d \in bluez_devices} /\ bluez_lost' = {}
  /\ UNCHANGED <<bluezServiceVars, bluez_signals, bluez_devices, bluez_announced>>
-----------------------------------------------------------------------------
\* BlueZ, which the daemon sees vanish before it is there again.
BluezStarts ==
  /\ ~bluez_running /\ ~bluez_client /\ bluez_running' = TRUE
  /\ bluez_ifaces' \in [BluezObjects -> {{"Device1"}, {"Device1", "Battery1"}}]
  /\ UNCHANGED <<bluez_level, bluez_signals, bluez_client, bluez_view, bluezListVars>>

BluezStops ==
  /\ bluez_running /\ bluez_running' = FALSE
  /\ bluez_ifaces' = [o \in BluezObjects |-> {}]
  /\ UNCHANGED <<bluez_level, bluez_signals, bluez_client, bluez_view, bluezListVars>>

Raise(o, what, value) ==
  /\ bluez_running
  /\ bluez_signals' = IF bluez_client THEN Append(bluez_signals, <<o, what, value>>)
                      ELSE bluez_signals
  /\ Len(bluez_signals') <= MaxBluezSignals
  /\ UNCHANGED <<bluez_running, bluez_client, bluez_view, bluezListVars>>

BluezGainsInterface(o, i) ==
  /\ i \notin bluez_ifaces[o] /\ bluez_ifaces' = [bluez_ifaces EXCEPT ![o] = @ \cup {i}]
  /\ Raise(o, "added", i)
  /\ UNCHANGED bluez_level

BluezLosesInterface(o, i) ==
  /\ i \in bluez_ifaces[o] \ {"Device1"}
  /\ bluez_ifaces' = [bluez_ifaces EXCEPT ![o] = @ \ {i}]
  /\ Raise(o, "removed", i)
  /\ UNCHANGED bluez_level

BluezLevelChanges(o, level) ==
  /\ "Battery1" \in bluez_ifaces[o] /\ level # bluez_level[o]
  /\ bluez_level' = [bluez_level EXCEPT ![o] = level]
  /\ Raise(o, "changed", level)
  /\ UNCHANGED bluez_ifaces

BluezInit ==
  /\ bluez_running = FALSE /\ bluez_client = FALSE /\ bluez_signals = <<>>
  /\ bluez_ifaces = [o \in BluezObjects |-> {}] /\ bluez_view = bluez_ifaces
  /\ bluez_level = [o \in BluezObjects |-> CHOOSE level \in BluezLevels : TRUE]
  /\ bluez_devices = {} /\ bluez_announced = {} /\ bluez_lost = {} /\ bluez_stale = {}

BluezNext ==
  \/ BluezAppeared \/ BluezVanished \/ BluezStarts \/ BluezStops
  \/ \E o \in BluezObjects :
       \/ BluezInterfaceAdded(o) \/ BluezInterfaceRemoved(o) \/ BluezProxiesChanged(o)
       \/ \E i \in BluezInterfaces \ {"Device1"} :
            BluezGainsInterface(o, i) \/ BluezLosesInterface(o, i)
       \/ \E level \in BluezLevels : BluezLevelChanges(o, level)

BluezSpec == BluezInit /\ [][BluezNext]_bluezVars
-----------------------------------------------------------------------------
BluezTypeOK ==
  /\ bluez_running \in BOOLEAN /\ bluez_client \in BOOLEAN
  /\ bluez_ifaces \in [BluezObjects -> SUBSET BluezInterfaces]
  /\ bluez_view \in [BluezObjects -> SUBSET BluezInterfaces]
  /\ bluez_level \in [BluezObjects -> BluezLevels]
  /\ \A d \in bluez_devices : d.path \in BluezObjects /\ d.percentage \in BluezLevels \cup {0}
  /\ bluez_announced \subseteq BluezObjects /\ bluez_lost \subseteq BluezObjects
  /\ bluez_stale \subseteq BluezObjects

\* Whatever the order in which an object gains and loses interfaces, and wherever
\* BlueZ stops in between: while the daemon follows BlueZ, the objects it knows to
\* have a battery are listed, once, but for those it could not read; and once no
\* signal is left they have the percentage BlueZ tells, but for those that were
\* listed already when BlueZ came back.
BluezBatteriesAreFollowed ==
  /\ \A d, e \in bluez_devices : d.path = e.path => d = e
  /\ bluez_announced = {d.path : d \in bluez_devices}
  /\ bluez_client =>
       {o \in BluezObjects : "Battery1" \in bluez_view[o]} \ bluez_lost \subseteq bluez_announced
  /\ (bluez_client /\ bluez_running /\ bluez_signals = <<>>) =>
       \A d \in bluez_devices :
         d.path \notin bluez_stale => d.percentage = bluez_level[d.path]

\* Violated: a Bluetooth battery is listed only while BlueZ is there; when it
\* vanishes the handler of up-backend.c means to remove its devices.
VanishedIsGone == (~bluez_running /\ ~bluez_client) => bluez_devices = {}
=============================================================================
