------------------------------ MODULE UpClient ------------------------------
(***************************************************************************)
(* The client library and the D-Bus interface it looks at: the skeleton of *)
(* the daemon's object and its proxy (dbus/up-daemon-generated.c), the     *)
(* library's UpClient and UpDevice (libupower-glib/up-client.c,            *)
(* up-device.c), and an application that connects, asks for the devices    *)
(* and then follows device-added and device-removed.                       *)
(*                                                                         *)
(* A property that is set is told later, by an idle source of the daemon;  *)
(* a device that comes or goes is told at once.  The library's calls block *)
(* the application: the signals that arrive meanwhile wait in its main     *)
(* loop, and are handled after the answer even when they were sent first.  *)
(* The bus keeps the order of what the daemon sends.  A daemon that        *)
(* restarts is not modelled.                                               *)
(***************************************************************************)
EXTENDS Naturals, Sequences

CONSTANTS
  DevicePaths,      \* object paths of devices
  MaxDaemonEvents   \* bound: properties set, devices added and removed

ASSUME ClientAssumption == MaxDaemonEvents \in Nat

\* The properties that change: _up_exported_daemon_property_info_pointers, of
\* which DaemonVersion is set once and LidIsPresent never goes back.
DaemonProperties == {"OnBattery", "LidIsClosed"}

VARIABLES
  properties,          \* the skeleton's values
  changed_properties,  \* set since the last PropertiesChanged: their values then
  idle_source,         \* changed_properties_idle_source is attached
  exported_devices,    \* the daemon's list of devices
  bus,                 \* what the daemon has sent and the client not handled
  client_call,         \* what the client is waiting for
  cached_properties,   \* the proxy's cache, empty before there is a proxy
  app_devices,         \* what the application lists, and whether it has properties
  unsure,              \* ghost: read by the client while a change was pending
  daemon_events        \* how many events there have been

skeletonVars == <<properties, changed_properties, idle_source>>
appVars == <<client_call, cached_properties, app_devices>>
clientVars == <<skeletonVars, exported_devices, bus, appVars, unsure, daemon_events>>

Nothing == [p \in {} |-> FALSE]
Idle == [method |-> "none", sent |-> FALSE, paths |-> {}]
Call(method, paths) == [method |-> method, sent |-> TRUE, paths |-> paths]
Subscribed == client_call.method # "connect"

\* Signals go to those who have subscribed: every connection of the skeleton.
Send(message) == bus' = IF Subscribed THEN Append(bus, message) ELSE bus

Event == daemon_events < MaxDaemonEvents /\ daemon_events' = daemon_events + 1
-----------------------------------------------------------------------------
\* _up_exported_daemon_schedule_emit_changed(): the first value since the last
\* PropertiesChanged is kept.
ScheduleEmitChanged(p) ==
  IF p \in DOMAIN changed_properties THEN changed_properties
  ELSE [q \in DOMAIN changed_properties \cup {p} |->
          IF q = p THEN properties[p] ELSE changed_properties[q]]

\* up_exported_daemon_skeleton_notify(), when the setter thaws the object.
SkeletonNotify == idle_source' = (idle_source \/ changed_properties' # Nothing)

\* up_exported_daemon_skeleton_set_property(), from the daemon's setters.
SkeletonSetProperty(p, value) ==
  IF value = properties[p] THEN UNCHANGED skeletonVars
  ELSE /\ changed_properties' = ScheduleEmitChanged(p)
       /\ properties' = [properties EXCEPT ![p] = value]
       /\ SkeletonNotify

\* up_exported_daemon_set_on_battery(), up_exported_daemon_set_lid_is_closed()
SetProperty ==
  /\ Event
  /\ \E p \in DaemonProperties, value \in BOOLEAN : SkeletonSetProperty(p, value)
  /\ UNCHANGED <<exported_devices, bus, appVars, unsure>>

\* _up_exported_daemon_emit_changed(): what is again as it was is not told.
Differing == {p \in DOMAIN changed_properties : properties[p] # changed_properties[p]}

\* Mutant: the properties that were told stay in the list.
MutAfterEmission == changed_properties
\* Told or not, the list is empty again.
AfterEmission == Nothing

EmitChanged ==
  /\ idle_source
  /\ IF Differing = {} THEN UNCHANGED bus
     ELSE Send([kind |-> "changed", values |-> [p \in Differing |-> properties[p]]])
  /\ changed_properties' = AfterEmission /\ idle_source' = FALSE
  /\ unsure' = unsure \ Differing
  /\ UNCHANGED <<properties, exported_devices, appVars, daemon_events>>

\* up_daemon_device_added_cb() up to _up_exported_daemon_on_signal_device_added()
DeviceAdded ==
  /\ Event
  /\ \E d \in DevicePaths \ exported_devices :
       /\ exported_devices' = exported_devices \cup {d}
       /\ Send([kind |-> "added", path |-> d])
  /\ UNCHANGED <<skeletonVars, appVars, unsure>>

\* up_daemon_device_removed_cb() up to _up_exported_daemon_on_signal_device_removed()
DeviceRemoved ==
  /\ Event
  /\ \E d \in exported_devices :
       /\ exported_devices' = exported_devices \ {d}
       /\ Send([kind |-> "removed", path |-> d])
  /\ UNCHANGED <<skeletonVars, appVars, unsure>>

\* _up_exported_daemon_skeleton_handle_get_property(), for every property
\* (up_exported_daemon_skeleton_dbus_interface_get_properties()): the values now,
\* told or not.
GetProperties == [kind |-> "properties", values |-> properties]

\* up_exported_daemon_complete_enumerate_devices()
EnumerateDevices == [kind |-> "devices", paths |-> exported_devices]

\* A device's own properties, or the error that there is no such object.
GetDeviceProperties(d) == [kind |-> "device", found |-> d \in exported_devices]

\* _up_exported_daemon_skeleton_handle_method_call(): the daemon answers.
HandleMethodCall ==
  /\ client_call.sent
  /\ client_call' = [client_call EXCEPT !.sent = FALSE]
  /\ \/ /\ client_call.method = "GetAll"
        /\ bus' = Append(bus, GetProperties)
        /\ unsure' = unsure \cup Differing
     \/ /\ client_call.method = "EnumerateDevices"
        /\ bus' = Append(bus, EnumerateDevices) /\ UNCHANGED unsure
     \/ /\ client_call.method = "GetAllOfDevice"
        /\ bus' = Append(bus, GetDeviceProperties(client_call.path))
        /\ UNCHANGED unsure
  /\ UNCHANGED <<skeletonVars, exported_devices, cached_properties, app_devices, daemon_events>>
-----------------------------------------------------------------------------
\* up_exported_daemon_proxy_new_for_bus_sync(), from up_client_initable_init():
\* the proxy subscribes to the signals, then asks for the properties.
ClientNew ==
  /\ client_call.method = "connect"
  /\ client_call' = Call("GetAll", {})
  /\ UNCHANGED <<skeletonVars, exported_devices, bus, cached_properties, app_devices, unsure,
                 daemon_events>>

IsReply(m) == m.kind \in {"properties", "devices", "device"}

\* The devices still to be asked about, one blocking call each:
\* up_device_set_object_path_sync() in the loop of up_client_get_devices2().
AskNext(paths) ==
  IF paths = {} THEN Idle
  ELSE LET d == CHOOSE d \in paths : TRUE
       IN  [method |-> "GetAllOfDevice", sent |-> TRUE, paths |-> paths \ {d}, path |-> d]

\* up_device_set_object_path_sync(): the proxy is made even when there is no such
\* object any more, and then has no properties.
DeviceIsKnown(d, found) ==
  [e \in DOMAIN app_devices \cup {d} |-> IF e = d THEN found ELSE app_devices[e]]

\* The answer ends the wait, whatever signals wait before it.
ClientGetsReply ==
  \E i \in DOMAIN bus :
    /\ IsReply(bus[i])
    /\ bus' = SubSeq(bus, 1, i - 1) \o SubSeq(bus, i + 1, Len(bus))
    /\ \/ /\ bus[i].kind = "properties"
          /\ cached_properties' = bus[i].values
          /\ client_call' = Call("EnumerateDevices", {})   \* the application
          /\ UNCHANGED app_devices
       \/ /\ bus[i].kind = "devices"
          /\ client_call' = AskNext(bus[i].paths)
          /\ UNCHANGED <<cached_properties, app_devices>>
       \/ /\ bus[i].kind = "device"
          /\ app_devices' = DeviceIsKnown(client_call.path, bus[i].found)
          /\ client_call' = AskNext(client_call.paths)
          /\ UNCHANGED cached_properties
    /\ UNCHANGED <<skeletonVars, exported_devices, unsure, daemon_events>>

\* up_exported_daemon_proxy_g_properties_changed(), up_client_notify_cb()
ProxyPropertiesChanged(values) ==
  cached_properties' = [p \in DaemonProperties |->
                          IF p \in DOMAIN values THEN values[p] ELSE cached_properties[p]]

\* up_device_removed_cb(): the application drops the device of that path.
ClientDeviceRemoved(d) ==
  app_devices' = [e \in DOMAIN app_devices \ {d} |-> app_devices[e]]

\* up_exported_daemon_proxy_g_signal() and the client's handlers, from the main
\* loop: up_client_add() blocks again.
ClientHandlesSignal ==
  /\ client_call.method = "none" /\ bus # <<>>
  /\ bus' = Tail(bus)
  /\ LET m == Head(bus)
     IN  \/ /\ m.kind = "changed" /\ ProxyPropertiesChanged(m.values)
            /\ UNCHANGED <<client_call, app_devices>>
         \/ /\ m.kind = "added" /\ client_call' = AskNext({m.path})
            /\ UNCHANGED <<cached_properties, app_devices>>
         \/ /\ m.kind = "removed" /\ ClientDeviceRemoved(m.path)
            /\ UNCHANGED <<client_call, cached_properties>>
  /\ UNCHANGED <<skeletonVars, exported_devices, unsure, daemon_events>>

\* up_client_finalize(): the application lets go of the client, and may make another.
ClientFinalize ==
  /\ client_call.method = "none"
  /\ client_call' = [Idle EXCEPT !.method = "connect"]
  /\ bus' = <<>> /\ cached_properties' = Nothing /\ app_devices' = Nothing /\ unsure' = {}
  /\ UNCHANGED <<skeletonVars, exported_devices, daemon_events>>
-----------------------------------------------------------------------------
\* up_exported_daemon_skeleton_init()
SkeletonInit ==
  /\ properties = [p \in DaemonProperties |-> FALSE]
  /\ changed_properties = Nothing /\ idle_source = FALSE

ClientInit ==
  /\ SkeletonInit
  /\ exported_devices = {} /\ bus = <<>> /\ client_call = [Idle EXCEPT !.method = "connect"]
  /\ cached_properties = Nothing /\ app_devices = Nothing /\ unsure = {} /\ daemon_events = 0

ClientNext ==
  \/ SetProperty \/ EmitChanged \/ DeviceAdded \/ DeviceRemoved \/ HandleMethodCall
  \/ ClientNew \/ ClientGetsReply \/ ClientHandlesSignal \/ ClientFinalize

ClientSpec == ClientInit /\ [][ClientNext]_clientVars
-----------------------------------------------------------------------------
ClientTypeOK ==
  /\ properties \in [DaemonProperties -> BOOLEAN]
  /\ DOMAIN changed_properties \subseteq DaemonProperties
  /\ idle_source \in BOOLEAN
  /\ exported_devices \subseteq DevicePaths
  /\ \A i \in DOMAIN bus :
       bus[i].kind \in {"changed", "added", "removed", "properties", "devices", "device"}
  /\ client_call.method \in {"connect", "none", "GetAll", "EnumerateDevices", "GetAllOfDevice"}
  /\ client_call.paths \subseteq DevicePaths
  /\ cached_properties = Nothing \/ cached_properties \in [DaemonProperties -> BOOLEAN]
  /\ DOMAIN app_devices \subseteq DevicePaths
  /\ unsure \subseteq DaemonProperties /\ daemon_events \in 0..MaxDaemonEvents

\* Nothing is on its way: the client is connected, the daemon has nothing to tell.
ClientQuiet == client_call.method = "none" /\ bus = <<>> /\ ~idle_source

(* When nothing is on its way any more, the application lists the daemon's   *)
(* devices, each with its properties, and the client shows the daemon's      *)
(* properties, whatever was sent before, during and after the calls it was   *)
(* waiting for (up_client_get_devices2, up_client_add,                       *)
(* _up_exported_daemon_emit_changed).  Left out are the properties that the  *)
(* client read while a change of theirs was pending: when such a change is   *)
(* taken back before it was told, it never is, and the client keeps what it  *)
(* read.                                                                     *)
ClientSeesDaemon ==
  ClientQuiet =>
    /\ DOMAIN app_devices = exported_devices
    /\ \A d \in exported_devices : app_devices[d]
    /\ \A p \in DaemonProperties \ unsure : cached_properties[p] = properties[p]
=============================================================================
