# UPower in TLA+

Specifications of the UPower daemon (`src/`), model-checked with TLC and proved with
TLAPS. The code is the reference; paths below are relative to the repository.

## 1. The system

`upowerd` is a D-Bus service. One thread runs a GLib main loop (`src/up-main.c`): each
handler (a uevent, a timer, an idle source, a D-Bus call or signal) runs to its end before
the next is dispatched. The kernel, logind and the clients run beside it and do not wait.

| component | files | state | operations |
|---|---|---|---|
| daemon core | `src/up-daemon.c` | device list, OnBattery, display device, overall warning level, `action_timeout_id`, `refresh_event_id` | startup, device added / removed / changed, queued refresh, action timeout |
| poll timers | `src/up-daemon.c:749-986` | `poll_timeouts`, `idle_signals`, `poll_paused`, main loop sources | start, stop, pause, resume, fire, level changed, device destroyed |
| warning level policy | `src/up-daemon.c:656-708, 1055-1095` | thresholds | load, validate, evaluate |
| device | `src/up-device.c` | properties, WarningLevel, IconName, history | notify, coldplug, refresh, unplug |
| device list | `src/up-device-list.c` | array and index by native path | insert, remove, lookup |
| Linux backend | `src/linux/up-backend.c` | GUdev client, inhibitor, BlueZ client | coldplug, uevent, PrepareForSleep, BlueZ appears / vanishes, critical action |
| power supplies | `src/linux/up-device-supply.c` | retry timer, coldplugged values, ring of energies | coldplug, refresh of line power, battery, peripheral |
| HID UPS | `src/linux/up-device-hid.c` | own timer, hiddev descriptor | coldplug, refresh usage by usage |
| iDevice | `src/linux/up-device-idevice.c` | late start timer | start of its poll, refresh |
| Logitech, CSR, WUP, Bluetooth devices | `src/linux/hidpp-device.c`, `up-device-*.c` | protocol state | refresh |
| lid, keyboard backlight, wakeups | `src/linux/up-input.c`, `src/up-kbd-backlight.c`, `src/up-wakeups.c` | one switch, one sysfs file, idle timer | events, reads, writes |
| history | `src/up-history.c` | four arrays of samples, save timer | record, batch, save, load |
| client library, tool | `libupower-glib/`, `tools/` | proxies | enumerate, follow signals |
| critical action | `src/linux/up-backend.c:580-670` | configured action | ask logind what it can do, take the first it allows |
| D-Bus skeletons | `dbus/*-generated.c` | properties, changes still to be told | set, emit in an idle source |
| FreeBSD backend | `src/freebsd/` | device list, map of firmware names, devd channel | coldplug, devd events, timer |
| OpenBSD backend | `src/openbsd/up-backend.c` | two devices, a kqueue thread | events of apm(4), refresh of mains and battery |
| dummy backend | `src/dummy/` | none | none |

How they interact. The backend creates devices and emits *device-added* and *device-removed*;
the daemon keeps the list and connects to each device's *notify*. A driver's refresh sets
properties in several `g_object_set()` calls; each first runs the device's own notify handler
(WarningLevel, IconName), then the daemon's `up_daemon_device_changed_cb()`, which works out
OnBattery, the composite shown as the display device, and the overall level, and arms or
removes the 20 second timeout of the critical action. A change of an AC adapter queues an idle
source that refreshes the batteries. A device's WarningLevel restarts its poll timer.
logind's PrepareForSleep pauses and resumes polling; a delay inhibitor makes logind wait.
A device's notify handler also records its figures in the history, whose files are written by a
timer of their own. BlueZ's object manager adds and removes Bluetooth devices. The lid's readers
set the daemon's lid properties, which the skeleton tells the clients in an idle source.

What is hard here: evaluation on half-updated devices; timers removed and replaced from
inside their own callbacks; devices that come, go or change while polling is paused or while a
refresh of them is queued; signals about sleep that arrive late; uevents that never come; the
two independent flags (id field, source in the main loop) of one timeout. Around the core: late
answers on a descriptor that several devices share; BlueZ that goes and comes back; reads that end
inside an event or a packet; a hardware event that a client's write overtakes; a disk that fails
between four files; a change that is told after it has been read. `PROJECT.json` lists these
hazards at their lines.

What makes each part correct: the aggregate always follows from the devices; the critical
action is taken only after an uninterrupted grace period at the action level, and once; a
device on record has exactly one poll timer of the right interval, and none during sleep;
derived properties never lag; thresholds always warn; and, if the environment quiets down, the
daemon ends up showing what the kernel reports. Of each service around it: what it tells is what
its source last said, once nothing is on its way; what it starts (a timer, a watch, the kernel's
statistics) ends; and no answer is taken for another.

## 2. Modules

| module | models | kind |
|---|---|---|
| `UpTypes` | enumerations and the order of the levels (`libupower-glib/up-types.h`) | constants |
| `UpPolicy` | thresholds, their validation, `up_daemon_compute_warning_level()` | operators |
| `UpDevice` | one device: property sets, notify dispatch, WarningLevel, IconName | state machine |
| `UpCriticalAction` | the abstract promise of the critical action | abstract specification |
| `UpDaemon` | the core: list, refreshes, aggregate, critical action, startup, uevents, sleep | state machine, implements `UpCriticalAction` |
| `UpPoll` | poll and retry timers, pause and resume, inhibitor, logind | state machine |
| `UpHistory` | one device's samples: record, batch, save, load, query, crash | state machine |
| `UpWakeups` | timer statistics, the two polls, the idle timeout | state machine |
| `UpLid` | the readers of the lid switch | state machine |
| `UpKbdBacklight` | the backlight's file, its hardware events and its signals | state machine |
| `UpHidpp` | the devices of one Logitech receiver | state machine |
| `UpBluez` | BlueZ's objects and the devices made of them | state machine |
| `UpLogind` | the search for a critical action that logind allows | state machine |
| `UpBattery` | units, full energy and estimated rate of a sysfs battery | state machine |
| `UpApm` | the OpenBSD backend | state machine |
| `UpAcpi` | the FreeBSD backend | state machine |
| `UpPeripherals` | Watts Up Pro meter, CSR mouse, iDevice | state machines |
| `UpClient` | the daemon's skeleton, the library's proxies, an application | state machine |
| `UpLemmas` | least elements, sums over finite sets | lemmas of the proofs |
| `UpDaemonProofs`, `UpDeviceProofs`, `UpPollProofs` | theorems about `UpDaemon`, `UpDevice` and `UpPoll` | proofs |
| `UpHistoryProofs` | theorems about `UpHistory` | proofs |
| `UpServicesProofs` | theorems about `UpWakeups`, `UpKbdBacklight`, `UpLid`, `UpLogind`, `UpPeripherals`, `UpClient`, and all services together | proofs |
| `UpWirelessProofs` | theorems about `UpHidpp` and `UpBluez` | proofs |
| `UpBackendsProofs` | theorems about `UpApm`, `UpAcpi` and `UpBattery` | proofs |
| `MCUpDevice`, `MCUpDaemon`, `MCUpPoll`, `MCUpBluez` | instances for TLC | |
| `MCServices` | the services from `UpHistory` to `UpClient` in one instance | instance for TLC |

`UpDaemon` and `UpDevice` are built on `UpPolicy`; `UpDaemon` instantiates `UpCriticalAction`
with a refinement mapping. Operators that start with `Mut` are deliberately wrong versions of
the definition that follows them: substituting one must make a run fail, which shows that the
property has force. They are part of no specification.

### UpDevice

The variables are the backend's properties, the two derived ones, and the validated policy.
Each action is one `g_object_set()` of `up-device-supply.c`: GObject stores all the values it
names and then notifies each name, so it is one step, whose derived properties depend on the
*names* in the set, as in `up_device_notify()`. Readings are arbitrary. A device starts with the
level "unknown", the skeleton's, and keeps it until a property that the level depends on is set
(`Untold`).

### UpDaemon

`sysfs`, `plugged`, `unread`, `uevents` and `preparing` are the world: what the files say, which
devices there are, a UPS's unread report, uevents in flight, an announced sleep.
`power_devices` and `dev` are the list and the properties of its devices. `on_battery`,
`warning_level`, `display`, `display_level`, `action_timeout_id`, `refresh_event_id` and
`poll_paused` are the daemon's fields; `action_timeout_live` is whether the main loop still has
the timeout. `action_taken` and `stale` are history variables: no guard reads them.

The kernel does not wait for handlers, and a device is read when the loop gets to it. So a
handler that touches several devices takes several steps: `loop` and `todo` say which loop runs
and what it has left, `sets` which property sets the running refresh has still to make. While
they are not empty, nothing else is dispatched (`Dispatching`), but the environment moves.
`SetProperties` is one property set and the evaluation that follows it.

Abstractions: an energy is an integer, voltage and charges are left out, the rate is part of a
reading, and the files `capacity`, `time_to_empty_now` and `time_to_full_now` do not exist. The
static properties (model, vendor, technology), which nothing evaluates, are left out with the
evaluations they trigger, which change nothing. A uevent for a battery may be missing, an AC
adapter's is always sent, and a UPS is read when it has a report. Handlers of a device that
vanishes mid-refresh read missing files (`Gone`).

### UpPoll

`poll` holds the daemon's two hash tables and the number of handlers and weak references each
device has, `sources` the timers of the main loop, `poll_timer_id` and `unknown_retries` a
battery's retry. logind announces a sleep, waits for the inhibitor (or for a limit,
`DelayMayExpire`) and suspends; its signals queue and may be handled when the machine is awake
again. The inhibitor cannot be taken once sleep is announced. Timers may go off at any time; a
refresh may find any level, and a battery may be absent or not know its state.

Source ids only serve to be compared, so that a new source gets the least id not in use; the id
of a source removed by someone else's record would still be told apart, since an id counts as in
use as long as a record holds it. `g_hash_table` orders do not matter to these loops, which treat
each device alike; pause and resume are one step each, since no other handler can run between
and the environment does not read the timers.

### The services

The twelve modules after `UpPoll` (fourteen services: `UpPeripherals` has three) are about parts that share no state with the core but what they
hand over to it (a device, a reading, a property). Each has its variables, an action per handler
and per step of its environment, a type invariant and one or two properties. What they keep apart
is what the environment can come between: a handler that reads once is one step, and one that reads
twice, or asks and waits, is several.

`UpHistory`. `samples` are the four arrays, `save_id` and `save_live` the field and the source of
the save timer, `files` the disk. `UpdateHistory` is `update_history()` of `src/up-device.c`: four
calls of `SetData` in the code's order, each of which records a value that is new and schedules a
save. A save replaces the files one by one and stops at the first that fails; `ArrayToFile` is the
loop that copies the young samples. `SetId` loads the files and appends the marker of unknown state;
the daemon may be killed at any time, and then only `files` are left. `GetData` is GetHistory's answer: `CopyArrayTimespan`, then
the loop of `LimitStep` over the array. The loop compares times as `gfloat`s of the seconds since
1970, which are 128 s apart at present; `Float` rounds to the nearest one, with the number of digits, the
exponents and the epoch as constants. `ProfileIntervals` is what GetStatistics counts, as pairs of
places in the list. The loops are recursive functions, not folds, so that they can be proved about.

`UpWakeups`. `timer_stats` is the kernel's switch, `polls` the sources, `disable_id` and
`disable_live` the field and the source of the idle timeout. Values are per second, kept in `Parts` of
one: a poll divides what it counted by its interval. Every request restarts the timeout;
its callback turns the statistics off and returns FALSE after it has removed itself. Either
opening of the file may fail.

`UpLid`. Each add or change uevent of the input device makes a reader, so there may be several.
Opening and asking are two steps, and a read may take half an event. The handler asks for the
state of the switch and does not trust the event's own value.

`UpKbdBacklight`. `kbd_brightness` and `kbd_hw_changed` are two files: a client's write moves the
first, the hardware both.

`UpHidpp`. Each device has its descriptor with unread messages, and each answer of the receiver
goes to all of them. `hidpp_job` is the refresh that runs and the requests it has left; one
action sends a request after the descriptor was emptied (`DiscardMessages`), one reads a message,
one times out. `Key` is all of a request that is compared with an answer: device, feature and
function. An answer carries whose answer to what it is, in place of its payload.

`UpBluez`. BlueZ's state, the signals on their way and the client's view of them are three, since
a coldplug asks BlueZ itself, which may be ahead. When BlueZ vanishes, the handler casts each
object of the manager to a device, which none of them is: no device goes (`vanished_is_gone`).

`UpLogind`. One step per call of logind, which may change its mind between two of them.

`UpBattery`. A battery's driver has any set of the files `energy_now`, `energy_avg`, `charge_now`,
`charge_avg`, `energy_full`, `charge_full`, `power_now`, `current_now` and `capacity`; one that is
missing reads as 0, and the code decides by what it reads, so that drivers may mix the units
(`EnergyRead`, `BatteryColdplug`) and the energy may be made from the capacity (`EnergyTold`).
`bat_priv` holds the units, the ring of four energies and times, and the rate. `CalculateRate` is a
regression through the newest point of the ring, as a fraction; the clock has `TicksPerSecond`, and the
ring keeps whole seconds of it (`tv_sec`). The clock may be set, and the battery exchanged, also for one
with other files, between two refreshes. A refresh reads all its files and the clock in one step. The
voltage is one constant; the design figures, a `current_now` that is read before an average, and what
is guessed from the voltage are left out.

`UpApm`. The thread's registration, its `kevent()`, the idle callback it queues and the two `ioctl()`
calls of the callback are separate steps. An event that was not yet fetched is replaced by the next one,
of whatever type (`EV_CLEAR`), and the thread passes over what is no change of power; a change that was
told to nobody is in `apm_missed` until the device is read.

`UpAcpi`. `up_backend_coldplug()` adds the devices before it connects to devd, so that a change
in between is told to nobody and waits for the timer (`acpi_unread`). `FindBattery` looks for the
number in an event's name among the driver's units, and only if there is none for the whole name among
the firmware's (`handle_map`): so a number that is another battery's unit leads to that battery, and one
that is nobody's and not in the map makes a device or does nothing. `FirmwareNumber` is any function; a
name may have no number (`NoNumber`).

`UpPeripherals`. The meter's stream is cut by reads anywhere, and its buffer is a variable of the
stack that is neither cleared nor ended by a zero: what follows the bytes that were read is what an
earlier call left, a choice of the model's. The mouse may be gone, busy or answer nothing. The phone
refuses until it is unlocked; its start timer goes on every five seconds.

`UpClient`. `properties` are the skeleton's values, `changed_properties` and `idle_source` what it
has still to tell; device signals are told at once. The client's calls block: `bus` is what has
been sent and not yet handled, and what came before the answer is handled after it.

`UpDaemon` and `UpPoll` overlap with three of these where a device is concerned: `UpDaemon` takes
rates and energies as given, which `UpBattery` works out; `UpPoll` has the poll timer that the
iDevice of `UpPeripherals` starts late; `TakeActionTimeout` of `UpDaemon` ends in the search of
`UpLogind`.

## 3. Runs

Passing:

| run | instance | shows |
|---|---|---|
| `device` | 30 configuration files, 5 kinds, 10 percentages, 6 times, on each side of every threshold | derived properties are current (`LevelIsCurrent`, `IconIsCurrent`), every threshold warns (`ThresholdReached`), a full device is quiet (`FullIsQuiet`) |
| `laptop` | adapter, removable battery, 3 changes, 2 queued uevents | the list (`ListedOnce`), the aggregate (`AggregateIsCurrent`), the timeout (`TimeoutBelongsToEpisode`), `ActionNeedsAnEmptySupply`, refinement of `UpCriticalAction` (`KeepsCriticalAction`) |
| `supplies` | two batteries with and without a UPS, 2 changes; the batteries are symmetric | `AggregateIsCurrent`, `ActionNeedsAnEmptySupply` and `KeepsCriticalAction` for composites and for reports set usage by usage |
| `catches_up` | adapter, battery, time policy, fair | `CatchesUp`, `GracePeriodEnds` |
| `poll` | battery, iDevice, 3 sleeps, 1 retry | `OnePollEach`, `TimersAreOwned`, `IntervalFollowsLevel`, `SleepsQuietly` |
| `poll_resumes` | battery under NoPollBatteries, iDevice, 2 sleeps, fair | `BatteriesAreNotPolled`, `PollingResumes` |
| `services` | the fourteen services, each by itself | the table below |

What `services` shows of each:

| module | property | what it says, and what it leaves out |
|---|---|---|
| `UpHistory` | `UnsavedIsScheduled` | a young sample is on disk, or a timer that saves it is pending, while the disk works |
| | `LowPowerIsSaved` | at low power the end of the charge history is on disk |
| | `ProfileSkipsDowntime` | statistics count no time across a load or a change of state, none twice, and none that is negative |
| | `AnswersShowChanges` | a thinned answer hides no change of state after its first sample, whose point has no state; how many points it has is no part of it, as the floats decide |
| `UpWakeups` | `StatisticsEnd` | statistics that are on have a pending timeout, unless turning them off failed |
| `UpLid` | `LidIsCurrent` | once one living reader has caught up, LidIsClosed is the switch |
| `UpKbdBacklight` | `SignalsTellBrightness` | with no event left the last signal is the brightness; not after a read that failed, or a client's write that overtook a hardware event |
| `UpHidpp` | `BatteryIsOwn` | no device shows another's battery |
| | `AnswersFit` | no unread message is taken for an answer; left out (`crossed`) is a request sent while one that differs in its parameters only is unanswered, which the code cannot tell apart |
| `UpBluez` | `BluezBatteriesAreFollowed` | what BlueZ has with a battery is listed once, with its percentage; left out are failed coldplugs, which are not tried again, and devices that outlived an earlier BlueZ |
| `UpLogind` | `ActionIsAllowed` | the action taken was allowed when asked, and is no milder than configured |
| `UpBattery` | `BatteryReadsTrue` | a rate is at most twice one the battery can have (it is taken over truncated seconds), the energy is never above the full one, and is its share of it; left out are rates after the clock was set, after an unseen exchange, or from energies made of capacities; the share after an unseen exchange; and the share of drivers that mix the units, those with charges and `power_now` among them (`HasFigures`) |
| `UpApm` | `ApmIsFollowed` | with nothing pending both devices tell what the hardware does; left out are a change whose event was replaced, or was before the registration, until the device is read again (`apm_missed`), the state while the mains are unknown, and is-present of a battery whose other figures did not change when it came or went (`SeemsTheSame`) |
| `UpAcpi` | `AcpiIsFollowed` | with no event left each device tells the hardware's state; left out, until the device is read again, are failed reads, changes nobody told, and changes told under a name that does not lead to the battery (`Named`) |
| `UpPeripherals` | `PeripheralsAreFollowed` | each listed device has exactly one timer, a gone one leaves none; a phone is present only after a whole reading |
| `UpClient` | `ClientSeesDaemon` | with nothing on its way the application lists the daemon's devices and shows its properties; left out is a property read while a change was pending and then taken back |

What is left out is carried by a history variable that no guard reads (`save_failed`, `crossed`,
`bluez_lost`, `bat_broken`, `unsure` and the like), and is what the code really does.

Violations, each of one property that a document, comment or test of the repository states:

| run | what the code does |
|---|---|
| `every_episode_is_armed` | leaving the action level removes the timeout but keeps its id (`src/up-daemon.c:651`), so the next episode is taken for one that is armed and no action follows |
| `display_level` | the display device works out a level of its own that ignores AC, against `dbus/org.freedesktop.UPower.xml:100` |
| `lone_battery` | the second battery coldplugged counts one battery, the other one, and guesses although `src/linux/up-device-supply.c:852` says it must not |
| `vanished_is_gone` | when BlueZ vanishes, `src/linux/up-backend.c:480` takes its objects for devices, so that the signal it emits for each is for no device of the list, and the Bluetooth devices stay listed |
| `pause_stops_polls` | resuming polling that was not paused doubles each timer, and the lost one survives the next pause |

Smaller divergences that the models describe, without a run:

- the comment at `src/up-daemon.c:213` on the composite state is narrower than the code (a battery in
  an unknown state beside a discharging one gives "discharging", not "unknown");
- a battery's retry timer goes on during a pause, as do a UPS's and a meter's own timers;
- GetHistory with a time span answers the newest sample first, though
  `dbus/org.freedesktop.UPower.Device.xml:189` says "ordered from the earliest in time, to the newest";
- thinning compares times as floats, 128 s apart at present (`src/up-history.c:162, 166`), so that a point
  may be closed before its division is over: with `max_num` 1 and samples L + 140 discharging, L + 139
  unknown and L discharging, L = 60 (mod 128), there are three points, where `src/up-history.c:157` speaks
  of "a pre-set level";
- `up_wakeups_poll_kernel_cb()` leaves out the column of the last processor;
- a keyboard backlight event that a client's write overtook is announced after the write, with the
  older value;
- a property that a client reads between a change and its announcement, and that is changed back
  before it, is never told to that client again;
- the failed refresh of an iDevice may have set its percentage and not its state;
- on OpenBSD is-present does not change unless another figure does (`src/openbsd/up-backend.c:322`): a
  battery that is critical while the mains are unknown, and is then taken out with the same percentage,
  is "empty" both times and stays present; and a missing lid reads as closed;
- a signal of an earlier sleep that the daemon handles after a later one was announced makes it release
  the inhibitor, or resume polling, for the wrong sleep (`src/linux/up-backend.c:769`);
- a power change on OpenBSD that comes before the thread has registered, or whose event another event
  replaces before it is fetched, is not told until the next one or until a device is refreshed;
- on FreeBSD an event of a battery whose firmware's number is another battery's unit refreshes that other
  battery (`src/freebsd/up-backend.c:133`), as the map of the firmware's names is only asked when the
  number leads to none; and one whose number leads to nothing, or whose name has none, is dropped;
- a battery whose driver counts charges and has `power_now`, and no `capacity`, is told with an energy
  of 0, since charges are converted only where there is no `power_now` (`src/linux/up-device-supply.c:709`),
  though `dbus/org.freedesktop.UPower.Device.xml:449` documents Energy as the amount left;
- an estimated rate can be up to twice the battery's, since the ring keeps whole seconds
  (`src/linux/up-device-supply.c:275`);
- on FreeBSD the lid is not read at start, and a devd that goes away is not connected to again: its
  channel's callback is called again at once, for ever.

Bounds. `MaxChanges` counts changes of the environment: two take the level to "action" and away,
the third brings it back, hot-plugs, or changes what a queued refresh will read. `MaxUevents`
two lets an add and a remove, or a startup duplicate and a change, be in flight together. Two
devices are the least that can disagree (adapter and battery, two batteries, UPS and battery);
three are in `supplies`. `MaxSleeps` two is the least with a second pause after a resume; with
three a signal of the first sleep can meet the third, which is what `SleepsQuietly` has to leave out
(`inhibited` holds only if no signal was on its way when sleep was announced). `MaxSignals` four leaves
room for both signals of two sleeps to be late. One retry
(`UnknownRetries`) reaches the limit and the reset. Six ids are more than the sources and records
two devices can have with the two new ones a refresh may need.

In `services` the services share no variable, so that an interleaving of two shows nothing that each
alone does not: a behaviour is one of a single service (`Alone`), and the run is the union of fourteen
state spaces. Their bounds: a `MaxTime` of 2 with samples that age after 1 lets one be saved,
age and be dropped; four samples are two changes of state. Floats of two digits and an epoch of 9 are as
coarse against this clock as a `gfloat` is against minutes. Three devices of the receiver are one of
the second protocol and two of the first, one of which has an approximate battery only; one timeout
gives one late answer, two refreshes two jobs it can be late for. Two readers of the lid can disagree.
The capabilities are one word, all the code has room for (`src/linux/up-input.c:84`, an array of one
`long`, which the switches of the kernel fit into). A tenth of a wakeup per second (`Parts`) is exact for
periods of 1, 2 and 5 seconds. One Bluetooth object loses and regains each
interface with two signals in flight, and `vanished_is_gone` has two objects. Three
energies of the ring, the least that an estimate is made of, are read at three ticks of the battery's
clock, which runs through the four ticks of two seconds. The
kinds of batteries are one per way through `BatteryColdplug`, `EnergyRead` and `RateRead`; the first has
room for a slope that is too steep after an exchange and still below `RateCap`. Of three FreeBSD
batteries the firmware's number is another one's unit, nobody's, and none. `WupReadSize` of three halves ends every second
read inside a packet. Four daemon events are a change, its reversal, a device that comes and goes, all
within one call of the client.

Fairness. Handlers that have been dispatched finish (`WF(Handler)`, `SF(Wake)`): the main loop
runs one to its end. Uevents, idle source, timeouts and signals that are ready again and again are
dispatched (`SF`): GLib serves sources of one priority in turn, the idle source is reached when
the others are quiet, and the environment is bounded. Strong fairness is needed because other
handlers disable them while they run. A sleeping machine wakes up, and logind suspends within
its limit. No fairness is assumed of clients' refreshes or of the environment's changes.
`GracePeriodEnds` says that the timeout fires or is called off, not that 20 seconds pass:
time is not modelled. `SleepsQuietly` is checked with `DelayMayExpire` false: if logind stops
waiting, the machine sleeps before the daemon has been told.

Deadlock is checked in every run.
The properties of the services are invariants that speak of quiet states or of what is pending; no
liveness is claimed of them.

## 4. Proofs

TLAPS checks eight modules: seven of theorems and `UpLemmas`. The theorems hold for every value of
the constants that satisfies the assumptions of the module they are about: any number of devices of any kinds, any readings, any
configuration, and any bounds, so that there may be any number of sleeps, messages, events or
samples. Each rests on an inductive invariant: the property alone speaks of quiet states, or of what
is pending, and the invariant says what has to hold in between for it to come true. TLC evaluated
every invariant on the instances of section 3 before it was proved (those of BlueZ and of the client
on larger ones, without their types).

### The core

`UpDaemonProofs`, from `DaemonAssumption`:

| theorem | property | argument |
|---|---|---|
| `TimeoutSafety` | `TimeoutBelongsToEpisode` | `TimeoutInv` adds that `action_taken` implies the level is "action": without it an episode could begin with its action counted as taken. `NextCases` splits a step into an evaluation, the timeout, and steps that leave the critical action alone; every evaluation ends in `SetWarningLevel` |
| `ImplementsCriticalAction` | `KeepsCriticalAction` | refinement: initial states map to initial states; under `TimeoutInv` an evaluation maps to the abstract level change (or a stutter), the callback to the abstract end of the grace period |
| `ListedOnceSafety` | `ListedOnce` | `StateInv`, which adds to the types that the enumeration at startup has only unlisted devices left, and that the running refresh is one of a listed device (`ListInv`) |
| `AggregateSafety` | `AggregateIsCurrent` | inductive as it stands: a step evaluates on the new list and properties, or changes neither, or adds a device and marks the aggregate stale until the next evaluation, which is the gap between *device-added* and the first notify |
| `TypeSafety` | `TypeOK` | `SupplyInvariant`: the same invariant, and that `display` is typed. The figures of two batteries are sums, typed by `SumFunctionNat`; the percentage is a quotient by their full energy |
| `ActionSafety` | `ActionNeedsAnEmptySupply` | not inductive without `Figures` in `StateInv`: a listed battery's percentage is what its two energies give. Batteries that are all above k % have each at least (k + 1) % of their full energy, so have their sums (`ShareOfSums`), and so has the whole quotient (`CompositePercentage`). `SupplyCases`: a step evaluates, or leaves the level and every listed device alone |

`ActionSafety` is about batteries whose percentage comes of their energies, as in the model. Where the
kernel has a `capacity` file the code takes that percentage, and the composite of several batteries
still comes of their energies: if the two disagree by enough, the composite can be at the action
threshold while no battery is.

`UpDeviceProofs`, from `ConfigsAssumption`, `KindsAssumption` and `ReadingsAssumption`:
`LevelSafety`, `IconSafety`, `ThresholdSafety` and `FullSafety` prove the four properties of the
`device` run, and `TypeSafety` its type invariant, from the inductive `DeviceInv`. It adds to the
currency of the two derived properties that the policy in use passed validation
(`ValidatedPolicy`: the defaults that replace a bad triple are valid themselves, and replacing the
times does not disturb the percentages), and `FullReading`, what the driver ensures of a reading of
100 %: a peripheral is then fully charged, and never has the coarse level "low". Without
`FullReading` a full peripheral could be warned about; without the descending order a threshold
could be skipped. `LevelIsCurrent` is inductive although `type` is not among the names that select
the level, because the type is set once, on a device whose state is unknown.

`UpPollProofs`, from `PollAssumption`:

| theorem | property | hypotheses |
|---|---|---|
| `TypeSafety` | `TypeOK` | none |
| `BatteriesSafety` | `BatteriesAreNotPolled` | none |
| `PollsAreNeitherLostNorDoubled` | `OnePollEach` | `~StartsDuringSleep` |
| `TimersHaveOwners` | `TimersAreOwned` | `~StartsDuringSleep` |
| `IntervalsFollowLevels` | `IntervalFollowsLevel` | `~StartsDuringSleep` |
| `SleepIsQuiet` | `SleepsQuietly` | `~StartsDuringSleep`, `~DelayMayExpire` |

The hypotheses are those of the `poll` run, and the theorems are false without them: a daemon that is
started during sleep resumes polling it never paused, which is what `pause_stops_polls` shows, and a
logind that does not wait for the inhibitor suspends before the daemon has been told.
`TimersIInv` joins the types with four things. `HandshakeInv`: the signals on their way alternate, beginning with
the opposite of the one handled last and ending with what logind does now, so that no resume comes
without a pause, however late. `Consistent`: the sources are exactly the timers that the records of the daemon
and of the batteries speak of, with distinct ids and the intervals of the levels, and exactly the
devices with a poll timer have a handler, one each. `PausedOrNot`: `idle_signals` is `registered` while
polling is not paused and empty while it is. `ListedInv`: devices on record are listed, those that
have to be polled are on record, and an unlisted one has neither level nor retry. The functions of `up-daemon.c` work on a pair of records and
sources, and a lemma of each says what it does to such a pair; a refresh, which may start, stop and
restart polls several times, is a composition of those lemmas (`Refreshed`).
`SleepIsQuiet` needs `InhibitedInv` besides: from the announcement of a sleep to the daemon that holds
the inhibitor and is not behind, either the signal is on its way and the inhibitor with it, or polling
is paused.

### The services

| theorem | property | what the inductive invariant adds |
|---|---|---|
| `UpHistoryProofs` | | |
| `UnsavedIsScheduledSafety`, `LowPowerIsSavedSafety` | `UnsavedIsScheduled`, `LowPowerIsSaved` | `HistoryIInv`, about the memory a handler works on (`MemoryInv`): the field of the save timer agrees with the main loop (with a field left set no sample would be scheduled again); and a charge history that ends low is on disk whatever the present state is, since a later refresh may find the old sample unchanged. It rests on `NoOlderThanKeeps`: the loop writes every young sample, and only samples of the list, in their order |
| `ProfileSkipsDowntimeSafety` | `ProfileSkipsDowntime` | `HistoryIInv` has besides that every list, in memory and on disk, is in the order of its times, and none of its samples is of the future: that is why no interval is negative. What the loop keeps (`ProfileSound`): since the place it will count from, the state is one and the same; what it has counted lies before that place, piece after piece |
| `AnswersShowChangesSafety` | `AnswersShowChanges` | the types of the lists only. What the loop keeps (`LimitSound`): its points, with the open one, have the changes of state of the samples so far, and the open one is of the last sample's state; wherever a division ends, and so whatever the floats round to |
| `UpServicesProofs` | | |
| `StatisticsEndSafety` | `StatisticsEnd` | `WakeupsIInv`: statistics that are on without polling were left on by an attempt that failed |
| `BrightnessSafety` | `SignalsTellBrightness` | `KbdIInv`: an event that is left is of the brightness there is, unless a client wrote since; nothing is told before the object is exported |
| `LidSafety` | `LidIsCurrent` | `LidIInv`: when the device is gone every reader is dead; a watching reader has found a lid |
| `CriticalActionIsAllowed` | `ActionIsAllowed` (an action property) | `LogindIInv`: while logind is being asked, every entry from the configured one up to the one asked about has been refused |
| `PeripheralsSafety` | `PeripheralsAreFollowed` | `PeripheralsIInv`: inductive almost as it stands; the types of what the meter reads, so that whatever the rest of its buffer holds no reading is made up, and that the phone is present exactly when it is polled |
| `ClientSafety` | `ClientSeesDaemon` | `ClientIInv`: the last signal on the bus about a device or a property tells what the daemon has told (which for a property is its state once the idle source has run); where there is no such signal the client knows it, or the one answer it waits for says it |
| `ServicesTypeSafety` | `ServicesTypeOK` | `ServicesIInv`, the invariants of all the services together: a step is one of a single service and nothing to the others (`OneServiceSteps`). What their types need besides: a wakeup item has a baseline only if it is an interrupt's, and none above the count it is subtracted from, or the value would be negative (`WakeupsTyped`); a closed descriptor has nothing unread (`HidppRest`); what is listed or sent is of a device, a property or an event that there is (`AcpiRest`, `ClientRest`) |
| `UpWirelessProofs` | | |
| `BatterySafety`, `AnswersSafety` | `BatteryIsOwn`, `AnswersFit` | `HidppIInv`: an answer is addressed to the receiver or to the device it is of; the request that waits is one of the device whose refresh runs; and, unless `crossed`, what looks like its answer is its answer, whether the receiver has still to give it or it lies unread: that is what emptying the descriptor before each request is for |
| `BluezSafety` | `BluezBatteriesAreFollowed` | `BluezIInv`: what the client knows to have a battery is listed, and the reverse; a battery that is gone is to be removed, also when the client has still to hear of its coming; the last change on its way tells the present level, and a device shows that level or has a change or its removal waiting |
| `UpBackendsProofs` | | |
| `ApmSafety`, `ApmTypeSafety` | `ApmIsFollowed`, `ApmTypeOK` | `ApmIInv`: no more callbacks are queued than the power changed; between the halves of the last callback the mains are told already; what an earlier refresh left in the battery (`BatteryRemembers`), which decides whether the next one returns early |
| `AcpiSafety` | `AcpiIsFollowed` | `AcpiIInv`: every listed battery that tells its firmware's name is in the map; a device that was read tells what the hardware does, or an event of it waits whose name leads to it; no other event, which may read a wrong device, makes one less current; the last lid event that waits tells the lid's state |
| `BatterySupplySafety` | `BatteryReadsTrue` | `BatteryIInv`: unless the ring is marked broken, each energy in it was the battery's within the second that is kept, so it differs from the newest by no more than the slope over a second more than their ages differ, and none is newer than the newest; the full energy is read once for each battery; the rate that is kept is believable. An age that counts is a second at least, and one second more is at most twice that: so each product in the estimate is within twice the slope times the square of its age, and with `ShareOfSums` their sums are |

They assume what their modules assume, and nothing else. Most of it are types and signs of the bounds. Of
the environment it says: there are finitely many interrupts and processes, whose wakeups are added up;
the parts of a wakeup are fine enough for each interval (`WakeupsAssumption`); the capabilities of an
input device are one word (`LidAssumption`), which is all the code has room for; a battery's figures are
multiples of the voltage and its full energy one of a hundred, so that no unit of the driver's rounds, the
driver tells no rate that the battery has not, and the clock starts after its first second
(`BatteryAssumption`); and a FreeBSD battery may have none of its flags set (`AcpiAssumption`). The
firmware's numbers are any function, and so are the files of a battery, the epoch and the precision of
the floats. The exceptions a property makes (`save_failed`, `crossed`, `unsure`, `apm_missed` and the
like) are those of section 3.

On induction. The library's theorems of induction take an operator as a parameter, which no backend
can instantiate. `LeastOfNaturals` (from the well-foundedness of < on the naturals) makes up for it
where a single fact is to be proved: of the numbers that violate it take the least. `InductionUpTo` is
that argument, for a set of numbers in place of a predicate. A loop of the code is a function of the
number of turns, defined by recursion; that there is such a function has to be proved of each loop,
because TLA+ only chooses one that satisfies the equation if there is one. `NoOlderThanLoop`,
`ProfileLoop`, `LimitLoop` and `ChangesLoop` do it by building its values turn by turn; after that an
invariant of the loop is an induction up to the length of the list. `LoopEnds` and `LoopStays` are the same for a search.
`SmallestSubset` does the same for finite sets, by their cardinality, and with it `UpLemmas` proves
what `SumFunction` of the community modules computes: the function it defines by recursion over subsets
exists (`SumsExist`), its values do not depend on the set it was defined for (`SumsAgree`), they are
naturals, and a bound that holds of every element holds of the sum (`ShareOfSums`).

### Only model-checked

- Liveness: `CatchesUp`, `GracePeriodEnds`, `PollingResumes`. Fairness is out of the prover's reach.

All safety properties of the passing runs are proved: the invariants, the action property and the
refinement. The properties of the violation runs are false of the code, as TLC's counterexamples show.

How a property is worded mattered to two of the proofs. `ProfileSkipsDowntime` speaks of places in the
list and not of samples: two samples taken within a second can be equal, and a statement about samples
that are equal to the ends of an interval is false on larger instances. `AnswersShowChanges` leaves the
first sample out, since the code gives its point the unknown state, and says nothing of the number of
points: a bound by the divisions holds of exact times only, and the code's are floats.

## 5. Not modelled

- D-Bus methods that only read, polkit checks, object export, logging: no state of the daemon
  depends on them. The strings of devices and of wakeup items.
- A restart of the daemon as its clients see it; its effect on the history is modelled.
- Battery percentages guessed from the voltage, design figures, and times, in `up-device-supply.c`; the
  energies of the FreeBSD and OpenBSD batteries: arithmetic only, whose results `UpDaemon` takes as given.
- The search of the USB bus and of the HID descriptors, opening serial lines: abstracted to their
  outcome.
- Sleep and the critical action on FreeBSD and OpenBSD, which repeat Linux's.
- The library's value types (`up-history-item.c`, `up-stats-item.c`, `up-wakeup-item.c`, `up-types.c`),
  the command-line tool, the dummy backend, the build files and the tests. The library's `UpWakeups`,
  and the skeletons of the wakeups and of the backlight, are generated from the templates of the
  daemon's and have no properties.

## 6. Plan

Done: the core (`UpPolicy`, `UpDevice`, `UpCriticalAction`, `UpDaemon`, `UpPoll`) and the services, with
the proofs of all their invariants. What could follow, the most important first:

1. The overlap of `UpDaemon` with `UpPoll`: one specification in which a fired poll timer is the refresh
   of `UpDaemon`, refining both.
2. A UPS's own timer during a pause (`src/linux/up-device-hid.c`), and the weak references that a pause
   and a resume add to each polled device (`src/up-daemon.c:850`), with properties of their own.
3. The energies, percentages and times that `UpDaemon` takes as given.
