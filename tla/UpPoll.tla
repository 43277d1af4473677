------------------------------- MODULE UpPoll -------------------------------
(***************************************************************************)
(* The poll timers of src/up-daemon.c and the retry timer of a battery in  *)
(* an unknown state (src/linux/up-device-supply.c), with the handshake     *)
(* with logind that stops them before the machine sleeps (PrepareForSleep  *)
(* and the delay inhibitor of src/linux/up-backend.c).                     *)
(*                                                                         *)
(* What a refresh reads is abstracted to what the timers depend on: the    *)
(* device's warning level, and whether a battery is present and knows its  *)
(* state.  Timers may go off at any time.  logind and the kernel run       *)
(* beside the daemon; PrepareForSleep signals arrive in order, and late.   *)
(***************************************************************************)
EXTENDS UpTypes, Sequences, FiniteSets

CONSTANTS
  Device,                \* the devices that may be polled
  PollKind,              \* "battery", "mouse" (polled from coldplug on) or
                         \* "idevice" (polled once it answers)
  Id,                    \* the ids of the main loop's sources, without 0
  Level,                 \* the warning levels devices take
  UnknownRetries,        \* UP_DAEMON_UNKNOWN_RETRIES
  NoPollBatteries,       \* the option of UPower.conf
  NeedsPollAfterUevent,  \* the machine is a MacBook
  StartsDuringSleep,     \* the daemon may be started on the way to sleep
  DelayMayExpire,        \* logind may lose patience with the inhibitor
  MaxSleeps,             \* bound: the sleeps of a run
  MaxSignals             \* bound: signals on their way

ASSUME PollAssumption ==
  /\ PollKind \in [Device -> {"battery", "mouse", "idevice"}]
  /\ Id \subseteq Nat \ {0}
  /\ Level \subseteq WarningLevel /\ "unknown" \in Level
  /\ UnknownRetries \in Nat /\ MaxSleeps \in Nat /\ MaxSignals \in Nat
  /\ NoPollBatteries \in BOOLEAN /\ NeedsPollAfterUevent \in BOOLEAN
  /\ StartsDuringSleep \in BOOLEAN /\ DelayMayExpire \in BOOLEAN

NoId == 0

VARIABLES
  \* the daemon's poll state
  poll,             \* see PollState
  sources,          \* the timers the main loop has
  poll_timer_id,    \* each battery's retry timer, or NoId
  unknown_retries,
  poll_paused,
  \* the devices
  listed,
  warning_level,
  \* sleep
  inhibitor_fd,     \* the daemon holds the delay inhibitor
  todo,             \* the devices to refresh before polling is resumed
  waking,           \* the handler of PrepareForSleep(FALSE) is running
  logind,           \* "awake", "announced" or "asleep"
  signals,          \* the PrepareForSleep signals on their way
  inhibited,        \* when sleep was announced the daemon held the inhibitor,
                    \* and had handled all signals of earlier sleeps (history variable)
  sleeps            \* sleeps so far (bounds the environment)

daemon == <<poll, sources, poll_timer_id, unknown_retries, poll_paused, listed,
            warning_level, inhibitor_fd, todo, waking>>
environment == <<logind, signals, inhibited, sleeps>>
vars == <<daemon, environment>>

\* registered: the keys of poll_timeouts, and id their TimeoutData's id;
\* idle_signals: its keys; connected: the number of change_idle_timeout()
\* handlers a device has; weak_refs: of its references to device_destroyed().
PollState ==
  [registered : SUBSET Device, id : [Device -> Id \cup {NoId}],
   idle_signals : SUBSET Device, connected : [Device -> Nat], weak_refs : [Device -> Nat]]

\* The timers: polls every 30 or 120 seconds, and a battery's retry.
Source == [id : Id, device : Device, kind : {"short", "long", "retry"}]

\* A new source gets an id that is not in use.  Ids are only compared, so that
\* the first such id may stand for all of them.
InUse == {s.id : s \in sources} \cup {poll.id[d] : d \in Device}
IsNew(id, used) == id \in Id \ used /\ \A i \in Id \ used : id <= i

\* calculate_timeout()
Timeout(level) == IF LevelRank[level] >= LevelRank.discharging THEN "short" ELSE "long"

\* Mutant: the option is not looked at.
MutIsPolled(d) == PollKind[d] \in {"mouse", "battery"}

IsPolled(d) == PollKind[d] = "mouse" \/ (PollKind[d] = "battery" /\ ~NoPollBatteries)
-----------------------------------------------------------------------------
(* The functions of up-daemon.c, as functions of the pair                  *)
(* [poll |-> ..., sources |-> ...].                                        *)

SourceRemove(p, id) == [p EXCEPT !.sources = {s \in @ : s.id # id}]

EnablePollForDevice(p, d, id, timeout) ==
  [p EXCEPT !.poll.id[d] = id,
            !.sources = @ \cup {[id |-> id, device |-> d, kind |-> timeout]}]

EnableNotifications(p, d) ==
  [p EXCEPT !.poll.connected[d] = @ + 1,
            !.poll.idle_signals = @ \cup {d},
            !.poll.weak_refs[d] = @ + 1]

DisableNotifications(p, d) ==
  IF d \in p.poll.idle_signals
    THEN [p EXCEPT !.poll.connected[d] = IF @ > 0 THEN @ - 1 ELSE 0,
                   !.poll.idle_signals = @ \ {d}]
    ELSE p

\* up_daemon_start_poll(): while paused the device is only put on record.
StartPoll(p, d, id, timeout) ==
  IF d \in p.poll.registered THEN p
  ELSE LET q == [p EXCEPT !.poll.registered = @ \cup {d}, !.poll.id[d] = NoId]
       IN  IF poll_paused THEN q
           ELSE EnablePollForDevice(EnableNotifications(q, d), d, id, timeout)

\* Mutant: the source is left to the main loop.
MutStopPoll(p, d) ==
  LET q == DisableNotifications(p, d)
  IN  IF d \notin q.poll.registered THEN q
      ELSE [q EXCEPT !.poll.registered = @ \ {d}, !.poll.id[d] = NoId,
                     !.poll.weak_refs[d] = IF @ > 0 THEN @ - 1 ELSE 0]

StopPoll(p, d) ==
  LET q == DisableNotifications(p, d)
  IN  IF d \notin q.poll.registered THEN q
      ELSE [SourceRemove(q, q.poll.id[d]) EXCEPT
              !.poll.registered = @ \ {d}, !.poll.id[d] = NoId,
              !.poll.weak_refs[d] = IF @ > 0 THEN @ - 1 ELSE 0]

\* device_destroyed(), when the device has a weak reference to it
DeviceDestroyed(p, d) ==
  IF p.poll.weak_refs[d] = 0 \/ d \notin p.poll.registered THEN p
  ELSE [SourceRemove(p, p.poll.id[d]) EXCEPT !.poll.registered = @ \ {d}, !.poll.id[d] = NoId]

\* Mutant: the timer keeps the interval it has.
MutChangeIdleTimeout(p, d, id, timeout) ==
  IF p.poll.connected[d] = 0 THEN p
  ELSE StartPoll(StopPoll(p, d), d, id, "long")

\* "notify::warning-level" of d, which change_idle_timeout() handles if it is
\* connected: the poll starts afresh.
ChangeIdleTimeout(p, d, id, timeout) ==
  IF p.poll.connected[d] = 0 THEN p
  ELSE StartPoll(StopPoll(p, d), d, id, timeout)

Polling == [poll |-> poll, sources |-> sources]
SetPolling(p) == poll' = p.poll /\ sources' = p.sources
-----------------------------------------------------------------------------
(* Refreshing a device.                                                    *)

\* The daemon's main loop may dispatch: it is not in a handler, or asleep.
Dispatching == ~waking /\ logind # "asleep"

\* Mutant: the retry is set up without looking at the count.
MutSetupUnknownPoll(p, d, known, id) ==
  IF ~known \/ NeedsPollAfterUevent
    THEN /\ SetPolling([p EXCEPT !.sources = @ \cup {[id |-> id, device |-> d, kind |-> "retry"]}])
         /\ poll_timer_id' = [poll_timer_id EXCEPT ![d] = id]
         /\ \E n \in {0, 1} : unknown_retries' = [unknown_retries EXCEPT ![d] = @ + n]
    ELSE /\ SetPolling(p)
         /\ poll_timer_id' = [poll_timer_id EXCEPT ![d] = NoId]
         /\ unknown_retries' = [unknown_retries EXCEPT ![d] = 0]

\* up_device_supply_setup_unknown_poll(), after the old retry was removed.  The
\* retry is counted when the last one is more than a second ago.
SetupUnknownPoll(p, d, known, id) ==
  IF unknown_retries[d] < UnknownRetries /\ (~known \/ NeedsPollAfterUevent)
    THEN /\ SetPolling([p EXCEPT !.sources = @ \cup {[id |-> id, device |-> d, kind |-> "retry"]}])
         /\ poll_timer_id' = [poll_timer_id EXCEPT ![d] = id]
         /\ \E n \in {0, 1} : unknown_retries' = [unknown_retries EXCEPT ![d] = @ + n]
    ELSE /\ SetPolling(p)
         /\ poll_timer_id' = [poll_timer_id EXCEPT ![d] = NoId]
         /\ unknown_retries' = [unknown_retries EXCEPT ![d] = 0]

\* up_device_supply_refresh() of a battery that reads as level, started from p.
RefreshBattery(p, d, level, id, retry) ==
  \E present, known \in BOOLEAN :
    LET q == SourceRemove(p, poll_timer_id[d])
        r == ChangeIdleTimeout(q, d, id, Timeout(level))
    IN  IF present /\ ~NoPollBatteries
          THEN SetupUnknownPoll(r, d, known, retry)
          ELSE /\ SetPolling(r)
               /\ poll_timer_id' = [poll_timer_id EXCEPT ![d] = NoId]
               /\ UNCHANGED unknown_retries

\* up_device_refresh_internal(), started from p, when the ids in used are taken
\* beside those in use.  Devices other than batteries
\* may not answer, and then nothing is set.
RefreshFrom(p, d, used) ==
  \E level \in Level, id, retry \in Id :
    /\ IsNew(id, InUse \cup used) /\ IsNew(retry, InUse \cup used \cup {id})
    /\ \/ /\ warning_level' = [warning_level EXCEPT ![d] = level]
          /\ \/ PollKind[d] = "battery" /\ RefreshBattery(p, d, level, id, retry)
             \/ /\ PollKind[d] # "battery"
                /\ SetPolling(ChangeIdleTimeout(p, d, id, Timeout(level)))
                /\ UNCHANGED <<poll_timer_id, unknown_retries>>
       \/ /\ PollKind[d] # "battery"
          /\ SetPolling(p)
          /\ UNCHANGED <<warning_level, poll_timer_id, unknown_retries>>

\* A uevent or a client's Refresh().
Refresh(d) ==
  /\ Dispatching /\ d \in listed
  /\ RefreshFrom(Polling, d, {})
  /\ UNCHANGED <<poll_paused, listed, inhibitor_fd, todo, waking, environment>>

\* fire_timeout_callback() and poll_unknown_battery(), whose source is removed
\* when it returns.
Fire(s) ==
  /\ Dispatching /\ s \in sources /\ s.device \in listed
  /\ RefreshFrom(IF s.kind = "retry" THEN SourceRemove(Polling, s.id) ELSE Polling,
                 s.device, {})
  /\ UNCHANGED <<poll_paused, listed, inhibitor_fd, todo, waking, environment>>
-----------------------------------------------------------------------------
(* Devices come and go.                                                    *)

\* A device is coldplugged, and starts to be polled.
Add(d) ==
  /\ Dispatching /\ d \notin listed
  /\ listed' = listed \cup {d}
  /\ \E id \in Id :
       /\ IsNew(id, InUse)
       /\ RefreshFrom(IF IsPolled(d) THEN StartPoll(Polling, d, id, "long") ELSE Polling, d, {id})
  /\ UNCHANGED <<poll_paused, inhibitor_fd, todo, waking, environment>>

\* An iDevice has answered at last: it is read, and polled from now on.
StartIdevice(d) ==
  /\ Dispatching /\ d \in listed \ poll.registered /\ PollKind[d] = "idevice"
  /\ \E id \in Id, level \in Level :
       /\ IsNew(id, InUse)
       /\ warning_level' = [warning_level EXCEPT ![d] = level]
       /\ SetPolling(StartPoll(Polling, d, id, Timeout(level)))
  /\ UNCHANGED <<poll_timer_id, unknown_retries, poll_paused, listed,
                 inhibitor_fd, todo, waking, environment>>

\* Mutant: the driver's finalize does not stop the poll.
MutRemove(d) ==
  /\ Dispatching /\ d \in listed
  /\ listed' = listed \ {d}
  /\ SetPolling(SourceRemove(DeviceDestroyed(Polling, d), poll_timer_id[d]))
  /\ poll_timer_id' = [poll_timer_id EXCEPT ![d] = NoId]
  /\ unknown_retries' = [unknown_retries EXCEPT ![d] = 0]
  /\ warning_level' = [warning_level EXCEPT ![d] = "unknown"]
  /\ UNCHANGED <<poll_paused, inhibitor_fd, todo, waking, environment>>

\* The last reference goes: its handlers are disconnected, the weak references
\* called, and the driver's finalize runs.
Remove(d) ==
  /\ Dispatching /\ d \in listed
  /\ listed' = listed \ {d}
  /\ LET p == SourceRemove(StopPoll(DeviceDestroyed(Polling, d), d), poll_timer_id[d])
     IN  SetPolling([p EXCEPT !.poll.connected[d] = 0, !.poll.weak_refs[d] = 0])
  /\ poll_timer_id' = [poll_timer_id EXCEPT ![d] = NoId]
  /\ unknown_retries' = [unknown_retries EXCEPT ![d] = 0]
  /\ warning_level' = [warning_level EXCEPT ![d] = "unknown"]
  /\ UNCHANGED <<poll_paused, inhibitor_fd, todo, waking, environment>>
-----------------------------------------------------------------------------
(* Sleep: logind ...                                                       *)

AnnounceSleep ==
  /\ logind = "awake" /\ sleeps < MaxSleeps /\ Len(signals) + 2 <= MaxSignals
  /\ logind' = "announced" /\ signals' = Append(signals, TRUE)
  /\ sleeps' = sleeps + 1
  /\ inhibited' = (inhibitor_fd /\ signals = <<>>)
  /\ UNCHANGED daemon

\* logind waits for the inhibitors, for InhibitDelayMaxSec at most.
Suspend ==
  /\ logind = "announced" /\ (~inhibitor_fd \/ DelayMayExpire)
  /\ logind' = "asleep"
  /\ UNCHANGED <<daemon, signals, inhibited, sleeps>>

Resume ==
  /\ logind = "asleep"
  /\ logind' = "awake" /\ signals' = Append(signals, FALSE)
  /\ UNCHANGED <<daemon, inhibited, sleeps>>

(* ... and the daemon.                                                     *)

\* Mutant: the sources are left running.
MutPausePoll(p) == p

\* up_daemon_pause_poll(), of every registered device
PausePoll(p) ==
  LET stopped == {p.poll.id[d] : d \in p.poll.registered}
      off == p.poll.registered \cap p.poll.idle_signals
  IN  [poll |->
         [p.poll EXCEPT
            !.id = [d \in Device |-> IF d \in p.poll.registered THEN NoId ELSE @[d]],
            !.connected = [d \in Device |-> IF d \in off /\ @[d] > 0 THEN @[d] - 1 ELSE @[d]],
            !.idle_signals = @ \ off],
       sources |-> {s \in p.sources : s.id \notin stopped}]

\* Mutant: a device that was paused is not polled again.
MutResumeNothing(p, ids) == p

\* up_daemon_resume_poll(), of every registered device, with these new ids
ResumePoll(p, ids) ==
  LET On(f) == [d \in Device |-> IF d \in p.poll.registered THEN f[d] + 1 ELSE f[d]]
  IN  [poll |->
         [p.poll EXCEPT
            !.id = [d \in Device |-> IF d \in p.poll.registered THEN ids[d] ELSE @[d]],
            !.connected = On(@), !.weak_refs = On(@),
            !.idle_signals = @ \cup p.poll.registered],
       sources |-> p.sources \cup
         {[id |-> ids[d], device |-> d, kind |-> Timeout(warning_level[d])] :
            d \in p.poll.registered}]

\* up_backend_prepare_for_sleep(TRUE)
PrepareForSleep ==
  /\ Dispatching /\ signals # <<>> /\ Head(signals)
  /\ signals' = Tail(signals)
  /\ SetPolling(PausePoll(Polling)) /\ poll_paused' = TRUE
  /\ inhibitor_fd' = FALSE
  /\ UNCHANGED <<poll_timer_id, unknown_retries, listed, warning_level, todo, waking,
                 logind, inhibited, sleeps>>

\* up_backend_inhibitor_lock_take(): logind refuses it once sleep is announced.
LockTake == inhibitor_fd' \in IF inhibitor_fd THEN {TRUE} ELSE {FALSE, logind = "awake"}

\* up_backend_prepare_for_sleep(FALSE): the inhibitor is taken, every listed
\* device is refreshed, ...
WakeUp ==
  /\ Dispatching /\ signals # <<>> /\ ~Head(signals)
  /\ signals' = Tail(signals)
  /\ LockTake
  /\ waking' = TRUE /\ todo' = listed
  /\ UNCHANGED <<poll, sources, poll_paused, poll_timer_id, unknown_retries, listed,
                 warning_level, logind, inhibited, sleeps>>

RefreshNext ==
  /\ waking /\ logind # "asleep" /\ todo # {}
  /\ \E d \in todo : todo' = todo \ {d} /\ RefreshFrom(Polling, d, {})
  /\ UNCHANGED <<poll_paused, listed, inhibitor_fd, waking, environment>>

\* ... and polling is resumed.
FinishWakeUp ==
  /\ waking /\ logind # "asleep" /\ todo = {}
  /\ waking' = FALSE
  /\ \E ids \in [poll.registered -> Id \ InUse] :
       /\ \A d, e \in poll.registered : ids[d] = ids[e] => d = e
       /\ \A d \in poll.registered : \A i \in Id \ InUse :
            i < ids[d] => \E e \in poll.registered : ids[e] = i
       /\ SetPolling(ResumePoll(Polling, ids))
  /\ poll_paused' = FALSE
  /\ UNCHANGED <<poll_timer_id, unknown_retries, listed, warning_level, inhibitor_fd, todo,
                 environment>>
-----------------------------------------------------------------------------
\* The daemon takes the inhibitor in up_backend_init(), after it has subscribed
\* to the signal.
Init ==
  /\ poll = [registered |-> {}, id |-> [d \in Device |-> NoId], idle_signals |-> {},
             connected |-> [d \in Device |-> 0], weak_refs |-> [d \in Device |-> 0]]
  /\ sources = {}
  /\ poll_timer_id = [d \in Device |-> NoId]
  /\ unknown_retries = [d \in Device |-> 0]
  /\ poll_paused = FALSE
  /\ listed = {}
  /\ warning_level = [d \in Device |-> "unknown"]
  /\ logind \in IF StartsDuringSleep THEN {"awake", "announced"} ELSE {"awake"}
  /\ inhibitor_fd \in {FALSE, logind = "awake"}
  /\ todo = {} /\ waking = FALSE
  /\ signals = <<>> /\ inhibited = FALSE /\ sleeps = 0

Wake == RefreshNext \/ FinishWakeUp

Next ==
  \/ \E d \in Device : Refresh(d) \/ Add(d) \/ StartIdevice(d) \/ Remove(d)
  \/ \E s \in sources : Fire(s)
  \/ PrepareForSleep \/ WakeUp \/ Wake
  \/ AnnounceSleep \/ Suspend \/ Resume

Spec == Init /\ [][Next]_vars

\* The daemon gets to its signals and finishes their handlers; a machine that
\* is announced to sleep does, and wakes up.
Fairness ==
  /\ SF_vars(PrepareForSleep) /\ SF_vars(WakeUp) /\ SF_vars(Wake)
  /\ WF_vars(Suspend) /\ WF_vars(Resume)

FairSpec == Spec /\ Fairness
-----------------------------------------------------------------------------
TypeOK ==
  /\ poll \in PollState
  /\ sources \subseteq Source
  /\ poll_timer_id \in [Device -> Id \cup {NoId}]
  /\ unknown_retries \in [Device -> 0..UnknownRetries]
  /\ poll_paused \in BOOLEAN
  /\ listed \subseteq Device /\ warning_level \in [Device -> Level]
  /\ inhibitor_fd \in BOOLEAN
  /\ todo \subseteq Device /\ waking \in BOOLEAN
  /\ logind \in {"awake", "announced", "asleep"}
  /\ signals \in Seq(BOOLEAN)
  /\ inhibited \in BOOLEAN /\ sleeps \in Nat

PollSources == {s \in sources : s.kind # "retry"}
RetrySources == {s \in sources : s.kind = "retry"}

\* Polls are neither lost nor doubled nor left running: while polling is not
\* paused each registered device has one poll timer, the one it is on record
\* with, and no other device has any; while it is paused there is none.
OnePollEach ==
  /\ poll_paused => PollSources = {}
  /\ ~poll_paused =>
       /\ \A d \in poll.registered : \E s \in PollSources : s.device = d /\ s.id = poll.id[d]
       /\ \A s \in PollSources : s.device \in poll.registered /\ s.id = poll.id[s.device]

\* No timer outlives its device, and the callbacks find the device on record
\* (the assertion of fire_timeout_callback): listed devices alone have timers,
\* a retry is the one its battery remembers, and a device that has to be polled
\* is on record, whether it came, left or changed before, during or after sleep.
TimersAreOwned ==
  /\ poll.registered \subseteq listed
  /\ \A d \in listed : IsPolled(d) => d \in poll.registered
  /\ \A s \in PollSources : s.device \in poll.registered
  /\ \A s \in RetrySources : s.device \in listed /\ poll_timer_id[s.device] = s.id
  /\ \A d \in Device : poll_timer_id[d] # NoId =>
       \E s \in RetrySources : s.device = d /\ s.id = poll_timer_id[d]

\* The interval is that of the device's present warning level, also when the
\* level changed while polling was paused.
IntervalFollowsLevel ==
  \A s \in PollSources : s.kind = Timeout(warning_level[s.device])

\* The machine does not sleep with a poll timer running, when logind waited for
\* the daemon to release the inhibitor, and the daemon was not behind: a signal of
\* an earlier sleep, handled late, releases it or resumes polling for the wrong sleep.
SleepsQuietly == logind = "asleep" /\ inhibited => PollSources = {}

\* With NoPollBatteries batteries have no timers at all.
BatteriesAreNotPolled ==
  NoPollBatteries => \A s \in sources : PollKind[s.device] # "battery"

\* A device that is on record is polled again, however often the machine sleeps.
PollingResumes ==
  \A d \in Device : d \in poll.registered ~>
    (d \notin poll.registered \/ \E s \in PollSources : s.device = d)
-----------------------------------------------------------------------------
(* What a comment of the repository says, and the code does not do.        *)

\* "Pause, i.e. stop, all registered poll sources."
PauseStopsAllPolls == poll_paused => PollSources = {}
=============================================================================
