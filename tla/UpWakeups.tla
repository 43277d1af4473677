----------------------------- MODULE UpWakeups -----------------------------
(***************************************************************************)
(* The wakeups object (src/up-wakeups.c): on a client's request it turns   *)
(* the kernel's timer statistics on and polls two files; an idle timeout,  *)
(* which every request starts afresh, turns them off again.  The file of   *)
(* the statistics may refuse to be opened.                                 *)
(*                                                                         *)
(* A value is a rate, in parts of a wakeup per second that every interval  *)
(* divides; the rounding of the code's floats, and the strings of an item, *)
(* are left out.                                                           *)
(***************************************************************************)
EXTENDS Integers, FiniteSets, Functions

CONSTANTS
  Cpus,             \* number of processors
  Interrupts,       \* the numbers of the interrupts
  Processes,        \* the ids of the processes with timers
  KernelTools,      \* those of them that are insmod, modprobe or swapper
  Parts,            \* of a wakeup per second, in which values are kept
  SamplePeriods,    \* the periods a report can be of, in seconds
  MaxPerInterval,   \* bound: interrupts in an interval
  MaxCount          \* bound: interrupts of one processor in all

UP_WAKEUPS_POLL_INTERVAL_KERNEL == 2   \* in seconds

ASSUME WakeupsAssumption ==
  /\ Parts \in Nat \ {0} /\ SamplePeriods \subseteq Nat \ {0}
  /\ \A interval \in SamplePeriods \cup {UP_WAKEUPS_POLL_INTERVAL_KERNEL} : Parts % interval = 0
  /\ Cpus \in Nat \ {0} /\ MaxPerInterval \in Nat /\ MaxCount \in Nat
  /\ Interrupts \subseteq Nat /\ Processes \subseteq Nat /\ KernelTools \subseteq Processes
  /\ IsFiniteSet(Interrupts) /\ IsFiniteSet(Processes)

VARIABLES
  interrupts,       \* /proc/interrupts: a count per interrupt and processor
  timer_stats,      \* /proc/timer_stats: the kernel collects statistics
  wakeup_items,     \* data: items by id
  total_ave,        \* the total that clients are told
  polling_enabled,
  polls,            \* the poll sources the main loop has
  disable_id,       \* the field says that the idle timeout is running
  disable_live,     \* the main loop has it
  unread_time,      \* an interval went by since the last kernel poll
  disable_failed    \* the last attempt to turn off failed (history variable)

wakeupsVars == <<interrupts, timer_stats, wakeup_items, total_ave, polling_enabled, polls,
                 disable_id, disable_live, unread_time, disable_failed>>
clockVars == <<interrupts, unread_time>>
sourceVars == <<timer_stats, polling_enabled, polls, disable_id, disable_live, disable_failed>>

WakeupItem == [user : BOOLEAN, value : Nat, old : Nat]

\* up_wakeups_data_get_or_create(): interrupts and processes share the ids, and
\* the item is of the kind that came first.
ItemOf(id, user) ==
  IF id \in DOMAIN wakeup_items THEN wakeup_items[id]
  ELSE [user |-> user, value |-> 0, old |-> 0]

\* A poll first sets the values of its kind to zero.
Zeroed(user) ==
  [id \in DOMAIN wakeup_items |->
     IF wakeup_items[id].user = user THEN [wakeup_items[id] EXCEPT !.value = 0]
     ELSE wakeup_items[id]]

\* The value of a count over an interval of so many seconds.
PerSecond(count, interval) == count * (Parts \div interval)

\* up_wakeups_data_get_total(): whole wakeups per second.
GetTotal(items) == SumFunction([id \in DOMAIN items |-> items[id].value]) \div Parts

\* up_wakeups_perhaps_data_changed(): total_old is never assigned, so that the
\* average is the total, and a total of 0 changes nothing.
PerhapsDataChanged(items) ==
  LET total == GetTotal(items)
  IN  total_ave' = IF total # 0 THEN total ELSE total_ave
-----------------------------------------------------------------------------
(* The polls.                                                              *)

\* The number of interrupts: the columns up to, and without, the last one.
KernelCount(irq) == SumFunction([cpu \in 1..(Cpus - 1) |-> interrupts[irq][cpu]])

\* One line of /proc/interrupts: the first count only makes a baseline.
KernelSample(item, count) ==
  [item EXCEPT !.value = IF item.old > 0
                           THEN PerSecond(count - item.old, UP_WAKEUPS_POLL_INTERVAL_KERNEL)
                           ELSE @,
               !.old = count]

\* up_wakeups_poll_kernel_cb()
PollKernelCb ==
  /\ "kernel" \in polls /\ unread_time
  /\ LET counted == {irq \in Interrupts : KernelCount(irq) > 0}
         zeroed == Zeroed(FALSE)
         Item(irq) == IF irq \in DOMAIN zeroed THEN zeroed[irq] ELSE ItemOf(irq, FALSE)
     IN  wakeup_items' =
           [id \in counted \cup DOMAIN zeroed |->
              IF id \in counted THEN KernelSample(Item(id), KernelCount(id)) ELSE zeroed[id]]
  /\ PerhapsDataChanged(wakeup_items')
  /\ unread_time' = FALSE
  /\ UNCHANGED <<interrupts, sourceVars>>

\* up_wakeups_poll_userspace_cb(): of the timers of one process the last line
\* counts; lines of deferred timers and of the scheduler's are not in report, and
\* interval is its sample period, or 5 where it tells none.
\* A file that cannot be read ends the poll, and the field is not told.
PollUserspaceCb(report, interval) ==
  /\ "userspace" \in polls
  /\ LET counted == {pid \in DOMAIN report : report[pid] > 0}
         zeroed == Zeroed(TRUE)
         Item(pid) == IF pid \in DOMAIN zeroed THEN zeroed[pid]
                      ELSE ItemOf(pid, pid \notin KernelTools)
     IN  wakeup_items' =
           [id \in counted \cup DOMAIN zeroed |->
              IF id \in counted THEN [Item(id) EXCEPT !.value = PerSecond(report[id], interval)]
              ELSE zeroed[id]]
  /\ PerhapsDataChanged(wakeup_items')
  /\ UNCHANGED <<clockVars, sourceVars>>

PollUserspaceFails ==
  /\ "userspace" \in polls
  /\ wakeup_items' = Zeroed(TRUE) /\ polls' = polls \ {"userspace"}
  /\ UNCHANGED <<clockVars, timer_stats, total_ave, polling_enabled, disable_id,
                 disable_live, disable_failed>>
-----------------------------------------------------------------------------
(* On and off.                                                             *)

\* up_wakeups_timerstats_disable(), of up_wakeups_disable_cb() and the finalizer:
\* the sources go first, and the flag stays when the file cannot be opened.
\* Without polling nothing happens, and the id of a timeout that ran is kept.
TimerstatsDisable(opened) ==
  IF ~polling_enabled
    THEN UNCHANGED <<timer_stats, polling_enabled, polls, disable_id, disable_failed>>
    ELSE /\ polls' = {} /\ disable_id' = FALSE
         /\ polling_enabled' = ~opened /\ disable_failed' = ~opened
         /\ timer_stats' = (timer_stats /\ ~opened)

\* up_wakeups_disable_cb(): the source does not repeat.
DisableCb ==
  /\ disable_live /\ disable_live' = FALSE
  /\ \E opened \in BOOLEAN : TimerstatsDisable(opened)
  /\ UNCHANGED <<clockVars, wakeup_items, total_ave>>

\* Mutant: a timeout that is on record is taken to be running.
MutTimerstatsEnable(opened) ==
  /\ disable_id' = TRUE /\ disable_live' = IF disable_id THEN disable_live ELSE TRUE
  /\ IF polling_enabled \/ ~opened THEN UNCHANGED <<timer_stats, polling_enabled, polls>>
     ELSE /\ timer_stats' = TRUE /\ polling_enabled' = TRUE
          /\ polls' = {"kernel", "userspace"}
  /\ disable_failed' = (disable_failed /\ ~polling_enabled')

\* up_wakeups_timerstats_enable(): the idle timeout starts afresh, whether the
\* statistics can be turned on or not.
TimerstatsEnable(opened) ==
  /\ disable_id' = TRUE /\ disable_live' = TRUE
  /\ IF polling_enabled \/ ~opened THEN UNCHANGED <<timer_stats, polling_enabled, polls>>
     ELSE /\ timer_stats' = TRUE /\ polling_enabled' = TRUE
          /\ polls' = {"kernel", "userspace"}
  /\ disable_failed' = (disable_failed /\ ~polling_enabled')

\* up_wakeups_get_total() and up_wakeups_get_data()
Request ==
  /\ \E opened \in BOOLEAN : TimerstatsEnable(opened)
  /\ UNCHANGED <<clockVars, wakeup_items, total_ave>>

\* up_wakeups_finalize(), and a new daemon.
FinalizeWakeups ==
  /\ \E opened \in BOOLEAN :
       /\ disable_failed' = IF polling_enabled THEN ~opened ELSE disable_failed
       /\ timer_stats' = (timer_stats /\ ~(polling_enabled /\ opened))
  /\ wakeup_items' = <<>> /\ total_ave' = 0 /\ polling_enabled' = FALSE /\ polls' = {}
  /\ disable_id' = FALSE /\ disable_live' = FALSE
  /\ UNCHANGED clockVars

\* Two seconds go by, with at most MaxPerInterval interrupts.  Where the poll is
\* on, it comes after each of them.
Interval ==
  /\ "kernel" \in polls => ~unread_time
  /\ \E irq \in Interrupts, cpu \in 1..Cpus, n \in 0..MaxPerInterval :
       /\ interrupts[irq][cpu] + n <= MaxCount
       /\ interrupts' = [interrupts EXCEPT ![irq][cpu] = @ + n]
  /\ unread_time' = TRUE
  /\ UNCHANGED <<wakeup_items, total_ave, sourceVars>>

\* /proc/timer_stats, while it is on.
Reports == [Processes -> 0..1]

WakeupsInit ==
  /\ interrupts = [irq \in Interrupts |-> [cpu \in 1..Cpus |-> 0]] /\ timer_stats = FALSE
  /\ wakeup_items = <<>> /\ total_ave = 0 /\ polling_enabled = FALSE /\ polls = {}
  /\ disable_id = FALSE /\ disable_live = FALSE /\ unread_time = FALSE
  /\ disable_failed = FALSE

WakeupsNext ==
  \/ Interval
  \/ PollKernelCb
  \/ \E report \in Reports, interval \in SamplePeriods : PollUserspaceCb(report, interval)
  \/ PollUserspaceFails
  \/ Request
  \/ DisableCb
  \/ FinalizeWakeups

WakeupsSpec == WakeupsInit /\ [][WakeupsNext]_wakeupsVars
-----------------------------------------------------------------------------
WakeupsTypeOK ==
  /\ interrupts \in [Interrupts -> [1..Cpus -> 0..MaxCount]] /\ timer_stats \in BOOLEAN
  /\ DOMAIN wakeup_items \subseteq Interrupts \cup Processes
  /\ \A id \in DOMAIN wakeup_items : wakeup_items[id] \in WakeupItem
  /\ total_ave \in Nat /\ polling_enabled \in BOOLEAN
  /\ polls \subseteq {"kernel", "userspace"} /\ disable_id \in BOOLEAN
  /\ disable_live \in BOOLEAN /\ unread_time \in BOOLEAN /\ disable_failed \in BOOLEAN

\* The statistics, which cost every wakeup of the machine time, do not stay on
\* for nobody: a timeout that turns them off is pending, unless the last one
\* could not.  Requests, failed ones included, come before, between and after.
StatisticsEnd == timer_stats => disable_live \/ disable_failed
=============================================================================
