-------------------------- MODULE UpServicesProofs --------------------------
(***************************************************************************)
(* Theorems about the services of the daemon and about its clients: the    *)
(* wakeups object, the keyboard backlight, the lid, the choice of the      *)
(* critical action, the devices that are read by a timer of their own, and *)
(* the client library.  The last one is about all the services together.   *)
(***************************************************************************)
EXTENDS MCServices, UpHistoryProofs, UpBackendsProofs, UpWirelessProofs

-----------------------------------------------------------------------------
(* The wakeups object.                                                     *)

\* StatisticsEnd speaks of the idle timeout, which DisableCb takes away whether
\* there is polling to end or not: without polling, statistics that are still on
\* must have been left on by an attempt that failed.
StatisticsAreAccountedFor == timer_stats => polling_enabled \/ disable_failed

WakeupsIInv ==
  /\ timer_stats \in BOOLEAN /\ polling_enabled \in BOOLEAN /\ disable_id \in BOOLEAN
  /\ disable_live \in BOOLEAN /\ disable_failed \in BOOLEAN
  /\ StatisticsAreAccountedFor
  /\ StatisticsEnd

LEMMA WakeupsInitIInv == WakeupsInit => WakeupsIInv
BY DEF WakeupsInit, WakeupsIInv, StatisticsAreAccountedFor, StatisticsEnd

LEMMA WakeupsStepIInv == WakeupsIInv /\ [WakeupsNext]_wakeupsVars => WakeupsIInv'
<1> SUFFICES ASSUME WakeupsIInv, [WakeupsNext]_wakeupsVars PROVE WakeupsIInv'
  OBVIOUS
<1> USE DEF WakeupsIInv, StatisticsAreAccountedFor, StatisticsEnd
<1>1. CASE \/ Interval
           \/ PollKernelCb
           \/ \E report \in Reports, interval \in SamplePeriods : PollUserspaceCb(report, interval)
  <2>1. UNCHANGED sourceVars
    BY <1>1, Zenon DEF Interval, PollKernelCb, PollUserspaceCb
  <2> QED
    BY <2>1 DEF sourceVars
<1>2. CASE PollUserspaceFails
  BY <1>2 DEF PollUserspaceFails
<1>3. CASE Request
  <2>1. PICK opened \in BOOLEAN : TimerstatsEnable(opened)
    BY <1>3 DEF Request
  <2> QED
    BY <2>1 DEF TimerstatsEnable
<1>4. CASE DisableCb
  <2>1. PICK opened \in BOOLEAN : TimerstatsDisable(opened)
    BY <1>4 DEF DisableCb
  <2>2. disable_live' = FALSE
    BY <1>4 DEF DisableCb
  <2> QED
    BY <2>1, <2>2 DEF TimerstatsDisable
<1>5. CASE FinalizeWakeups
  BY <1>5 DEF FinalizeWakeups
<1>6. CASE UNCHANGED wakeupsVars
  BY <1>6 DEF wakeupsVars
<1> QED
  BY <1>1, <1>2, <1>3, <1>4, <1>5, <1>6 DEF WakeupsNext

\* The timer statistics never stay on for nobody: a timeout that turns them off
\* is pending, or the last attempt to turn them off failed (up-wakeups.c).
THEOREM StatisticsEndSafety == WakeupsSpec => []StatisticsEnd
<1>1. WakeupsIInv => StatisticsEnd
  BY DEF WakeupsIInv
<1> QED
  BY <1>1, WakeupsInitIInv, WakeupsStepIInv, PTL DEF WakeupsSpec

\* The count of an interrupt is one, and it does not fall.
LEMMA KernelCountNat ==
  ASSUME interrupts \in [Interrupts -> [1..Cpus -> 0..MaxCount]], NEW irq \in Interrupts
  PROVE  KernelCount(irq) \in Nat
<1>1. Cpus \in Nat \ {0} /\ MaxCount \in Nat
  BY WakeupsAssumption
<1>2. IsFiniteSet(1..(Cpus - 1)) /\ \A cpu \in 1..(Cpus - 1) : cpu \in 1..Cpus
  <2>1. 1 \in Int /\ Cpus - 1 \in Int /\ \A cpu \in 1..(Cpus - 1) : cpu \in 1..Cpus
    BY <1>1
  <2>2. IsFiniteSet(1..(Cpus - 1))
    BY <2>1, FS_Interval, Zenon
  <2> QED
    BY <2>1, <2>2
<1>3. [cpu \in 1..(Cpus - 1) |-> interrupts[irq][cpu]] \in [1..(Cpus - 1) -> Nat]
  BY <1>1, <1>2
<1> QED
  BY <1>2, <1>3, SumFunctionNat DEF KernelCount

LEMMA KernelCountGrows ==
  ASSUME interrupts \in [Interrupts -> [1..Cpus -> 0..MaxCount]],
         interrupts' \in [Interrupts -> [1..Cpus -> 0..MaxCount]], NEW irq \in Interrupts,
         \A cpu \in 1..Cpus : interrupts[irq][cpu] <= interrupts'[irq][cpu]
  PROVE  /\ KernelCount(irq) \in Nat /\ KernelCount(irq)' \in Nat
         /\ KernelCount(irq) <= KernelCount(irq)'
<1> DEFINE v == [cpu \in 1..(Cpus - 1) |-> interrupts[irq][cpu]]
           w == [cpu \in 1..(Cpus - 1) |-> interrupts'[irq][cpu]]
<1>1. Cpus \in Nat \ {0} /\ MaxCount \in Nat
  BY WakeupsAssumption
<1>2. IsFiniteSet(1..(Cpus - 1)) /\ \A cpu \in 1..(Cpus - 1) : cpu \in 1..Cpus
  <2>1. 1 \in Int /\ Cpus - 1 \in Int /\ \A cpu \in 1..(Cpus - 1) : cpu \in 1..Cpus
    BY <1>1
  <2>2. IsFiniteSet(1..(Cpus - 1))
    BY <2>1, FS_Interval, Zenon
  <2> QED
    BY <2>1, <2>2
<1>3. v \in [1..(Cpus - 1) -> Nat] /\ w \in [1..(Cpus - 1) -> Nat]
  BY <1>1, <1>2
<1>4. \A cpu \in 1..(Cpus - 1) : 1 * v[cpu] <= 1 * w[cpu]
  BY <1>1, <1>2
<1>5. KernelCount(irq) = SumFunction(v) /\ KernelCount(irq)' = SumFunction(w)
  BY DEF KernelCount
<1> HIDE DEF v, w
<1>6. 1 * SumFunction(v) <= 1 * SumFunction(w)
  BY <1>2, <1>3, <1>4, ShareOfSums
<1>7. SumFunction(v) \in Nat /\ SumFunction(w) \in Nat
  BY <1>2, <1>3, SumFunctionNat
<1> QED
  BY <1>5, <1>6, <1>7

\* Items, whose values are counts: what makes the type of the values inductive is
\* that no baseline is above the count it is subtracted from, and that what is not
\* an interrupt has none.
Baselined(items) ==
  \A id \in DOMAIN items :
    items[id].old > 0 => id \in Interrupts /\ items[id].old <= KernelCount(id)
ItemsTyped(items) ==
  /\ DOMAIN items \subseteq Interrupts \cup Processes
  /\ \A id \in DOMAIN items : items[id] \in WakeupItem

WakeupsTyped == WakeupsTypeOK /\ Baselined(wakeup_items)

\* A value is a natural number of parts.
LEMMA PerSecondNat ==
  ASSUME NEW count \in Nat, NEW interval \in SamplePeriods \cup {UP_WAKEUPS_POLL_INTERVAL_KERNEL}
  PROVE  PerSecond(count, interval) \in Nat
<1>1. Parts \in Nat /\ interval \in Nat \ {0}
  BY WakeupsAssumption DEF UP_WAKEUPS_POLL_INTERVAL_KERNEL
<1>2. Parts \div interval \in Nat
  BY <1>1, DivNat
<1> QED
  BY <1>2 DEF PerSecond

\* The total is a natural number.
LEMMA TotalIsCount ==
  ASSUME total_ave \in Nat, NEW items, ItemsTyped(items), PerhapsDataChanged(items)
  PROVE  total_ave' \in Nat
<1> DEFINE v == [id \in DOMAIN items |-> items[id].value]
<1>1. IsFiniteSet(DOMAIN items)
  <2>1. IsFiniteSet(Interrupts \cup Processes)
    BY WakeupsAssumption, FS_Union
  <2> QED
    BY <2>1, FS_Subset DEF ItemsTyped
<1>2. v \in [DOMAIN items -> Nat]
  BY DEF ItemsTyped, WakeupItem
<1>3. SumFunction(v) \in Nat
  <2> HIDE DEF v
  <2> QED
    BY <1>1, <1>2, SumFunctionNat
<1>4. SumFunction(v) \div Parts \in Nat
  <2> HIDE DEF v
  <2> QED
    BY <1>3, DivNat, WakeupsAssumption
<1> QED
  BY <1>4 DEF PerhapsDataChanged, GetTotal

\* A poll sets values to zero first.
LEMMA ZeroedItems ==
  ASSUME ItemsTyped(wakeup_items), Baselined(wakeup_items), NEW user \in BOOLEAN
  PROVE  ItemsTyped(Zeroed(user)) /\ Baselined(Zeroed(user))
<1>1. ASSUME NEW id \in DOMAIN wakeup_items
      PROVE  /\ [wakeup_items[id] EXCEPT !.value = 0] \in WakeupItem
             /\ [wakeup_items[id] EXCEPT !.value = 0].old = wakeup_items[id].old
  BY DEF ItemsTyped, WakeupItem
<1>2. DOMAIN Zeroed(user) = DOMAIN wakeup_items
  BY DEF Zeroed
<1>3. ASSUME NEW id \in DOMAIN wakeup_items
      PROVE  Zeroed(user)[id] \in WakeupItem /\ Zeroed(user)[id].old = wakeup_items[id].old
  BY <1>1, <1>3 DEF Zeroed, ItemsTyped
<1> QED
  BY <1>2, <1>3 DEF ItemsTyped, Baselined

\* A poll of the kernel leaves items, and a baseline that is the count.
LEMMA KernelPollTyped ==
  ASSUME WakeupsTyped, PollKernelCb
  PROVE  ItemsTyped(wakeup_items') /\ Baselined(wakeup_items)'
<1> DEFINE counted == {irq \in Interrupts : KernelCount(irq) > 0}
           zeroed == Zeroed(FALSE)
           ItemAt(irq) == IF irq \in DOMAIN zeroed THEN zeroed[irq] ELSE ItemOf(irq, FALSE)
           Sampled(id) == KernelSample(ItemAt(id), KernelCount(id))
<1>1. /\ DOMAIN wakeup_items' = counted \cup DOMAIN zeroed
      /\ \A id \in DOMAIN wakeup_items' :
           wakeup_items'[id] = IF id \in counted THEN Sampled(id) ELSE zeroed[id]
  BY DEF PollKernelCb
<1>2. UNCHANGED interrupts
  BY DEF PollKernelCb
<1>3. ItemsTyped(zeroed) /\ Baselined(zeroed)
  <2>1. ItemsTyped(wakeup_items) /\ Baselined(wakeup_items)
    BY DEF WakeupsTyped, WakeupsTypeOK, ItemsTyped
  <2> QED
    BY <2>1, ZeroedItems
<1>4. interrupts \in [Interrupts -> [1..Cpus -> 0..MaxCount]]
  BY DEF WakeupsTyped, WakeupsTypeOK
<1>5. DOMAIN zeroed = DOMAIN wakeup_items
  BY DEF Zeroed
<1> HIDE DEF zeroed
<1>6. ASSUME NEW id \in counted
      PROVE  /\ Sampled(id) \in WakeupItem /\ Sampled(id).old = KernelCount(id)
             /\ id \in Interrupts /\ KernelCount(id) \in Nat
  <2>1. id \in Interrupts /\ KernelCount(id) \in Nat
    BY <1>4, KernelCountNat
  <2>2. ItemAt(id) \in WakeupItem /\ (ItemAt(id).old > 0 => ItemAt(id).old <= KernelCount(id))
    <3>1. CASE id \in DOMAIN zeroed
      BY <1>3, <3>1 DEF ItemsTyped, Baselined
    <3>2. CASE id \notin DOMAIN zeroed
      BY <1>5, <3>2 DEF ItemOf, WakeupItem
    <3> QED
      BY <3>1, <3>2
  <2> HIDE DEF ItemAt
  <2> DEFINE k == KernelCount(id)
             item == ItemAt(id)
             value == IF item.old > 0 THEN PerSecond(k - item.old, UP_WAKEUPS_POLL_INTERVAL_KERNEL)
                      ELSE item.value
  <2>3. value \in Nat
    <3>1. CASE item.old > 0
      <4>1. k - item.old \in Nat
        BY <2>1, <2>2, <3>1 DEF WakeupItem
      <4> QED
        BY <3>1, <4>1, PerSecondNat
    <3>2. CASE ~(item.old > 0)
      BY <2>2, <3>2 DEF WakeupItem
    <3> QED
      BY <3>1, <3>2
  <2>4. Sampled(id) = [item EXCEPT !.value = value, !.old = k]
    BY <2>2 DEF KernelSample, WakeupItem
  <2> HIDE DEF value, k, item
  <2>5. item \in WakeupItem /\ k \in Nat
    BY <2>1, <2>2 DEF item, k
  <2>6. [item EXCEPT !.value = value, !.old = k] \in WakeupItem
    BY <2>3, <2>5 DEF WakeupItem
  <2>7. [item EXCEPT !.value = value, !.old = k].old = k
    BY <2>5 DEF WakeupItem
  <2> QED
    BY <2>1, <2>4, <2>6, <2>7, Zenon DEF k
<1> HIDE DEF Sampled
<1>7. ItemsTyped(wakeup_items')
  BY <1>1, <1>3, <1>6 DEF ItemsTyped
<1>8. Baselined(wakeup_items')
  BY <1>1, <1>3, <1>6 DEF Baselined
<1>9. \A irq : KernelCount(irq)' = KernelCount(irq)
  BY <1>2 DEF KernelCount
<1> QED
  BY <1>7, <1>8, <1>9 DEF Baselined

\* A poll of the processes leaves items, and every baseline as it was.
LEMMA UserspacePollTyped ==
  ASSUME WakeupsTyped, NEW report \in Reports, NEW interval \in SamplePeriods,
         PollUserspaceCb(report, interval)
  PROVE  ItemsTyped(wakeup_items') /\ Baselined(wakeup_items)'
<1> DEFINE counted == {pid \in DOMAIN report : report[pid] > 0}
           zeroed == Zeroed(TRUE)
           ItemAt(pid) == IF pid \in DOMAIN zeroed THEN zeroed[pid]
                        ELSE ItemOf(pid, pid \notin KernelTools)
           Sampled(id) == [ItemAt(id) EXCEPT !.value = PerSecond(report[id], interval)]
<1>1. /\ DOMAIN wakeup_items' = counted \cup DOMAIN zeroed
      /\ \A id \in DOMAIN wakeup_items' :
           wakeup_items'[id] = IF id \in counted THEN Sampled(id) ELSE zeroed[id]
  BY DEF PollUserspaceCb
<1>2. UNCHANGED interrupts
  BY DEF PollUserspaceCb, clockVars
<1>3. ItemsTyped(zeroed) /\ Baselined(zeroed)
  <2>1. ItemsTyped(wakeup_items) /\ Baselined(wakeup_items)
    BY DEF WakeupsTyped, WakeupsTypeOK, ItemsTyped
  <2> QED
    BY <2>1, ZeroedItems
<1>5. DOMAIN zeroed = DOMAIN wakeup_items
  BY DEF Zeroed
<1> HIDE DEF zeroed
<1>6. ASSUME NEW id \in counted
      PROVE  /\ Sampled(id) \in WakeupItem /\ id \in Processes
             /\ Sampled(id).old = IF id \in DOMAIN zeroed THEN zeroed[id].old ELSE 0
  <2>1. id \in Processes /\ PerSecond(report[id], interval) \in Nat
    <3>1. id \in Processes /\ report[id] \in Nat
      BY DEF Reports
    <3> QED
      BY <3>1, PerSecondNat
  <2>2. /\ ItemAt(id) \in WakeupItem
        /\ ItemAt(id).old = IF id \in DOMAIN zeroed THEN zeroed[id].old ELSE 0
    <3>1. CASE id \in DOMAIN zeroed
      BY <1>3, <3>1 DEF ItemsTyped
    <3>2. CASE id \notin DOMAIN zeroed
      <4>1. (id \notin KernelTools) \in BOOLEAN
        OBVIOUS
      <4> QED
        BY <1>5, <3>2, <4>1 DEF ItemOf, WakeupItem
    <3> QED
      BY <3>1, <3>2
  <2> HIDE DEF ItemAt
  <2>3. Sampled(id) \in WakeupItem /\ Sampled(id).old = ItemAt(id).old
    BY <2>1, <2>2 DEF WakeupItem
  <2> QED
    BY <2>1, <2>2, <2>3
<1> HIDE DEF Sampled
<1>7. ItemsTyped(wakeup_items')
  BY <1>1, <1>3, <1>6 DEF ItemsTyped
<1>8. Baselined(wakeup_items')
  BY <1>1, <1>3, <1>6 DEF Baselined
<1>9. \A irq : KernelCount(irq)' = KernelCount(irq)
  BY <1>2 DEF KernelCount
<1> QED
  BY <1>7, <1>8, <1>9 DEF Baselined

LEMMA WakeupsInitTyped == WakeupsInit => WakeupsTyped
<1> SUFFICES ASSUME WakeupsInit PROVE WakeupsTyped
  OBVIOUS
<1>1. 0 \in 0..MaxCount
  BY WakeupsAssumption
<1>2. interrupts \in [Interrupts -> [1..Cpus -> 0..MaxCount]]
  BY <1>1 DEF WakeupsInit
<1>3. DOMAIN wakeup_items = {}
  BY DEF WakeupsInit
<1> QED
  BY <1>2, <1>3 DEF WakeupsInit, WakeupsTyped, WakeupsTypeOK, Baselined

LEMMA WakeupsStepTyped == WakeupsTyped /\ [WakeupsNext]_wakeupsVars => WakeupsTyped'
<1> SUFFICES ASSUME WakeupsTyped, [WakeupsNext]_wakeupsVars PROVE WakeupsTyped'
  OBVIOUS
<1>0. /\ WakeupsTypeOK /\ Baselined(wakeup_items) /\ ItemsTyped(wakeup_items)
      /\ total_ave \in Nat
  BY DEF WakeupsTyped, WakeupsTypeOK, ItemsTyped
<1>a. ASSUME UNCHANGED interrupts PROVE \A irq : KernelCount(irq)' = KernelCount(irq)
  BY <1>a DEF KernelCount
<1>b. ASSUME UNCHANGED <<interrupts, wakeup_items>> PROVE Baselined(wakeup_items)'
  BY <1>0, <1>a, <1>b DEF Baselined
<1>1. CASE Interval
  <2>1. PICK irq \in Interrupts, cpu \in 1..Cpus, n \in 0..MaxPerInterval :
          /\ interrupts[irq][cpu] + n <= MaxCount
          /\ interrupts' = [interrupts EXCEPT ![irq][cpu] = @ + n]
    BY <1>1 DEF Interval
  <2>2. interrupts \in [Interrupts -> [1..Cpus -> 0..MaxCount]]
    BY <1>0 DEF WakeupsTypeOK
  <2>3. MaxCount \in Nat /\ n \in Nat
    BY WakeupsAssumption
  <2> DEFINE old == interrupts[irq]
             row == [old EXCEPT ![cpu] = old[cpu] + n]
  <2>4. old \in [1..Cpus -> 0..MaxCount] /\ old[cpu] + n <= MaxCount
    BY <2>1, <2>2
  <2>5. row \in [1..Cpus -> 0..MaxCount] /\ \A c \in 1..Cpus : old[c] <= row[c]
    <3> HIDE DEF old
    <3> QED
      BY <2>3, <2>4
  <2>6. interrupts' = [interrupts EXCEPT ![irq] = row]
    BY <2>1
  <2> HIDE DEF row
  <2>7. /\ interrupts' \in [Interrupts -> [1..Cpus -> 0..MaxCount]]
        /\ \A i \in Interrupts : \A c \in 1..Cpus : interrupts[i][c] <= interrupts'[i][c]
    <3>1. \A i \in Interrupts : \A c \in 1..Cpus : interrupts[i][c] \in 0..MaxCount
      BY <2>2
    <3> QED
      BY <2>2, <2>3, <2>5, <2>6, <3>1
  <2>8. \A i \in Interrupts :
          KernelCount(i) \in Nat /\ KernelCount(i)' \in Nat /\ KernelCount(i) <= KernelCount(i)'
    BY <2>2, <2>7, KernelCountGrows
  <2>9. UNCHANGED <<wakeup_items, total_ave, sourceVars>> /\ unread_time' = TRUE
    BY <1>1 DEF Interval
  <2>10. \A id \in DOMAIN wakeup_items : wakeup_items[id].old \in Nat
    BY <1>0 DEF ItemsTyped, WakeupItem
  <2>11. Baselined(wakeup_items)'
    BY <1>0, <2>8, <2>9, <2>10 DEF Baselined
  <2>12. WakeupsTypeOK'
    BY <1>0, <2>7, <2>9 DEF WakeupsTypeOK, sourceVars
  <2> QED
    BY <2>11, <2>12 DEF WakeupsTyped
<1>2. CASE PollKernelCb
  <2>1. ItemsTyped(wakeup_items') /\ Baselined(wakeup_items)'
    BY <1>2, KernelPollTyped
  <2>2. PerhapsDataChanged(wakeup_items') /\ unread_time' = FALSE
        /\ UNCHANGED <<interrupts, sourceVars>>
    BY <1>2 DEF PollKernelCb
  <2>3. total_ave' \in Nat
    BY <1>0, <2>1, <2>2, TotalIsCount
  <2>4. WakeupsTypeOK'
    BY <1>0, <2>1, <2>2, <2>3 DEF WakeupsTypeOK, sourceVars, ItemsTyped
  <2> QED
    BY <2>1, <2>4 DEF WakeupsTyped
<1>3. ASSUME NEW report \in Reports, NEW interval \in SamplePeriods,
             PollUserspaceCb(report, interval)
      PROVE  WakeupsTyped'
  <2>1. ItemsTyped(wakeup_items') /\ Baselined(wakeup_items)'
    BY <1>3, UserspacePollTyped
  <2>2. PerhapsDataChanged(wakeup_items') /\ UNCHANGED <<clockVars, sourceVars>>
    BY <1>3 DEF PollUserspaceCb
  <2>3. total_ave' \in Nat
    BY <1>0, <2>1, <2>2, TotalIsCount
  <2>4. WakeupsTypeOK'
    BY <1>0, <2>1, <2>2, <2>3 DEF WakeupsTypeOK, sourceVars, clockVars, ItemsTyped
  <2> QED
    BY <2>1, <2>4 DEF WakeupsTyped
<1>4. CASE PollUserspaceFails
  <2>1. /\ wakeup_items' = Zeroed(TRUE) /\ polls' = polls \ {"userspace"}
        /\ UNCHANGED <<clockVars, timer_stats, total_ave, polling_enabled, disable_id,
                       disable_live, disable_failed>>
    BY <1>4 DEF PollUserspaceFails
  <2>2. ItemsTyped(Zeroed(TRUE)) /\ Baselined(Zeroed(TRUE))
    BY <1>0, ZeroedItems
  <2>3. \A irq : KernelCount(irq)' = KernelCount(irq)
    BY <1>a, <2>1 DEF clockVars
  <2>4. Baselined(wakeup_items)'
    BY <2>1, <2>2, <2>3 DEF Baselined
  <2>5. WakeupsTypeOK'
    BY <1>0, <2>1, <2>2 DEF WakeupsTypeOK, clockVars, ItemsTyped
  <2> QED
    BY <2>4, <2>5 DEF WakeupsTyped
<1>5. CASE Request
  <2>1. PICK opened \in BOOLEAN : TimerstatsEnable(opened)
    BY <1>5 DEF Request
  <2>2. UNCHANGED <<clockVars, wakeup_items, total_ave>>
    BY <1>5 DEF Request
  <2>3. Baselined(wakeup_items)'
    BY <1>b, <2>2 DEF clockVars
  <2>4. WakeupsTypeOK'
    BY <1>0, <2>1, <2>2 DEF WakeupsTypeOK, clockVars, TimerstatsEnable
  <2> QED
    BY <2>3, <2>4 DEF WakeupsTyped
<1>6. CASE DisableCb
  <2>1. PICK opened \in BOOLEAN : TimerstatsDisable(opened)
    BY <1>6 DEF DisableCb
  <2>2. UNCHANGED <<clockVars, wakeup_items, total_ave>> /\ disable_live' = FALSE
    BY <1>6 DEF DisableCb
  <2>3. Baselined(wakeup_items)'
    BY <1>b, <2>2 DEF clockVars
  <2>4. WakeupsTypeOK'
    BY <1>0, <2>1, <2>2 DEF WakeupsTypeOK, clockVars, TimerstatsDisable
  <2> QED
    BY <2>3, <2>4 DEF WakeupsTyped
<1>7. CASE FinalizeWakeups
  <2>1. /\ timer_stats' \in BOOLEAN /\ disable_failed' \in BOOLEAN
        /\ DOMAIN wakeup_items' = {} /\ total_ave' = 0 /\ polling_enabled' = FALSE /\ polls' = {}
        /\ disable_id' = FALSE /\ disable_live' = FALSE /\ UNCHANGED clockVars
    <3>1. PICK opened \in BOOLEAN :
            /\ disable_failed' = IF polling_enabled THEN ~opened ELSE disable_failed
            /\ timer_stats' = (timer_stats /\ ~(polling_enabled /\ opened))
      BY <1>7, Zenon DEF FinalizeWakeups
    <3>2. timer_stats' \in BOOLEAN
      BY <3>1, Zenon
    <3>3. disable_failed \in BOOLEAN /\ (~opened) \in BOOLEAN
      BY <1>0 DEF WakeupsTypeOK
    <3>4. disable_failed' \in BOOLEAN
      BY <3>1, <3>3, Zenon
    <3>5. DOMAIN wakeup_items' = {}
      BY <1>7 DEF FinalizeWakeups
    <3> QED
      BY <1>7, <3>2, <3>4, <3>5, Zenon DEF FinalizeWakeups
  <2>2. WakeupsTypeOK'
    BY <1>0, <2>1 DEF WakeupsTypeOK, clockVars
  <2>3. Baselined(wakeup_items)'
    BY <2>1 DEF Baselined
  <2> QED
    BY <2>2, <2>3 DEF WakeupsTyped
<1>8. CASE UNCHANGED wakeupsVars
  <2>1. Baselined(wakeup_items)'
    BY <1>8, <1>b DEF wakeupsVars
  <2>2. WakeupsTypeOK'
    BY <1>0, <1>8 DEF WakeupsTypeOK, wakeupsVars
  <2> QED
    BY <2>1, <2>2 DEF WakeupsTyped
<1> QED
  BY <1>1, <1>2, <1>3, <1>4, <1>5, <1>6, <1>7, <1>8 DEF WakeupsNext

-----------------------------------------------------------------------------
(* The keyboard backlight.                                                 *)

\* SignalsTellBrightness, with what a signal to come will tell: an event that is
\* left is of the brightness there is, unless a client wrote since; and nothing
\* is told before the object is exported, when the event may stay unwatched.
EventsTellBrightness ==
  kbd_event => kbd_written \/ kbd_hw_changed = kbd_brightness

ExportedFirst ==
  /\ kbd_watched.hw_changed => kbd_watched.exported
  /\ kbd_announced # NoSignal => kbd_watched.exported

KbdIInv == KbdTypeOK /\ EventsTellBrightness /\ ExportedFirst /\ SignalsTellBrightness

LEMMA ClampBounds ==
  ASSUME NEW request \in Int PROVE Clamp(request) \in 0..KbdMax
BY KbdAssumption DEF Clamp

LEMMA KbdInitIInv == KbdInit => KbdIInv
<1> SUFFICES ASSUME KbdInit PROVE KbdIInv
  OBVIOUS
<1>1. KbdTypeOK
  <2>1. kbd_brightness \in 0..KbdMax /\ kbd_hw_changed \in -1..KbdMax
    BY KbdAssumption DEF KbdInit
  <2> QED
    BY <2>1 DEF KbdInit, KbdTypeOK
<1>2. EventsTellBrightness /\ ExportedFirst /\ SignalsTellBrightness
  BY DEF KbdInit, EventsTellBrightness, ExportedFirst, SignalsTellBrightness
<1> QED
  BY <1>1, <1>2 DEF KbdIInv

LEMMA KbdStepType == KbdTypeOK /\ [KbdNext]_kbdVars => KbdTypeOK'
<1> SUFFICES ASSUME KbdTypeOK, [KbdNext]_kbdVars PROVE KbdTypeOK'
  OBVIOUS
<1> USE KbdAssumption DEF KbdTypeOK
<1>1. CASE KbdFind
  BY <1>1 DEF KbdFind
<1>2. ASSUME NEW request \in KbdRequests, NEW accepted \in BOOLEAN,
             SetBrightness(request, accepted)
      PROVE  KbdTypeOK'
  <2>1. Clamp(request) \in 0..KbdMax
    BY ClampBounds
  <2>2. [value |-> Clamp(request), source |-> "external"] \in KbdSignal
    BY <2>1 DEF KbdSignal
  <2> QED
    BY <1>2, <2>1, <2>2 DEF SetBrightness
<1>3. ASSUME NEW readable \in BOOLEAN, KbdEventIo(readable)
      PROVE  KbdTypeOK'
  <2>1. BrightnessRead(kbd_hw_changed, readable) \in -1..KbdMax
    BY DEF BrightnessRead
  <2>2. [value |-> BrightnessRead(kbd_hw_changed, readable), source |-> "internal"] \in KbdSignal
    BY <2>1 DEF KbdSignal
  <2> QED
    BY <1>3, <2>2 DEF KbdEventIo
<1>4. ASSUME NEW value \in 0..KbdMax, KbdHardware(value)
      PROVE  KbdTypeOK'
  <2>1. value \in -1..KbdMax
    OBVIOUS
  <2> QED
    BY <1>4, <2>1 DEF KbdHardware
<1>5. CASE UNCHANGED kbdVars
  BY <1>5 DEF kbdVars
<1> QED
  BY <1>1, <1>2, <1>3, <1>4, <1>5 DEF KbdNext

LEMMA KbdStepIInv == KbdIInv /\ [KbdNext]_kbdVars => KbdIInv'
<1> SUFFICES ASSUME KbdIInv, [KbdNext]_kbdVars PROVE KbdIInv'
  OBVIOUS
<1>0. KbdTypeOK'
  BY KbdStepType DEF KbdIInv
<1> DEFINE ToldAll == EventsTellBrightness /\ ExportedFirst /\ SignalsTellBrightness
<1>1. ASSUME KbdFind PROVE ToldAll'
  <2>1. ~kbd_watched.exported /\ kbd_announced = NoSignal /\ kbd_announced' = NoSignal
    BY <1>1 DEF KbdFind, KbdIInv, ExportedFirst
  <2>2. kbd_watched'.hw_changed => kbd_watched'.exported
    BY <1>1 DEF KbdFind
  <2>3. EventsTellBrightness'
    BY <1>1 DEF KbdFind, KbdIInv, EventsTellBrightness
  <2> QED
    BY <2>1, <2>2, <2>3 DEF ExportedFirst, SignalsTellBrightness
<1>2. ASSUME NEW request \in KbdRequests, NEW accepted \in BOOLEAN,
             SetBrightness(request, accepted)
      PROVE  ToldAll'
  BY <1>2 DEF SetBrightness, KbdIInv, EventsTellBrightness, ExportedFirst, SignalsTellBrightness
<1>3. ASSUME NEW readable \in BOOLEAN, KbdEventIo(readable)
      PROVE  ToldAll'
  <2>1. EventsTellBrightness' /\ ExportedFirst'
    BY <1>3 DEF KbdEventIo, KbdIInv, EventsTellBrightness, ExportedFirst
  <2>2. ASSUME ~kbd_misled' PROVE kbd_announced'.value = kbd_brightness'
    <3>1. ~kbd_written /\ readable
      BY <1>3, <2>2, Zenon DEF KbdEventIo
    <3>2. kbd_event
      BY <1>3 DEF KbdEventIo
    <3>3. kbd_hw_changed = kbd_brightness /\ kbd_brightness \in 0..KbdMax
      BY <3>1, <3>2 DEF KbdIInv, EventsTellBrightness, KbdTypeOK
    <3>4. BrightnessRead(kbd_hw_changed, readable) = kbd_brightness
      BY <3>1, <3>3 DEF BrightnessRead
    <3>5. kbd_announced'.value = BrightnessRead(kbd_hw_changed, readable)
      BY <1>3 DEF KbdEventIo
    <3> QED
      BY <1>3, <3>4, <3>5 DEF KbdEventIo
  <2> QED
    BY <2>1, <2>2 DEF SignalsTellBrightness
<1>4. ASSUME NEW value \in 0..KbdMax, KbdHardware(value)
      PROVE  ToldAll'
  BY <1>4 DEF KbdHardware, KbdIInv, EventsTellBrightness, ExportedFirst, SignalsTellBrightness
<1>5. ASSUME UNCHANGED kbdVars PROVE ToldAll'
  BY <1>5 DEF kbdVars, KbdIInv, EventsTellBrightness, ExportedFirst, SignalsTellBrightness
<1> QED
  BY <1>0, <1>1, <1>2, <1>3, <1>4, <1>5 DEF KbdNext, KbdIInv

\* When no event is left, the last signal tells the brightness there is, but for
\* the two exceptions that SignalsTellBrightness names (up-kbd-backlight.c).
THEOREM BrightnessSafety == KbdSpec => []SignalsTellBrightness
<1>1. KbdIInv => SignalsTellBrightness
  BY DEF KbdIInv
<1> QED
  BY <1>1, KbdInitIInv, KbdStepIInv, PTL DEF KbdSpec

-----------------------------------------------------------------------------
(* The lid.                                                                *)

LidEvent == {"lid", "other"}

NoLidEvent(queue) == \A i \in 1..Len(queue) : queue[i] # "lid"

\* A reader that LidIsCurrent speaks of, and what it says then.
CaughtUp(reader) == reader.phase = "watching" /\ ~reader.dead /\ NoLidEvent(reader.queue)
LidTold == IgnoreLid \/ (lid_is_present /\ lid_is_closed = lid_switch)

\* LidIsCurrent is kept by a switch that moves while the device is gone, because
\* then every reader is dead; and by an event of a reader whose lid is known to be
\* present, because it is watching.
LidIInv ==
  /\ readers \in Seq(Reader)
  /\ lid_switch \in BOOLEAN /\ lid_device \in BOOLEAN
  /\ lid_is_closed \in BOOLEAN /\ lid_is_present \in BOOLEAN
  /\ ~lid_device => \A r \in DOMAIN readers : readers[r].dead
  /\ \A r \in DOMAIN readers : readers[r].phase = "watching" => IgnoreLid \/ lid_is_present
  /\ \A r \in DOMAIN readers : CaughtUp(readers[r]) => LidTold

LEMMA LidEventsRead ==
  ASSUME NEW queue \in Seq(LidEvent), queue # <<>>
  PROVE  /\ Tail(queue) \in Seq(LidEvent)
         /\ Head(queue) # "lid" => (NoLidEvent(Tail(queue)) <=> NoLidEvent(queue))
<1>1. Len(queue) \in Nat \ {0} /\ DOMAIN queue = 1..Len(queue)
  BY EmptySeq
<1>2. /\ Tail(queue) \in Seq(LidEvent) /\ Len(Tail(queue)) = Len(queue) - 1
      /\ \A i \in 1..Len(Tail(queue)) : Tail(queue)[i] = queue[i + 1]
      /\ Head(queue) = queue[1]
  BY HeadTailProperties
<1>3. ASSUME Head(queue) # "lid", NoLidEvent(Tail(queue)), NEW i \in 1..Len(queue)
      PROVE  queue[i] # "lid"
  <2>1. CASE i = 1
    BY <1>2, <1>3, <2>1
  <2>2. CASE i # 1
    <3>1. i - 1 \in 1..Len(Tail(queue)) /\ (i - 1) + 1 = i
      BY <1>1, <1>2, <2>2
    <3> QED
      BY <1>2, <1>3, <3>1 DEF NoLidEvent
  <2> QED
    BY <2>1, <2>2
<1>4. ASSUME NoLidEvent(queue), NEW i \in 1..Len(Tail(queue))
      PROVE  Tail(queue)[i] # "lid"
  BY <1>1, <1>2, <1>4 DEF NoLidEvent
<1> QED
  BY <1>2, <1>3, <1>4 DEF NoLidEvent

LEMMA LidEventsQueued ==
  ASSUME NEW queue \in Seq(LidEvent), NEW kind \in LidEvent
  PROVE  /\ Append(queue, kind) \in Seq(LidEvent)
         /\ NoLidEvent(Append(queue, kind)) <=> NoLidEvent(queue) /\ kind # "lid"
<1>1. /\ Append(queue, kind) \in Seq(LidEvent)
      /\ Len(Append(queue, kind)) = Len(queue) + 1
      /\ \A i \in 1..Len(queue) : Append(queue, kind)[i] = queue[i]
      /\ Append(queue, kind)[Len(queue) + 1] = kind
      /\ Len(queue) \in Nat
  BY AppendProperties
<1> QED
  BY <1>1 DEF NoLidEvent

\* A change of one reader, seen from the rest of the state.
LEMMA OneReaderChanges ==
  ASSUME LidIInv, NEW r \in DOMAIN readers, NEW x \in Reader,
         readers' = [readers EXCEPT ![r] = x]
  PROVE  /\ readers' \in Seq(Reader) /\ DOMAIN readers' = DOMAIN readers
         /\ readers'[r] = x
         /\ \A q \in DOMAIN readers \ {r} : readers'[q] = readers[q]
BY ExceptSeq DEF LidIInv

LEMMA LidInitIInv == LidInit => LidIInv
<1> SUFFICES ASSUME LidInit PROVE LidIInv
  OBVIOUS
<1>1. readers = <<>> /\ readers \in Seq(Reader) /\ DOMAIN readers = {}
  BY EmptySeq DEF LidInit
<1> QED
  BY <1>1 DEF LidInit, LidIInv

LEMMA LidStepIInv == LidIInv /\ [LidNext]_lidVars => LidIInv'
<1> SUFFICES ASSUME LidIInv, [LidNext]_lidVars PROVE LidIInv'
  OBVIOUS
<1>t. \A r \in DOMAIN readers :
        /\ readers[r] \in Reader /\ readers[r].queue \in Seq(LidEvent)
        /\ readers[r].dead \in BOOLEAN /\ readers[r].offset \in 0..1
  <2>1. ASSUME NEW r \in DOMAIN readers PROVE readers[r] \in Reader
    BY ElementOfSeq DEF LidIInv
  <2> QED
    BY <2>1 DEF Reader, LidEvent
<1>1. CASE OpenLid
  <2> DEFINE x == [phase |-> "opened", dead |-> FALSE, queue |-> <<>>, offset |-> 0]
  <2>1. x \in Reader
    BY DEF Reader
  <2>2. readers' = Append(readers, x) /\ lid_device
    BY <1>1 DEF OpenLid
  <2>3. x.phase = "opened"
    OBVIOUS
  <2> HIDE DEF x
  <2>4. /\ readers' \in Seq(Reader) /\ DOMAIN readers' = DOMAIN readers \cup {Len(readers) + 1}
        /\ readers'[Len(readers) + 1] = x
        /\ \A r \in DOMAIN readers : readers'[r] = readers[r]
    BY <2>1, <2>2, AppendProperties DEF LidIInv
  <2>5. \A r \in DOMAIN readers' : CaughtUp(readers'[r]) => r \in DOMAIN readers
    BY <2>3, <2>4 DEF CaughtUp
  <2>6. \A r \in DOMAIN readers' : readers'[r].phase = "watching" => r \in DOMAIN readers
    BY <2>3, <2>4
  <2>7. UNCHANGED <<lid_switch, lid_device, lid_is_closed, lid_is_present>>
    BY <1>1 DEF OpenLid
  <2> QED
    BY <2>2, <2>4, <2>5, <2>6, <2>7 DEF LidIInv, LidTold
<1>2. ASSUME NEW r \in DOMAIN readers, GetInitialState(r) PROVE LidIInv'
  <2>1. CASE readers[r].dead
    <3> DEFINE x == [readers[r] EXCEPT !.phase = "ended"]
    <3>1. x \in Reader /\ x.dead = readers[r].dead /\ x.phase = "ended"
      BY <1>t DEF Reader
    <3>2. readers' = [readers EXCEPT ![r] = x]
      BY <1>2, <2>1 DEF GetInitialState
    <3>3. UNCHANGED <<lid_switch, lid_device, lid_is_closed, lid_is_present>>
      BY <1>2, <2>1 DEF GetInitialState
    <3> HIDE DEF x
    <3> QED
      BY <3>1, <3>2, <3>3, OneReaderChanges DEF LidIInv, LidTold, CaughtUp
  <2>2. CASE ~readers[r].dead
    <3> DEFINE x == [readers[r] EXCEPT !.phase = "watching"]
    <3>1. x \in Reader /\ x.dead = readers[r].dead
      BY <1>t DEF Reader
    <3>2. readers' = [readers EXCEPT ![r] = x]
      BY <1>2, <2>2 DEF GetInitialState
    <3>3. UNCHANGED <<lid_switch, lid_device>>
      BY <1>2 DEF GetInitialState
    <3>4. SetLidIsClosed(lid_switch) /\ SetLidIsPresent
      BY <1>2, <2>2 DEF GetInitialState
    <3>5. LidTold' /\ lid_is_closed' \in BOOLEAN /\ lid_is_present' \in BOOLEAN
      BY <3>3, <3>4 DEF SetLidIsClosed, SetLidIsPresent, LidTold, LidIInv
    <3>6. IgnoreLid \/ lid_is_present'
      BY <3>5 DEF LidTold
    <3> HIDE DEF x
    <3> QED
      BY <3>1, <3>2, <3>3, <3>5, <3>6, OneReaderChanges DEF LidIInv
  <2> QED
    BY <2>1, <2>2
<1>3. ASSUME NEW r \in DOMAIN readers, EventIo(r) PROVE LidIInv'
  <2> DEFINE x == [readers[r] EXCEPT !.queue = Tail(@), !.offset = 0]
  <2>1. readers[r].queue # <<>> /\ readers[r].phase = "watching"
    BY <1>3 DEF EventIo
  <2>2. /\ Tail(readers[r].queue) \in Seq(LidEvent)
        /\ Head(readers[r].queue) # "lid" =>
             (NoLidEvent(Tail(readers[r].queue)) <=> NoLidEvent(readers[r].queue))
    BY <1>t, <2>1, LidEventsRead
  <2>3. /\ x \in Reader /\ x.dead = readers[r].dead /\ x.phase = readers[r].phase
        /\ x.queue = Tail(readers[r].queue)
    <3> DEFINE tail == Tail(readers[r].queue)
               y == [readers[r] EXCEPT !.queue = tail]
    <3>1. x = [y EXCEPT !.offset = 0] /\ tail \in Seq(LidEvent)
      BY <2>2
    <3> HIDE DEF x, tail
    <3>2. /\ y \in Reader /\ y.dead = readers[r].dead /\ y.phase = readers[r].phase
          /\ y.queue = tail
      BY <1>t, <3>1 DEF Reader, LidEvent
    <3> HIDE DEF y
    <3>3. [y EXCEPT !.offset = 0] \in Reader /\ [y EXCEPT !.offset = 0].dead = y.dead
          /\ [y EXCEPT !.offset = 0].phase = y.phase /\ [y EXCEPT !.offset = 0].queue = y.queue
      BY <3>2 DEF Reader
    <3> QED
      BY <3>1, <3>2, <3>3 DEF tail
  <2>4. readers' = [readers EXCEPT ![r] = x]
    BY <1>3 DEF EventIo
  <2> HIDE DEF x
  <2>5. UNCHANGED <<lid_switch, lid_device, lid_is_present>>
    BY <1>3 DEF EventIo
  <2>6. IgnoreLid \/ lid_is_present
    BY <2>1 DEF LidIInv
  <2>7. /\ readers' \in Seq(Reader) /\ DOMAIN readers' = DOMAIN readers
        /\ readers'[r] = x
        /\ \A q \in DOMAIN readers \ {r} : readers'[q] = readers[q]
    BY <2>3, <2>4, OneReaderChanges
  <2>8. /\ ~lid_device' => \A q \in DOMAIN readers' : readers'[q].dead
        /\ \A q \in DOMAIN readers' :
             readers'[q].phase = "watching" => IgnoreLid \/ lid_is_present'
    BY <2>3, <2>5, <2>7 DEF LidIInv
  <2>9. CASE Head(readers[r].queue) = "lid" /\ ~readers[r].dead
    <3>1. SetLidIsClosed(lid_switch)
      BY <1>3, <2>9 DEF EventIo
    <3>2. LidTold' /\ lid_is_closed' \in BOOLEAN
      BY <2>5, <2>6, <3>1 DEF SetLidIsClosed, LidTold, LidIInv
    <3> QED
      BY <2>5, <2>7, <2>8, <3>2 DEF LidIInv
  <2>10. CASE ~(Head(readers[r].queue) = "lid" /\ ~readers[r].dead)
    <3>1. UNCHANGED lid_is_closed
      BY <1>3, <2>10 DEF EventIo
    <3>2. CaughtUp(x) => CaughtUp(readers[r])
      BY <2>2, <2>3, <2>10 DEF CaughtUp
    <3>3. \A q \in DOMAIN readers' : CaughtUp(readers'[q]) => LidTold
      BY <2>7, <3>2 DEF LidIInv
    <3>4. LidTold' = LidTold
      BY <2>5, <3>1 DEF LidTold
    <3> QED
      BY <2>5, <2>7, <2>8, <3>1, <3>3, <3>4 DEF LidIInv
  <2> QED
    BY <2>9, <2>10
<1>4. ASSUME NEW r \in DOMAIN readers, EventIoIncomplete(r) \/ EventIoHup(r) PROVE LidIInv'
  <2>1. PICK x \in Reader : /\ readers' = [readers EXCEPT ![r] = x]
                            /\ x.dead = readers[r].dead /\ x.queue = readers[r].queue
                            /\ x.phase \in {readers[r].phase, "ended"}
    <3>1. CASE EventIoIncomplete(r)
      <4>1. [readers[r] EXCEPT !.offset = 1] \in Reader
        BY <1>t DEF Reader
      <4> QED
        BY <1>t, <3>1, <4>1 DEF EventIoIncomplete, Reader
    <3>2. CASE EventIoHup(r)
      <4>1. [readers[r] EXCEPT !.phase = "ended"] \in Reader
        BY <1>t DEF Reader
      <4> QED
        BY <1>t, <3>2, <4>1 DEF EventIoHup, Reader
    <3> QED
      BY <1>4, <3>1, <3>2
  <2>2. UNCHANGED <<lid_switch, lid_device, lid_is_closed, lid_is_present>>
    BY <1>4 DEF EventIoIncomplete, EventIoHup
  <2>3. /\ readers' \in Seq(Reader) /\ DOMAIN readers' = DOMAIN readers
        /\ readers'[r] = x
        /\ \A q \in DOMAIN readers \ {r} : readers'[q] = readers[q]
    BY <2>1, OneReaderChanges
  <2>4. CaughtUp(x) => CaughtUp(readers[r])
    BY <2>1 DEF CaughtUp
  <2>5. LidTold' = LidTold
    BY <2>2 DEF LidTold
  <2>6. \A q \in DOMAIN readers' : CaughtUp(readers'[q]) => LidTold
    BY <2>3, <2>4 DEF LidIInv
  <2> QED
    BY <2>1, <2>2, <2>3, <2>5, <2>6 DEF LidIInv
<1>5. ASSUME NEW kind \in LidEvent, Deliver(kind), lid_device, UNCHANGED lid_device
      PROVE  /\ readers' \in Seq(Reader) /\ DOMAIN readers' = DOMAIN readers
             /\ \A r \in DOMAIN readers :
                  /\ readers'[r].phase = readers[r].phase
                  /\ CaughtUp(readers'[r]) <=> CaughtUp(readers[r]) /\ kind # "lid"
  <2> DEFINE x(r) == IF readers[r].dead \/ readers[r].phase = "ended" THEN readers[r]
                     ELSE [readers[r] EXCEPT !.queue = Append(@, kind)]
  <2>1. readers' = [r \in DOMAIN readers |-> x(r)]
    BY <1>5 DEF Deliver
  <2>2. ASSUME NEW r \in DOMAIN readers
        PROVE  /\ x(r) \in Reader /\ x(r).phase = readers[r].phase
               /\ CaughtUp(x(r)) <=> CaughtUp(readers[r]) /\ kind # "lid"
    <3>1. CASE readers[r].dead \/ readers[r].phase = "ended"
      BY <1>t, <3>1 DEF CaughtUp
    <3>2. CASE ~(readers[r].dead \/ readers[r].phase = "ended")
      <4>1. /\ Append(readers[r].queue, kind) \in Seq(LidEvent)
            /\ NoLidEvent(Append(readers[r].queue, kind)) <=>
                 NoLidEvent(readers[r].queue) /\ kind # "lid"
        BY <1>t, LidEventsQueued
      <4>2. x(r) \in Reader /\ x(r).queue = Append(readers[r].queue, kind)
                            /\ x(r).dead = readers[r].dead /\ x(r).phase = readers[r].phase
        BY <1>t, <3>2, <4>1 DEF Reader, LidEvent
      <4> QED
        BY <4>1, <4>2 DEF CaughtUp
    <3> QED
      BY <3>1, <3>2
  <2> HIDE DEF x
  <2>3. readers' \in Seq(Reader) /\ DOMAIN readers' = DOMAIN readers
    <3>1. DOMAIN readers = 1..Len(readers) /\ Len(readers) \in Nat
      BY DEF LidIInv
    <3>2. readers' = [r \in 1..Len(readers) |-> x(r)]
      BY <2>1, <3>1
    <3> QED
      BY <2>2, <3>1, <3>2
  <2> QED
    BY <2>1, <2>2, <2>3
<1>6. CASE LidMoves
  <2>1. Deliver("lid") /\ lid_device /\ lid_switch' = ~lid_switch
        /\ UNCHANGED <<lid_device, lid_is_closed, lid_is_present>>
    BY <1>6 DEF LidMoves
  <2>2. lid_switch' \in BOOLEAN
    BY <2>1 DEF LidIInv
  <2>3. \A r \in DOMAIN readers' : ~CaughtUp(readers'[r])
    BY <1>5, <2>1 DEF LidEvent
  <2> QED
    BY <1>5, <2>1, <2>2, <2>3 DEF LidIInv, LidEvent
<1>7. CASE OtherEvent
  <2>1. Deliver("other") /\ lid_device
        /\ UNCHANGED <<lid_switch, lid_device, lid_is_closed, lid_is_present>>
    BY <1>7 DEF OtherEvent
  <2>2. LidTold' = LidTold
    BY <2>1 DEF LidTold
  <2> QED
    BY <1>5, <2>1, <2>2 DEF LidIInv, LidEvent
<1>8. CASE LidUnplug
  <2>1. ASSUME NEW r \in DOMAIN readers
        PROVE  /\ [readers[r] EXCEPT !.dead = TRUE] \in Reader
               /\ [readers[r] EXCEPT !.dead = TRUE].dead
               /\ [readers[r] EXCEPT !.dead = TRUE].phase = readers[r].phase
    BY <1>t DEF Reader
  <2>2. readers' = [r \in 1..Len(readers) |-> [readers[r] EXCEPT !.dead = TRUE]]
        /\ Len(readers) \in Nat /\ DOMAIN readers = 1..Len(readers)
    BY <1>8 DEF LidUnplug, LidIInv
  <2>3. readers' \in Seq(Reader) /\ DOMAIN readers' = DOMAIN readers
    BY <2>1, <2>2
  <2>4. \A r \in DOMAIN readers' : readers'[r].dead /\ readers'[r].phase = readers[r].phase
    BY <2>1, <2>2
  <2>5. lid_device' = FALSE /\ UNCHANGED <<lid_switch, lid_is_closed, lid_is_present>>
    BY <1>8 DEF LidUnplug
  <2> QED
    BY <2>3, <2>4, <2>5 DEF LidIInv, CaughtUp
<1>9. CASE LidPlug
  BY <1>9 DEF LidPlug, LidIInv, CaughtUp
<1>10. CASE UNCHANGED lidVars
  BY <1>10 DEF lidVars, LidIInv, LidTold
<1> QED
  BY <1>1, <1>2, <1>3, <1>4, <1>6, <1>7, <1>8, <1>9, <1>10 DEF LidNext

\* As soon as one reader of the lid has caught up, LidIsClosed is right, however
\* many readers there are, and whichever of them lag or died (up-input.c).
THEOREM LidSafety == LidSpec => []LidIsCurrent
<1>1. LidIInv => LidIsCurrent
  BY DEF LidIInv, LidIsCurrent, CaughtUp, NoLidEvent, LidTold
<1> QED
  BY <1>1, LidInitIInv, LidStepIInv, PTL DEF LidSpec

-----------------------------------------------------------------------------
(* The choice of the critical action.                                      *)

LEMMA ActionTable ==
  /\ DOMAIN Actions = 1..3
  /\ Actions[1] = "HybridSleep" /\ Actions[2] = "Hibernate" /\ Actions[3] = "PowerOff"
BY DEF Actions

LEMMA StartIsInTheTable == \A action : StartOfSearch(action) \in 1..3
<1> SUFFICES ASSUME NEW action PROVE StartOfSearch(action) \in 1..3
  OBVIOUS
<1>1. CASE \E i \in DOMAIN Actions : Actions[i] = action
  BY <1>1, ActionTable DEF StartOfSearch
<1>2. CASE ~ \E i \in DOMAIN Actions : Actions[i] = action
  BY <1>2 DEF StartOfSearch
<1> QED
  BY <1>1, <1>2

LEMMA StartOfEntry == \A i \in 1..3 : StartOfSearch(Actions[i]) = i
<1> SUFFICES ASSUME NEW i \in 1..3 PROVE StartOfSearch(Actions[i]) = i
  OBVIOUS
<1>1. \A j \in 1..3 : Actions[j] = Actions[i] => j = i
  BY ActionTable
<1>2. \E j \in DOMAIN Actions : Actions[j] = Actions[i]
  BY ActionTable
<1>3. StartOfSearch(Actions[i]) = CHOOSE j \in DOMAIN Actions : Actions[j] = Actions[i]
  BY <1>2 DEF StartOfSearch
<1> QED
  BY <1>1, <1>2, <1>3, ActionTable

\* The entries between the configured one and the next one were all refused.
RefusedSoFar ==
  /\ StartOfSearch(logind_config) <= logind_i
  /\ \A i \in StartOfSearch(logind_config)..(logind_i - 1) : Actions[i] \in logind_refused

LogindIInv == LogindTypeOK /\ (logind_asker # "nobody" => RefusedSoFar)

LEMMA LogindInitIInv == LogindInit => LogindIInv
BY ActionTable DEF LogindInit, LogindIInv, LogindTypeOK, CanAnswers

\* What a turn of the loop does, in the terms of the theorem.
LEMMA SearchStepTurns ==
  ASSUME LogindIInv, SearchStep
  PROVE  /\ LogindIInv'
         /\ logind_result' # logind_result =>
              LET method == logind_result'.method
                  from == StartOfSearch(logind_config)
                  at == StartOfSearch(method)
              IN  /\ method = "PowerOff" \/ method \in logind_yes'
                  /\ from <= at
                  /\ \A i \in from..(at - 1) : Actions[i] \in logind_refused'
<1> DEFINE method == Actions[logind_i]
           said_yes == method \notin Unasked /\ logind_can[method] = "yes"
           available == method \in Unasked \/ CheckActionResult(logind_can[method])
<1>1. logind_i \in 1..3 /\ logind_asker # "nobody"
  BY ActionTable DEF LogindIInv, LogindTypeOK, SearchStep
<1>2. /\ StartOfSearch(logind_config) <= logind_i
      /\ \A i \in StartOfSearch(logind_config)..(logind_i - 1) : Actions[i] \in logind_refused
      /\ StartOfSearch(logind_config) \in 1..3
  BY <1>1, StartIsInTheTable DEF LogindIInv, RefusedSoFar
<1>3. UNCHANGED <<logind_can, logind_config>>
  BY DEF SearchStep
<1>4. method \in Unasked <=> logind_i = 3
  BY <1>1, ActionTable DEF Unasked
<1>5. logind_yes' = IF said_yes THEN logind_yes \cup {method} ELSE logind_yes
  BY DEF SearchStep
<1>6. logind_refused' = IF available THEN logind_refused ELSE logind_refused \cup {method}
  BY DEF SearchStep
<1>7. CASE available
  <2>1. /\ logind_result' = [asker |-> logind_asker, method |-> method]
        /\ logind_asker' = "nobody" /\ logind_i' = 1 /\ logind_refused' = logind_refused
    BY <1>6, <1>7 DEF SearchStep
  <2>2. method = "PowerOff" \/ method \in logind_yes'
    BY <1>4, <1>5, <1>7, ActionTable DEF CheckActionResult
  <2>3. StartOfSearch(method) = logind_i
    BY <1>1, StartOfEntry
  <2>4. LogindTypeOK'
    <3>1. logind_yes' \subseteq {"HybridSleep", "Hibernate"}
      <4>1. method \notin Unasked => method \in {"HybridSleep", "Hibernate"}
        BY <1>1, <1>4, ActionTable
      <4>2. logind_yes \subseteq {"HybridSleep", "Hibernate"}
        BY DEF LogindIInv, LogindTypeOK
      <4> QED
        BY <1>5, <4>1, <4>2
    <3>2. logind_result' \in [asker : {"nobody", "client", "take_action"},
                              method : {Actions[i] : i \in DOMAIN Actions} \cup {"none"}]
      BY <1>1, <2>1, ActionTable DEF LogindIInv, LogindTypeOK
    <3> QED
      BY <1>3, <2>1, <3>1, <3>2, ActionTable DEF LogindIInv, LogindTypeOK
  <2>5. logind_result'.method = method
    BY <2>1
  <2> QED
    BY <1>2, <2>1, <2>2, <2>3, <2>4, <2>5 DEF LogindIInv
<1>8. CASE ~available
  <2>1. logind_i' = logind_i + 1 /\ UNCHANGED <<logind_result, logind_asker>>
    BY <1>8 DEF SearchStep
  <2>2. logind_i < 3 /\ logind_i' \in 1..3
    BY <1>1, <1>4, <1>8, <2>1
  <2>3. logind_refused' = logind_refused \cup {method}
    BY <1>6, <1>8
  <2>4. logind_yes' = logind_yes
    BY <1>5, <1>8 DEF CheckActionResult
  <2>5. method \in {"HybridSleep", "Hibernate"}
    BY <1>1, <2>2, ActionTable
  <2>6. LogindTypeOK'
    BY <1>3, <2>1, <2>2, <2>3, <2>4, <2>5, ActionTable DEF LogindIInv, LogindTypeOK
  <2>7. RefusedSoFar'
    <3>1. \A i \in StartOfSearch(logind_config)..logind_i : Actions[i] \in logind_refused'
      BY <1>1, <1>2, <2>3
    <3> QED
      BY <1>1, <1>2, <1>3, <2>1, <3>1 DEF RefusedSoFar
  <2> QED
    BY <2>1, <2>6, <2>7 DEF LogindIInv
<1> QED
  BY <1>7, <1>8

LEMMA LogindStepIInv == LogindIInv /\ [LogindNext]_logindVars => LogindIInv'
<1> SUFFICES ASSUME LogindIInv, [LogindNext]_logindVars PROVE LogindIInv'
  OBVIOUS
<1>1. ASSUME NEW asker \in {"client", "take_action"}, BeginSearch(asker) PROVE LogindIInv'
  <2>1. LogindTypeOK'
    BY <1>1, StartIsInTheTable, ActionTable DEF BeginSearch, LogindIInv, LogindTypeOK
  <2>2. logind_i' = StartOfSearch(logind_config) /\ logind_config' = logind_config
    BY <1>1 DEF BeginSearch
  <2> QED
    BY <2>1, <2>2, StartIsInTheTable DEF LogindIInv, RefusedSoFar
<1>2. CASE SearchStep
  BY <1>2, SearchStepTurns
<1>3. CASE LogindChanges
  <2>1. logind_can' \in [{"HybridSleep", "Hibernate"} -> CanAnswers]
    BY <1>3 DEF LogindChanges, LogindIInv, LogindTypeOK
  <2> QED
    BY <1>3, <2>1 DEF LogindChanges, LogindIInv, LogindTypeOK, RefusedSoFar
<1>4. CASE UNCHANGED logindVars
  BY <1>4 DEF logindVars, LogindIInv, LogindTypeOK, RefusedSoFar
<1> QED
  BY <1>1, <1>2, <1>3, <1>4 DEF LogindNext

\* Whatever UPower.conf says, and however logind's answers change while it is asked,
\* the search ends with a method that was allowed or with PowerOff, passes over none
\* that was not refused, and takes none that is milder than the configured one
\* (up_backend_get_critical_action).
THEOREM CriticalActionIsAllowed == LogindSpec => ActionIsAllowed
<1>1. LogindIInv /\ [LogindNext]_logindVars
        => [logind_result' # logind_result =>
              LET method == logind_result'.method
                  from == StartOfSearch(logind_config)
                  at == StartOfSearch(method)
              IN  /\ method = "PowerOff" \/ method \in logind_yes'
                  /\ from <= at
                  /\ \A i \in from..(at - 1) : Actions[i] \in logind_refused']_logindVars
  <2> SUFFICES ASSUME LogindIInv, LogindNext, logind_result' # logind_result
               PROVE  LET method == logind_result'.method
                          from == StartOfSearch(logind_config)
                          at == StartOfSearch(method)
                      IN  /\ method = "PowerOff" \/ method \in logind_yes'
                          /\ from <= at
                          /\ \A i \in from..(at - 1) : Actions[i] \in logind_refused'
    OBVIOUS
  <2>1. SearchStep
    BY DEF LogindNext, BeginSearch, LogindChanges
  <2> QED
    BY <2>1, SearchStepTurns
<1> QED
  BY <1>1, LogindInitIInv, LogindStepIInv, PTL DEF LogindSpec, ActionIsAllowed

-----------------------------------------------------------------------------
(* The devices that are read by a timer of their own.                      *)

\* What is parsed of any data is a reading of the meter.
LEMMA ParsedAreWatts ==
  ASSUME NEW data \in Seq(Half) PROVE ParseCommand(data) \subseteq Watts
<1> DEFINE starts == {i \in DOMAIN data : data[i].part = "head"}
           final  == CHOOSE i \in starts : \A j \in starts : j <= i
<1>1. CASE starts = {}
  BY <1>1 DEF ParseCommand
<1>2. CASE starts # {}
  <2>1. Len(data) \in Nat /\ starts \in SUBSET (1..Len(data))
    OBVIOUS
  <2>2. \E i \in starts : \A j \in starts : j <= i
    <3> HIDE DEF starts
    <3> QED
      BY <1>2, <2>1, GreatestIndex
  <2>3. final \in starts
    <3> HIDE DEF starts
    <3> QED
      BY <2>2
  <2>4. data[final] \in Half
    BY <2>1, <2>3
  <2>5. data[final].watts \in Watts
    BY <2>4 DEF Half
  <2> QED
    BY <2>5 DEF ParseCommand
<1> QED
  BY <1>1, <1>2

\* The types of the meter's object and of what it reads.
WupType == [listed : BOOLEAN, fd : BOOLEAN, timer : BOOLEAN, rate : Watts \cup {None}]

LEMMA PartOfSeq ==
  ASSUME NEW s \in Seq(Half), NEW m \in 1..(Len(s) + 1)
  PROVE  SubSeq(s, m, Len(s)) \in Seq(Half)
OBVIOUS

LEMMA WupRefreshType ==
  ASSUME NEW w \in WupType, wup_stream \in Seq(Half), wup_buffer \in Seq(Half),
         WupRefresh(w)
  PROVE  /\ wup' \in WupType /\ wup_stream' \in Seq(Half) /\ wup_buffer' \in Seq(Half)
         /\ wup'.listed = w.listed /\ wup'.fd = w.fd /\ wup'.timer = w.timer
<1>1. CASE wup_stream = <<>>
  BY <1>1 DEF WupRefresh
<1>2. CASE wup_stream # <<>>
  <2> DEFINE size == IF Len(wup_stream) < WupReadSize THEN Len(wup_stream) ELSE WupReadSize
             read == SubSeq(wup_stream, 1, size)
  <2>1. size \in 0..Len(wup_stream)
    BY PeripheralsAssumption
  <2>2. read \in Seq(Half) /\ SubSeq(wup_stream, size + 1, Len(wup_stream)) \in Seq(Half)
    BY <2>1
  <2>3. PICK data \in ReadCommand(read) :
          /\ wup_stream' = SubSeq(wup_stream, size + 1, Len(wup_stream))
          /\ wup_buffer' = data
          /\ wup' \in IF ParseCommand(data) = {} THEN {w}
                      ELSE {[w EXCEPT !.rate = r] : r \in ParseCommand(data)}
    BY <1>2 DEF WupRefresh
  <2> HIDE DEF size, read
  <2>4. data \in Seq(Half)
    <3>1. SubSeq(wup_buffer, Len(read) + 1, Len(wup_buffer)) \in Seq(Half)
      BY <2>2
    <3> QED
      BY <2>2, <2>3, <3>1, ConcatProperties DEF ReadCommand
  <2>5. ParseCommand(data) \subseteq Watts
    BY <2>4, ParsedAreWatts
  <2>6. CASE wup' = w
    BY <2>2, <2>3, <2>4, <2>6
  <2>7. ASSUME NEW r \in Watts, wup' = [w EXCEPT !.rate = r]
        PROVE  /\ wup' \in WupType
               /\ wup'.listed = w.listed /\ wup'.fd = w.fd /\ wup'.timer = w.timer
    BY <2>7 DEF WupType
  <2>8. wup' = w \/ \E r \in Watts : wup' = [w EXCEPT !.rate = r]
    BY <2>3, <2>5
  <2>9. /\ wup' \in WupType
        /\ wup'.listed = w.listed /\ wup'.fd = w.fd /\ wup'.timer = w.timer
    BY <2>6, <2>7, <2>8
  <2> QED
    BY <2>2, <2>3, <2>4, <2>9
<1> QED
  BY <1>1, <1>2

\* The parts of PeripheralsAreFollowed, with the types of what they speak of.
WupIInv ==
  /\ wup \in WupType /\ wup_stream \in Seq(Half) /\ wup_buffer \in Seq(Half)
  /\ wup.timer = wup.listed /\ wup.fd = wup.listed

CsrIInv ==
  /\ csr \in [listed : BOOLEAN, polls : 0..1, raw_value : CsrAnswers, percentage : 0..100]
  /\ csr.polls = IF csr.listed THEN 1 ELSE 0

IdeviceType ==
  [listed : BOOLEAN, start_id : 0..1, polls : Nat, dev : BOOLEAN, present : BOOLEAN,
   percentage : {None} \cup 0..100,
   state : {"unset", "fully-charged", "empty", "charging", "discharging"}]

\* A phone that is not polled is not told present, and one that is was read.
IdeviceFollowed(d) ==
  /\ d.start_id + d.polls = IF d.listed THEN 1 ELSE 0
  /\ d.present <=> d.polls = 1
  /\ d.present => d.dev /\ d.percentage # None /\ d.state # "unset"

IdeviceIInv == idevice \in IdeviceType /\ IdeviceFollowed(idevice)

PeripheralsIInv == WupIInv /\ CsrIInv /\ IdeviceIInv

LEMMA WupInitIInv ==
  ASSUME wup = NoWup, wup_stream = <<>>, wup_buffer = <<>> PROVE WupIInv
BY EmptySeq DEF WupIInv, NoWup, WupType

LEMMA PacketType ==
  \A w \in Watts : Packet(w) \in Seq(Half) /\ Tail(Packet(w)) \in Seq(Half)
<1> SUFFICES ASSUME NEW w \in Watts
             PROVE  Packet(w) \in Seq(Half) /\ Tail(Packet(w)) \in Seq(Half)
  OBVIOUS
<1> DEFINE head == [part |-> "head", watts |-> w]
           tail == [part |-> "tail", watts |-> w]
<1>1. head \in Half /\ tail \in Half
  BY DEF Half
<1>2. Packet(w) = <<head, tail>>
  BY DEF Packet
<1> HIDE DEF head, tail
<1>3. Packet(w) \in Seq(Half) /\ Packet(w) # <<>>
  BY <1>1, <1>2
<1> QED
  BY <1>3, HeadTailProperties

LEMMA WupStepIInv == WupIInv /\ WupNext => WupIInv'
<1> SUFFICES ASSUME WupIInv, WupNext PROVE WupIInv'
  OBVIOUS
<1>1. CASE WupAppears
  <2> DEFINE made == [NoWup EXCEPT !.timer = TRUE]
             opened == [made EXCEPT !.fd = TRUE]
             open == [opened EXCEPT !.listed = TRUE]
  <2>1. NoWup \in WupType /\ NoWup.listed = FALSE /\ NoWup.fd = FALSE
    BY DEF NoWup, WupType
  <2>2. made \in WupType /\ made.timer = TRUE
    BY <2>1 DEF WupType
  <2>3. opened \in WupType /\ opened.timer = TRUE /\ opened.fd = TRUE
    <3> HIDE DEF made
    <3> QED
      BY <2>2 DEF WupType
  <2>4. open \in WupType /\ open.timer = TRUE /\ open.fd = TRUE /\ open.listed = TRUE
    <3> HIDE DEF opened
    <3> QED
      BY <2>3 DEF WupType
  <2>5. \/ wup' = WupFinalize(made) /\ UNCHANGED <<wup_stream, wup_buffer>>
        \/ WupRefresh(open)
    BY <1>1 DEF WupAppears
  <2> HIDE DEF made, opened, open
  <2>6. CASE wup' = WupFinalize(made) /\ UNCHANGED <<wup_stream, wup_buffer>>
    <3>1. /\ wup' \in WupType /\ wup'.listed = FALSE /\ wup'.fd = FALSE /\ wup'.timer = FALSE
      BY <2>2, <2>6 DEF WupFinalize, WupType
    <3> QED
      BY <2>6, <3>1 DEF WupIInv
  <2>7. CASE WupRefresh(open)
    <3>1. /\ wup' \in WupType /\ wup_stream' \in Seq(Half) /\ wup_buffer' \in Seq(Half)
          /\ wup'.listed = open.listed /\ wup'.fd = open.fd /\ wup'.timer = open.timer
      BY <2>4, <2>7, WupRefreshType DEF WupIInv
    <3> QED
      BY <2>4, <3>1 DEF WupIInv
  <2> QED
    BY <2>5, <2>6, <2>7
<1>2. CASE WupPollCb
  <2>1. /\ wup' \in WupType /\ wup_stream' \in Seq(Half) /\ wup_buffer' \in Seq(Half)
        /\ wup'.listed = wup.listed /\ wup'.fd = wup.fd /\ wup'.timer = wup.timer
    BY <1>2, WupRefreshType DEF WupPollCb, WupIInv
  <2> QED
    BY <2>1 DEF WupIInv
<1>3. CASE WupSends
  <2>1. wup_stream' \in Seq(Half)
    <3>1. PICK w \in Watts :
            wup_stream' \in {wup_stream \o Packet(w), wup_stream \o Tail(Packet(w))}
      BY <1>3 DEF WupSends
    <3> QED
      BY <3>1, PacketType, ConcatProperties DEF WupIInv
  <2> QED
    BY <1>3, <2>1 DEF WupSends, WupIInv
<1>4. CASE WupGoes
  <2>1. wup' = WupFinalize(wup) /\ wup_stream' = <<>> /\ wup_buffer' = wup_buffer
    BY <1>4 DEF WupGoes
  <2>2. /\ wup' \in WupType /\ wup'.listed = FALSE /\ wup'.fd = FALSE /\ wup'.timer = FALSE
    BY <2>1 DEF WupFinalize, WupType, WupIInv
  <2> QED
    BY <2>1, <2>2, EmptySeq DEF WupIInv
<1> QED
  BY <1>1, <1>2, <1>3, <1>4 DEF WupNext

LEMMA CsrRefreshType ==
  ASSUME NEW c \in [listed : BOOLEAN, polls : 0..1, raw_value : CsrAnswers,
                    percentage : 0..100],
         NEW answer \in CsrAnswers
  PROVE  /\ CsrRefresh(c, answer) \in [listed : BOOLEAN, polls : 0..1,
                                       raw_value : CsrAnswers, percentage : 0..100]
         /\ CsrRefresh(c, answer).listed = c.listed /\ CsrRefresh(c, answer).polls = c.polls
<1>1. CASE answer = None
  BY <1>1 DEF CsrRefresh
<1>2. CASE answer = 0
  BY <1>2 DEF CsrRefresh, CsrAnswers, None
<1>3. CASE answer \in 1..7
  <2>1. (100 * answer) \div 7 \in 0..100
    BY <1>3
  <2>2. CsrRefresh(c, answer) =
          [c EXCEPT !.raw_value = answer, !.percentage = (100 * answer) \div 7]
    BY <1>3 DEF CsrRefresh, None
  <2> QED
    BY <1>3, <2>1, <2>2
<1> QED
  BY <1>1, <1>2, <1>3 DEF CsrAnswers

LEMMA CsrStepIInv == CsrIInv /\ CsrNext => CsrIInv'
<1> SUFFICES ASSUME CsrIInv, CsrNext PROVE CsrIInv'
  OBVIOUS
<1>1. CASE CsrAppears
  <2> DEFINE listed == [NoCsr EXCEPT !.listed = TRUE]
             made == [listed EXCEPT !.polls = 1]
             Type == [listed : BOOLEAN, polls : 0..1, raw_value : CsrAnswers,
                      percentage : 0..100]
  <2>1. NoCsr \in Type
    BY DEF NoCsr, CsrAnswers
  <2>2. listed \in Type /\ listed.listed = TRUE
    BY <2>1
  <2>3. made \in Type /\ made.listed = TRUE /\ made.polls = 1
    <3> HIDE DEF listed
    <3> QED
      BY <2>2
  <2>4. PICK answer \in CsrAnswers : csr' = IF answer = None THEN csr
                                            ELSE CsrRefresh(made, answer)
    BY <1>1 DEF CsrAppears
  <2> HIDE DEF made
  <2> QED
    BY <2>3, <2>4, CsrRefreshType DEF CsrIInv
<1>2. CASE CsrPollCb
  BY <1>2, CsrRefreshType DEF CsrPollCb, CsrIInv
<1>3. CASE CsrGoes
  BY <1>3 DEF CsrGoes, NoCsr, CsrIInv, CsrAnswers, None
<1> QED
  BY <1>1, <1>2, <1>3 DEF CsrNext

\* IdeviceFollowed survives whatever the phone answers, since an answer changes
\* neither the timers nor the connection, and never makes what was known unknown.
LEMMA IdeviceRefreshFollows ==
  ASSUME NEW d \in IdeviceType, NEW a \in PhoneAnswers
  PROVE  LET e == IdeviceRefresh(d, a)
         IN  /\ e \in IdeviceType
             /\ e.listed = d.listed /\ e.start_id = d.start_id /\ e.polls = d.polls
             /\ e.dev = d.dev /\ e.present = d.present
             /\ d.percentage # None => e.percentage # None
             /\ d.state # "unset" => e.state # "unset"
             /\ IdeviceReads(a) => e.percentage # None /\ e.state # "unset"
<1> DEFINE capacity == a.capacity
           state == CASE a.charging = "none" -> d.state
                      [] a.capacity = 100 -> "fully-charged"
                      [] a.capacity = 0 -> "empty"
                      [] OTHER -> IF a.charging = "yes" THEN "charging" ELSE "discharging"
           read == [d EXCEPT !.percentage = capacity]
           known == [read EXCEPT !.state = state]
<1>1. /\ capacity \in {None, 0, 50, 100} /\ a.charging \in {"none", "yes", "no"}
      /\ a.reached \in BOOLEAN
  BY DEF PhoneAnswers
<1>2. CASE ~a.reached \/ capacity = None
  BY <1>2 DEF IdeviceRefresh, IdeviceReads
<1>3. CASE ~(~a.reached \/ capacity = None)
  <2>1. IdeviceRefresh(d, a) = known
    BY <1>3 DEF IdeviceRefresh
  <2>2. /\ d.state # "unset" \/ a.charging # "none" => state # "unset"
        /\ state \in {"unset", "fully-charged", "empty", "charging", "discharging"}
    BY <1>1 DEF IdeviceType
  <2>3. capacity \in 0..100 /\ capacity # None
    BY <1>1, <1>3 DEF None
  <2> HIDE DEF capacity, state
  <2>4. /\ read \in IdeviceType /\ read.percentage = capacity /\ read.listed = d.listed
        /\ read.start_id = d.start_id /\ read.polls = d.polls /\ read.dev = d.dev
        /\ read.present = d.present
    BY <2>3 DEF IdeviceType
  <2> HIDE DEF read
  <2>5. /\ known \in IdeviceType /\ known.percentage = read.percentage /\ known.state = state
        /\ known.listed = read.listed /\ known.start_id = read.start_id
        /\ known.polls = read.polls /\ known.dev = read.dev /\ known.present = read.present
    BY <2>2, <2>4 DEF IdeviceType
  <2> HIDE DEF known
  <2> QED
    BY <2>1, <2>2, <2>3, <2>4, <2>5 DEF IdeviceReads
<1> QED
  BY <1>2, <1>3

LEMMA IdeviceStartedFollows ==
  ASSUME NEW d \in IdeviceType, IdeviceFollowed(d), d.start_id > 0, NEW a \in PhoneAnswers
  PROVE  IdeviceStarted(d, a) \in IdeviceType /\ IdeviceFollowed(IdeviceStarted(d, a))
<1> DEFINE e == IdeviceRefresh(d, a)
           held == [e EXCEPT !.dev = TRUE]
           present == [held EXCEPT !.present = TRUE]
           polled == [present EXCEPT !.polls = @ + 1]
           started == [polled EXCEPT !.start_id = 0]
<1>1. /\ e \in IdeviceType
      /\ e.listed = d.listed /\ e.start_id = d.start_id /\ e.polls = d.polls
      /\ e.dev = d.dev /\ e.present = d.present
      /\ d.percentage # None => e.percentage # None
      /\ d.state # "unset" => e.state # "unset"
      /\ IdeviceReads(a) => e.percentage # None /\ e.state # "unset"
  BY IdeviceRefreshFollows
<1>2. d.polls = 0 /\ d.listed /\ ~d.present
  BY DEF IdeviceFollowed, IdeviceType
<1>3. CASE ~IdeviceReads(a)
  <2>1. IdeviceStarted(d, a) = e
    BY <1>3 DEF IdeviceStarted
  <2> HIDE DEF e
  <2> QED
    BY <1>1, <1>2, <2>1 DEF IdeviceFollowed
<1>4. CASE IdeviceReads(a)
  <2>1. IdeviceStarted(d, a) = started
    BY <1>4 DEF IdeviceStarted
  <2> HIDE DEF e
  <2>2. /\ held \in IdeviceType /\ held.dev = TRUE /\ held.listed = e.listed
        /\ held.polls = e.polls /\ held.percentage = e.percentage /\ held.state = e.state
    BY <1>1 DEF IdeviceType
  <2> HIDE DEF held
  <2>3. /\ present \in IdeviceType /\ present.dev = held.dev /\ present.listed = held.listed
        /\ present.polls = held.polls /\ present.percentage = held.percentage
        /\ present.state = held.state /\ present.present = TRUE
    BY <2>2 DEF IdeviceType
  <2> HIDE DEF present
  <2>4. /\ polled \in IdeviceType /\ polled.dev = present.dev
        /\ polled.listed = present.listed /\ polled.polls = present.polls + 1
        /\ polled.percentage = present.percentage /\ polled.state = present.state
        /\ polled.present = present.present
    BY <2>3 DEF IdeviceType
  <2> HIDE DEF polled
  <2>5. /\ started \in IdeviceType /\ started.dev = polled.dev
        /\ started.listed = polled.listed /\ started.polls = polled.polls
        /\ started.percentage = polled.percentage /\ started.state = polled.state
        /\ started.present = polled.present /\ started.start_id = 0
    BY <2>4 DEF IdeviceType
  <2> HIDE DEF started
  <2>6. started.polls = 1 /\ started.listed /\ started.dev /\ started.present
    BY <1>1, <1>2, <2>2, <2>3, <2>4, <2>5
  <2>7. started.percentage # None /\ started.state # "unset"
    BY <1>1, <1>4, <2>2, <2>3, <2>4, <2>5
  <2> QED
    BY <2>1, <2>5, <2>6, <2>7 DEF IdeviceFollowed
<1> QED
  BY <1>3, <1>4

LEMMA IdeviceStepIInv == IdeviceIInv /\ IdeviceNext => IdeviceIInv'
<1> SUFFICES ASSUME IdeviceIInv, IdeviceNext PROVE IdeviceIInv'
  OBVIOUS
<1>0. idevice \in IdeviceType /\ IdeviceFollowed(idevice)
  BY DEF IdeviceIInv
<1>1. CASE IdeviceAppears
  <2> DEFINE listed == [NoIdevice EXCEPT !.listed = TRUE]
             made == [listed EXCEPT !.start_id = 1]
  <2>1. NoIdevice \in IdeviceType /\ NoIdevice.polls = 0 /\ NoIdevice.present = FALSE
    BY DEF NoIdevice, IdeviceType
  <2>2. listed \in IdeviceType /\ listed.listed = TRUE /\ listed.polls = 0
        /\ listed.present = FALSE
    BY <2>1 DEF IdeviceType
  <2>3. made \in IdeviceType /\ made.listed = TRUE /\ made.polls = 0
        /\ made.present = FALSE /\ made.start_id = 1
    <3> HIDE DEF listed
    <3> QED
      BY <2>2 DEF IdeviceType
  <2>4. idevice' = made
    BY <1>1 DEF IdeviceAppears
  <2> HIDE DEF made
  <2> QED
    BY <2>3, <2>4 DEF IdeviceIInv, IdeviceFollowed
<1>2. CASE IdeviceStartPollCb
  <2>1. PICK a \in PhoneAnswers : idevice' = IdeviceStarted(idevice, a)
    BY <1>2 DEF IdeviceStartPollCb
  <2>2. idevice.start_id > 0
    BY <1>2 DEF IdeviceStartPollCb
  <2> QED
    BY <1>0, <2>1, <2>2, IdeviceStartedFollows DEF IdeviceIInv
<1>3. CASE IdevicePollCb \/ IdeviceClientRefresh
  <2>1. PICK a \in PhoneAnswers : idevice' = IdeviceRefresh(idevice, a)
    <3>1. CASE IdevicePollCb
      BY <3>1 DEF IdevicePollCb
    <3>2. CASE IdeviceClientRefresh
      <4>1. PICK b \in PhoneAnswers :
              idevice' = IdeviceRefresh(idevice, [b EXCEPT !.reached = @ /\ idevice.dev])
        BY <3>2 DEF IdeviceClientRefresh
      <4>2. (b.reached /\ idevice.dev) \in BOOLEAN
        OBVIOUS
      <4>3. [b EXCEPT !.reached = @ /\ idevice.dev] \in PhoneAnswers
        BY <4>2 DEF PhoneAnswers
      <4> QED
        BY <4>1, <4>3
    <3> QED
      BY <1>3, <3>1, <3>2
  <2> DEFINE e == IdeviceRefresh(idevice, a)
  <2>2. /\ e \in IdeviceType
        /\ e.listed = idevice.listed /\ e.start_id = idevice.start_id
        /\ e.polls = idevice.polls /\ e.dev = idevice.dev /\ e.present = idevice.present
        /\ idevice.percentage # None => e.percentage # None
        /\ idevice.state # "unset" => e.state # "unset"
    BY <1>0, IdeviceRefreshFollows
  <2>3. idevice' = e
    BY <2>1
  <2> HIDE DEF e
  <2>4. IdeviceFollowed(e)
    BY <1>0, <2>2 DEF IdeviceFollowed
  <2> QED
    BY <2>2, <2>3, <2>4 DEF IdeviceIInv
<1>4. CASE IdeviceGoes
  <2>1. idevice' = IdeviceFinalize(idevice)
    BY <1>4 DEF IdeviceGoes
  <2>2. /\ idevice' \in IdeviceType /\ idevice'.listed = FALSE /\ idevice'.start_id = 0
        /\ idevice'.polls = 0 /\ idevice'.present = FALSE
    <3> DEFINE a == [idevice EXCEPT !.listed = FALSE, !.start_id = 0]
               b == [a EXCEPT !.polls = 0, !.dev = FALSE]
               c == [b EXCEPT !.present = FALSE, !.percentage = None]
               d == [c EXCEPT !.state = "unset"]
    <3>1. IdeviceFinalize(idevice) = d
      BY DEF IdeviceFinalize
    <3>2. a \in IdeviceType /\ a.listed = FALSE /\ a.start_id = 0
      <4> DEFINE z == [idevice EXCEPT !.listed = FALSE]
      <4>1. z \in IdeviceType /\ z.listed = FALSE
        BY <1>0 DEF IdeviceType
      <4>2. a = [z EXCEPT !.start_id = 0]
        OBVIOUS
      <4> HIDE DEF a, z
      <4> QED
        BY <4>1, <4>2 DEF IdeviceType
    <3> HIDE DEF a
    <3>3. b \in IdeviceType /\ b.listed = FALSE /\ b.start_id = 0 /\ b.polls = 0
      BY <3>2 DEF IdeviceType
    <3> HIDE DEF b
    <3>4. /\ c \in IdeviceType /\ c.listed = FALSE /\ c.start_id = 0 /\ c.polls = 0
          /\ c.present = FALSE
      BY <3>3 DEF IdeviceType
    <3> HIDE DEF c
    <3>5. /\ d \in IdeviceType /\ d.listed = FALSE /\ d.start_id = 0 /\ d.polls = 0
          /\ d.present = FALSE
      BY <3>4 DEF IdeviceType
    <3> HIDE DEF d
    <3> QED
      BY <2>1, <3>1, <3>5
  <2> QED
    BY <2>2 DEF IdeviceIInv, IdeviceFollowed
<1> QED
  BY <1>1, <1>2, <1>3, <1>4 DEF IdeviceNext

LEMMA PeripheralsInitIInv == PeripheralsInit => PeripheralsIInv
<1> SUFFICES ASSUME PeripheralsInit PROVE PeripheralsIInv
  OBVIOUS
<1>1. WupIInv
  BY WupInitIInv DEF PeripheralsInit
<1>2. CsrIInv
  BY DEF PeripheralsInit, CsrIInv, NoCsr, CsrAnswers
<1>3. IdeviceIInv
  <2>1. idevice = NoIdevice
    BY DEF PeripheralsInit
  <2>2. /\ NoIdevice \in IdeviceType /\ NoIdevice.listed = FALSE /\ NoIdevice.start_id = 0
        /\ NoIdevice.polls = 0 /\ NoIdevice.present = FALSE
    BY DEF NoIdevice, IdeviceType
  <2> QED
    BY <2>1, <2>2 DEF IdeviceIInv, IdeviceFollowed
<1> QED
  BY <1>1, <1>2, <1>3 DEF PeripheralsIInv

LEMMA PeripheralsStepIInv ==
  PeripheralsIInv /\ [PeripheralsNext]_peripheralsVars => PeripheralsIInv'
<1> SUFFICES ASSUME PeripheralsIInv, [PeripheralsNext]_peripheralsVars PROVE PeripheralsIInv'
  OBVIOUS
<1> USE DEF PeripheralsIInv
<1>1. WupIInv'
  <2>1. CASE UNCHANGED wupVars
    BY <2>1 DEF wupVars, WupIInv
  <2> QED
    BY <2>1, WupStepIInv DEF PeripheralsNext, peripheralsVars, wupVars
<1>2. CsrIInv'
  <2>1. CASE UNCHANGED csr
    BY <2>1 DEF CsrIInv
  <2> QED
    BY <2>1, CsrStepIInv DEF PeripheralsNext, peripheralsVars
<1>3. IdeviceIInv'
  <2>1. CASE UNCHANGED idevice
    BY <2>1 DEF IdeviceIInv
  <2> QED
    BY <2>1, IdeviceStepIInv DEF PeripheralsNext, peripheralsVars
<1> QED
  BY <1>1, <1>2, <1>3

\* A meter, a mouse and a phone that are listed are read by exactly one timer, one
\* that has gone leaves nothing running, and a phone is told present only once a
\* reading was whole (up-device-wup.c, up-device-csr.c, up-device-idevice.c).
THEOREM PeripheralsSafety == PeripheralsSpec => []PeripheralsAreFollowed
<1>1. PeripheralsIInv => PeripheralsAreFollowed
  BY DEF PeripheralsIInv, WupIInv, CsrIInv, IdeviceIInv, IdeviceFollowed,
     PeripheralsAreFollowed
<1> QED
  BY <1>1, PeripheralsInitIInv, PeripheralsStepIInv, PTL DEF PeripheralsSpec

-----------------------------------------------------------------------------
(* The client library: what is sent.                                       *)

BusMessage ==
  UNION {[kind : {"changed"}, values : UNION {[S -> BOOLEAN] : S \in SUBSET DaemonProperties}],
         [kind : {"added", "removed"}, path : DevicePaths],
         [kind : {"properties"}, values : [DaemonProperties -> BOOLEAN]],
         [kind : {"devices"}, paths : SUBSET DevicePaths],
         [kind : {"device"}, found : BOOLEAN]}

-----------------------------------------------------------------------------
(* Signals on their way: about a device or about a property.               *)

About(m, what, x) ==
  \/ what = "device" /\ m.kind \in {"added", "removed"} /\ m.path = x
  \/ what = "property" /\ m.kind = "changed" /\ x \in DOMAIN m.values
Says(m, what, x) == IF what = "device" THEN m.kind ELSE m.values[x]

Waits(messages, what, x) == \E i \in 1..Len(messages) : About(messages[i], what, x)

\* The last signal about x says so.
LastSays(messages, what, x, it) ==
  \A i \in 1..Len(messages) :
    /\ About(messages[i], what, x)
    /\ \A j \in 1..Len(messages) : j > i => ~About(messages[j], what, x)
    => Says(messages[i], what, x) = it

\* A list without the message at position n.
Without(s, t, n) ==
  /\ \A i \in 1..Len(s) : i < n => i \in 1..Len(t) /\ t[i] = s[i]
  /\ \A i \in 1..Len(s) : i > n => i - 1 \in 1..Len(t) /\ t[i - 1] = s[i]
  /\ \A i \in 1..Len(t) : i < n => i \in 1..Len(s) /\ t[i] = s[i]
  /\ \A i \in 1..Len(t) : i >= n => i + 1 \in 1..Len(s) /\ t[i] = s[i + 1]

LEMMA TailIsWithout ==
  ASSUME NEW M, NEW s \in Seq(M), s # <<>>, NEW t, t = Tail(s)
  PROVE  t \in Seq(M) /\ Without(s, t, 1) /\ 1 \in 1..Len(s) /\ Head(s) = s[1]
<1>1. t \in Seq(M) /\ 1 \in 1..Len(s) /\ Head(s) = s[1]
  OBVIOUS
<1>2. /\ \A i \in 1..Len(s) : i > 1 => i - 1 \in 1..Len(t) /\ t[i - 1] = s[i]
      /\ \A i \in 1..Len(t) : i >= 1 => i + 1 \in 1..Len(s) /\ t[i] = s[i + 1]
  OBVIOUS
<1> QED  BY <1>1, <1>2 DEF Without

LEMMA JoinIsWithout ==
  ASSUME NEW M, NEW s \in Seq(M), NEW n \in 1..Len(s),
         NEW a \in Seq(M), NEW b \in Seq(M), NEW t \in Seq(M),
         Len(a) = n - 1, \A i \in 1..(n - 1) : a[i] = s[i],
         Len(b) = Len(s) - n, \A i \in 1..(Len(s) - n) : b[i] = s[i + n],
         Len(t) = Len(a) + Len(b),
         \A i \in 1..Len(t) : t[i] = IF i <= Len(a) THEN a[i] ELSE b[i - Len(a)]
  PROVE  Without(s, t, n)
<1>1. Len(s) \in Nat /\ Len(t) = Len(s) - 1 /\ n \in Int
  OBVIOUS
<1>2. ASSUME NEW i \in 1..Len(t), i < n PROVE i \in 1..Len(s) /\ t[i] = s[i]
  <2>1. i \in 1..(n - 1) /\ i <= Len(a) /\ i \in 1..Len(s)
    BY <1>1, <1>2
  <2> QED  BY <2>1
<1>3. ASSUME NEW i \in 1..Len(t), i >= n PROVE i + 1 \in 1..Len(s) /\ t[i] = s[i + 1]
  <2>1. ~(i <= Len(a)) /\ i - Len(a) \in 1..(Len(s) - n) /\ (i - Len(a)) + n = i + 1
    BY <1>1, <1>3
  <2>2. t[i] = b[i - Len(a)]
    BY <2>1
  <2>3. b[i - Len(a)] = s[(i - Len(a)) + n]
    BY <2>1
  <2>4. i + 1 \in 1..Len(s)
    BY <1>1
  <2> QED  BY <2>1, <2>2, <2>3, <2>4
<1>4. ASSUME NEW i \in 1..Len(s), i > n PROVE i - 1 \in 1..Len(t) /\ t[i - 1] = s[i]
  <2>1. i - 1 \in 1..Len(t) /\ i - 1 >= n /\ (i - 1) + 1 = i
    BY <1>1, <1>4
  <2> QED  BY <1>3, <2>1
<1>5. ASSUME NEW i \in 1..Len(s), i < n PROVE i \in 1..Len(t) /\ t[i] = s[i]
  <2>1. i \in 1..Len(t)
    BY <1>1, <1>5
  <2> QED  BY <1>2, <1>5, <2>1
<1> QED  BY <1>2, <1>3, <1>4, <1>5, Zenon DEF Without

LEMMA TakingIsWithout ==
  ASSUME NEW M, NEW s \in Seq(M), NEW n \in 1..Len(s)
  PROVE  /\ SubSeq(s, 1, n - 1) \o SubSeq(s, n + 1, Len(s)) \in Seq(M)
         /\ Without(s, SubSeq(s, 1, n - 1) \o SubSeq(s, n + 1, Len(s)), n)
<1> DEFINE a == SubSeq(s, 1, n - 1)
           b == SubSeq(s, n + 1, Len(s))
<1>1. n \in Nat /\ n <= Len(s) /\ Len(s) \in Nat
  BY LenProperties
<1>2. a \in Seq(M) /\ Len(a) = n - 1 /\ \A i \in 1..(n - 1) : a[i] = s[i]
  BY <1>1, SubSeqProperties
<1>3. b \in Seq(M) /\ Len(b) = Len(s) - n /\ \A i \in 1..(Len(s) - n) : b[i] = s[i + n]
  BY <1>1, SubSeqProperties
<1> DEFINE t == a \o b
<1> HIDE DEF a, b
<1>4. /\ t \in Seq(M) /\ Len(t) = Len(a) + Len(b)
      /\ \A i \in 1..(Len(a) + Len(b)) : t[i] = IF i <= Len(a) THEN a[i] ELSE b[i - Len(a)]
  BY <1>2, <1>3, ConcatProperties
<1> HIDE DEF t
<1>5. \A i \in 1..Len(t) : t[i] = IF i <= Len(a) THEN a[i] ELSE b[i - Len(a)]
  BY <1>4
<1>6. Without(s, t, n)
  BY <1>2, <1>3, <1>4, <1>5, JoinIsWithout
<1> QED  BY <1>4, <1>6 DEF a, b, t

LEMMA AppendAppends ==
  ASSUME NEW M, NEW s \in Seq(M), NEW m \in M, NEW t, t = Append(s, m)
  PROVE  /\ t \in Seq(M) /\ Len(t) \in 1..Len(t) /\ t[Len(t)] = m
         /\ \A i \in 1..Len(s) : i \in 1..Len(t) /\ i < Len(t) /\ t[i] = s[i]
         /\ \A i \in 1..Len(t) : i # Len(t) => i \in 1..Len(s) /\ i < Len(t)
OBVIOUS

\* What the signals say when a message is taken.
LEMMA TakenSays ==
  ASSUME NEW s, NEW t, NEW n \in Nat, Without(s, t, n), n \in 1..Len(s), NEW what, NEW x,
         n = 1 \/ ~About(s[n], what, x)
  PROVE  /\ Waits(t, what, x) => Waits(s, what, x)
         /\ Waits(s, what, x) => Waits(t, what, x) \/ About(s[n], what, x)
         /\ \A it : LastSays(s, what, x, it) =>
              /\ LastSays(t, what, x, it)
              /\ About(s[n], what, x) => Waits(t, what, x) \/ Says(s[n], what, x) = it
<1>1. ASSUME NEW i \in 1..Len(t)
      PROVE  \E k \in 1..Len(s) : /\ t[i] = s[k] /\ k # n /\ (k = i \/ k = i + 1)
                                  /\ i < n => k = i
                                  /\ i >= n => k = i + 1
  <2>1. CASE i < n
    <3>1. i \in 1..Len(s) /\ t[i] = s[i]
      BY <2>1 DEF Without
    <3> QED
      BY <2>1, <3>1
  <2>2. CASE i >= n
    <3>1. i + 1 \in 1..Len(s) /\ t[i] = s[i + 1]
      BY <2>2 DEF Without
    <3> QED
      BY <2>2, <3>1
  <2> QED
    BY <2>1, <2>2
<1>2. ASSUME NEW k \in 1..Len(s), k # n
      PROVE  \E i \in 1..Len(t) : /\ t[i] = s[k]
                                  /\ k < n => i = k
                                  /\ k > n => i = k - 1
  <2>1. CASE k < n
    <3>1. k \in 1..Len(t) /\ t[k] = s[k] /\ ~(k > n)
      BY <2>1 DEF Without
    <3> QED  BY <2>1, <3>1
  <2>2. CASE k > n
    <3>1. k - 1 \in 1..Len(t) /\ t[k - 1] = s[k] /\ ~(k < n)
      BY <2>2 DEF Without
    <3> QED  BY <2>2, <3>1
  <2> QED  BY <1>2, <2>1, <2>2
<1>3. Waits(t, what, x) => Waits(s, what, x)
  BY <1>1, Zenon DEF Waits
<1>4. Waits(s, what, x) => Waits(t, what, x) \/ About(s[n], what, x)
  BY <1>2, Zenon DEF Waits
<1>5. ASSUME NEW it, LastSays(s, what, x, it), NEW i \in 1..Len(t), About(t[i], what, x),
             \A j \in 1..Len(t) : j > i => ~About(t[j], what, x)
      PROVE  Says(t[i], what, x) = it
  <2>1. PICK k \in 1..Len(s) : /\ t[i] = s[k] /\ k # n
                               /\ i < n => k = i
                               /\ i >= n => k = i + 1
    BY <1>1
  <2>2. ASSUME NEW j \in 1..Len(s), j > k PROVE ~About(s[j], what, x)
    <3>1. CASE j = n
      <4>1. n # 1
        BY <2>2, <3>1
      <4> QED  BY <3>1, <4>1
    <3>2. CASE j # n
      <4>1. PICK l \in 1..Len(t) : t[l] = s[j] /\ (j < n => l = j) /\ (j > n => l = j - 1)
        BY <1>2, <3>2
      <4>2. l > i
        BY <2>1, <2>2, <3>2, <4>1
      <4> QED  BY <1>5, <4>1, <4>2, Zenon
    <3> QED  BY <3>1, <3>2
  <2> QED  BY <1>5, <2>1, <2>2, Zenon DEF LastSays
<1>6. ASSUME NEW it, LastSays(s, what, x, it), About(s[n], what, x), ~Waits(t, what, x)
      PROVE  Says(s[n], what, x) = it
  <2>1. ASSUME NEW j \in 1..Len(s), j > n PROVE ~About(s[j], what, x)
    <3>1. PICK l \in 1..Len(t) : t[l] = s[j]
      BY <1>2, <2>1
    <3> QED  BY <1>6, <3>1, Zenon DEF Waits
  <2> QED  BY <1>6, <2>1, Zenon DEF LastSays
<1>7. ASSUME NEW it, LastSays(s, what, x, it) PROVE LastSays(t, what, x, it)
  BY <1>5, <1>7, Zenon DEF LastSays
<1> QED  BY <1>3, <1>4, <1>6, <1>7, Zenon

\* What they say when one is sent.
LEMMA SentSays ==
  ASSUME NEW M, NEW s \in Seq(M), NEW m \in M, NEW t, t = Append(s, m), NEW what, NEW x
  PROVE  /\ Waits(t, what, x) <=> Waits(s, what, x) \/ About(m, what, x)
         /\ About(m, what, x) => LastSays(t, what, x, Says(m, what, x))
         /\ ~About(m, what, x) => \A it : LastSays(s, what, x, it) => LastSays(t, what, x, it)
<1>1. /\ Len(t) \in 1..Len(t) /\ t[Len(t)] = m
      /\ \A i \in 1..Len(s) : i \in 1..Len(t) /\ i < Len(t) /\ t[i] = s[i]
      /\ \A i \in 1..Len(t) : i # Len(t) => i \in 1..Len(s) /\ i < Len(t)
  BY AppendAppends
<1>2. Waits(t, what, x) <=> Waits(s, what, x) \/ About(m, what, x)
  BY <1>1, Zenon DEF Waits
<1>3. ASSUME About(m, what, x), NEW i \in 1..Len(t),
             \A j \in 1..Len(t) : j > i => ~About(t[j], what, x)
      PROVE  Says(t[i], what, x) = Says(m, what, x)
  <2>1. ~(Len(t) > i)
    BY <1>1, <1>3, Zenon
  <2>2. i = Len(t)
    BY <1>1, <2>1
  <2> QED  BY <1>1, <2>2, Zenon
<1>4. ASSUME ~About(m, what, x), NEW it, LastSays(s, what, x, it),
             NEW i \in 1..Len(t), About(t[i], what, x),
             \A j \in 1..Len(t) : j > i => ~About(t[j], what, x)
      PROVE  Says(t[i], what, x) = it
  <2>1. i \in 1..Len(s) /\ t[i] = s[i]
    BY <1>1, <1>4, Zenon
  <2>2. \A j \in 1..Len(s) : j > i => ~About(s[j], what, x)
    BY <1>1, <1>4, Zenon
  <2> QED  BY <1>4, <2>1, <2>2, Zenon DEF LastSays
<1> QED  BY <1>2, <1>3, <1>4, Zenon DEF LastSays

-----------------------------------------------------------------------------
(* Answers on their way.                                                   *)

Pending(messages) == {messages[i] : i \in {i \in 1..Len(messages) : IsReply(messages[i])}}
SingleAnswer(messages) ==
  \A i, j \in 1..Len(messages) : IsReply(messages[i]) /\ IsReply(messages[j]) => i = j

LEMMA TakenAnswers ==
  ASSUME NEW s, NEW t, NEW n \in Nat, Without(s, t, n), n \in 1..Len(s), SingleAnswer(s)
  PROVE  /\ SingleAnswer(t)
         /\ ~IsReply(s[n]) => Pending(t) = Pending(s)
         /\ IsReply(s[n]) => Pending(t) = {} /\ Pending(s) = {s[n]}
<1>1. ASSUME NEW i \in 1..Len(t)
      PROVE  \E k \in 1..Len(s) : /\ t[i] = s[k] /\ k # n
                                  /\ i < n => k = i
                                  /\ i >= n => k = i + 1
  <2>1. CASE i < n
    <3>1. i \in 1..Len(s) /\ t[i] = s[i]
      BY <2>1 DEF Without
    <3> QED
      BY <2>1, <3>1
  <2>2. CASE i >= n
    <3>1. i + 1 \in 1..Len(s) /\ t[i] = s[i + 1]
      BY <2>2 DEF Without
    <3> QED
      BY <2>2, <3>1
  <2> QED
    BY <2>1, <2>2
<1>2. ASSUME NEW k \in 1..Len(s), k # n PROVE \E i \in 1..Len(t) : t[i] = s[k]
  <2>1. CASE k < n
    BY <2>1 DEF Without
  <2>2. CASE k > n
    BY <2>2 DEF Without
  <2> QED  BY <1>2, <2>1, <2>2
<1>3. SingleAnswer(t)
  <2>1. ASSUME NEW i \in 1..Len(t), NEW j \in 1..Len(t), IsReply(t[i]), IsReply(t[j])
        PROVE  i = j
    <3>1. PICK k \in 1..Len(s) : t[i] = s[k] /\ (i < n => k = i) /\ (i >= n => k = i + 1)
      BY <1>1
    <3>2. PICK l \in 1..Len(s) : t[j] = s[l] /\ (j < n => l = j) /\ (j >= n => l = j + 1)
      BY <1>1
    <3>3. k = l
      BY <2>1, <3>1, <3>2, Zenon DEF SingleAnswer
    <3> QED  BY <3>1, <3>2, <3>3
  <2> QED  BY <2>1, Zenon DEF SingleAnswer
<1>4. ASSUME ~IsReply(s[n]) PROVE Pending(t) = Pending(s)
  <2>1. \A k \in 1..Len(s) : IsReply(s[k]) => k # n
    BY <1>4
  <2>2. \A m : m \in Pending(t) => m \in Pending(s)
    BY <1>1, Zenon DEF Pending
  <2>3. \A m : m \in Pending(s) => m \in Pending(t)
    BY <1>2, <2>1, Zenon DEF Pending
  <2> QED  BY <2>2, <2>3
<1>5. ASSUME IsReply(s[n]) PROVE Pending(t) = {} /\ Pending(s) = {s[n]}
  <2>1. \A k \in 1..Len(s) : IsReply(s[k]) => k = n
    BY <1>5, Zenon DEF SingleAnswer
  <2>2. Pending(t) = {}
    BY <1>1, <2>1, Zenon DEF Pending
  <2>3. Pending(s) = {s[n]}
    BY <1>5, <2>1, Zenon DEF Pending
  <2> QED  BY <2>2, <2>3
<1> QED  BY <1>3, <1>4, <1>5

LEMMA SentAnswers ==
  ASSUME NEW M, NEW s \in Seq(M), NEW m \in M, NEW t, t = Append(s, m), SingleAnswer(s)
  PROVE  /\ ~IsReply(m) => SingleAnswer(t) /\ Pending(t) = Pending(s)
         /\ IsReply(m) /\ Pending(s) = {} => SingleAnswer(t) /\ Pending(t) = {m}
<1>1. /\ Len(t) \in 1..Len(t) /\ t[Len(t)] = m
      /\ \A i \in 1..Len(s) : i \in 1..Len(t) /\ i < Len(t) /\ t[i] = s[i]
      /\ \A i \in 1..Len(t) : i # Len(t) => i \in 1..Len(s) /\ i < Len(t)
  BY AppendAppends
<1>2. ASSUME ~IsReply(m) PROVE SingleAnswer(t) /\ Pending(t) = Pending(s)
  <2>1. \A i \in 1..Len(t) : IsReply(t[i]) => i \in 1..Len(s) /\ t[i] = s[i]
    BY <1>1, <1>2, Zenon
  <2>2. SingleAnswer(t)
    BY <2>1, Zenon DEF SingleAnswer
  <2>3. Pending(t) = Pending(s)
    BY <1>1, <2>1, Zenon DEF Pending
  <2> QED  BY <2>2, <2>3
<1>3. ASSUME IsReply(m), Pending(s) = {} PROVE SingleAnswer(t) /\ Pending(t) = {m}
  <2>1. \A i \in 1..Len(s) : ~IsReply(s[i])
    BY <1>3, Zenon DEF Pending
  <2>2. \A i \in 1..Len(t) : IsReply(t[i]) => i = Len(t)
    BY <1>1, <2>1, Zenon
  <2>3. SingleAnswer(t)
    BY <2>2, Zenon DEF SingleAnswer
  <2>4. Pending(t) = {m}
    BY <1>1, <1>3, <2>2, Zenon DEF Pending
  <2> QED  BY <2>3, <2>4
<1> QED  BY <1>2, <1>3

-----------------------------------------------------------------------------
(* The inductive invariant.                                                *)

Method == client_call.method
Awaited == {"GetAll", "EnumerateDevices", "GetAllOfDevice"}

CallType ==
  UNION {[method : {"connect", "none", "GetAll", "EnumerateDevices"}, sent : BOOLEAN,
          paths : {{}}],
         [method : {"GetAllOfDevice"}, sent : BOOLEAN, paths : SUBSET DevicePaths,
          path : DevicePaths]}

ClientTyped ==
  /\ properties \in [DaemonProperties -> BOOLEAN]
  /\ DOMAIN changed_properties \subseteq DaemonProperties /\ idle_source \in BOOLEAN
  /\ exported_devices \subseteq DevicePaths
  /\ bus \in Seq(BusMessage) /\ client_call \in CallType
  /\ DOMAIN app_devices \subseteq DevicePaths
  /\ \A d \in DOMAIN app_devices : app_devices[d] \in BOOLEAN

\* A change that is not told is going to be.
ChangesAreTold == idle_source = FALSE => DOMAIN changed_properties = {}

\* The answer the client waits for is the only one.
AnswersTo(m, method) ==
  \/ m.kind = "properties" /\ method = "GetAll"
  \/ m.kind = "devices" /\ method = "EnumerateDevices"
  \/ m.kind = "device" /\ method = "GetAllOfDevice"
OneAnswer ==
  /\ SingleAnswer(bus)
  /\ \A r \in Pending(bus) : client_call.sent = FALSE /\ AnswersTo(r, Method)

Phases ==
  /\ Method = "connect" => bus = <<>>
  /\ client_call.sent = TRUE => Method \in Awaited
  /\ Method \in {"connect", "GetAll", "EnumerateDevices"} => DOMAIN app_devices = {}

\* What the daemon has told, or is to tell, of a device.
Now(d) == IF d \in exported_devices THEN "added" ELSE "removed"

\* The client asks for a device, or has it in a list.
AskedBy(call, d) ==
  d \in call.paths \/ (call.method = "GetAllOfDevice" /\ d = call.path)
Asked(d) == AskedBy(client_call, d)
Listed(d) == \E r \in Pending(bus) : r.kind = "devices" /\ d \in r.paths
IsKnown(d) == d \in DOMAIN app_devices \/ Asked(d) \/ Listed(d)
Enumerated ==
  Method \in {"none", "GetAllOfDevice"} \/ \E r \in Pending(bus) : r.kind = "devices"

\* Once the devices were enumerated, a device that no signal tells of is known if
\* there is one; it is without properties only when it went before they were asked for,
\* of which a signal tells.
DeviceIsSeen(d) ==
  /\ LastSays(bus, "device", d, Now(d))
  /\ Enumerated /\ ~Waits(bus, "device", d) => (IsKnown(d) <=> d \in exported_devices)
  /\ d \in DOMAIN app_devices /\ app_devices[d] = FALSE => Waits(bus, "device", d) \/ Asked(d)
  /\ \A r \in Pending(bus) : r.kind = "device" /\ r.found = FALSE /\ d = client_call.path =>
       Waits(bus, "device", d)

\* The value that the daemon has told, which it has no more if there is a change to tell.
ToldValue(p) == IF p \in DOMAIN changed_properties THEN changed_properties[p] ELSE properties[p]

PropertyIsSeen(p) ==
  /\ LastSays(bus, "property", p, ToldValue(p))
  /\ p \notin unsure /\ ~Waits(bus, "property", p) =>
       /\ Method \in {"none", "GetAllOfDevice", "EnumerateDevices"} =>
            cached_properties[p] = ToldValue(p)
       /\ \A r \in Pending(bus) : r.kind = "properties" => r.values[p] = ToldValue(p)

ClientIInv ==
  /\ ClientTyped /\ ChangesAreTold /\ OneAnswer /\ Phases
  /\ \A d \in DevicePaths : DeviceIsSeen(d)
  /\ \A p \in DaemonProperties : PropertyIsSeen(p)

LEMMA EmptyBus ==
  ASSUME NEW s, s = <<>>
  PROVE  /\ Pending(s) = {} /\ SingleAnswer(s)
         /\ \A what, x : ~Waits(s, what, x) /\ \A it : LastSays(s, what, x, it)
BY DEF Pending, SingleAnswer, Waits, LastSays

LEMMA CallFacts ==
  ASSUME NEW call \in CallType
  PROVE  /\ call.method \in {"connect", "none"} \cup Awaited /\ call.sent \in BOOLEAN
         /\ call.paths \subseteq DevicePaths
         /\ call.method = "GetAllOfDevice" => call.path \in DevicePaths
         /\ call.method # "GetAllOfDevice" => call.paths = {}
BY DEF CallType, Awaited

LEMMA MessageFacts ==
  ASSUME NEW m \in BusMessage
  PROVE  /\ m.kind \in {"changed", "added", "removed", "properties", "devices", "device"}
         /\ m.kind \in {"added", "removed"} => m.path \in DevicePaths
         /\ m.kind = "devices" => m.paths \subseteq DevicePaths
         /\ m.kind = "device" => m.found \in BOOLEAN
BY DEF BusMessage

\* A signal is no answer, and is about one device or about properties.
LEMMA SignalFacts ==
  ASSUME NEW m, NEW d
  PROVE  /\ About(m, "device", d) <=> m.kind \in {"added", "removed"} /\ m.path = d
         /\ About(m, "property", d) <=> m.kind = "changed" /\ d \in DOMAIN m.values
         /\ Says(m, "device", d) = m.kind /\ Says(m, "property", d) = m.values[d]
         /\ IsReply(m) <=> m.kind \in {"properties", "devices", "device"}
BY DEF About, Says, IsReply

-----------------------------------------------------------------------------
(* What the daemon sends.                                                  *)

\* A signal, to a client that has subscribed.
Sends(m) ==
  /\ Method # "connect" => bus' = Append(bus, m)
  /\ Method = "connect" => bus' = bus

LEMMA SentIsSeen ==
  ASSUME ClientIInv, NEW m \in BusMessage, ~IsReply(m), Sends(m), client_call' = client_call
  PROVE  /\ bus' \in Seq(BusMessage) /\ OneAnswer' /\ Pending(bus') = Pending(bus)
         /\ Method = "connect" => bus' = <<>>
         /\ \A what, x :
              /\ About(m, what, x) =>
                   /\ LastSays(bus', what, x, Says(m, what, x))
                   /\ Method # "connect" => Waits(bus', what, x)
              /\ ~About(m, what, x) =>
                   /\ Waits(bus', what, x) <=> Waits(bus, what, x)
                   /\ \A it : LastSays(bus, what, x, it) => LastSays(bus', what, x, it)
<1>1. bus \in Seq(BusMessage) /\ SingleAnswer(bus) /\ (Method = "connect" => bus = <<>>)
  BY DEF ClientIInv, ClientTyped, OneAnswer, Phases
<1>2. CASE Method = "connect"
  BY <1>1, <1>2, EmptyBus DEF Sends, ClientIInv, OneAnswer, Method
<1>3. CASE Method # "connect"
  <2>1. bus' = Append(bus, m)
    BY <1>3 DEF Sends
  <2>2. SingleAnswer(bus') /\ Pending(bus') = Pending(bus)
    BY <1>1, <2>1, SentAnswers
  <2>3. OneAnswer'
    BY <2>2 DEF ClientIInv, OneAnswer, Method
  <2>4. bus' \in Seq(BusMessage)
    BY <1>1, <2>1, AppendAppends
  <2>5. \A what, x :
          /\ About(m, what, x) =>
               LastSays(bus', what, x, Says(m, what, x)) /\ Waits(bus', what, x)
          /\ ~About(m, what, x) =>
               /\ Waits(bus', what, x) <=> Waits(bus, what, x)
               /\ \A it : LastSays(bus, what, x, it) => LastSays(bus', what, x, it)
    BY <1>1, <2>1, SentSays
  <2> QED  BY <1>3, <2>2, <2>3, <2>4, <2>5
<1> QED  BY <1>2, <1>3

\* A device is seen as before when nothing about it is sent.
LEMMA DeviceStays ==
  ASSUME NEW d \in DevicePaths, DeviceIsSeen(d),
         UNCHANGED <<client_call, app_devices>>, d \in exported_devices' <=> d \in exported_devices,
         Pending(bus') = Pending(bus), Waits(bus', "device", d) <=> Waits(bus, "device", d),
         \A it : LastSays(bus, "device", d, it) => LastSays(bus', "device", d, it)
  PROVE  DeviceIsSeen(d)'
<1>1. Now(d)' = Now(d)
  BY DEF Now
<1>2. (IsKnown(d)' <=> IsKnown(d)) /\ (Enumerated' <=> Enumerated) /\ (Asked(d)' <=> Asked(d))
  BY DEF IsKnown, Enumerated, Asked, AskedBy, Listed, Method
<1>3. LastSays(bus, "device", d, Now(d))'
  BY <1>1 DEF DeviceIsSeen
<1>4. (Enumerated /\ ~Waits(bus, "device", d) => (IsKnown(d) <=> d \in exported_devices))'
  BY <1>2, Zenon DEF DeviceIsSeen
<1>5. (d \in DOMAIN app_devices /\ app_devices[d] = FALSE => Waits(bus, "device", d) \/ Asked(d))'
  BY <1>2 DEF DeviceIsSeen
<1>6. (\A r \in Pending(bus) : r.kind = "device" /\ r.found = FALSE /\ d = client_call.path =>
        Waits(bus, "device", d))'
  BY DEF DeviceIsSeen
<1> QED  BY <1>3, <1>4, <1>5, <1>6, Zenon DEF DeviceIsSeen

\* And so is a property.
LEMMA PropertyStays ==
  ASSUME NEW p \in DaemonProperties, PropertyIsSeen(p),
         UNCHANGED <<client_call, cached_properties>>, ToldValue(p)' = ToldValue(p),
         p \in unsure => p \in unsure', Pending(bus') = Pending(bus),
         Waits(bus', "property", p) <=> Waits(bus, "property", p),
         \A it : LastSays(bus, "property", p, it) => LastSays(bus', "property", p, it)
  PROVE  PropertyIsSeen(p)'
<1>1. LastSays(bus, "property", p, ToldValue(p))'
  BY DEF PropertyIsSeen
<1>2. ASSUME p \notin unsure', ~Waits(bus', "property", p)
      PROVE  /\ Method' \in {"none", "GetAllOfDevice", "EnumerateDevices"} =>
                  cached_properties'[p] = ToldValue(p)'
             /\ \A r \in Pending(bus') : r.kind = "properties" => r.values[p] = ToldValue(p)'
  BY <1>2 DEF PropertyIsSeen, Method
<1> QED  BY <1>1, <1>2, Zenon DEF PropertyIsSeen

LEMMA SetKeeps ==
  ASSUME ClientIInv, SetProperty
  PROVE  ClientIInv'
<1>1. PICK q \in DaemonProperties, value \in BOOLEAN : SkeletonSetProperty(q, value)
  BY DEF SetProperty
<1>2. UNCHANGED <<exported_devices, bus, client_call, cached_properties, app_devices, unsure>>
  BY DEF SetProperty, appVars
<1>3. /\ properties' \in [DaemonProperties -> BOOLEAN]
      /\ DOMAIN changed_properties' \subseteq DaemonProperties
      /\ idle_source' \in BOOLEAN /\ ChangesAreTold'
      /\ \A p \in DaemonProperties : ToldValue(p)' = ToldValue(p)
  <2>1. CASE value = properties[q]
    <3>1. UNCHANGED <<properties, changed_properties, idle_source>>
      BY <1>1, <2>1 DEF SkeletonSetProperty, skeletonVars
    <3> QED  BY <3>1 DEF ClientIInv, ClientTyped, ChangesAreTold, ToldValue
  <2>2. CASE value # properties[q]
    <3>1. /\ changed_properties' = ScheduleEmitChanged(q)
          /\ properties' = [properties EXCEPT ![q] = value]
          /\ idle_source' = (idle_source \/ changed_properties' # Nothing)
      BY <1>1, <2>2 DEF SkeletonSetProperty, SkeletonNotify
    <3>2. /\ DOMAIN changed_properties' = DOMAIN changed_properties \cup {q}
          /\ \A p \in DOMAIN changed_properties : changed_properties'[p] = changed_properties[p]
          /\ q \notin DOMAIN changed_properties => changed_properties'[q] = properties[q]
      BY <3>1 DEF ScheduleEmitChanged
    <3>3. /\ properties' \in [DaemonProperties -> BOOLEAN]
          /\ \A p \in DaemonProperties : p # q => properties'[p] = properties[p]
      BY <3>1 DEF ClientIInv, ClientTyped
    <3>4. changed_properties' # Nothing
      BY <3>2 DEF Nothing
    <3>5. idle_source' = TRUE
      BY <3>1, <3>4
    <3> QED  BY <3>2, <3>3, <3>5 DEF ClientIInv, ClientTyped, ChangesAreTold, ToldValue
  <2> QED  BY <2>1, <2>2
<1>4. ClientTyped' /\ ChangesAreTold'
  BY <1>2, <1>3 DEF ClientIInv, ClientTyped
<1>5. OneAnswer' /\ Phases'
  BY <1>2 DEF ClientIInv, OneAnswer, Phases, Method
<1>6. \A d \in DevicePaths : DeviceIsSeen(d)'
  BY <1>2, DeviceStays DEF ClientIInv
<1>7. \A p \in DaemonProperties : PropertyIsSeen(p)'
  BY <1>2, <1>3, PropertyStays DEF ClientIInv
<1> QED  BY <1>4, <1>5, <1>6, <1>7, Zenon DEF ClientIInv

LEMMA EmitKeeps ==
  ASSUME ClientIInv, EmitChanged
  PROVE  ClientIInv'
<1> DEFINE values == [p \in Differing |-> properties[p]]
           m == [kind |-> "changed", values |-> values]
<1>1. /\ changed_properties' = Nothing /\ idle_source' = FALSE /\ unsure' = unsure \ Differing
      /\ UNCHANGED <<properties, exported_devices, client_call, cached_properties, app_devices>>
  BY DEF EmitChanged, appVars, AfterEmission
<1>2. IF Differing = {} THEN bus' = bus ELSE Sends(m)
  BY DEF EmitChanged, Send, Subscribed, Sends, Method
<1>3. Differing \subseteq DaemonProperties /\ DOMAIN values = Differing
  BY DEF ClientIInv, ClientTyped, Differing
<1>4. m \in BusMessage
  <2>1. values \in [Differing -> BOOLEAN]
    BY <1>3 DEF ClientIInv, ClientTyped
  <2>2. m \in [kind : {"changed"}, values : UNION {[S -> BOOLEAN] : S \in SUBSET DaemonProperties}]
    <3> HIDE DEF values
    <3> QED  BY <1>3, <2>1
  <2> HIDE DEF m
  <2> QED  BY <2>2, Zenon DEF BusMessage
<1>5. /\ m.kind = "changed" /\ DOMAIN m.values = Differing
      /\ \A p \in Differing : m.values[p] = properties[p]
  BY <1>3
<1> HIDE DEF m, values
<1>6. /\ ~IsReply(m) /\ \A d : ~About(m, "device", d)
      /\ \A p : About(m, "property", p) <=> p \in Differing
      /\ \A p \in Differing : Says(m, "property", p) = properties[p]
  BY <1>5, SignalFacts
<1>7. /\ bus' \in Seq(BusMessage) /\ OneAnswer' /\ Pending(bus') = Pending(bus)
      /\ Method = "connect" => bus' = <<>>
      /\ \A d : /\ Waits(bus', "device", d) <=> Waits(bus, "device", d)
                /\ \A it : LastSays(bus, "device", d, it) => LastSays(bus', "device", d, it)
      /\ \A p \in Differing :
           /\ LastSays(bus', "property", p, properties[p])
           /\ (Method # "connect" => Waits(bus', "property", p))
      /\ \A p : p \notin Differing =>
           /\ Waits(bus', "property", p) <=> Waits(bus, "property", p)
           /\ \A it : LastSays(bus, "property", p, it) => LastSays(bus', "property", p, it)
  <2>1. CASE Differing = {}
    <3>1. bus' = bus
      BY <1>2, <2>1
    <3>2. OneAnswer' /\ bus \in Seq(BusMessage) /\ (Method = "connect" => bus = <<>>)
      BY <1>1, <3>1 DEF ClientIInv, ClientTyped, OneAnswer, Phases, Method
    <3> QED  BY <2>1, <3>1, <3>2
  <2>2. CASE Differing # {}
    <3>1. Sends(m)
      BY <1>2, <2>2
    <3>2. /\ bus' \in Seq(BusMessage) /\ OneAnswer' /\ Pending(bus') = Pending(bus)
          /\ Method = "connect" => bus' = <<>>
          /\ \A what, x :
               /\ About(m, what, x) =>
                    /\ LastSays(bus', what, x, Says(m, what, x))
                    /\ Method # "connect" => Waits(bus', what, x)
               /\ ~About(m, what, x) =>
                    /\ Waits(bus', what, x) <=> Waits(bus, what, x)
                    /\ \A it : LastSays(bus, what, x, it) => LastSays(bus', what, x, it)
      BY <1>1, <1>4, <1>6, <3>1, SentIsSeen
    <3>3. \A p \in Differing : LastSays(bus', "property", p, properties[p])
      <4> TAKE p \in Differing
      <4>1. /\ LastSays(bus', "property", p, Says(m, "property", p))
            /\ Says(m, "property", p) = properties[p]
        BY <1>6, <3>2
      <4> QED  BY <4>1
    <3> QED  BY <1>6, <3>2, <3>3, Zenon
  <2> QED  BY <2>1, <2>2
<1>8. \A p \in DaemonProperties : /\ ToldValue(p)' = properties[p]
                                  /\ p \notin Differing => ToldValue(p) = properties[p]
  BY <1>1 DEF ToldValue, Differing, Nothing
<1>9. ClientTyped' /\ ChangesAreTold'
  <2>1. DOMAIN changed_properties' = {}
    BY <1>1 DEF Nothing
  <2> QED  BY <1>1, <1>7, <2>1 DEF ClientIInv, ClientTyped, ChangesAreTold
<1>10. OneAnswer' /\ Phases'
  BY <1>1, <1>7 DEF ClientIInv, Phases, Method
<1>11. \A d \in DevicePaths : DeviceIsSeen(d)'
  BY <1>1, <1>7, DeviceStays DEF ClientIInv
<1>12. ASSUME NEW p \in DaemonProperties PROVE PropertyIsSeen(p)'
  <2>1. CASE p \notin Differing
    BY <1>1, <1>7, <1>8, <2>1, PropertyStays DEF ClientIInv
  <2>2. CASE p \in Differing
    <3>1. LastSays(bus', "property", p, ToldValue(p)')
      BY <1>7, <1>8, <2>2
    <3>2. CASE Method = "connect"
      <4>1. Pending(bus') = {} /\ Method' = "connect"
        BY <1>1, <1>7, <3>2, EmptyBus DEF Method
      <4> QED  BY <3>1, <4>1 DEF PropertyIsSeen
    <3>3. CASE Method # "connect"
      BY <1>7, <2>2, <3>1, <3>3, Zenon DEF PropertyIsSeen
    <3> QED  BY <3>2, <3>3
  <2> QED  BY <2>1, <2>2
<1> QED  BY <1>9, <1>10, <1>11, <1>12, Zenon DEF ClientIInv

\* A device that comes or goes, in the daemon.
LEMMA ListKeeps ==
  ASSUME ClientIInv, DeviceAdded \/ DeviceRemoved
  PROVE  ClientIInv'
<1>1. PICK d \in DevicePaths, what \in {"added", "removed"} :
        /\ Sends([kind |-> what, path |-> d])
        /\ exported_devices' \subseteq DevicePaths
        /\ \A e : e # d => (e \in exported_devices' <=> e \in exported_devices)
        /\ d \in exported_devices' <=> what = "added"
  <2>1. CASE DeviceAdded
    <3>1. PICK d \in DevicePaths \ exported_devices :
            /\ exported_devices' = exported_devices \cup {d}
            /\ Send([kind |-> "added", path |-> d])
      BY <2>1 DEF DeviceAdded
    <3>2. Sends([kind |-> "added", path |-> d])
      BY <3>1 DEF Send, Subscribed, Sends, Method
    <3> QED  BY <3>1, <3>2 DEF ClientIInv, ClientTyped
  <2>2. CASE DeviceRemoved
    <3>1. PICK d \in exported_devices :
            /\ exported_devices' = exported_devices \ {d}
            /\ Send([kind |-> "removed", path |-> d])
      BY <2>2 DEF DeviceRemoved
    <3>2. Sends([kind |-> "removed", path |-> d])
      BY <3>1 DEF Send, Subscribed, Sends, Method
    <3> QED  BY <3>1, <3>2 DEF ClientIInv, ClientTyped
  <2> QED  BY <2>1, <2>2
<1>2. UNCHANGED <<properties, changed_properties, idle_source, client_call, cached_properties,
                 app_devices, unsure>>
  BY DEF DeviceAdded, DeviceRemoved, skeletonVars, appVars
<1> DEFINE m == [kind |-> what, path |-> d]
<1>3. m \in BusMessage /\ m.kind = what /\ m.path = d
  BY DEF BusMessage
<1>4. Sends(m)
  BY <1>1
<1> HIDE DEF m
<1>5. /\ ~IsReply(m) /\ \A p : ~About(m, "property", p)
      /\ \A e : About(m, "device", e) <=> e = d
      /\ Says(m, "device", d) = what
  BY <1>3, SignalFacts
<1>6. /\ bus' \in Seq(BusMessage) /\ OneAnswer' /\ Pending(bus') = Pending(bus)
      /\ Method = "connect" => bus' = <<>>
      /\ LastSays(bus', "device", d, Says(m, "device", d))
      /\ Method # "connect" => Waits(bus', "device", d)
      /\ \A e : e # d => /\ Waits(bus', "device", e) <=> Waits(bus, "device", e)
                         /\ \A it : LastSays(bus, "device", e, it) =>
                                      LastSays(bus', "device", e, it)
      /\ \A p : /\ Waits(bus', "property", p) <=> Waits(bus, "property", p)
                /\ \A it : LastSays(bus, "property", p, it) => LastSays(bus', "property", p, it)
  BY <1>2, <1>3, <1>4, <1>5, SentIsSeen
<1>7. ClientTyped' /\ ChangesAreTold' /\ OneAnswer' /\ Phases'
  BY <1>1, <1>2, <1>6 DEF ClientIInv, ClientTyped, ChangesAreTold, Phases, Method
<1>8. \A p \in DaemonProperties : PropertyIsSeen(p)'
  <2>1. \A p \in DaemonProperties : ToldValue(p)' = ToldValue(p)
    BY <1>2 DEF ToldValue
  <2> QED  BY <1>2, <1>6, <2>1, PropertyStays DEF ClientIInv
<1>9. ASSUME NEW e \in DevicePaths, e # d PROVE DeviceIsSeen(e)'
  BY <1>1, <1>2, <1>6, <1>9, DeviceStays DEF ClientIInv
<1>10. DeviceIsSeen(d)'
  <2>1. LastSays(bus', "device", d, Now(d)')
    BY <1>1, <1>5, <1>6 DEF Now
  <2>2. CASE Method = "connect"
    <3>1. Pending(bus') = {} /\ Method' = "connect"
      BY <1>2, <1>6, <2>2, EmptyBus DEF Method
    <3>2. ~Enumerated' /\ DOMAIN app_devices' = {}
      BY <1>2, <2>2, <3>1 DEF Enumerated, ClientIInv, Phases
    <3> QED  BY <2>1, <3>1, <3>2, Zenon DEF DeviceIsSeen
  <2>3. CASE Method # "connect"
    BY <1>6, <2>1, <2>3, Zenon DEF DeviceIsSeen
  <2> QED  BY <2>2, <2>3
<1> QED  BY <1>7, <1>8, <1>9, <1>10, Zenon DEF ClientIInv

\* The daemon answers the call.
LEMMA AnswerKeeps ==
  ASSUME ClientIInv, HandleMethodCall
  PROVE  ClientIInv'
<1>1. /\ client_call.sent = TRUE /\ client_call' = [client_call EXCEPT !.sent = FALSE]
      /\ UNCHANGED <<properties, changed_properties, idle_source, exported_devices,
                     cached_properties, app_devices>>
      /\ client_call \in CallType /\ bus \in Seq(BusMessage) /\ SingleAnswer(bus)
  <2>1. client_call \in CallType /\ bus \in Seq(BusMessage) /\ SingleAnswer(bus)
    BY DEF ClientIInv, ClientTyped, OneAnswer
  <2>2. client_call.sent = TRUE
    BY <2>1, CallFacts DEF HandleMethodCall
  <2> QED  BY <2>1, <2>2 DEF HandleMethodCall, skeletonVars
<1>2. /\ client_call' \in CallType /\ client_call'.sent = FALSE /\ Method' = Method
      /\ client_call'.paths = client_call.paths
      /\ Method = "GetAllOfDevice" => client_call'.path = client_call.path
  <2>1. CASE client_call \in [method : {"connect", "none", "GetAll", "EnumerateDevices"},
                              sent : BOOLEAN, paths : {{}}]
    <3>1. /\ client_call' \in [method : {"connect", "none", "GetAll", "EnumerateDevices"},
                               sent : BOOLEAN, paths : {{}}]
          /\ client_call'.sent = FALSE /\ client_call'.method = client_call.method
          /\ client_call'.paths = client_call.paths
      BY <1>1, <2>1
    <3> QED  BY <2>1, <3>1 DEF CallType, Method
  <2>2. CASE client_call \in [method : {"GetAllOfDevice"}, sent : BOOLEAN,
                              paths : SUBSET DevicePaths, path : DevicePaths]
    <3>1. /\ client_call' \in [method : {"GetAllOfDevice"}, sent : BOOLEAN,
                               paths : SUBSET DevicePaths, path : DevicePaths]
          /\ client_call'.sent = FALSE /\ client_call'.method = client_call.method
          /\ client_call'.paths = client_call.paths /\ client_call'.path = client_call.path
      BY <1>1, <2>2
    <3> QED  BY <3>1 DEF CallType, Method
  <2> QED  BY <1>1, <2>1, <2>2, Zenon DEF CallType
<1>3. PICK m \in BusMessage :
        /\ bus' = Append(bus, m) /\ AnswersTo(m, Method)
        /\ m.kind = "properties" => m.values = properties /\ unsure' = unsure \cup Differing
        /\ m.kind # "properties" => unsure' = unsure
        /\ m.kind = "devices" => m.paths = exported_devices
        /\ m.kind = "device" => m.found = (client_call.path \in exported_devices)
  <2>1. CASE client_call.method = "GetAll"
    <3>1. bus' = Append(bus, GetProperties) /\ unsure' = unsure \cup Differing
      BY <2>1 DEF HandleMethodCall
    <3>2. GetProperties \in BusMessage
      BY DEF GetProperties, BusMessage, ClientIInv, ClientTyped
    <3> QED  BY <2>1, <3>1, <3>2 DEF GetProperties, AnswersTo, Method
  <2>2. CASE client_call.method = "EnumerateDevices"
    <3>1. bus' = Append(bus, EnumerateDevices) /\ unsure' = unsure
      BY <2>2 DEF HandleMethodCall
    <3>2. EnumerateDevices \in BusMessage
      BY DEF EnumerateDevices, BusMessage, ClientIInv, ClientTyped
    <3> QED  BY <2>2, <3>1, <3>2 DEF EnumerateDevices, AnswersTo, Method
  <2>3. CASE client_call.method = "GetAllOfDevice"
    <3>1. bus' = Append(bus, GetDeviceProperties(client_call.path)) /\ unsure' = unsure
      BY <2>3 DEF HandleMethodCall
    <3>2. GetDeviceProperties(client_call.path) \in BusMessage
      BY DEF GetDeviceProperties, BusMessage
    <3> QED  BY <2>3, <3>1, <3>2 DEF GetDeviceProperties, AnswersTo, Method
  <2> QED  BY <2>1, <2>2, <2>3 DEF HandleMethodCall
<1>4. IsReply(m) /\ \A x : ~About(m, "device", x) /\ ~About(m, "property", x)
  BY <1>3, SignalFacts DEF AnswersTo
<1>5. Pending(bus) = {}
  BY <1>1 DEF ClientIInv, OneAnswer
<1>6. SingleAnswer(bus') /\ Pending(bus') = {m} /\ bus' \in Seq(BusMessage)
  <2>1. bus \in Seq(BusMessage) /\ SingleAnswer(bus) /\ bus' = Append(bus, m)
    BY <1>1, <1>3
  <2>2. bus' \in Seq(BusMessage)
    BY <2>1, AppendAppends
  <2> QED  BY <1>4, <1>5, <2>1, <2>2, SentAnswers
<1>7. \A what \in {"device", "property"} : \A x :
        /\ Waits(bus', what, x) <=> Waits(bus, what, x)
        /\ \A it : LastSays(bus, what, x, it) => LastSays(bus', what, x, it)
  <2>1. bus \in Seq(BusMessage) /\ bus' = Append(bus, m)
    BY <1>1, <1>3
  <2>2. \A what, x : ~About(m, what, x) =>
          /\ Waits(bus', what, x) <=> Waits(bus, what, x)
          /\ \A it : LastSays(bus, what, x, it) => LastSays(bus', what, x, it)
    BY <2>1, SentSays
  <2> QED  BY <1>4, <2>2
<1>8. ClientTyped' /\ ChangesAreTold' /\ OneAnswer' /\ Phases'
  <2>1. ClientTyped' /\ ChangesAreTold'
    BY <1>1, <1>2, <1>6 DEF ClientIInv, ClientTyped, ChangesAreTold
  <2>2. OneAnswer'
    BY <1>2, <1>3, <1>6 DEF OneAnswer
  <2>3. Method \in Awaited
    BY <1>1 DEF ClientIInv, Phases
  <2> QED  BY <1>1, <1>2, <2>1, <2>2, <2>3 DEF Phases, ClientIInv, Awaited
<1>9. ASSUME NEW d \in DevicePaths PROVE DeviceIsSeen(d)'
  <2>1. DeviceIsSeen(d) /\ Now(d)' = Now(d) /\ (Asked(d)' <=> Asked(d)) /\ ~Listed(d)
    BY <1>1, <1>2, <1>5 DEF ClientIInv, Now, Asked, AskedBy, Listed, Method
  <2>2. LastSays(bus', "device", d, Now(d)')
    BY <1>7, <2>1 DEF DeviceIsSeen
  <2>3. d \in DOMAIN app_devices' /\ app_devices'[d] = FALSE =>
          Waits(bus', "device", d) \/ Asked(d)'
    BY <1>1, <1>7, <2>1 DEF DeviceIsSeen
  <2>4. CASE m.kind = "properties"
    <3>1. ~Enumerated' /\ \A r \in Pending(bus') : r.kind # "device"
      BY <1>2, <1>3, <1>6, <2>4 DEF Enumerated, AnswersTo
    <3> QED  BY <2>2, <2>3, <3>1, Zenon DEF DeviceIsSeen
  <2>5. CASE m.kind = "devices"
    <3>1. Method = "EnumerateDevices"
      BY <1>3, <2>5 DEF AnswersTo
    <3>2. DOMAIN app_devices = {} /\ ~Asked(d)
      BY <1>1, <3>1, CallFacts DEF ClientIInv, Phases, Asked, AskedBy, Method
    <3>3. IsKnown(d)' <=> d \in exported_devices'
      BY <1>1, <1>3, <1>6, <2>1, <2>5, <3>2 DEF IsKnown, Listed
    <3>4. \A r \in Pending(bus') : r.kind # "device"
      BY <1>6, <2>5
    <3> QED  BY <2>2, <2>3, <3>3, <3>4, Zenon DEF DeviceIsSeen
  <2>6. CASE m.kind = "device"
    <3>1. Method = "GetAllOfDevice" /\ Enumerated
      BY <1>3, <2>6 DEF AnswersTo, Enumerated
    <3>2. IsKnown(d)' <=> IsKnown(d)
      BY <1>1, <1>6, <2>1, <2>6 DEF IsKnown, Listed
    <3>3. ~Waits(bus, "device", d) => (IsKnown(d) <=> d \in exported_devices)
      BY <2>1, <3>1, Zenon DEF DeviceIsSeen
    <3>4. ASSUME m.found = FALSE, d = client_call'.path PROVE Waits(bus', "device", d)
      <4>1. d \notin exported_devices /\ IsKnown(d)
        BY <1>2, <1>3, <2>6, <3>1, <3>4 DEF IsKnown, Asked, AskedBy, Method
      <4> QED  BY <1>7, <3>3, <4>1
    <3>5. ~Waits(bus', "device", d) => (IsKnown(d)' <=> d \in exported_devices')
      BY <1>1, <1>7, <3>2, <3>3
    <3>6. \A r \in Pending(bus') : r = m
      BY <1>6
    <3> QED  BY <2>2, <2>3, <3>4, <3>5, <3>6, Zenon DEF DeviceIsSeen
  <2> QED  BY <1>3, <2>4, <2>5, <2>6 DEF AnswersTo
<1>10. ASSUME NEW p \in DaemonProperties PROVE PropertyIsSeen(p)'
  <2>1. PropertyIsSeen(p) /\ ToldValue(p)' = ToldValue(p)
    BY <1>1 DEF ClientIInv, ToldValue
  <2>2. LastSays(bus', "property", p, ToldValue(p)')
    BY <1>7, <2>1 DEF PropertyIsSeen
  <2>3. CASE m.kind = "properties"
    <3>1. Method' \notin {"none", "GetAllOfDevice", "EnumerateDevices"}
      BY <1>2, <1>3, <2>3 DEF AnswersTo
    <3>2. p \notin unsure' => m.values[p] = ToldValue(p)'
      BY <1>3, <2>1, <2>3 DEF ToldValue, Differing
    <3> QED  BY <1>6, <2>2, <3>1, <3>2 DEF PropertyIsSeen
  <2>4. CASE m.kind # "properties"
    BY <1>1, <1>2, <1>3, <1>6, <1>7, <2>1, <2>2, <2>4 DEF PropertyIsSeen
  <2> QED  BY <2>3, <2>4
<1> QED  BY <1>8, <1>9, <1>10, Zenon DEF ClientIInv

-----------------------------------------------------------------------------
(* The client.                                                             *)

LEMMA AskNextAsks ==
  ASSUME NEW paths \in SUBSET DevicePaths, NEW call, call = AskNext(paths)
  PROVE  /\ call \in CallType /\ call.method \in {"none", "GetAllOfDevice"}
         /\ call.sent = TRUE => call.method = "GetAllOfDevice"
         /\ \A d : AskedBy(call, d) <=> d \in paths
<1>1. CASE paths = {}
  BY <1>1 DEF AskNext, Idle, CallType, AskedBy
<1>2. CASE paths # {}
  <2> DEFINE d == CHOOSE d \in paths : TRUE
  <2>1. d \in paths
    BY <1>2
  <2>2. call = [method |-> "GetAllOfDevice", sent |-> TRUE, paths |-> paths \ {d}, path |-> d]
    BY <1>2 DEF AskNext
  <2> HIDE DEF d
  <2> QED  BY <2>1, <2>2 DEF CallType, AskedBy
<1> QED  BY <1>1, <1>2

\* An application that connects, or lets go of the client.
LEMMA NewKeeps ==
  ASSUME ClientIInv, ClientNew \/ ClientFinalize
  PROVE  ClientIInv'
<1>1. /\ bus' = <<>> /\ DOMAIN app_devices' = {}
      /\ client_call' \in CallType /\ Method' \in {"connect", "GetAll"}
      /\ Method' = "connect" => client_call'.sent = FALSE
      /\ client_call'.paths = {}
      /\ UNCHANGED <<properties, changed_properties, idle_source, exported_devices>>
  <2>1. CASE ClientNew
    BY <2>1 DEF ClientNew, ClientIInv, Phases, Call, CallType, Method, skeletonVars
  <2>2. CASE ClientFinalize
    BY <2>2 DEF ClientFinalize, Idle, CallType, Method, skeletonVars, Nothing
  <2> QED  BY <2>1, <2>2
<1>2. /\ Pending(bus') = {} /\ SingleAnswer(bus')
      /\ \A what, x : ~Waits(bus', what, x) /\ \A it : LastSays(bus', what, x, it)
  BY <1>1, EmptyBus
<1>3. ClientTyped' /\ ChangesAreTold' /\ OneAnswer' /\ Phases'
  <2>1. bus' \in Seq(BusMessage)
    BY <1>1
  <2> QED  BY <1>1, <1>2, <2>1 DEF ClientIInv, ClientTyped, ChangesAreTold, OneAnswer, Phases,
     Awaited
<1>4. \A d \in DevicePaths : DeviceIsSeen(d)'
  <2>1. ~Enumerated'
    BY <1>1, <1>2 DEF Enumerated
  <2> QED  BY <1>1, <1>2, <2>1 DEF DeviceIsSeen
<1>5. \A p \in DaemonProperties : PropertyIsSeen(p)'
  BY <1>1, <1>2 DEF PropertyIsSeen
<1> QED  BY <1>3, <1>4, <1>5, Zenon DEF ClientIInv

\* An answer ends the wait.
LEMMA ReplyKeeps ==
  ASSUME ClientIInv, ClientGetsReply
  PROVE  ClientIInv'
<1>1. PICK i \in 1..Len(bus) :
        /\ IsReply(bus[i])
        /\ bus' = SubSeq(bus, 1, i - 1) \o SubSeq(bus, i + 1, Len(bus))
        /\ \/ /\ bus[i].kind = "properties"
              /\ cached_properties' = bus[i].values
              /\ client_call' = Call("EnumerateDevices", {})
              /\ UNCHANGED app_devices
           \/ /\ bus[i].kind = "devices"
              /\ client_call' = AskNext(bus[i].paths)
              /\ UNCHANGED <<cached_properties, app_devices>>
           \/ /\ bus[i].kind = "device"
              /\ app_devices' = DeviceIsKnown(client_call.path, bus[i].found)
              /\ client_call' = AskNext(client_call.paths)
              /\ UNCHANGED cached_properties
        /\ UNCHANGED <<properties, changed_properties, idle_source, exported_devices, unsure>>
  <2>1. DOMAIN bus = 1..Len(bus)
    BY DEF ClientIInv, ClientTyped
  <2> QED  BY <2>1 DEF ClientGetsReply, skeletonVars
<1> DEFINE m == bus[i]
<1>2. /\ bus \in Seq(BusMessage) /\ SingleAnswer(bus) /\ client_call \in CallType
      /\ m \in BusMessage
  BY DEF ClientIInv, ClientTyped, OneAnswer
<1>3. Without(bus, bus', i) /\ bus' \in Seq(BusMessage) /\ i \in Nat
  BY <1>1, <1>2, TakingIsWithout
<1>4. SingleAnswer(bus') /\ Pending(bus') = {} /\ Pending(bus) = {m}
  BY <1>1, <1>2, <1>3, TakenAnswers
<1>5. \A x : ~About(m, "device", x) /\ ~About(m, "property", x)
  BY <1>1, SignalFacts
<1>6. \A what \in {"device", "property"} : \A x :
        /\ Waits(bus', what, x) <=> Waits(bus, what, x)
        /\ \A it : LastSays(bus, what, x, it) => LastSays(bus', what, x, it)
  <2>1. \A what, x : ~About(m, what, x) =>
          /\ Waits(bus', what, x) => Waits(bus, what, x)
          /\ Waits(bus, what, x) => Waits(bus', what, x) \/ About(m, what, x)
          /\ \A it : LastSays(bus, what, x, it) => LastSays(bus', what, x, it)
    BY <1>3, TakenSays
  <2> QED  BY <1>5, <2>1
<1>7. AnswersTo(m, Method) /\ client_call.sent = FALSE
  BY <1>4 DEF ClientIInv, OneAnswer
<1>8. /\ client_call' \in CallType /\ Method' \in {"EnumerateDevices", "none", "GetAllOfDevice"}
      /\ client_call'.sent = TRUE => Method' \in {"EnumerateDevices", "GetAllOfDevice"}
      /\ m.kind = "properties" => Method' = "EnumerateDevices" /\ \A d : ~Asked(d)'
      /\ m.kind # "properties" => Method' \in {"none", "GetAllOfDevice"}
      /\ m.kind = "devices" => \A d : Asked(d)' <=> d \in m.paths
      /\ m.kind = "device" => \A d : Asked(d)' <=> d \in client_call.paths
  <2>1. CASE m.kind = "properties"
    <3>1. client_call' = Call("EnumerateDevices", {})
      BY <1>1, <2>1
    <3> HIDE DEF m
    <3> QED  BY <2>1, <3>1 DEF Call, CallType, Method, Asked, AskedBy
  <2>2. CASE m.kind = "devices"
    <3>1. client_call' = AskNext(m.paths) /\ m.paths \subseteq DevicePaths
      BY <1>1, <1>2, <2>2, MessageFacts
    <3> HIDE DEF m
    <3>2. /\ client_call' \in CallType /\ client_call'.method \in {"none", "GetAllOfDevice"}
          /\ client_call'.sent = TRUE => client_call'.method = "GetAllOfDevice"
          /\ \A d : AskedBy(client_call', d) <=> d \in m.paths
      BY <3>1, AskNextAsks
    <3> QED  BY <2>2, <3>2 DEF Method, Asked
  <2>3. CASE m.kind = "device"
    <3>1. client_call' = AskNext(client_call.paths) /\ client_call.paths \subseteq DevicePaths
      BY <1>1, <1>2, <2>3, CallFacts
    <3> HIDE DEF m
    <3>2. /\ client_call' \in CallType /\ client_call'.method \in {"none", "GetAllOfDevice"}
          /\ client_call'.sent = TRUE => client_call'.method = "GetAllOfDevice"
          /\ \A d : AskedBy(client_call', d) <=> d \in client_call.paths
      BY <3>1, AskNextAsks
    <3> QED  BY <2>3, <3>2 DEF Method, Asked
  <2> QED  BY <1>7, <2>1, <2>2, <2>3 DEF AnswersTo
<1>9. /\ m.kind # "device" => app_devices' = app_devices /\ DOMAIN app_devices = {}
      /\ m.kind = "device" =>
           /\ client_call.path \in DevicePaths /\ m.found \in BOOLEAN
           /\ DOMAIN app_devices' = DOMAIN app_devices \cup {client_call.path}
           /\ app_devices'[client_call.path] = m.found
           /\ \A d \in DOMAIN app_devices : d # client_call.path => app_devices'[d] = app_devices[d]
  <2>1. m.kind # "device" => DOMAIN app_devices = {}
    BY <1>7 DEF ClientIInv, Phases, AnswersTo
  <2>2. m.kind = "device" => client_call.path \in DevicePaths /\ m.found \in BOOLEAN
    BY <1>2, <1>7, CallFacts, MessageFacts DEF AnswersTo, Method
  <2>3. m.kind = "device" => app_devices' = DeviceIsKnown(client_call.path, m.found)
    BY <1>1
  <2>4. m.kind # "device" => app_devices' = app_devices
    BY <1>1
  <2> HIDE DEF m
  <2> QED  BY <2>1, <2>2, <2>3, <2>4 DEF DeviceIsKnown
<1>10. /\ m.kind = "properties" => cached_properties' = m.values
       /\ m.kind # "properties" => cached_properties' = cached_properties
  BY <1>1
<1> HIDE DEF m
<1>11. ClientTyped' /\ ChangesAreTold' /\ OneAnswer' /\ Phases'
  <2>1. ClientTyped'
    <3>1. DOMAIN app_devices' \subseteq DevicePaths
          /\ \A d \in DOMAIN app_devices' : app_devices'[d] \in BOOLEAN
      BY <1>9 DEF ClientIInv, ClientTyped
    <3> QED  BY <1>1, <1>3, <1>8, <3>1 DEF ClientIInv, ClientTyped
  <2>2. ChangesAreTold' /\ OneAnswer'
    BY <1>1, <1>4 DEF ClientIInv, ChangesAreTold, OneAnswer
  <2>3. Method' = "EnumerateDevices" => m.kind # "device"
    BY <1>8
  <2> QED  BY <1>8, <1>9, <2>1, <2>2, <2>3 DEF Phases, Awaited
<1>12. ASSUME NEW d \in DevicePaths PROVE DeviceIsSeen(d)'
  <2>1. DeviceIsSeen(d) /\ Now(d)' = Now(d) /\ ~Listed(d)'
    BY <1>1, <1>4 DEF ClientIInv, Now, Listed
  <2>2. LastSays(bus', "device", d, Now(d)')
        /\ (Waits(bus', "device", d) <=> Waits(bus, "device", d))
    BY <1>6, <2>1 DEF DeviceIsSeen
  <2>3. CASE m.kind = "properties"
    <3>1. ~Enumerated' /\ DOMAIN app_devices' = {}
      BY <1>4, <1>8, <1>9, <2>3 DEF Enumerated
    <3> QED  BY <1>4, <2>2, <3>1 DEF DeviceIsSeen
  <2>4. CASE m.kind = "devices"
    <3>1. Enumerated /\ DOMAIN app_devices' = {} /\ DOMAIN app_devices = {}
      BY <1>4, <1>9, <2>4 DEF Enumerated
    <3>2. ~Asked(d)
      BY <1>2, <1>7, <2>4, CallFacts DEF Asked, AskedBy, AnswersTo, Method
    <3>3. IsKnown(d)' <=> IsKnown(d)
      BY <1>4, <1>8, <2>1, <2>4, <3>1, <3>2 DEF IsKnown, Listed
    <3> QED  BY <1>1, <1>4, <2>1, <2>2, <3>1, <3>3 DEF DeviceIsSeen
  <2>5. CASE m.kind = "device"
    <3>1. Enumerated /\ Method = "GetAllOfDevice" /\ ~Listed(d)
      BY <1>4, <1>7, <2>5 DEF Enumerated, AnswersTo, Listed
    <3>2. Asked(d) <=> d \in client_call.paths \/ d = client_call.path
      BY <3>1 DEF Asked, AskedBy, Method
    <3>3. IsKnown(d)' <=> IsKnown(d)
      BY <1>8, <1>9, <2>1, <2>5, <3>1, <3>2 DEF IsKnown
    <3>4. ASSUME d \in DOMAIN app_devices', app_devices'[d] = FALSE
          PROVE  Waits(bus', "device", d) \/ Asked(d)'
      <4>1. CASE d = client_call.path
        BY <1>4, <1>9, <2>1, <2>2, <2>5, <3>4, <4>1 DEF DeviceIsSeen
      <4>2. CASE d # client_call.path
        <5>1. Waits(bus, "device", d) \/ Asked(d)
          BY <1>9, <2>1, <2>5, <3>4, <4>2 DEF DeviceIsSeen
        <5> QED  BY <1>8, <2>2, <2>5, <3>2, <4>2, <5>1
      <4> QED  BY <4>1, <4>2
    <3> QED  BY <1>1, <1>4, <2>1, <2>2, <3>1, <3>3, <3>4 DEF DeviceIsSeen
  <2> QED  BY <1>7, <2>3, <2>4, <2>5 DEF AnswersTo
<1>13. ASSUME NEW p \in DaemonProperties PROVE PropertyIsSeen(p)'
  <2>1. PropertyIsSeen(p) /\ ToldValue(p)' = ToldValue(p)
    BY <1>1 DEF ClientIInv, ToldValue
  <2>2. LastSays(bus', "property", p, ToldValue(p)')
        /\ (Waits(bus', "property", p) <=> Waits(bus, "property", p))
    BY <1>6, <2>1 DEF PropertyIsSeen
  <2>3. ASSUME p \notin unsure', ~Waits(bus', "property", p)
        PROVE  cached_properties'[p] = ToldValue(p)'
    <3>1. CASE m.kind = "properties"
      BY <1>1, <1>4, <1>10, <2>1, <2>2, <2>3, <3>1 DEF PropertyIsSeen
    <3>2. CASE m.kind # "properties"
      <4>1. Method \in {"none", "GetAllOfDevice", "EnumerateDevices"}
        BY <1>7, <3>2 DEF AnswersTo
      <4> QED  BY <1>1, <1>10, <2>1, <2>2, <2>3, <3>2, <4>1 DEF PropertyIsSeen
    <3> QED  BY <3>1, <3>2
  <2> QED  BY <1>4, <2>2, <2>3 DEF PropertyIsSeen
<1> QED  BY <1>11, <1>12, <1>13, Zenon DEF ClientIInv

\* A signal is handled when no call waits.
LEMMA SignalKeeps ==
  ASSUME ClientIInv, ClientHandlesSignal
  PROVE  ClientIInv'
<1> DEFINE m == Head(bus)
<1>1. /\ Method = "none" /\ bus # <<>> /\ bus' = Tail(bus)
      /\ \/ /\ m.kind = "changed" /\ ProxyPropertiesChanged(m.values)
            /\ UNCHANGED <<client_call, app_devices>>
         \/ /\ m.kind = "added" /\ client_call' = AskNext({m.path})
            /\ UNCHANGED <<cached_properties, app_devices>>
         \/ /\ m.kind = "removed" /\ ClientDeviceRemoved(m.path)
            /\ UNCHANGED <<client_call, cached_properties>>
      /\ UNCHANGED <<properties, changed_properties, idle_source, exported_devices, unsure>>
  BY DEF ClientHandlesSignal, Method, skeletonVars
<1>2. bus \in Seq(BusMessage) /\ SingleAnswer(bus) /\ client_call \in CallType
  BY DEF ClientIInv, ClientTyped, OneAnswer
<1>3. /\ bus' \in Seq(BusMessage) /\ Without(bus, bus', 1) /\ 1 \in 1..Len(bus) /\ m = bus[1]
      /\ m \in BusMessage
  <2>1. bus \in Seq(BusMessage) /\ bus # <<>> /\ bus' = Tail(bus)
    BY <1>1, <1>2
  <2>2. bus' \in Seq(BusMessage) /\ Without(bus, bus', 1) /\ 1 \in 1..Len(bus) /\ m = bus[1]
    BY <2>1, TailIsWithout
  <2>3. bus[1] \in BusMessage
    BY <2>1, <2>2
  <2> QED  BY <2>2, <2>3
<1>4. ~IsReply(m)
  BY <1>1, SignalFacts
<1>5. Pending(bus) = {} /\ client_call.paths = {}
  BY <1>1, <1>2, CallFacts DEF ClientIInv, OneAnswer, AnswersTo, Method
<1>6. SingleAnswer(bus') /\ Pending(bus') = {}
  BY <1>2, <1>3, <1>4, <1>5, TakenAnswers
<1>7. \A what, x :
        /\ Waits(bus', what, x) => Waits(bus, what, x)
        /\ Waits(bus, what, x) => Waits(bus', what, x) \/ About(m, what, x)
        /\ \A it : LastSays(bus, what, x, it) =>
             /\ LastSays(bus', what, x, it)
             /\ About(m, what, x) => Waits(bus', what, x) \/ Says(m, what, x) = it
  BY <1>3, TakenSays
<1>8. /\ m.kind # "changed" => cached_properties' = cached_properties
      /\ m.kind = "changed" => \A p \in DaemonProperties :
           cached_properties'[p] =
             IF p \in DOMAIN m.values THEN m.values[p] ELSE cached_properties[p]
  BY <1>1 DEF ProxyPropertiesChanged
<1>9. /\ m.kind # "added" => client_call' = client_call
      /\ m.kind = "added" => m.path \in DevicePaths /\ client_call' = AskNext({m.path})
  BY <1>1, <1>3, MessageFacts
<1>10. /\ m.kind # "removed" => app_devices' = app_devices
       /\ m.kind = "removed" =>
            /\ DOMAIN app_devices' = DOMAIN app_devices \ {m.path}
            /\ \A d \in DOMAIN app_devices : d # m.path => app_devices'[d] = app_devices[d]
  BY <1>1 DEF ClientDeviceRemoved
<1>11. /\ client_call' \in CallType /\ Method' \in {"none", "GetAllOfDevice"}
       /\ client_call'.sent = TRUE => Method' = "GetAllOfDevice"
       /\ \A d : Asked(d)' <=> m.kind = "added" /\ d = m.path
  <2>1. CASE m.kind = "added"
    <3>1. client_call' = AskNext({m.path}) /\ {m.path} \subseteq DevicePaths
      BY <1>9, <2>1
    <3> HIDE DEF m
    <3>2. /\ client_call' \in CallType /\ client_call'.method \in {"none", "GetAllOfDevice"}
          /\ client_call'.sent = TRUE => client_call'.method = "GetAllOfDevice"
          /\ \A d : AskedBy(client_call', d) <=> d \in {m.path}
      BY <3>1, AskNextAsks
    <3> QED  BY <2>1, <3>2 DEF Method, Asked
  <2>2. CASE m.kind # "added"
    <3>1. client_call' = client_call /\ client_call.sent # TRUE
      BY <1>1, <1>9, <2>2 DEF ClientIInv, Phases, Awaited
    <3> HIDE DEF m
    <3> QED  BY <1>1, <1>2, <1>5, <2>2, <3>1 DEF Method, Asked, AskedBy
  <2> QED  BY <2>1, <2>2
<1>12. m.kind \in {"changed", "added", "removed"}
  BY <1>1
<1> HIDE DEF m
<1>13. ClientTyped' /\ ChangesAreTold' /\ OneAnswer' /\ Phases'
  <2>1. DOMAIN app_devices' \subseteq DevicePaths
          /\ \A d \in DOMAIN app_devices' : app_devices'[d] \in BOOLEAN
    BY <1>10 DEF ClientIInv, ClientTyped
  <2>2. ClientTyped'
    BY <1>1, <1>3, <1>11, <2>1 DEF ClientIInv, ClientTyped
  <2>3. ChangesAreTold' /\ OneAnswer'
    BY <1>1, <1>6 DEF ClientIInv, ChangesAreTold, OneAnswer
  <2> QED  BY <1>11, <2>2, <2>3 DEF Phases, Awaited
<1>14. ASSUME NEW d \in DevicePaths PROVE DeviceIsSeen(d)'
  <2>1. DeviceIsSeen(d) /\ Now(d)' = Now(d) /\ ~Listed(d)' /\ ~Listed(d) /\ ~Asked(d) /\ Enumerated
    BY <1>1, <1>5, <1>6 DEF ClientIInv, Now, Listed, Asked, AskedBy, Enumerated, Method
  <2>2. LastSays(bus, "device", d, Now(d))
    BY <2>1 DEF DeviceIsSeen
  <2>3. LastSays(bus', "device", d, Now(d)')
    BY <1>7, <2>1, <2>2
  <2>4. CASE About(m, "device", d)
    <3>1. m.kind \in {"added", "removed"} /\ m.path = d /\ Says(m, "device", d) = m.kind
      BY <2>4, SignalFacts
    <3>2. Waits(bus', "device", d) \/ m.kind = Now(d)
      BY <1>7, <2>2, <2>4, <3>1
    <3>3. IsKnown(d)' <=> m.kind = "added"
      BY <1>10, <1>11, <2>1, <3>1 DEF IsKnown
    <3>4. ~Waits(bus', "device", d) => (IsKnown(d)' <=> d \in exported_devices')
      BY <1>1, <3>1, <3>2, <3>3 DEF Now
    <3>5. d \in DOMAIN app_devices' => Asked(d)'
      BY <1>10, <1>11, <3>1
    <3> QED  BY <1>6, <2>3, <3>4, <3>5 DEF DeviceIsSeen
  <2>5. CASE ~About(m, "device", d)
    <3>1. ~(m.kind \in {"added", "removed"} /\ m.path = d)
      BY <2>5, SignalFacts
    <3>2. Waits(bus', "device", d) <=> Waits(bus, "device", d)
      BY <1>7, <2>5
    <3>3. /\ d \in DOMAIN app_devices' <=> d \in DOMAIN app_devices
          /\ d \in DOMAIN app_devices => app_devices'[d] = app_devices[d]
          /\ ~Asked(d)'
      BY <1>10, <1>11, <3>1
    <3>4. IsKnown(d)' <=> IsKnown(d)
      BY <2>1, <3>3 DEF IsKnown
    <3> QED  BY <1>1, <1>6, <2>1, <2>3, <3>2, <3>3, <3>4 DEF DeviceIsSeen
  <2> QED  BY <2>4, <2>5
<1>15. ASSUME NEW p \in DaemonProperties PROVE PropertyIsSeen(p)'
  <2>1. PropertyIsSeen(p) /\ ToldValue(p)' = ToldValue(p)
    BY <1>1 DEF ClientIInv, ToldValue
  <2>2. LastSays(bus, "property", p, ToldValue(p))
    BY <2>1 DEF PropertyIsSeen
  <2>3. LastSays(bus', "property", p, ToldValue(p)')
    BY <1>7, <2>1, <2>2
  <2>4. ASSUME p \notin unsure', ~Waits(bus', "property", p)
        PROVE  cached_properties'[p] = ToldValue(p)'
    <3>1. CASE About(m, "property", p)
      <4>1. m.kind = "changed" /\ p \in DOMAIN m.values /\ Says(m, "property", p) = m.values[p]
        BY <3>1, SignalFacts
      <4>2. Says(m, "property", p) = ToldValue(p)
        BY <1>7, <2>2, <2>4, <3>1
      <4> QED  BY <1>8, <2>1, <4>1, <4>2
    <3>2. CASE ~About(m, "property", p)
      <4>1. cached_properties'[p] = cached_properties[p]
        BY <1>8, <3>2, SignalFacts
      <4>2. ~Waits(bus, "property", p)
        BY <1>7, <2>4, <3>2
      <4> QED  BY <1>1, <2>1, <2>4, <4>1, <4>2 DEF PropertyIsSeen
    <3> QED  BY <3>1, <3>2
  <2> QED  BY <1>6, <2>3, <2>4 DEF PropertyIsSeen
<1> QED  BY <1>13, <1>14, <1>15, Zenon DEF ClientIInv

-----------------------------------------------------------------------------
(* The theorem.                                                            *)

LEMMA InitClient == ClientInit => ClientIInv
<1> SUFFICES ASSUME ClientInit PROVE ClientIInv
  OBVIOUS
<1>1. /\ bus = <<>> /\ DOMAIN app_devices = {} /\ DOMAIN changed_properties = {}
      /\ client_call \in CallType /\ Method = "connect" /\ client_call.sent = FALSE
      /\ properties \in [DaemonProperties -> BOOLEAN] /\ idle_source = FALSE
      /\ exported_devices = {}
  BY DEF ClientInit, SkeletonInit, Idle, CallType, Method, Nothing
<1>2. /\ Pending(bus) = {} /\ SingleAnswer(bus)
      /\ \A what, x : ~Waits(bus, what, x) /\ \A it : LastSays(bus, what, x, it)
  BY <1>1, EmptyBus
<1>3. ClientTyped /\ ChangesAreTold /\ OneAnswer /\ Phases
  <2>1. bus \in Seq(BusMessage)
    BY <1>1
  <2> QED  BY <1>1, <1>2, <2>1 DEF ClientTyped, ChangesAreTold, OneAnswer, Phases
<1>4. \A d \in DevicePaths : DeviceIsSeen(d)
  <2>1. ~Enumerated
    BY <1>1, <1>2 DEF Enumerated
  <2> QED  BY <1>1, <1>2, <2>1 DEF DeviceIsSeen
<1>5. \A p \in DaemonProperties : PropertyIsSeen(p)
  BY <1>1, <1>2 DEF PropertyIsSeen
<1> QED  BY <1>3, <1>4, <1>5, Zenon DEF ClientIInv

LEMMA ClientStep == ClientIInv /\ [ClientNext]_clientVars => ClientIInv'
<1> SUFFICES ASSUME ClientIInv, [ClientNext]_clientVars PROVE ClientIInv'
  OBVIOUS
<1>1. CASE UNCHANGED clientVars
  <2>1. UNCHANGED <<properties, changed_properties, idle_source, exported_devices, bus, client_call,
                   cached_properties, app_devices, unsure>>
    BY <1>1 DEF clientVars, skeletonVars, appVars
  <2>2. ClientTyped' /\ ChangesAreTold' /\ OneAnswer' /\ Phases'
    BY <2>1 DEF ClientIInv, ClientTyped, ChangesAreTold, OneAnswer, Phases, Method
  <2>3. \A d \in DevicePaths : DeviceIsSeen(d)'
    BY <2>1, DeviceStays DEF ClientIInv
  <2>4. \A p \in DaemonProperties : PropertyIsSeen(p)'
    <3>1. \A p \in DaemonProperties : ToldValue(p)' = ToldValue(p)
      BY <2>1 DEF ToldValue
    <3> QED  BY <2>1, <3>1, PropertyStays DEF ClientIInv
  <2> QED  BY <2>2, <2>3, <2>4, Zenon DEF ClientIInv
<1>2. CASE ClientNext
  BY <1>2, SetKeeps, EmitKeeps, ListKeeps, AnswerKeeps, NewKeeps, ReplyKeeps, SignalKeeps
     DEF ClientNext
<1> QED  BY <1>1, <1>2

LEMMA ClientGoal == ClientIInv => ClientSeesDaemon
<1> SUFFICES ASSUME ClientIInv, client_call.method = "none", bus = <<>>, idle_source = FALSE
             PROVE  /\ DOMAIN app_devices = exported_devices
                    /\ \A d \in exported_devices : app_devices[d]
                    /\ \A p \in DaemonProperties \ unsure : cached_properties[p] = properties[p]
  BY DEF ClientSeesDaemon, ClientQuiet, ClientIInv, ClientTyped
<1>1. Pending(bus) = {} /\ \A what, x : ~Waits(bus, what, x)
  BY EmptyBus
<1>2. Enumerated /\ \A d : ~Asked(d) /\ ~Listed(d)
  <2>1. client_call.paths = {}
    BY CallFacts DEF ClientIInv, ClientTyped
  <2> QED  BY <1>1, <2>1 DEF Enumerated, Asked, AskedBy, Listed, Method
<1>3. \A d \in DevicePaths : d \in DOMAIN app_devices <=> d \in exported_devices
  BY <1>1, <1>2 DEF ClientIInv, DeviceIsSeen, IsKnown
<1>4. \A d \in DevicePaths : d \in DOMAIN app_devices => app_devices[d] # FALSE
  BY <1>1, <1>2 DEF ClientIInv, DeviceIsSeen
<1>5. DOMAIN app_devices \subseteq DevicePaths /\ exported_devices \subseteq DevicePaths
  BY DEF ClientIInv, ClientTyped
<1>6. \A d \in exported_devices : app_devices[d]
  BY <1>3, <1>4, <1>5 DEF ClientIInv, ClientTyped
<1>7. \A p \in DaemonProperties : ToldValue(p) = properties[p]
  BY DEF ClientIInv, ChangesAreTold, ToldValue
<1>8. \A p \in DaemonProperties \ unsure : cached_properties[p] = properties[p]
  BY <1>1, <1>7 DEF ClientIInv, PropertyIsSeen, Method
<1> QED  BY <1>3, <1>5, <1>6, <1>8

\* Once nothing is on its way the application has the daemon's devices, each with its
\* properties, and the daemon's properties, whatever came and went before, during and
\* after its blocking calls, however many signals were overtaken by an answer:
\* up_client_get_devices2(), up_client_add(), up_device_removed_cb() and
\* _up_exported_daemon_emit_changed().
THEOREM ClientSafety == ClientSpec => []ClientSeesDaemon
<1>1. ClientSpec => []ClientIInv
  BY InitClient, ClientStep, PTL DEF ClientSpec
<1> QED  BY <1>1, ClientGoal, PTL

-----------------------------------------------------------------------------
(* Type correctness.                                                       *)

Values == [DaemonProperties -> BOOLEAN]

\* What the variables are that ClientTyped does not speak of; a client that has
\* read the properties has a value of each.
ClientRest ==
  /\ cached_properties = Nothing \/ cached_properties \in Values
  /\ Method \in {"EnumerateDevices", "GetAllOfDevice", "none"} => cached_properties \in Values
  /\ unsure \subseteq DaemonProperties /\ daemon_events \in 0..MaxDaemonEvents

\* Of what is not read or forgotten nothing changes.
LEMMA RestStays ==
  ASSUME ClientRest, UNCHANGED cached_properties,
         Method' = Method \/ Method' \in {"connect", "GetAll"}
           \/ Method \in {"EnumerateDevices", "GetAllOfDevice", "none"},
         unsure' \subseteq DaemonProperties, daemon_events' \in 0..MaxDaemonEvents
  PROVE  ClientRest'
BY DEF ClientRest

LEMMA EventTyped ==
  ASSUME daemon_events \in 0..MaxDaemonEvents, Event
  PROVE  daemon_events' \in 0..MaxDaemonEvents
BY ClientAssumption DEF Event

LEMMA ValuesRead ==
  ASSUME NEW m \in BusMessage
  PROVE  /\ m.kind = "properties" => m.values \in Values
         /\ m.kind = "changed" => \A p \in DOMAIN m.values : m.values[p] \in BOOLEAN
BY DEF BusMessage, Values

LEMMA ClientRestStep ==
  ASSUME ClientIInv, ClientRest, [ClientNext]_clientVars
  PROVE  ClientRest'
<1>1. /\ bus \in Seq(BusMessage) /\ unsure \subseteq DaemonProperties
      /\ daemon_events \in 0..MaxDaemonEvents /\ Differing \subseteq DaemonProperties
  BY DEF ClientIInv, ClientTyped, ClientRest, Differing
<1>2. CASE SetProperty \/ DeviceAdded \/ DeviceRemoved
  <2>1. UNCHANGED <<cached_properties, client_call, unsure>> /\ Event
    BY <1>2, Zenon DEF SetProperty, DeviceAdded, DeviceRemoved, appVars
  <2>2. Method' = Method
    BY <2>1 DEF Method
  <2>3. daemon_events' \in 0..MaxDaemonEvents
    BY <1>1, <2>1, EventTyped
  <2> QED  BY <1>1, <2>1, <2>2, <2>3, RestStays
<1>3. CASE EmitChanged
  <2>1. /\ UNCHANGED <<cached_properties, client_call, daemon_events>>
        /\ unsure' = unsure \ Differing
    BY <1>3 DEF EmitChanged, appVars
  <2>2. Method' = Method
    BY <2>1 DEF Method
  <2> QED  BY <1>1, <2>1, <2>2, RestStays
<1>4. CASE HandleMethodCall
  <2>1. /\ UNCHANGED <<cached_properties, daemon_events>>
        /\ unsure' \subseteq DaemonProperties
        /\ client_call' = [client_call EXCEPT !.sent = FALSE]
    BY <1>1, <1>4 DEF HandleMethodCall
  <2>2. client_call \in CallType
    BY DEF ClientIInv, ClientTyped
  <2>3. Method' = Method
    BY <2>1, <2>2 DEF Method, CallType
  <2> QED  BY <1>1, <2>1, <2>3, RestStays
<1>5. CASE ClientNew
  <2>1. UNCHANGED <<cached_properties, daemon_events, unsure>> /\ Method' = "GetAll"
    BY <1>5 DEF ClientNew, Method, Call
  <2> QED  BY <1>1, <2>1, RestStays
<1>6. CASE ClientFinalize
  <2>1. /\ cached_properties' = Nothing /\ unsure' = {} /\ UNCHANGED daemon_events
        /\ Method' = "connect"
    BY <1>6 DEF ClientFinalize, Idle, Method
  <2> QED  BY <1>1, <2>1 DEF ClientRest
<1>7. CASE ClientGetsReply
  <2>1. PICK i \in DOMAIN bus :
          /\ IsReply(bus[i])
          /\ \/ /\ bus[i].kind = "properties"
                /\ cached_properties' = bus[i].values
             \/ /\ bus[i].kind = "devices"
                /\ UNCHANGED cached_properties
             \/ /\ bus[i].kind = "device"
                /\ UNCHANGED cached_properties
          /\ UNCHANGED <<skeletonVars, exported_devices, unsure, daemon_events>>
    BY <1>7, Zenon DEF ClientGetsReply
  <2>2. bus[i] \in BusMessage /\ i \in 1..Len(bus)
    BY <1>1
  <2>3. CASE bus[i].kind = "properties"
    <3>1. cached_properties' \in Values
      BY <2>1, <2>2, <2>3, ValuesRead
    <3> QED  BY <1>1, <2>1, <3>1 DEF ClientRest
  <2>4. CASE bus[i].kind \in {"devices", "device"}
    <3>1. bus[i] \in Pending(bus)
      BY <2>1, <2>2 DEF Pending
    <3>2. Method \in {"EnumerateDevices", "GetAllOfDevice"}
      BY <2>4, <3>1 DEF ClientIInv, OneAnswer, AnswersTo
    <3>3. UNCHANGED <<cached_properties, unsure, daemon_events>>
      BY <2>1, <2>4
    <3> QED  BY <1>1, <3>2, <3>3, RestStays
  <2> QED  BY <2>1, <2>3, <2>4
<1>8. CASE ClientHandlesSignal
  <2> DEFINE m == Head(bus)
  <2>1. /\ Method = "none"
        /\ \/ m.kind = "changed" /\ ProxyPropertiesChanged(m.values)
           \/ m.kind \in {"added", "removed"} /\ UNCHANGED cached_properties
        /\ UNCHANGED <<unsure, daemon_events>>
    BY <1>8 DEF ClientHandlesSignal, Method
  <2>2. m \in BusMessage
    BY <1>1, <1>8 DEF ClientHandlesSignal
  <2>3. CASE m.kind = "changed" /\ ProxyPropertiesChanged(m.values)
    <3>1. cached_properties \in Values
      BY <2>1 DEF ClientRest
    <3>2. \A p \in DOMAIN m.values : m.values[p] \in BOOLEAN
      BY <2>2, <2>3, ValuesRead
    <3> HIDE DEF m
    <3>3. cached_properties' \in Values
      BY <2>3, <3>1, <3>2 DEF ProxyPropertiesChanged, Values
    <3> QED  BY <1>1, <2>1, <3>3 DEF ClientRest
  <2>4. CASE UNCHANGED cached_properties
    BY <1>1, <2>1, <2>4, RestStays
  <2> QED  BY <2>1, <2>3, <2>4
<1>9. CASE UNCHANGED clientVars
  BY <1>9 DEF ClientRest, clientVars, appVars, Method
<1> QED
  BY <1>2, <1>3, <1>4, <1>5, <1>6, <1>7, <1>8, <1>9, Zenon DEF ClientNext

\* The invariant with all the types.
ClientAll == ClientIInv /\ ClientRest

LEMMA ClientInitAll == ClientInit => ClientAll
<1>1. ASSUME ClientInit PROVE ClientRest
  <2>1. cached_properties = Nothing /\ unsure = {} /\ daemon_events = 0 /\ Method = "connect"
    BY <1>1 DEF ClientInit, Idle, Method
  <2> QED  BY <2>1, ClientAssumption DEF ClientRest
<1> QED  BY <1>1, InitClient DEF ClientAll

LEMMA ClientStepAll == ClientAll /\ [ClientNext]_clientVars => ClientAll'
BY ClientStep, ClientRestStep DEF ClientAll

LEMMA ClientTypesFollow == ClientAll => ClientTypeOK
<1> SUFFICES ASSUME ClientAll PROVE ClientTypeOK
  OBVIOUS
<1>1. ClientTyped /\ ClientRest
  BY DEF ClientAll, ClientIInv
<1>2. ASSUME NEW i \in DOMAIN bus
      PROVE  bus[i].kind \in {"changed", "added", "removed", "properties", "devices", "device"}
  <2>1. bus[i] \in BusMessage
    BY <1>1 DEF ClientTyped
  <2> QED  BY <2>1, MessageFacts
<1>3. /\ client_call.method \in {"connect", "none", "GetAll", "EnumerateDevices", "GetAllOfDevice"}
      /\ client_call.paths \subseteq DevicePaths
  BY <1>1, CallFacts DEF ClientTyped, Awaited
<1> QED  BY <1>1, <1>2, <1>3, Zenon DEF ClientTyped, ClientRest, ClientTypeOK, Values

-----------------------------------------------------------------------------
(***************************************************************************)
(* The services together: each keeps its own invariant, and none touches   *)
(* what another one's is about.                                            *)
(***************************************************************************)

ServicesIInv ==
  /\ HistoryIInv /\ WakeupsTyped /\ LidIInv /\ KbdIInv /\ HidppAll /\ BluezIInv /\ LogindIInv
  /\ BatteryIInv /\ ApmIInv /\ AcpiAll /\ WupIInv /\ CsrIInv /\ IdeviceIInv /\ ClientAll

\* What a step of the services is to each of them: one of its own, or none.
EachStep ==
  /\ [HistoryNext]_historyVars /\ [WakeupsNext]_wakeupsVars /\ [LidNext]_lidVars
  /\ [KbdNext]_kbdVars /\ [HidppNext]_hidppVars /\ [BluezNext]_bluezVars
  /\ [LogindNext]_logindVars /\ [BatteryNext]_batteryVars /\ [ApmNext]_apmVars
  /\ [AcpiNext]_acpiVars /\ [WupNext]_wupVars /\ [CsrNext]_csr /\ [IdeviceNext]_idevice
  /\ [ClientNext]_clientVars

LEMMA OneServiceSteps == [ServicesNext]_servicesVars => EachStep
<1> SUFFICES ASSUME [ServicesNext]_servicesVars PROVE EachStep
  OBVIOUS
<1>1. ASSUME Alone("history"), HistoryNext PROVE EachStep
  BY <1>1, Zenon DEF Alone, EachStep
<1>2. ASSUME Alone("wakeups"), WakeupsNext PROVE EachStep
  BY <1>2, Zenon DEF Alone, EachStep
<1>3. ASSUME Alone("lid"), LidNext PROVE EachStep
  BY <1>3, Zenon DEF Alone, EachStep
<1>4. ASSUME Alone("kbd"), KbdNext PROVE EachStep
  BY <1>4, Zenon DEF Alone, EachStep
<1>5. ASSUME Alone("hidpp"), HidppNext PROVE EachStep
  BY <1>5, Zenon DEF Alone, EachStep
<1>6. ASSUME Alone("bluez"), BluezNext PROVE EachStep
  BY <1>6, Zenon DEF Alone, EachStep
<1>7. ASSUME Alone("logind"), LogindNext PROVE EachStep
  BY <1>7, Zenon DEF Alone, EachStep
<1>8. ASSUME Alone("battery"), BatteryNext PROVE EachStep
  BY <1>8, Zenon DEF Alone, EachStep
<1>9. ASSUME Alone("apm"), ApmNext PROVE EachStep
  BY <1>9, Zenon DEF Alone, EachStep
<1>10. ASSUME Alone("acpi"), AcpiNext PROVE EachStep
  BY <1>10, Zenon DEF Alone, EachStep
<1>11. ASSUME Alone("wup"), WupNext PROVE EachStep
  BY <1>11, Zenon DEF Alone, EachStep
<1>12. ASSUME Alone("csr"), CsrNext PROVE EachStep
  BY <1>12, Zenon DEF Alone, EachStep
<1>13. ASSUME Alone("idevice"), IdeviceNext PROVE EachStep
  BY <1>13, Zenon DEF Alone, EachStep
<1>14. ASSUME Alone("client"), ClientNext PROVE EachStep
  BY <1>14, Zenon DEF Alone, EachStep
<1>15. ASSUME UNCHANGED servicesVars PROVE EachStep
  BY <1>15, Zenon DEF servicesVars, peripheralsVars, wupVars, EachStep
<1> QED
  BY <1>1, <1>2, <1>3, <1>4, <1>5, <1>6, <1>7, <1>8, <1>9, <1>10, <1>11, <1>12, <1>13, <1>14,
     <1>15, Zenon DEF ServicesNext

LEMMA PeripheralsStepOneByOne ==
  ASSUME WupIInv, CsrIInv, IdeviceIInv, [WupNext]_wupVars, [CsrNext]_csr,
         [IdeviceNext]_idevice
  PROVE  WupIInv' /\ CsrIInv' /\ IdeviceIInv'
<1>1. WupIInv'
  <2>1. CASE UNCHANGED wupVars
    BY <2>1 DEF wupVars, WupIInv
  <2> QED  BY <2>1, WupStepIInv
<1>2. CsrIInv'
  <2>1. CASE UNCHANGED csr
    BY <2>1 DEF CsrIInv
  <2> QED  BY <2>1, CsrStepIInv
<1>3. IdeviceIInv'
  <2>1. CASE UNCHANGED idevice
    BY <2>1 DEF IdeviceIInv
  <2> QED  BY <2>1, IdeviceStepIInv
<1> QED  BY <1>1, <1>2, <1>3

LEMMA ServicesStep == ServicesIInv /\ [ServicesNext]_servicesVars => ServicesIInv'
<1> SUFFICES ASSUME ServicesIInv, EachStep PROVE ServicesIInv'
  BY OneServiceSteps
<1>1. HistoryIInv' /\ WakeupsTyped' /\ LidIInv' /\ KbdIInv'
  BY HistoryStepIInv, HistoryAssumption, WakeupsStepTyped, LidStepIInv, KbdStepIInv, Zenon
  DEF ServicesIInv, EachStep
<1>2. HidppAll' /\ BluezIInv' /\ LogindIInv'
  BY HidppStepAll, BluezStep, LogindStepIInv, Zenon DEF ServicesIInv, EachStep
<1>3. BatteryIInv' /\ ApmIInv' /\ AcpiAll' /\ ClientAll'
  BY BatteryStep, ApmStep, AcpiStepAll, ClientStepAll, Zenon DEF ServicesIInv, EachStep
<1>4. WupIInv' /\ CsrIInv' /\ IdeviceIInv'
  BY PeripheralsStepOneByOne, Zenon DEF ServicesIInv, EachStep
<1> QED
  BY <1>1, <1>2, <1>3, <1>4, Zenon DEF ServicesIInv

LEMMA ServicesStart == ServicesInit => ServicesIInv
<1> SUFFICES ASSUME ServicesInit PROVE ServicesIInv
  OBVIOUS
<1>1. HistoryIInv /\ WakeupsTyped /\ LidIInv /\ KbdIInv
  BY HistoryInitIInv, HistoryAssumption, WakeupsInitTyped, LidInitIInv, KbdInitIInv, Zenon
  DEF ServicesInit
<1>2. HidppAll /\ BluezIInv /\ LogindIInv
  BY HidppInitAll, InitBluez, LogindInitIInv, Zenon DEF ServicesInit
<1>3. BatteryIInv /\ ApmIInv /\ AcpiAll /\ ClientAll
  BY BatteryInitially, ApmInitIsGood, AcpiInitAll, ClientInitAll, Zenon DEF ServicesInit
<1>4. WupIInv /\ CsrIInv /\ IdeviceIInv
  BY PeripheralsInitIInv, Zenon DEF ServicesInit, PeripheralsIInv
<1> QED
  BY <1>1, <1>2, <1>3, <1>4, Zenon DEF ServicesIInv

LEMMA HistoryTypesFollow == HistoryIInv => HistoryTypeOK
<1> SUFFICES ASSUME HistoryIInv PROVE HistoryTypeOK
  OBVIOUS
<1>1. MemoryTyped(Memory)
  BY Zenon DEF HistoryIInv, MemoryInv
<1>2. /\ samples \in [Histories -> Lists] /\ files \in [Histories -> Lists]
      /\ save_id \in BOOLEAN /\ save_live \in BOOLEAN /\ save_failed \in BOOLEAN
  <2>1. /\ Memory.samples = samples /\ Memory.files = files /\ Memory.save_id = save_id
        /\ Memory.save_live = save_live /\ Memory.save_failed = save_failed
    BY DEF Memory
  <2>2. /\ Memory.samples \in [Histories -> Lists] /\ Memory.files \in [Histories -> Lists]
        /\ Memory.save_id \in BOOLEAN /\ Memory.save_live \in BOOLEAN
        /\ Memory.save_failed \in BOOLEAN
    BY <1>1 DEF MemoryTyped
  <2> QED  BY <2>1, <2>2, Zenon
<1>3. Lists \subseteq Seq(Item)
  BY DEF Lists
<1>4. ASSUME NEW k \in Histories PROVE samples[k] \in Seq(Item) /\ files[k] \in Seq(Item)
  BY <1>2, <1>3, Zenon
<1> QED
  BY <1>2, <1>4, Zenon DEF HistoryIInv, HistoryTypeOK

LEMMA BatteryTypesFollow == BatteryIInv => BatteryTypeOK
<1> SUFFICES ASSUME BatteryTypes PROVE BatteryTypeOK
  BY DEF BatteryIInv
<1>1. ASSUME NEW f \in KnownFiles PROVE f \in BatteryFile /\ f.cell \in Nat /\ f.full \in Nat
  BY DEF KnownFiles, BatteryFile
<1>2. bat_files.cell <= bat_files.full
  <2>1. bat_files.full \in Nat /\ bat_files.cell \in 0..bat_files.full
    BY <1>1 DEF BatteryTypes, KnownFiles, CellLevels
  <2> QED  BY <2>1
<1>3. /\ bat_priv.ring \in [Slots -> [energy : Nat, time : 0..MaxBatteryClock]]
      /\ bat_priv.first \in Slots /\ bat_priv.units \in {"energy", "charge"}
  BY DEF BatteryTypes, BatteryPrivs, RingSlot
<1>4. bat_shown.energy \in Nat /\ bat_shown.full \in Nat /\ bat_shown.read \in KnownFiles
  BY DEF BatteryTypes
<1> QED
  BY <1>1, <1>2, <1>3, <1>4, Zenon DEF BatteryTypes, BatteryTypeOK

\* The variables of all the services keep their types, in each of the runs of a
\* service beside the others.
THEOREM ServicesTypeSafety == ServicesSpec => []ServicesTypeOK
<1>1. ServicesIInv => ServicesTypeOK
  <2> SUFFICES ASSUME ServicesIInv PROVE ServicesTypeOK
    OBVIOUS
  <2>1. HistoryTypeOK /\ BatteryTypeOK /\ HidppTypeOK /\ AcpiTypeOK /\ ClientTypeOK
    BY HistoryTypesFollow, BatteryTypesFollow, HidppTypesFollow, AcpiTypesFollow,
       ClientTypesFollow, Zenon DEF ServicesIInv
  <2>2. WakeupsTypeOK /\ KbdTypeOK /\ LogindTypeOK /\ ApmTypeOK
    BY Zenon DEF ServicesIInv, WakeupsTyped, KbdIInv, LogindIInv, ApmIInv
  <2>3. LidTypeOK
    BY DEF ServicesIInv, LidIInv, LidTypeOK
  <2>4. BluezTypeOK
    <3>1. BluezTyped
      BY Zenon DEF ServicesIInv, BluezIInv
    <3>2. ASSUME NEW d \in bluez_devices
          PROVE  d.path \in BluezObjects /\ d.percentage \in BluezLevels \cup {0}
      BY <3>1 DEF BluezTyped, BluezDevice
    <3> QED  BY <3>1, <3>2, Zenon DEF BluezTyped, BluezTypeOK
  <2>5. PeripheralsTypeOK
    BY Zenon DEF ServicesIInv, WupIInv, WupType, CsrIInv, IdeviceIInv, IdeviceType,
                 PeripheralsTypeOK
  <2> QED
    BY <2>1, <2>2, <2>3, <2>4, <2>5, Zenon DEF ServicesTypeOK
<1>2. ServicesIInv /\ [ServicesNext]_servicesVars => ServicesIInv'
  BY ServicesStep
<1> QED
  BY <1>1, <1>2, ServicesStart, PTL DEF ServicesSpec, servicesVars
=============================================================================
