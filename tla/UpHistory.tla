----------------------------- MODULE UpHistory -----------------------------
(***************************************************************************)
(* The history of one device (src/up-history.c): samples of its charge,    *)
(* rate and times, kept in memory, saved in batches by a timer or at once  *)
(* at low power, and loaded again when the device comes back.  The daemon  *)
(* may be killed between any two handlers, and the disk may be full.       *)
(*                                                                         *)
(* Values are integers.  Time is the clock that stamps the samples; it     *)
(* moves only forward here.  A missing file and an empty one load alike.   *)
(***************************************************************************)
EXTENDS UpTypes, Integers, SequencesExt

CONSTANTS
  Reading,        \* readings: a state and one value per kind of history
  MaxDataAge,     \* samples older than this are not saved
  Failing,        \* files whose write may fail
  Epoch,          \* what a gfloat is made of is the time since 1970: here the clock's 0
  FloatDigits,    \* binary digits of a gfloat: 24
  FloatExponents, \* exponents of its last digit: -149..104
  MaxTime,        \* bound: the clock
  MaxSamples      \* bound: samples of one kind in memory

Histories == {"rate", "charge", "time_full", "time_empty"}

ASSUME HistoryAssumption ==
  /\ \A r \in Reading : r.state \in DeviceState /\ r.value \in [Histories -> Int]
  /\ Failing \subseteq Histories
  /\ Epoch \in Nat /\ FloatDigits \in Nat \ {0} /\ FloatExponents \subseteq Int
  /\ MaxDataAge \in Nat /\ MaxTime \in Nat /\ MaxSamples \in Nat \ {0}

VARIABLES
  history_id,     \* the history has an id, and so a name for its files
  history_state,  \* the state of the last refresh
  last,           \* the last recorded value of each kind
  samples,        \* data_rate, data_charge, data_time_full, data_time_empty
  save_id,        \* the field says that a save is scheduled
  save_live,      \* the main loop has the timer
  files,          \* the samples on disk
  save_failed,    \* the last save was incomplete (history variable)
  now             \* the clock

historyVars == <<history_id, history_state, last, samples, save_id, save_live,
                 files, save_failed, now>>

Item == [time : 0..MaxTime, value : Int, state : DeviceState]

\* The order of up_history_save_data().
SaveOrder == <<"rate", "charge", "time_full", "time_empty">>

\* What a handler works on.
Memory == [samples |-> samples, save_id |-> save_id, save_live |-> save_live,
           files |-> files, save_failed |-> save_failed]
SetMemory(m) ==
  /\ samples' = m.samples /\ save_id' = m.save_id /\ save_live' = m.save_live
  /\ files' = m.files /\ save_failed' = m.save_failed
-----------------------------------------------------------------------------
(* Saving.                                                                 *)

\* The samples of a list that are no older than age, in a loop.
NoOlderThan(list, age) ==
  LET kept[n \in 0..Len(list)] ==
        IF n = 0 THEN <<>>
        ELSE IF now - list[n].time <= age THEN Append(kept[n - 1], list[n]) ELSE kept[n - 1]
  IN  kept[Len(list)]

\* up_history_array_to_file(): the samples that are young enough.
ArrayToFile(list) == NoOlderThan(list, MaxDataAge)

\* up_history_save_data(): files are replaced one by one, up to the one whose
\* write fails, if any.
SaveData(m, broken) ==
  LET Saved(k) == \A i \in DOMAIN SaveOrder :
                    SaveOrder[i] = broken =>
                      \E j \in 1..(i - 1) : SaveOrder[j] = k
  IN  [m EXCEPT !.files = [k \in Histories |-> IF Saved(k) THEN ArrayToFile(m.samples[k])
                                                          ELSE @[k]],
                !.save_failed = broken \in Histories]

\* up_history_is_low_power()
IsLowPower(m, state) ==
  LET charge == m.samples["charge"]
  IN  /\ state = "discharging" /\ charge # <<>>
      /\ Last(charge).state = "discharging" /\ Last(charge).value <= 10

\* Mutant: at low power too the save is left to the timer.
MutScheduleSave(m, state, broken) ==
  IF m.save_id THEN m ELSE [m EXCEPT !.save_id = TRUE, !.save_live = TRUE]

\* up_history_schedule_save()
ScheduleSave(m, state, broken) ==
  IF IsLowPower(m, state) THEN SaveData(m, broken)
  ELSE IF m.save_id THEN m
  ELSE [m EXCEPT !.save_id = TRUE, !.save_live = TRUE]

\* The disk works, or fails at one of the files.
DiskOutcome == Failing \cup {"none"}

\* Mutant: the field is left set.
MutScheduleSaveCb ==
  /\ save_live
  /\ \E broken \in DiskOutcome :
       SetMemory([SaveData(Memory, broken) EXCEPT !.save_live = FALSE])
  /\ UNCHANGED <<history_id, history_state, last, now>>

\* up_history_schedule_save_cb()
ScheduleSaveCb ==
  /\ save_live
  /\ \E broken \in DiskOutcome :
       SetMemory([SaveData(Memory, broken) EXCEPT !.save_id = FALSE, !.save_live = FALSE])
  /\ UNCHANGED <<history_id, history_state, last, now>>
-----------------------------------------------------------------------------
(* The life of the object.                                                 *)

\* up_history_array_from_file(): what was saved, in its order.
FromFile(k) == files[k]

\* up_history_new()
NewMemory(disk) ==
  [samples |-> [k \in Histories |-> <<>>], save_id |-> FALSE, save_live |-> FALSE,
   files |-> disk, save_failed |-> FALSE]
Marker == [time |-> now, value |-> 0, state |-> "unknown"]

\* up_history_set_id(), of the device's coldplug: what was
\* saved is loaded, and followed by a marker.  The state is still unknown.
SetId ==
  /\ ~history_id /\ \A k \in Histories : Len(files[k]) < MaxSamples
  /\ LET loaded == [NewMemory(files) EXCEPT
                      !.samples = [k \in Histories |-> Append(FromFile(k), Marker)]]
     IN  SetMemory(ScheduleSave(loaded, history_state, "none"))
  /\ history_id' = TRUE
  /\ UNCHANGED <<history_state, last, now>>

\* One of up_history_set_charge_data() and its likes.  Times below 0 are not
\* recorded.
SetData(m, kind, reading, broken) ==
  LET value == reading.value[kind]
      item == [time |-> now, value |-> value, state |-> reading.state]
  IN  IF \/ reading.state = "unknown" \/ last[kind] = value
         \/ kind \in {"time_full", "time_empty"} /\ value < 0
        THEN m
        ELSE ScheduleSave([m EXCEPT !.samples[kind] = Append(@, item)], reading.state, broken)

Recorded(kind, reading) ==
  /\ reading.state # "unknown"
  /\ kind \in {"time_full", "time_empty"} => reading.value[kind] >= 0

\* The calls of update_history(), in their order.
SetAllData(m, reading, broken) ==
  LET charge == SetData(m, "charge", reading, broken)
      rate == SetData(charge, "rate", reading, broken)
      full == SetData(rate, "time_full", reading, broken)
  IN  SetData(full, "time_empty", reading, broken)

\* update_history(), at the end of a refresh that read something.  An object
\* without an id records nothing.
UpdateHistory(reading) ==
  /\ history_id
  /\ \A k \in Histories : Len(samples[k]) < MaxSamples
  /\ history_state' = reading.state
  /\ last' = [k \in Histories |-> IF Recorded(k, reading) THEN reading.value[k] ELSE last[k]]
  /\ \E broken \in DiskOutcome : SetMemory(SetAllData(Memory, reading, broken))
  /\ UNCHANGED <<history_id, now>>

NewObject(disk, failed) ==
  /\ SetMemory([NewMemory(disk) EXCEPT !.save_failed = failed])
  /\ history_id' = FALSE /\ history_state' = "unknown"
  /\ last' = [k \in Histories |-> 0]

\* up_history_finalize(): the device is removed, or the daemon exits.
Finalize ==
  /\ history_id
  /\ \E broken \in DiskOutcome :
       LET m == SaveData(Memory, broken) IN NewObject(m.files, m.save_failed)
  /\ UNCHANGED now

\* The daemon is killed, or the machine loses power.
Crash ==
  /\ NewObject(files, FALSE)
  /\ UNCHANGED now

Tick ==
  /\ now < MaxTime /\ now' = now + 1
  /\ UNCHANGED <<history_id, history_state, last, samples, save_id, save_live, files,
                 save_failed>>

HistoryInit ==
  /\ history_id = FALSE /\ history_state = "unknown"
  /\ last = [k \in Histories |-> 0]
  /\ samples = [k \in Histories |-> <<>>] /\ files = [k \in Histories |-> <<>>]
  /\ save_id = FALSE /\ save_live = FALSE /\ save_failed = FALSE /\ now = 0

HistoryNext ==
  \/ SetId
  \/ \E reading \in Reading : UpdateHistory(reading)
  \/ ScheduleSaveCb
  \/ Finalize
  \/ Crash
  \/ Tick

HistorySpec == HistoryInit /\ [][HistoryNext]_historyVars
-----------------------------------------------------------------------------
(* Queries.  They change nothing.                                          *)

\* up_history_copy_array_timespan(): without a timespan the whole array; with
\* one its younger part, searched backwards.  The oldest sample is not looked at.
CopyArrayTimespan(array, timespan) ==
  IF timespan = 0 THEN array
  ELSE NoOlderThan(Reverse(Tail(array)), (95 * timespan) \div 100 - 1)

(* What is computed in type gfloat: fractions <<n, d>>, rounded.           *)
Whole(n) == <<n, 1>>
Plus(x, y) == <<x[1] * y[2] + y[1] * x[2], x[2] * y[2]>>
Times(x, y) == <<x[1] * y[1], x[2] * y[2]>>
Over(x, y) == <<x[1] * y[2], x[2] * y[1]>>
IsMore(x, y) == x[1] * y[2] > y[1] * x[2]

\* The gfloat that is nearest, of two that are as near the even one.
Float(x) ==
  LET unit(e) == IF e >= 0 THEN Whole(2 ^ e) ELSE <<1, 2 ^ (-e)>>
      count(e) == LET units == Over(x, unit(e)) IN units[1] \div units[2]
      exponent == CHOOSE e \in FloatExponents :
                    count(e) \in (2 ^ (FloatDigits - 1))..(2 ^ FloatDigits - 1)
      units == Over(x, unit(exponent))
      rest == 2 * (units[1] % units[2])
      isUp == rest > units[2] \/ (rest = units[2] /\ count(exponent) % 2 = 1)
  IN  IF x[1] = 0 THEN x
      ELSE Times(Whole(count(exponent) + (IF isUp THEN 1 ELSE 0)), unit(exponent))

\* The length of a division of the time between last and first.  Without a timespan
\* the difference wraps around, and without a number the division is by 0: then no
\* sample gets past a division.
Endless == <<1, 0>>
Division(first_time, last_time, max_num) ==
  IF first_time < last_time \/ max_num = 0 THEN Endless
  ELSE Float(Over(Float(Whole(first_time - last_time)), Float(Whole(max_num))))

\* Whether a sample is past the end of a division.
IsPast(item, last_time, division, step) ==
  /\ division # Endless
  /\ LET preset == Float(Plus(Float(Whole(Epoch + last_time)),
                              Float(Times(division, Float(Whole(step))))))
     IN  IsMore(Float(Whole(Epoch + item.time)), preset)

\* Mutant: a point may average samples of several states.
MutLimitStep(p, item, last_time, division) ==
  IF p.items # <<>> /\ IsPast(item, last_time, division, p.step)
    THEN [points |-> Append(p.points, [items |-> p.items, state |-> p.state]),
          items |-> <<item>>, state |-> item.state, step |-> p.step + 1]
    ELSE [p EXCEPT !.items = Append(@, item)]

\* One sample on its way through up_history_array_limit_resolution(): it closes
\* the point that is being collected when it is past the division, or in another
\* state.
LimitStep(p, item, last_time, division) ==
  IF p.items # <<>> /\ (item.state # p.state \/ IsPast(item, last_time, division, p.step))
    THEN [points |-> Append(p.points, [items |-> p.items, state |-> p.state]),
          items |-> <<item>>, state |-> item.state, step |-> p.step + 1]
    ELSE [p EXCEPT !.items = Append(@, item)]

\* A point averages its items.
Average(items, Value(_)) ==
  FoldLeft(LAMBDA sum, item : sum + Value(item), 0, items) \div Len(items)
Point(p) ==
  [time |-> Average(p.items, LAMBDA i : i.time),
   value |-> Average(p.items, LAMBDA i : i.value), state |-> p.state]

\* up_history_array_limit_resolution()
LimitResolution(array, max_num) ==
  IF Len(array) = 0 \/ Len(array) < max_num THEN array
  ELSE LET last_time == Last(array).time
           division == Division(Head(array).time, last_time, max_num)
           start == [points |-> <<>>, items |-> <<>>, state |-> "unknown", step |-> 1]
           after[n \in 0..Len(array)] ==
             IF n = 0 THEN start
             ELSE LimitStep(after[n - 1], array[n], last_time, division)
           end == after[Len(array)]
           points == IF end.items = <<>> THEN end.points
                     ELSE Append(end.points, [items |-> end.items, state |-> end.state])
       IN  [i \in DOMAIN points |-> Point(points[i])]

\* up_history_get_data(), behind GetHistory()
GetData(kind, timespan, resolution) ==
  IF ~history_id \/ samples[kind] = <<>> THEN <<>>
  ELSE LimitResolution(CopyArrayTimespan(samples[kind], timespan), resolution)

\* Mutant: a new state does not start over.
MutProfileStep(p, list, i, state) ==
  LET bin == IF list[i].value > 100 THEN 100 ELSE list[i].value
      change == list[i].value - list[p.old].value
      next == [p EXCEPT !.last = i]
  IN  IF p.last = 0 \/ bin = p.bin THEN next
      ELSE IF p.old # 0 /\ (change = 0 \/ change \notin -3..3)
        THEN [next EXCEPT !.bin = bin, !.old = 0]
      ELSE [next EXCEPT !.bin = bin, !.old = i,
                        !.counted = IF p.old = 0 \/ list[i].state # state THEN @
                                    ELSE Append(@, [bin |-> bin, from |-> p.old, to |-> i])]

\* One charge sample on its way through up_history_get_profile_data(): last and
\* old are the places of item_last and item_old in the list, 0 for none; counted
\* are the intervals that go into the statistics of a state.
ProfileStep(p, list, i, state) ==
  LET bin == IF list[i].value > 100 THEN 100 ELSE list[i].value
      change == list[i].value - list[p.old].value
      next == [p EXCEPT !.last = i]
  IN  IF p.last = 0 \/ (p.last # 0 /\ list[i].state # list[p.last].state)
        THEN [next EXCEPT !.old = 0]
      ELSE IF bin = p.bin THEN next
      ELSE IF p.old # 0 /\ (change = 0 \/ change \notin -3..3)
        THEN [next EXCEPT !.bin = bin, !.old = 0]
      ELSE [next EXCEPT !.bin = bin, !.old = i,
                        !.counted = IF p.old = 0 \/ list[i].state # state THEN @
                                    ELSE Append(@, [bin |-> bin, from |-> p.old, to |-> i])]

\* The intervals up_history_get_profile_data() counts, of one state.
ProfileIntervals(list, state) ==
  LET after[n \in 0..Len(list)] ==
        IF n = 0 THEN [last |-> 0, bin |-> 999, old |-> 0, counted |-> <<>>]
        ELSE ProfileStep(after[n - 1], list, n, state)
  IN  after[Len(list)].counted
-----------------------------------------------------------------------------
HistoryTypeOK ==
  /\ history_id \in BOOLEAN /\ history_state \in DeviceState
  /\ last \in [Histories -> Int]
  /\ \A k \in Histories : samples[k] \in Seq(Item) /\ files[k] \in Seq(Item)
  /\ save_id \in BOOLEAN /\ save_live \in BOOLEAN /\ save_failed \in BOOLEAN
  /\ now \in 0..MaxTime

\* Whether a kind's young samples are on disk.
IsYoung(item) == now - item.time <= MaxDataAge
OnDisk(k) == \A i \in DOMAIN samples[k] : IsYoung(samples[k][i]) =>
                \E j \in DOMAIN files[k] : files[k][j] = samples[k][i]

\* Batching loses nothing by itself: as long as the disk works, a sample is on
\* disk, or a timer that saves it is really pending, through any mixture of
\* timers, direct saves at low power, reloads and samples that come meanwhile.
UnsavedIsScheduled ==
  history_id /\ ~save_failed => save_live \/ \A k \in Histories : OnDisk(k)

\* A machine that dies of an empty battery does not lose the end of the charge
\* history: at low power it is on disk, whatever is scheduled.
LowPowerIsSaved ==
  history_id /\ ~save_failed /\ IsLowPower(Memory, history_state) => OnDisk("charge")

\* The time that the daemon or the machine was off is in no statistics: what is
\* counted is time the device spent in the state asked for, the marker that follows
\* a load (and any other change) in between excluded, and no time is counted twice
\* or is negative.
ProfileSkipsDowntime ==
  \A state \in {"charging", "discharging"} :
    LET list == samples["charge"]
        counted == ProfileIntervals(list, state)
    IN  \A a \in DOMAIN counted :
          LET from == counted[a].from to == counted[a].to
          IN  /\ from < to /\ list[from].time <= list[to].time
              /\ \A x \in from..to : list[x].state = state
              /\ \A b \in DOMAIN counted : a < b => to <= counted[b].from

\* The states that follow one another in a list, unknown ones at its start left out.
AddChange(states, state) ==
  IF \/ states = <<>> /\ state = "unknown"
     \/ states # <<>> /\ Last(states) = state
    THEN states
    ELSE Append(states, state)

Changes(list) ==
  LET states[n \in 0..Len(list)] ==
        IF n = 0 THEN <<>> ELSE AddChange(states[n - 1], list[n].state)
  IN  states[Len(list)]

\* Thinning out what GetHistory answers, whatever its floats make of the times,
\* hides no change of state after the first sample, whose point has no state.
AnswersShowChanges ==
  \A k \in Histories, timespan \in {0, 2 * MaxTime + 2}, max_num \in 0..MaxSamples :
    LET recorded == CopyArrayTimespan(samples[k], timespan)
        data == GetData(k, timespan, max_num)
    IN  history_id /\ samples[k] # <<>> /\ recorded # <<>> =>
          Changes(Tail(data)) = Changes(Tail(recorded))
=============================================================================
