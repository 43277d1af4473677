--------------------------- MODULE UpHistoryProofs ---------------------------
(***************************************************************************)
(* Theorems about UpHistory, the history of a device: what is on disk, and *)
(* what the answers of GetHistory and GetStatistics are, for readings and  *)
(* lists of any length.                                                    *)
(***************************************************************************)
EXTENDS UpHistory, SequenceTheorems, UpLemmas

-----------------------------------------------------------------------------
(* The history.                                                            *)

\* The loop of NoOlderThan, as an equation of the function kept.
KeptTo(list, age, kept) ==
  [n \in 0..Len(list) |-> IF n = 0 THEN <<>>
                          ELSE IF now - list[n].time <= age THEN Append(kept[n - 1], list[n])
                          ELSE kept[n - 1]]

\* The loop has a result after each number of samples, and the last is NoOlderThan's.
LEMMA NoOlderThanLoop ==
  ASSUME NEW S, NEW list \in Seq(S), NEW age
  PROVE  \E kept :
           /\ kept[0] = <<>>
           /\ \A n \in 1..Len(list) :
                kept[n] = IF now - list[n].time <= age THEN Append(kept[n - 1], list[n])
                          ELSE kept[n - 1]
           /\ NoOlderThan(list, age) = kept[Len(list)]
<1> DEFINE Next1(n, l) == IF now - list[n].time <= age THEN Append(l, list[n]) ELSE l
           step == [n \in 1..Len(list) |-> [l \in Seq(S) |-> Next1(n, l)]]
<1>1. Len(list) \in Nat /\ <<>> \in Seq(S)
  OBVIOUS
<1>2. step \in [1..Len(list) -> [Seq(S) -> Seq(S)]]
        /\ \A n \in 1..Len(list), l \in Seq(S) : step[n][l] = Next1(n, l)
  OBVIOUS
<1> HIDE DEF step, Next1
<1>3. PICK f \in [0..Len(list) -> Seq(S)] : Loops(Len(list), <<>>, step, f)
  BY <1>1, <1>2, LoopEnds
<1>4. f = KeptTo(list, age, f)
  <2> DEFINE Value(n) == IF n = 0 THEN <<>>
                         ELSE IF now - list[n].time <= age THEN Append(f[n - 1], list[n])
                         ELSE f[n - 1]
  <2>1. ASSUME NEW n \in 0..Len(list) PROVE f[n] = Value(n)
    <3>1. CASE n = 0
      BY <1>3, <3>1 DEF Loops
    <3>2. CASE n # 0
      <4>1. n \in 1..Len(list) /\ n - 1 \in 0..Len(list)
        BY <3>2
      <4>2. f[n] = step[n][f[n - 1]] /\ f[n - 1] \in Seq(S)
        BY <1>3, <4>1 DEF Loops
      <4> QED
        BY <1>2, <3>2, <4>1, <4>2, Zenon DEF Next1
    <3> QED
      BY <3>1, <3>2
  <2> HIDE DEF Value
  <2>2. f = [n \in 0..Len(list) |-> Value(n)]
    BY <1>3, <2>1
  <2> QED
    BY <2>2, Zenon DEF KeptTo, Value
<1> DEFINE kept == CHOOSE kept : kept = KeptTo(list, age, kept)
<1>5. kept = KeptTo(list, age, kept)
  BY <1>4, Zenon
<1>6. NoOlderThan(list, age) = kept[Len(list)]
  BY Zenon DEF NoOlderThan, KeptTo
<1> HIDE DEF kept
<1>7. ASSUME NEW n \in 0..Len(list)
      PROVE  kept[n] = IF n = 0 THEN <<>>
                       ELSE IF now - list[n].time <= age THEN Append(kept[n - 1], list[n])
                       ELSE kept[n - 1]
  <2> DEFINE Value(m) == IF m = 0 THEN <<>>
                         ELSE IF now - list[m].time <= age THEN Append(kept[m - 1], list[m])
                         ELSE kept[m - 1]
  <2>1. kept = [m \in 0..Len(list) |-> Value(m)]
    BY <1>5, Zenon DEF KeptTo
  <2> HIDE DEF Value
  <2>2. kept[n] = Value(n)
    BY <2>1
  <2> QED
    BY <2>2, Zenon DEF Value
<1>8. kept[0] = <<>>
  <2>1. 0 \in 0..Len(list)
    BY <1>1
  <2> QED
    BY <1>7, <2>1, Zenon
<1>9. \A n \in 1..Len(list) : n \in 0..Len(list) /\ n # 0
  OBVIOUS
<1> QED
  BY <1>6, <1>7, <1>8, <1>9, Zenon

\* What is kept of the first n samples: samples, in order if they were (R is the
\* order of the whole list), and all the young ones.
InOrder(list, R) == \A i, j \in DOMAIN list : i < j => <<list[i], list[j]>> \in R

Keeps(list, S, age, R, n, result) ==
  /\ result \in Seq(S)
  /\ InOrder(result, R)
  /\ \A i \in DOMAIN result, j \in (n + 1)..Len(list) : <<result[i], list[j]>> \in R
  /\ \A i \in 1..n : now - list[i].time <= age => \E j \in DOMAIN result : result[j] = list[i]

LEMMA OneMoreKept ==
  ASSUME NEW S, NEW list \in Seq(S), NEW age, NEW R, InOrder(list, R),
         NEW n \in 1..Len(list), NEW before, Keeps(list, S, age, R, n - 1, before)
  PROVE  /\ Keeps(list, S, age, R, n, Append(before, list[n]))
         /\ ~(now - list[n].time <= age) => Keeps(list, S, age, R, n, before)
<1> DEFINE result == Append(before, list[n])
<1>1. list[n] \in S /\ before \in Seq(S) /\ Len(before) \in Nat
  BY DEF Keeps
<1>2. /\ result \in Seq(S) /\ Len(result) = Len(before) + 1
      /\ result[Len(before) + 1] = list[n]
  BY <1>1
<1>3. \A j \in DOMAIN before : j \in DOMAIN result /\ result[j] = before[j]
  BY <1>1
<1>4. Len(before) + 1 \in DOMAIN result
  BY <1>1, <1>2
<1>a. \A j \in DOMAIN result : j = Len(before) + 1 \/ j \in DOMAIN before
  BY <1>1, <1>2
<1>b. \A j \in DOMAIN before : j < Len(before) + 1 /\ ~(Len(before) + 1 < j)
  BY <1>1
<1>c. n - 1 + 1 = n /\ n \in n..Len(list) /\ DOMAIN list = 1..Len(list)
        /\ \A j \in (n + 1)..Len(list) : j \in n..Len(list) /\ j \in DOMAIN list /\ n < j
  OBVIOUS
<1>d. /\ InOrder(before, R)
      /\ \A i \in DOMAIN before, j \in n..Len(list) : <<before[i], list[j]>> \in R
  BY <1>c DEF Keeps
<1> HIDE DEF result
<1>5. InOrder(result, R)
  <2> SUFFICES ASSUME NEW i \in DOMAIN result, NEW j \in DOMAIN result, i < j
               PROVE  <<result[i], result[j]>> \in R
    BY Zenon DEF InOrder
  <2>1. CASE j = Len(before) + 1
    <3>1. i \in DOMAIN before
      <4>1. ~(j < j)
        BY <1>1, <2>1
      <4> QED
        BY <1>a, <2>1, <4>1, Zenon
    <3> QED
      BY <1>2, <1>3, <1>c, <1>d, <2>1, <3>1, Zenon
  <2>2. CASE j \in DOMAIN before
    <3>1. i \in DOMAIN before
      BY <1>a, <1>b, <2>2, Zenon
    <3> QED
      BY <1>3, <1>d, <2>2, <3>1, Zenon DEF InOrder
  <2> QED
    BY <1>a, <2>1, <2>2, Zenon
<1>6. ASSUME NEW i \in DOMAIN result, NEW j \in (n + 1)..Len(list)
      PROVE  <<result[i], list[j]>> \in R
  <2>1. CASE i = Len(before) + 1
    <3>1. n \in DOMAIN list
      OBVIOUS
    <3>2. <<list[n], list[j]>> \in R
      BY <1>c, <3>1, Zenon DEF InOrder
    <3> QED
      BY <1>2, <2>1, <3>2, Zenon
  <2>2. CASE i \in DOMAIN before
    BY <1>3, <1>c, <1>d, <2>2, Zenon
  <2> QED
    BY <1>a, <2>1, <2>2, Zenon
<1>7. ASSUME NEW i \in 1..n, now - list[i].time <= age
      PROVE  \E j \in DOMAIN result : result[j] = list[i]
  <2>1. CASE i = n
    BY <1>2, <1>4, <2>1
  <2>2. CASE i # n
    <3>1. i \in 1..(n - 1)
      BY <2>2
    <3>2. PICK j \in DOMAIN before : before[j] = list[i]
      BY <1>7, <3>1, Zenon DEF Keeps
    <3> QED
      BY <1>3, <3>2, Zenon
  <2> QED
    BY <2>1, <2>2
<1>8. Keeps(list, S, age, R, n, result)
  BY <1>2, <1>5, <1>6, <1>7, Zenon DEF Keeps
<1>9. ASSUME ~(now - list[n].time <= age) PROVE Keeps(list, S, age, R, n, before)
  <2>1. ASSUME NEW i \in 1..n, now - list[i].time <= age
        PROVE  \E j \in DOMAIN before : before[j] = list[i]
    <3>1. i # n
      BY <1>9, <2>1, Zenon
    <3>2. i \in 1..(n - 1)
      BY <3>1
    <3> QED
      BY <2>1, <3>2, Zenon DEF Keeps
  <2> QED
    BY <1>1, <1>c, <1>d, <2>1, Zenon DEF Keeps
<1> QED
  BY <1>8, <1>9 DEF result

\* NoOlderThan, which saves and queries share, picks samples of the list, in their
\* order, and each young one.
LEMMA NoOlderThanKeeps ==
  ASSUME NEW S, NEW list \in Seq(S), NEW age, NEW R, InOrder(list, R)
  PROVE  Keeps(list, S, age, R, Len(list), NoOlderThan(list, age))
<1>1. PICK kept :
        /\ kept[0] = <<>>
        /\ \A n \in 1..Len(list) :
             kept[n] = IF now - list[n].time <= age THEN Append(kept[n - 1], list[n])
                       ELSE kept[n - 1]
        /\ NoOlderThan(list, age) = kept[Len(list)]
  BY NoOlderThanLoop, Zenon
<1> DEFINE J == {n \in 0..Len(list) : Keeps(list, S, age, R, n, kept[n])}
<1>2. 0 \in J
  <2>1. Keeps(list, S, age, R, 0, <<>>)
    BY DEF Keeps, InOrder
  <2> QED
    BY <1>1, <2>1
<1>3. ASSUME NEW n \in 1..Len(list), n - 1 \in J PROVE n \in J
  <2>1. Keeps(list, S, age, R, n - 1, kept[n - 1]) /\ n \in 0..Len(list)
    BY <1>3
  <2>2. Keeps(list, S, age, R, n, kept[n])
    BY <1>1, <2>1, OneMoreKept, Zenon
  <2> QED
    BY <2>1, <2>2
<1>4. Len(list) \in Nat /\ Len(list) \in 0..Len(list)
  OBVIOUS
<1> HIDE DEF J
<1>5. \A n \in 0..Len(list) : n \in J
  BY <1>2, <1>3, <1>4, InductionUpTo
<1>6. Len(list) \in J
  BY <1>4, <1>5
<1> QED
  BY <1>1, <1>6 DEF J

\* Lists of samples of the past, in the order of their times.
Earlier == {p \in Item \X Item : p[1].time <= p[2].time}
Lists ==
  {list \in Seq(Item) : InOrder(list, Earlier) /\ \A i \in DOMAIN list : list[i].time <= now}

\* What is kept in memory and on disk: lists in their order.
MemoryTyped(m) ==
  m \in [samples : [Histories -> Lists], save_id : BOOLEAN, save_live : BOOLEAN,
         files : [Histories -> Lists], save_failed : BOOLEAN]

IsWritten(list, file) ==
  \A i \in DOMAIN list : IsYoung(list[i]) => \E j \in DOMAIN file : file[j] = list[i]

\* UnsavedIsScheduled as the handlers keep it for each other: it is about any
\* memory they work on, and the field tells the truth about the timer.
Scheduled(m) ==
  /\ m.save_id = m.save_live
  /\ m.save_failed = FALSE =>
       m.save_live = TRUE \/ \A k \in Histories : IsWritten(m.samples[k], m.files[k])

\* LowPowerIsSaved whatever state the device was in at the last refresh: it is
\* the last sample that says when the charge was low.
EndsLow(list) ==
  /\ Len(list) # 0
  /\ list[Len(list)].state = "discharging" /\ list[Len(list)].value <= 10

LowIsWritten(m) ==
  m.save_failed = FALSE /\ EndsLow(m.samples["charge"]) =>
    IsWritten(m.samples["charge"], m.files["charge"])

MemoryInv(m) == MemoryTyped(m) /\ Scheduled(m) /\ LowIsWritten(m)

\* Without an id, nothing is recorded or scheduled.
HistoryIInv ==
  /\ MemoryInv(Memory)
  /\ history_id \in BOOLEAN /\ history_state \in DeviceState
  /\ last \in [Histories -> Int] /\ now \in 0..MaxTime

\* A file that is written has samples of the list in their order, the young ones
\* among them.
LEMMA ArrayToFileKeeps ==
  ASSUME NEW list \in Lists
  PROVE  ArrayToFile(list) \in Lists /\ IsWritten(list, ArrayToFile(list))
<1> DEFINE Past == {item \in Item : item.time <= now}
           file == ArrayToFile(list)
<1>1. list \in Seq(Item) /\ InOrder(list, Earlier) /\ DOMAIN list = 1..Len(list)
        /\ \A i \in DOMAIN list : list[i] \in Past
  <2>1. list \in Seq(Item) /\ InOrder(list, Earlier)
          /\ \A i \in DOMAIN list : list[i].time <= now
    BY Zenon DEF Lists
  <2> QED
    BY <2>1
<1>2. list \in Seq(Past)
  <2> HIDE DEF Past
  <2>1. Len(list) \in Nat /\ list \in [1..Len(list) -> Past]
    BY <1>1
  <2> QED
    BY <2>1
<1>3. Keeps(list, Past, MaxDataAge, Earlier, Len(list), file)
  BY <1>1, <1>2, NoOlderThanKeeps, Zenon DEF ArrayToFile
<1>4. file \in Seq(Past) /\ InOrder(file, Earlier)
  BY <1>3, Zenon DEF Keeps
<1> HIDE DEF file
<1>5. file \in Seq(Item) /\ \A i \in DOMAIN file : file[i].time <= now
  <2>1. \A i \in DOMAIN file : file[i] \in Past
    <3> HIDE DEF Past
    <3> QED
      BY <1>4
  <2>2. \A i \in DOMAIN file : file[i] \in Item /\ file[i].time <= now
    BY <2>1
  <2>3. Len(file) \in Nat /\ file \in [1..Len(file) -> Item]
    <3> HIDE DEF Past
    <3> QED
      BY <1>4, <2>2
  <2> QED
    BY <2>2, <2>3
<1>6. IsWritten(list, file)
  BY <1>1, <1>3, Zenon DEF Keeps, IsWritten, IsYoung
<1>7. file \in Lists
  BY <1>4, <1>5, Zenon DEF Lists
<1> QED
  BY <1>6, <1>7 DEF file

\* A sample of now goes to the end of such a list.
LEMMA AppendNow ==
  ASSUME now \in 0..MaxTime, MaxTime \in Nat, NEW list \in Lists,
         NEW item \in Item, item.time = now
  PROVE  Append(list, item) \in Lists
<1> DEFINE result == Append(list, item)
<1>1. list \in Seq(Item) /\ InOrder(list, Earlier)
        /\ \A i \in DOMAIN list : list[i].time <= now
  BY Zenon DEF Lists
<1>2. /\ result \in Seq(Item) /\ Len(result) = Len(list) + 1
      /\ result[Len(list) + 1] = item /\ DOMAIN result = 1..(Len(list) + 1)
      /\ \A i \in 1..Len(list) : result[i] = list[i]
  BY <1>1
<1> HIDE DEF result
<1>3. \A i \in DOMAIN result : i = Len(list) + 1 \/ i \in DOMAIN list
  BY <1>1, <1>2
<1>4. ASSUME NEW i \in DOMAIN result PROVE result[i].time <= now
  <2>1. CASE i = Len(list) + 1
    BY <1>2, <2>1
  <2>2. CASE i \in DOMAIN list
    BY <1>1, <1>2, <2>2
  <2> QED
    BY <1>3, <2>1, <2>2
<1>5. ASSUME NEW i \in DOMAIN result, NEW j \in DOMAIN result, i < j
      PROVE  <<result[i], result[j]>> \in Earlier
  <2>1. i \in DOMAIN list /\ (j = Len(list) + 1 \/ j \in DOMAIN list)
    BY <1>1, <1>2, <1>5
  <2>2. CASE j = Len(list) + 1
    <3>1. result[j] = item /\ result[i] = list[i] /\ list[i] \in Item /\ list[i].time <= item.time
      BY <1>1, <1>2, <2>1, <2>2
    <3> QED
      BY <3>1 DEF Earlier
  <2>3. CASE j \in DOMAIN list
    BY <1>1, <1>2, <1>5, <2>1, <2>3 DEF InOrder
  <2> QED
    BY <2>1, <2>2, <2>3
<1>6. result \in Lists
  BY <1>2, <1>4, <1>5, Zenon DEF Lists, InOrder
<1> QED
  BY <1>6 DEF result

\* Saving: all kinds are written, or the failure is noted.
LEMMA SaveDataWrites ==
  ASSUME NEW m, MemoryTyped(m), NEW broken
  PROVE  LET saved == SaveData(m, broken)
         IN  /\ MemoryTyped(saved)
             /\ saved.samples = m.samples /\ saved.save_id = m.save_id
             /\ saved.save_live = m.save_live
             /\ saved.save_failed = FALSE =>
                  \A k \in Histories : IsWritten(saved.samples[k], saved.files[k])
<1> DEFINE Saved(k) == \A i \in DOMAIN SaveOrder :
                         SaveOrder[i] = broken => \E j \in 1..(i - 1) : SaveOrder[j] = k
           disk == [k \in Histories |-> IF Saved(k) THEN ArrayToFile(m.samples[k])
                                                   ELSE m.files[k]]
           failed == broken \in Histories
           saved == SaveData(m, broken)
<1>1. saved = [m EXCEPT !.files = disk, !.save_failed = failed]
  BY Zenon DEF SaveData
<1>3. ASSUME NEW k \in Histories
      PROVE  ArrayToFile(m.samples[k]) \in Lists
             /\ IsWritten(m.samples[k], ArrayToFile(m.samples[k]))
  <2>1. m.samples[k] \in Lists
    BY DEF MemoryTyped
  <2> QED
    BY <2>1, ArrayToFileKeeps
<1>4. disk \in [Histories -> Lists]
  <2>1. ASSUME NEW k \in Histories PROVE disk[k] \in Lists
    <3>1. m.files[k] \in Lists
      BY DEF MemoryTyped
    <3> QED
      BY <1>3, <3>1, Zenon
  <2>2. disk = [k \in Histories |-> disk[k]]
    OBVIOUS
  <2> HIDE DEF disk
  <2> QED
    BY <2>1, <2>2
<1>5. ASSUME failed = FALSE, NEW k \in Histories PROVE disk[k] = ArrayToFile(m.samples[k])
  <2>1. \A i \in DOMAIN SaveOrder : SaveOrder[i] \in Histories
    BY DEF SaveOrder, Histories
  <2>2. Saved(k)
    BY <1>5, <2>1, Zenon
  <2> QED
    BY <2>2, Zenon
<1>6. failed \in BOOLEAN
  OBVIOUS
<1> HIDE DEF disk, failed, saved
<1>7. /\ MemoryTyped(saved)
      /\ saved.samples = m.samples /\ saved.save_id = m.save_id
      /\ saved.save_live = m.save_live /\ saved.files = disk /\ saved.save_failed = failed
  BY <1>1, <1>4, <1>6 DEF MemoryTyped
<1>8. ASSUME saved.save_failed = FALSE, NEW k \in Histories
      PROVE  IsWritten(saved.samples[k], saved.files[k])
  <2>1. failed = FALSE
    BY <1>7, <1>8, Zenon
  <2>2. saved.samples[k] = m.samples[k] /\ saved.files[k] = ArrayToFile(m.samples[k])
    BY <1>7, <1>5, <2>1, Zenon
  <2> QED
    BY <1>3, <2>2, Zenon
<1> QED
  BY <1>7, <1>8, Zenon DEF saved

\* So saving makes everything true, provided that the timer and its field agree.
LEMMA SaveDataKeeps ==
  ASSUME NEW m, MemoryTyped(m), m.save_id = m.save_live, NEW broken
  PROVE  MemoryInv(SaveData(m, broken))
<1> DEFINE saved == SaveData(m, broken)
<1>1. /\ MemoryTyped(saved)
      /\ saved.save_id = saved.save_live
      /\ saved.save_failed = FALSE =>
           \A k \in Histories : IsWritten(saved.samples[k], saved.files[k])
  BY SaveDataWrites, Zenon
<1> HIDE DEF saved
<1>2. "charge" \in Histories
  BY DEF Histories
<1>3. Scheduled(saved) /\ LowIsWritten(saved)
  BY <1>1, <1>2, Zenon DEF Scheduled, LowIsWritten
<1> QED
  BY <1>1, <1>3, Zenon DEF MemoryInv, saved

\* Recording: a sample is followed by a save, now or later, and when it is a
\* charge sample that ends low, now.
LEMMA ScheduleSaveKeeps ==
  ASSUME NEW m, MemoryTyped(m), m.save_id = m.save_live, NEW state, NEW broken,
         LowIsWritten(m)
           \/ (EndsLow(m.samples["charge"]) => state = "discharging")
  PROVE  MemoryInv(ScheduleSave(m, state, broken))
<1>0. "charge" \in Histories
  BY DEF Histories
<1>1. CASE IsLowPower(m, state)
  BY <1>1, SaveDataKeeps, Zenon DEF ScheduleSave
<1>2. CASE ~IsLowPower(m, state)
  <2>1. m.samples["charge"] \in Seq(Item)
    BY <1>0 DEF MemoryTyped, Lists
  <2>2. ASSUME state = "discharging" PROVE ~EndsLow(m.samples["charge"])
    BY <1>2, <2>1, <2>2 DEF IsLowPower, EndsLow, Last
  <2>3. LowIsWritten(m)
    BY <2>2, Zenon DEF LowIsWritten
  <2>4. CASE m.save_id = TRUE
    <3>1. ScheduleSave(m, state, broken) = m
      BY <1>2, <2>4, Zenon DEF ScheduleSave
    <3> QED
      BY <2>3, <2>4, <3>1, Zenon DEF MemoryInv, Scheduled
  <2>5. CASE m.save_id = FALSE
    <3> DEFINE n == [m EXCEPT !.save_id = TRUE, !.save_live = TRUE]
    <3>1. ScheduleSave(m, state, broken) = n
      BY <1>2, <2>5, Zenon DEF ScheduleSave
    <3>2. /\ MemoryTyped(n) /\ n.save_id = TRUE /\ n.save_live = TRUE
          /\ n.samples = m.samples /\ n.files = m.files /\ n.save_failed = m.save_failed
      BY DEF MemoryTyped
    <3> HIDE DEF n
    <3>3. Scheduled(n) /\ LowIsWritten(n)
      BY <2>3, <3>2, Zenon DEF Scheduled, LowIsWritten
    <3> QED
      BY <3>1, <3>2, <3>3, Zenon DEF MemoryInv
  <2> QED
    BY <2>4, <2>5 DEF MemoryTyped
<1> QED
  BY <1>1, <1>2

LEMMA SetDataKeeps ==
  ASSUME HistoryAssumption, now \in 0..MaxTime, NEW m, MemoryInv(m),
         NEW kind \in Histories, NEW reading \in Reading, NEW broken
  PROVE  MemoryInv(SetData(m, kind, reading, broken))
<1> DEFINE item == [time |-> now, value |-> reading.value[kind], state |-> reading.state]
           list == Append(m.samples[kind], item)
           lists == [m.samples EXCEPT ![kind] = list]
           n == [m EXCEPT !.samples[kind] = list]
<1>1. CASE SetData(m, kind, reading, broken) = m
  BY <1>1, Zenon
<1>2. CASE SetData(m, kind, reading, broken) # m
  <2>1. SetData(m, kind, reading, broken) = ScheduleSave(n, reading.state, broken)
    BY <1>2, Zenon DEF SetData
  <2>2. item \in Item /\ item.time = now
    BY DEF HistoryAssumption, Item
  <2>3. m.samples \in [Histories -> Lists]
    BY DEF MemoryInv, MemoryTyped
  <2>4. list \in Lists /\ Len(list) # 0 /\ list[Len(list)] = item
    <3> HIDE DEF item
    <3>1. m.samples[kind] \in Lists /\ m.samples[kind] \in Seq(Item) /\ MaxTime \in Nat
      BY <2>3 DEF Lists, HistoryAssumption
    <3> QED
      BY <2>2, <3>1, AppendNow
  <2>5. item.state = reading.state
    OBVIOUS
  <2> HIDE DEF item, list
  <2>6. lists \in [Histories -> Lists] /\ lists[kind] = list
        /\ \A k \in Histories \ {kind} : lists[k] = m.samples[k]
    BY <2>3, <2>4
  <2>7. n = [m EXCEPT !.samples = lists]
    OBVIOUS
  <2> HIDE DEF n, lists
  <2>8. /\ MemoryTyped(n) /\ n.samples = lists /\ n.files = m.files
        /\ n.save_id = m.save_id /\ n.save_live = m.save_live
        /\ n.save_failed = m.save_failed
    BY <2>6, <2>7 DEF MemoryInv, MemoryTyped
  <2>9. n.save_id = n.save_live
    BY <2>8, Zenon DEF MemoryInv, Scheduled
  <2>10. LowIsWritten(n) \/ (EndsLow(n.samples["charge"]) => reading.state = "discharging")
    <3>1. CASE kind = "charge"
      <4>1. n.samples["charge"] = list
        BY <2>6, <2>8, <3>1, Zenon
      <4> QED
        BY <2>4, <2>5, <4>1, Zenon DEF EndsLow
    <3>2. CASE kind # "charge"
      <4>1. n.samples["charge"] = m.samples["charge"]
        BY <2>6, <2>8, <3>2 DEF Histories
      <4> QED
        BY <2>8, <4>1, Zenon DEF MemoryInv, LowIsWritten
    <3> QED
      BY <3>1, <3>2
  <2> QED
    BY <2>1, <2>8, <2>9, <2>10, ScheduleSaveKeeps
<1> QED
  BY <1>1, <1>2

LEMMA SetAllDataKeeps ==
  ASSUME HistoryAssumption, now \in 0..MaxTime, NEW m, MemoryInv(m),
         NEW reading \in Reading, NEW broken
  PROVE  MemoryInv(SetAllData(m, reading, broken))
<1> DEFINE charge == SetData(m, "charge", reading, broken)
           rate == SetData(charge, "rate", reading, broken)
           full == SetData(rate, "time_full", reading, broken)
           all == SetData(full, "time_empty", reading, broken)
<1>0. /\ "charge" \in Histories /\ "rate" \in Histories /\ "time_full" \in Histories
      /\ "time_empty" \in Histories
  BY DEF Histories
<1>1. MemoryInv(charge)
  BY <1>0, SetDataKeeps
<1> HIDE DEF charge
<1>2. MemoryInv(rate)
  BY <1>0, <1>1, SetDataKeeps
<1> HIDE DEF rate
<1>3. MemoryInv(full)
  BY <1>0, <1>2, SetDataKeeps
<1> HIDE DEF full
<1>4. MemoryInv(all)
  BY <1>0, <1>3, SetDataKeeps
<1> QED
  BY <1>4, Zenon DEF SetAllData, charge, rate, full

\* The variables after a handler are the memory it worked on.
LEMMA MemoryIsSet ==
  ASSUME NEW m, MemoryTyped(m), SetMemory(m) PROVE Memory' = m
<1>1. /\ m.samples = samples' /\ m.save_id = save_id' /\ m.save_live = save_live'
      /\ m.files = files' /\ m.save_failed = save_failed'
  BY Zenon DEF SetMemory
<1>2. m = [samples |-> m.samples, save_id |-> m.save_id, save_live |-> m.save_live,
           files |-> m.files, save_failed |-> m.save_failed]
  BY DEF MemoryTyped
<1> QED
  BY <1>1, <1>2, Zenon DEF Memory

LEMMA EmptyList == <<>> \in Lists
BY DEF Lists, InOrder

\* A new object has nothing to save.
EmptyMemory(disk, failed) ==
  [samples |-> [k \in Histories |-> <<>>], save_id |-> FALSE, save_live |-> FALSE,
   files |-> disk, save_failed |-> failed]

LEMMA EmptyMemoryIsSaved ==
  ASSUME NEW disk \in [Histories -> Lists], NEW failed \in BOOLEAN
  PROVE  /\ MemoryInv(EmptyMemory(disk, failed))
         /\ [NewMemory(disk) EXCEPT !.save_failed = failed] = EmptyMemory(disk, failed)
<1> DEFINE m == EmptyMemory(disk, failed)
           none == [k \in Histories |-> <<>>]
<1>1. none \in [Histories -> Lists] /\ \A k \in Histories : none[k] = <<>>
  BY EmptyList
<1> HIDE DEF none
<1>2. m = [samples |-> none, save_id |-> FALSE, save_live |-> FALSE,
           files |-> disk, save_failed |-> failed]
  BY Zenon DEF EmptyMemory, none
<1> HIDE DEF m
<1>3. /\ MemoryTyped(m) /\ m.save_id = FALSE /\ m.save_live = FALSE
      /\ m.samples = none /\ m.files = disk
  BY <1>1, <1>2 DEF MemoryTyped
<1>4. "charge" \in Histories
  BY DEF Histories
<1>5. \A k \in Histories : IsWritten(m.samples[k], m.files[k])
  BY <1>1, <1>3 DEF IsWritten
<1>6. Scheduled(m) /\ LowIsWritten(m)
  BY <1>3, <1>4, <1>5, Zenon DEF Scheduled, LowIsWritten
<1>7. NewMemory(disk) = [samples |-> none, save_id |-> FALSE, save_live |-> FALSE,
                         files |-> disk, save_failed |-> FALSE]
  BY Zenon DEF NewMemory, none
<1> DEFINE n == [NewMemory(disk) EXCEPT !.save_failed = failed]
<1>8. n = [[samples |-> none, save_id |-> FALSE, save_live |-> FALSE,
            files |-> disk, save_failed |-> FALSE] EXCEPT !.save_failed = failed]
  BY <1>7, Zenon
<1> HIDE DEF n
<1>9. n = [samples |-> none, save_id |-> FALSE, save_live |-> FALSE,
           files |-> disk, save_failed |-> failed]
  BY <1>8
<1> QED
  BY <1>2, <1>3, <1>6, <1>9, Zenon DEF MemoryInv, m, n

LEMMA HistoryInitIInv == HistoryAssumption /\ HistoryInit => HistoryIInv
<1> SUFFICES ASSUME HistoryAssumption, HistoryInit PROVE HistoryIInv
  OBVIOUS
<1> DEFINE disk == [k \in Histories |-> <<>>]
<1>1. disk \in [Histories -> Lists]
  BY EmptyList
<1>2. Memory = EmptyMemory(disk, FALSE)
  BY Zenon DEF HistoryInit, Memory, EmptyMemory
<1>3. MemoryInv(Memory)
  <2> HIDE DEF disk
  <2> QED
    BY <1>1, <1>2, EmptyMemoryIsSaved
<1>4. last \in [Histories -> Int] /\ now \in 0..MaxTime /\ history_id \in BOOLEAN
  <2>1. /\ history_id = FALSE /\ last = [k \in Histories |-> 0] /\ now = 0
    BY Zenon DEF HistoryInit
  <2>2. [k \in Histories |-> 0] \in [Histories -> Int]
    OBVIOUS
  <2>3. now \in 0..MaxTime
    BY <2>1 DEF HistoryAssumption
  <2> QED
    BY <2>1, <2>2, <2>3, Zenon
<1>5. history_state \in DeviceState
  BY DEF HistoryInit, DeviceState
<1> QED
  BY <1>3, <1>4, <1>5, Zenon DEF HistoryIInv

LEMMA HistoryStepIInv ==
  HistoryAssumption /\ HistoryIInv /\ [HistoryNext]_historyVars => HistoryIInv'
<1> SUFFICES ASSUME HistoryAssumption, HistoryIInv, [HistoryNext]_historyVars
             PROVE  HistoryIInv'
  OBVIOUS
<1>0. /\ MemoryInv(Memory) /\ MemoryTyped(Memory) /\ Memory.save_id = Memory.save_live
      /\ history_id \in BOOLEAN /\ history_state \in DeviceState
      /\ last \in [Histories -> Int] /\ now \in 0..MaxTime
  BY Zenon DEF HistoryIInv, MemoryInv, Scheduled
<1>a. /\ Memory.samples = samples /\ Memory.save_id = save_id /\ Memory.save_live = save_live
      /\ Memory.files = files /\ Memory.save_failed = save_failed
  BY DEF Memory
<1>b. samples \in [Histories -> Lists] /\ files \in [Histories -> Lists]
  BY <1>0, <1>a DEF MemoryTyped
<1>n. "unknown" \in DeviceState /\ [k \in Histories |-> 0] \in [Histories -> Int]
  BY DEF DeviceState
<1>s. ASSUME NEW m, MemoryInv(m), SetMemory(m) PROVE MemoryInv(m) /\ Memory' = m
  BY <1>s, MemoryIsSet, Zenon DEF MemoryInv
<1>f. ASSUME now' = now, NEW m, MemoryInv(m), Memory' = m,
             history_id' \in BOOLEAN, history_state' \in DeviceState,
             last' \in [Histories -> Int]
      PROVE  HistoryIInv'
  <2>1. \A list : \A file : IsWritten(list, file)' = IsWritten(list, file)
    BY <1>f, Zenon DEF IsWritten, IsYoung
  <2>2. Lists' = Lists
    BY <1>f, Zenon DEF Lists, Item, InOrder, Earlier
  <2> QED
    BY <1>0, <1>f, <2>1, <2>2, Zenon
       DEF HistoryIInv, MemoryInv, MemoryTyped, Scheduled, LowIsWritten, EndsLow
<1>1. CASE SetId
  <2> DEFINE lists == [k \in Histories |-> Append(FromFile(k), Marker)]
             loaded == [NewMemory(files) EXCEPT !.samples = lists]
             m == ScheduleSave(loaded, history_state, "none")
  <2>1. SetMemory(m) /\ history_id' = TRUE /\ history_state' = history_state
        /\ last' = last /\ now' = now
    BY <1>1, Zenon DEF SetId
  <2>2. Marker \in Item /\ Marker.state = "unknown" /\ Marker.time = now
    BY <1>0, <1>n DEF Marker, Item
  <2>3. lists \in [Histories -> Lists]
        /\ \A k \in Histories : lists[k] = Append(files[k], Marker)
    <3>1. MaxTime \in Nat
      BY DEF HistoryAssumption
    <3>2. \A k \in Histories : Append(files[k], Marker) \in Lists
      BY <1>0, <1>b, <2>2, <3>1, AppendNow
    <3> QED
      BY <3>2 DEF FromFile
  <2>4. loaded.samples = lists /\ MemoryTyped(loaded) /\ loaded.save_id = loaded.save_live
    <3> HIDE DEF lists
    <3> QED
      BY <1>b, <2>3 DEF NewMemory, MemoryTyped
  <2>5. ~EndsLow(lists["charge"])
    <3>1. lists["charge"] = Append(files["charge"], Marker) /\ files["charge"] \in Seq(Item)
      BY <1>b, <2>3 DEF Histories, Lists
    <3> HIDE DEF lists
    <3>2. lists["charge"][Len(lists["charge"])] = Marker
      BY <2>2, <3>1
    <3> QED
      BY <2>2, <3>2 DEF EndsLow
  <2> HIDE DEF loaded, lists
  <2>6. MemoryInv(m)
    BY <2>4, <2>5, ScheduleSaveKeeps, Zenon
  <2> HIDE DEF m
  <2> QED
    BY <1>0, <1>s, <1>f, <2>1, <2>6, Zenon
<1>2. CASE \E reading \in Reading : UpdateHistory(reading)
  <2>1. PICK reading \in Reading : UpdateHistory(reading)
    BY <1>2
  <2>2. PICK broken \in DiskOutcome : SetMemory(SetAllData(Memory, reading, broken))
    BY <2>1, Zenon DEF UpdateHistory
  <2> DEFINE m == SetAllData(Memory, reading, broken)
  <2>3. MemoryInv(m)
    BY <1>0, SetAllDataKeeps
  <2>4. Memory' = m
    BY <1>s, <2>2, <2>3, Zenon
  <2>5. /\ history_id' = history_id /\ now' = now /\ history_state' = reading.state
        /\ last' = [k \in Histories |-> IF Recorded(k, reading) THEN reading.value[k]
                                        ELSE last[k]]
    BY <2>1, Zenon DEF UpdateHistory
  <2>6. reading.state \in DeviceState /\ \A k \in Histories : reading.value[k] \in Int
    BY DEF HistoryAssumption
  <2>7. last' \in [Histories -> Int]
    <3> HIDE DEF m
    <3> QED
      BY <1>0, <2>5, <2>6
  <2> HIDE DEF m
  <2> QED
    BY <1>0, <1>f, <2>3, <2>4, <2>5, <2>6, <2>7, Zenon
<1>3. CASE ScheduleSaveCb
  <2>1. PICK broken \in DiskOutcome :
          SetMemory([SaveData(Memory, broken) EXCEPT !.save_id = FALSE, !.save_live = FALSE])
    BY <1>3, Zenon DEF ScheduleSaveCb
  <2> DEFINE saved == SaveData(Memory, broken)
             m == [saved EXCEPT !.save_id = FALSE, !.save_live = FALSE]
  <2>2. MemoryTyped(saved)
        /\ (saved.save_failed = FALSE =>
             \A k \in Histories : IsWritten(saved.samples[k], saved.files[k]))
    BY <1>0, SaveDataWrites, Zenon
  <2> HIDE DEF saved
  <2>3. /\ MemoryTyped(m) /\ m.save_id = FALSE /\ m.save_live = FALSE
        /\ m.samples = saved.samples /\ m.files = saved.files
        /\ m.save_failed = saved.save_failed
    BY <2>2 DEF MemoryTyped
  <2>4. SetMemory(m)
    BY <2>1 DEF saved
  <2> HIDE DEF m
  <2>5. "charge" \in Histories
    BY DEF Histories
  <2>6. MemoryInv(m)
    BY <2>2, <2>3, <2>5, Zenon DEF MemoryInv, Scheduled, LowIsWritten
  <2>7. UNCHANGED <<history_id, history_state, last, now>>
    BY <1>3, Zenon DEF ScheduleSaveCb
  <2> QED
    BY <1>0, <1>s, <1>f, <2>4, <2>6, <2>7, Zenon
<1>4. ASSUME NEW disk \in [Histories -> Lists], NEW failed \in BOOLEAN,
             NewObject(disk, failed), now' = now
      PROVE  HistoryIInv'
  <2> DEFINE m == EmptyMemory(disk, failed)
  <2>1. MemoryInv(m) /\ [NewMemory(disk) EXCEPT !.save_failed = failed] = m
    BY EmptyMemoryIsSaved
  <2> HIDE DEF m
  <2>2. SetMemory(m) /\ history_id' = FALSE /\ history_state' = "unknown"
        /\ last' = [k \in Histories |-> 0]
    BY <1>4, <2>1, Zenon DEF NewObject
  <2>3. Memory' = m
    BY <1>s, <2>1, <2>2, Zenon
  <2>4. history_id' \in BOOLEAN /\ history_state' \in DeviceState
        /\ last' \in [Histories -> Int]
    BY <1>n, <2>2
  <2> QED
    BY <1>4, <1>f, <2>1, <2>3, <2>4, Zenon
<1>5. CASE Finalize
  <2>1. PICK broken \in DiskOutcome :
          LET m == SaveData(Memory, broken) IN NewObject(m.files, m.save_failed)
    BY <1>5, Zenon DEF Finalize
  <2> DEFINE saved == SaveData(Memory, broken)
  <2>2. MemoryTyped(saved)
    BY <1>0, SaveDataWrites, Zenon
  <2>3. NewObject(saved.files, saved.save_failed) /\ now' = now
    BY <1>5, <2>1, Zenon DEF Finalize
  <2> HIDE DEF saved
  <2>4. saved.files \in [Histories -> Lists] /\ saved.save_failed \in BOOLEAN
    BY <2>2 DEF MemoryTyped
  <2> QED
    BY <1>4, <2>3, <2>4
<1>6. CASE Crash
  <2>1. NewObject(files, FALSE) /\ now' = now
    BY <1>6, Zenon DEF Crash
  <2> QED
    BY <1>4, <1>b, <2>1
<1>7. CASE Tick
  <2>1. /\ now' = now + 1 /\ now < MaxTime
        /\ history_id' = history_id /\ history_state' = history_state /\ last' = last
        /\ samples' = samples /\ files' = files /\ save_id' = save_id
        /\ save_live' = save_live /\ save_failed' = save_failed
    BY <1>7 DEF Tick
  <2>2. ASSUME NEW k \in Histories, IsWritten(samples[k], files[k])
        PROVE  IsWritten(samples[k], files[k])'
    <3>1. samples[k] \in Seq(Item) /\ now \in Nat
      BY <1>0, <1>b DEF Lists
    <3>2. \A list \in Seq(Item) : \A file : IsWritten(list, file) =>
            \A i \in DOMAIN list : now' - list[i].time <= MaxDataAge =>
              \E j \in DOMAIN file : file[j] = list[i]
      <4> SUFFICES ASSUME NEW list \in Seq(Item), NEW file, IsWritten(list, file),
                          NEW i \in DOMAIN list, now' - list[i].time <= MaxDataAge
                   PROVE  \E j \in DOMAIN file : file[j] = list[i]
        OBVIOUS
      <4>1. IsYoung(list[i])
        <5>1. list[i] \in Item
          OBVIOUS
        <5>2. list[i].time \in 0..MaxTime /\ MaxTime \in Nat /\ MaxDataAge \in Nat
          BY <5>1 DEF Item, HistoryAssumption
        <5>3. now - list[i].time <= MaxDataAge
          BY <2>1, <3>1, <5>2
        <5> QED
          BY <5>3 DEF IsYoung
      <4> QED
        BY <4>1, Zenon DEF IsWritten
    <3>3. \A i \in DOMAIN samples[k] : now' - samples[k][i].time <= MaxDataAge =>
            \E j \in DOMAIN files[k] : files[k][j] = samples[k][i]
      BY <2>2, <3>1, <3>2
    <3>4. \A i \in DOMAIN samples'[k] : now' - samples'[k][i].time <= MaxDataAge =>
            \E j \in DOMAIN files'[k] : files'[k][j] = samples'[k][i]
      BY <2>1, <3>3, Zenon
    <3> QED
      BY <3>4, Zenon DEF IsWritten, IsYoung
  <2>3. Memory' = Memory
    BY <2>1, Zenon DEF Memory
  <2>4. "charge" \in Histories
    BY DEF Histories
  <2>5. Scheduled(Memory)' /\ LowIsWritten(Memory)'
    BY <1>0, <1>a, <2>1, <2>2, <2>3, <2>4, Zenon
       DEF MemoryInv, Scheduled, LowIsWritten, EndsLow
  <2>6. MemoryTyped(Memory)'
    <3>1. ASSUME NEW list \in Lists PROVE list \in Lists'
      <4>1. list \in Seq(Item) /\ InOrder(list, Earlier)
              /\ \A i \in DOMAIN list : list[i] \in Item /\ list[i].time <= now
        BY DEF Lists
      <4>2. \A item \in Item : item.time <= now => item.time <= now'
        BY <1>0, <2>1 DEF Item, HistoryAssumption
      <4> QED
        BY <4>1, <4>2, Zenon DEF Lists, Item, InOrder, Earlier
    <3>2. /\ samples' \in [Histories -> Lists'] /\ files' \in [Histories -> Lists']
          /\ save_id' \in BOOLEAN /\ save_live' \in BOOLEAN /\ save_failed' \in BOOLEAN
      <4>1. save_id \in BOOLEAN /\ save_live \in BOOLEAN /\ save_failed \in BOOLEAN
        BY <1>0, <1>a DEF MemoryTyped
      <4>2. \A k \in Histories : samples[k] \in Lists' /\ files[k] \in Lists'
        BY <1>b, <3>1
      <4> QED
        BY <1>b, <2>1, <4>1, <4>2
    <3> QED
      BY <3>2 DEF MemoryTyped, Memory
  <2>7. now' \in 0..MaxTime
    BY <1>0, <2>1 DEF HistoryAssumption
  <2> QED
    BY <1>0, <2>1, <2>5, <2>6, <2>7, Zenon DEF HistoryIInv, MemoryInv
<1>8. CASE UNCHANGED historyVars
  <2>1. /\ now' = now /\ Memory' = Memory /\ history_id' = history_id
        /\ history_state' = history_state /\ last' = last
    BY <1>8, Zenon DEF historyVars, Memory
  <2> QED
    BY <1>0, <1>f, <2>1, Zenon
<1> QED
  BY <1>1, <1>2, <1>3, <1>5, <1>6, <1>7, <1>8 DEF HistoryNext

LEMMA HistoryIInvHolds == HistorySpec => []HistoryIInv
<1>1. HistoryInit => HistoryIInv
  BY HistoryInitIInv, HistoryAssumption
<1>2. HistoryIInv /\ [HistoryNext]_historyVars => HistoryIInv'
  BY HistoryStepIInv, HistoryAssumption
<1> QED
  BY <1>1, <1>2, PTL DEF HistorySpec

\* Batching loses no sample of the history: each young one is on disk, or the
\* main loop has a timer that will save it, or the last save was incomplete
\* (up_history_schedule_save()).
THEOREM UnsavedIsScheduledSafety == HistorySpec => []UnsavedIsScheduled
<1>1. HistoryIInv => UnsavedIsScheduled
  <2> SUFFICES ASSUME HistoryIInv, history_id, ~save_failed, ~save_live, NEW k \in Histories
               PROVE  OnDisk(k)
    BY Zenon DEF UnsavedIsScheduled
  <2>1. /\ Memory.samples = samples /\ Memory.save_live = save_live
        /\ Memory.files = files /\ Memory.save_failed = save_failed
    BY DEF Memory
  <2>2. save_live \in BOOLEAN /\ save_failed \in BOOLEAN
    BY <2>1 DEF HistoryIInv, MemoryInv, MemoryTyped
  <2>3. save_live = FALSE /\ save_failed = FALSE
    BY <2>2, Zenon
  <2>4. IsWritten(samples[k], files[k])
    BY <2>1, <2>3 DEF HistoryIInv, MemoryInv, Scheduled
  <2> QED
    BY <2>4, Zenon DEF IsWritten, OnDisk
<1> QED
  BY <1>1, HistoryIInvHolds, PTL

\* A machine that dies of an empty battery has the end of its charge history on
\* disk: low power saves at once, whatever is scheduled (up_history_is_low_power()).
THEOREM LowPowerIsSavedSafety == HistorySpec => []LowPowerIsSaved
<1>1. HistoryIInv => LowPowerIsSaved
  <2> SUFFICES ASSUME HistoryIInv, ~save_failed, IsLowPower(Memory, history_state)
               PROVE  OnDisk("charge")
    BY Zenon DEF LowPowerIsSaved
  <2>1. /\ Memory.samples = samples /\ Memory.files = files
        /\ Memory.save_failed = save_failed
    BY DEF Memory
  <2>2. save_failed \in BOOLEAN /\ samples["charge"] \in Seq(Item)
    BY <2>1 DEF HistoryIInv, MemoryInv, MemoryTyped, Histories, Lists
  <2>3. save_failed = FALSE
    BY <2>2, Zenon
  <2>4. EndsLow(samples["charge"])
    BY <2>1, <2>2 DEF IsLowPower, EndsLow, Last
  <2>5. IsWritten(samples["charge"], files["charge"])
    BY <2>1, <2>3, <2>4 DEF HistoryIInv, MemoryInv, LowIsWritten
  <2> QED
    BY <2>5, Zenon DEF IsWritten, OnDisk
<1> QED
  BY <1>1, HistoryIInvHolds, PTL

-----------------------------------------------------------------------------
(* What is counted of the history of the charge.                           *)

ProfileStates(n) ==
  [last : 0..n, bin : Int, old : 0..n,
   counted : Seq([bin : Int, from : 1..n, to : 1..n])]
ProfileStart == [last |-> 0, bin |-> 999, old |-> 0, counted |-> <<>>]

\* The loop of up_history_get_profile_data(), as an equation of the function after.
ProfileAfter(list, state, after) ==
  [n \in 0..Len(list) |-> IF n = 0 THEN ProfileStart
                          ELSE ProfileStep(after[n - 1], list, n, state)]

LEMMA ProfileStepTyped ==
  ASSUME NEW list \in Seq(Item), NEW state, NEW i \in 1..Len(list),
         NEW p \in ProfileStates(Len(list))
  PROVE  ProfileStep(p, list, i, state) \in ProfileStates(Len(list))
<1> DEFINE bin == IF list[i].value > 100 THEN 100 ELSE list[i].value
           interval == [bin |-> bin, from |-> p.old, to |-> i]
           change == list[i].value - list[p.old].value
           next == [p EXCEPT !.last = i]
           more == IF p.old = 0 \/ list[i].state # state THEN p.counted
                   ELSE Append(p.counted, interval)
           result == ProfileStep(p, list, i, state)
<1>1. list[i].value \in Int /\ i \in 0..Len(list) /\ 0 \in 0..Len(list)
  <2>1. list[i] \in Item
    OBVIOUS
  <2> QED
    BY <2>1 DEF Item
<1>2. bin \in Int
  BY <1>1
<1> HIDE DEF bin
<1>3. more \in Seq([bin : Int, from : 1..Len(list), to : 1..Len(list)])
  <2> DEFINE S == [bin : Int, from : 1..Len(list), to : 1..Len(list)]
  <2>1. p.counted \in Seq(S)
    BY DEF ProfileStates
  <2>2. p.old # 0 => interval \in S
    BY <1>2 DEF ProfileStates
  <2> HIDE DEF interval, S
  <2>3. p.old # 0 => Append(p.counted, interval) \in Seq(S)
    BY <2>1, <2>2
  <2>4. more \in Seq(S)
    BY <2>1, <2>3, Zenon
  <2> QED
    BY <2>4, Zenon DEF S
<1>4. next \in ProfileStates(Len(list)) /\ next.counted = p.counted
  BY <1>1 DEF ProfileStates
<1>5. /\ [next EXCEPT !.old = 0] \in ProfileStates(Len(list))
      /\ [next EXCEPT !.bin = bin, !.old = 0] \in ProfileStates(Len(list))
  <2> HIDE DEF next
  <2> QED
    BY <1>1, <1>2, <1>4 DEF ProfileStates
<1>6. [next EXCEPT !.bin = bin, !.old = i, !.counted = more] \in ProfileStates(Len(list))
  <2> HIDE DEF next, more
  <2> QED
    BY <1>1, <1>2, <1>3, <1>4 DEF ProfileStates
<1>7. \/ result = [next EXCEPT !.old = 0]
      \/ result = next
      \/ result = [next EXCEPT !.bin = bin, !.old = 0]
      \/ result = [next EXCEPT !.bin = bin, !.old = i, !.counted = more]
  BY DEF ProfileStep, bin
<1> QED
  BY <1>4, <1>5, <1>6, <1>7, Zenon

\* The loop has a state after each sample, and the last has the intervals.
LEMMA ProfileLoop ==
  ASSUME NEW list \in Seq(Item), NEW state
  PROVE  \E after \in [0..Len(list) -> ProfileStates(Len(list))] :
           /\ after[0] = ProfileStart
           /\ \A n \in 1..Len(list) :
                after[n] = ProfileStep(after[n - 1], list, n, state)
           /\ ProfileIntervals(list, state) = after[Len(list)].counted
<1> DEFINE P == ProfileStates(Len(list))
           step == [n \in 1..Len(list) |-> [p \in P |-> ProfileStep(p, list, n, state)]]
<1>1. Len(list) \in Nat /\ ProfileStart \in P
  BY DEF ProfileStart, ProfileStates
<1>2. \A n \in 1..Len(list), p \in P : ProfileStep(p, list, n, state) \in P
  BY ProfileStepTyped
<1> HIDE DEF P
<1>3. step \in [1..Len(list) -> [P -> P]]
        /\ \A n \in 1..Len(list), p \in P : step[n][p] = ProfileStep(p, list, n, state)
  BY <1>2
<1> HIDE DEF step
<1>4. PICK f \in [0..Len(list) -> P] : Loops(Len(list), ProfileStart, step, f)
  BY <1>1, <1>3, LoopEnds
<1>5. f = ProfileAfter(list, state, f)
  <2> DEFINE Value(n) == IF n = 0 THEN ProfileStart ELSE ProfileStep(f[n - 1], list, n, state)
  <2>1. ASSUME NEW n \in 0..Len(list) PROVE f[n] = Value(n)
    <3>1. CASE n = 0
      BY <1>4, <3>1, Zenon DEF Loops
    <3>2. CASE n # 0
      <4>1. n \in 1..Len(list) /\ n - 1 \in 0..Len(list)
        BY <3>2
      <4>2. f[n] = step[n][f[n - 1]] /\ f[n - 1] \in P
        BY <1>4, <4>1 DEF Loops
      <4> QED
        BY <1>3, <3>2, <4>1, <4>2, Zenon
    <3> QED
      BY <3>1, <3>2
  <2> HIDE DEF Value
  <2>2. f = [n \in 0..Len(list) |-> Value(n)]
    BY <1>4, <2>1
  <2> QED
    BY <2>2, Zenon DEF ProfileAfter, Value
<1> DEFINE after == CHOOSE after : after = ProfileAfter(list, state, after)
<1>6. after = ProfileAfter(list, state, after)
  BY <1>5, Zenon
<1>7. ProfileIntervals(list, state) = after[Len(list)].counted
  BY Zenon DEF ProfileIntervals, ProfileAfter, ProfileStart
<1> HIDE DEF after
<1>8. after \in [0..Len(list) -> P] /\ after[0] = ProfileStart
        /\ \A n \in 1..Len(list) : after[n] = ProfileStep(after[n - 1], list, n, state)
  <2> DEFINE Value(n) == IF n = 0 THEN ProfileStart
                         ELSE ProfileStep(after[n - 1], list, n, state)
  <2>1. after = [n \in 0..Len(list) |-> Value(n)]
    BY <1>6, Zenon DEF ProfileAfter
  <2> HIDE DEF Value
  <2>2. \A n \in 0..Len(list) : after[n] = Value(n)
    BY <2>1
  <2>3. 0 \in 0..Len(list) /\ \A n \in 1..Len(list) : n \in 0..Len(list) /\ n # 0
    BY <1>1
  <2>4. after[0] = ProfileStart
          /\ \A n \in 1..Len(list) : after[n] = ProfileStep(after[n - 1], list, n, state)
    BY <2>2, <2>3, Zenon DEF Value
  <2>5. \A n \in 0..Len(list) : after[n] \in P
    BY <1>1, <1>2, <2>4, LoopStays
  <2> QED
    BY <2>1, <2>4, <2>5
<1> QED
  BY <1>7, <1>8, Zenon DEF P

\* What the loop knows after n samples: since the place old the state is the same,
\* and what is counted before it is in one state, piece after piece.
CountedSoFar(list, state, n, counted, old) ==
  \A a \in DOMAIN counted :
    /\ counted[a].from < counted[a].to /\ counted[a].to <= n
    /\ \A x \in counted[a].from..counted[a].to : list[x].state = state
    /\ \A b \in DOMAIN counted : a < b => counted[a].to <= counted[b].from
    /\ old # 0 => counted[a].to <= old

ProfileSound(list, state, n, p) ==
  /\ p.last = n /\ p.old <= n
  /\ p.old # 0 => \A x \in p.old..n : list[x].state = list[n].state
  /\ CountedSoFar(list, state, n, p.counted, p.old)

LEMMA OneMoreProfiled ==
  ASSUME NEW list \in Seq(Item), NEW state, NEW i \in 1..Len(list),
         NEW p \in ProfileStates(Len(list)), ProfileSound(list, state, i - 1, p)
  PROVE  ProfileSound(list, state, i, ProfileStep(p, list, i, state))
<1> DEFINE bin == IF list[i].value > 100 THEN 100 ELSE list[i].value
           interval == [bin |-> bin, from |-> p.old, to |-> i]
           counted == p.counted
           more == Append(counted, interval)
           next == [p EXCEPT !.last = i]
           result == ProfileStep(p, list, i, state)
<1> DEFINE S == [bin : Int, from : 1..Len(list), to : 1..Len(list)]
<1>1. /\ p.old \in 0..(i - 1) /\ p.last = i - 1 /\ counted \in Seq(S)
      /\ p.old # 0 => \A x \in p.old..(i - 1) : list[x].state = list[i - 1].state
      /\ CountedSoFar(list, state, i - 1, counted, p.old)
  BY DEF ProfileSound, ProfileStates
<1>2. \A a \in DOMAIN counted : counted[a].from \in Nat /\ counted[a].to \in Nat
  <2>1. \A a \in DOMAIN counted : counted[a] \in S
    <3> HIDE DEF S
    <3> QED
      BY <1>1
  <2> QED
    BY <2>1
<1>3. CountedSoFar(list, state, i, counted, 0) /\ CountedSoFar(list, state, i, counted, p.old)
        /\ CountedSoFar(list, state, i, counted, i)
  <2> HIDE DEF counted
  <2> SUFFICES ASSUME NEW a \in DOMAIN counted
               PROVE  counted[a].to <= i
    BY <1>1, Zenon DEF CountedSoFar
  <2> QED
    BY <1>1, <1>2 DEF CountedSoFar
<1>4. ASSUME list[i].state = list[i - 1].state, p.old # 0, NEW x \in p.old..i
      PROVE  list[x].state = list[i].state
  BY <1>1, <1>4
<1>5. ASSUME p.old # 0, list[i].state = state, list[i].state = list[i - 1].state
      PROVE  CountedSoFar(list, state, i, more, i)
  <2>1. /\ Len(more) = Len(counted) + 1 /\ DOMAIN more = 1..(Len(counted) + 1)
        /\ DOMAIN counted = 1..Len(counted) /\ Len(counted) \in Nat
        /\ more[Len(counted) + 1] = interval
        /\ \A a \in DOMAIN counted : more[a] = counted[a]
    <3> HIDE DEF interval, S
    <3> QED
      BY <1>1
  <2>2. interval.from = p.old /\ interval.to = i
    OBVIOUS
  <2> HIDE DEF interval, more, S, counted
  <2> SUFFICES ASSUME NEW a \in DOMAIN more
               PROVE  /\ more[a].from < more[a].to /\ more[a].to <= i
                      /\ \A x \in more[a].from..more[a].to : list[x].state = state
                      /\ \A b \in DOMAIN more : a < b => more[a].to <= more[b].from
    BY Zenon DEF CountedSoFar
  <2>3. CASE a = Len(counted) + 1
    <3>1. more[a].from = p.old /\ more[a].to = i
      BY <2>1, <2>2, <2>3
    <3>2. p.old < i /\ i <= i
      BY <1>1
    <3>3. \A b \in DOMAIN more : ~(a < b)
      BY <2>1, <2>3
    <3>4. \A x \in p.old..i : list[x].state = state
      BY <1>4, <1>5
    <3> QED
      BY <3>1, <3>2, <3>3, <3>4, Zenon
  <2>4. CASE a \in DOMAIN counted
    <3>1. more[a] = counted[a]
      BY <2>1, <2>4
    <3>2. /\ counted[a].from < counted[a].to /\ counted[a].to <= i /\ counted[a].to <= p.old
          /\ \A x \in counted[a].from..counted[a].to : list[x].state = state
          /\ \A b \in DOMAIN counted : a < b => counted[a].to <= counted[b].from
      BY <1>3, <1>5, <2>4, Zenon DEF CountedSoFar
    <3>3. ASSUME NEW b \in DOMAIN more, a < b PROVE counted[a].to <= more[b].from
      <4>1. CASE b = Len(counted) + 1
        BY <2>1, <2>2, <3>2, <4>1
      <4>2. CASE b # Len(counted) + 1
        <5>1. b \in DOMAIN counted
          BY <2>1, <4>2
        <5> QED
          BY <2>1, <3>2, <3>3, <5>1, Zenon
      <4> QED
        BY <4>1, <4>2
    <3> QED
      BY <3>1, <3>2, <3>3, Zenon
  <2> QED
    BY <2>1, <2>3, <2>4
<1> HIDE DEF bin, more
<1>6. next \in ProfileStates(Len(list)) /\ next.last = i /\ next.old = p.old
        /\ next.counted = counted
  BY DEF ProfileStates
<1> SUFFICES ProfileSound(list, state, i, result)
  OBVIOUS
<1> HIDE DEF next, counted, result
<1>7. CASE p.last = 0 \/ (p.last # 0 /\ list[i].state # list[p.last].state)
  <2>1. result = [next EXCEPT !.old = 0]
    BY <1>7, Zenon DEF ProfileStep, next, result
  <2>2. result.last = i /\ result.old = 0 /\ result.counted = counted
    BY <1>6, <2>1 DEF ProfileStates
  <2>3. 0 <= i
    OBVIOUS
  <2> QED
    BY <1>3, <2>2, <2>3, Zenon DEF ProfileSound
<1>8. CASE ~(p.last = 0 \/ (p.last # 0 /\ list[i].state # list[p.last].state))
  <2>0. list[i].state = list[i - 1].state /\ p.old <= i
    BY <1>1, <1>8
  <2>1. CASE result = next
    BY <1>3, <1>4, <1>6, <2>0, <2>1, Zenon DEF ProfileSound
  <2>2. CASE result = [next EXCEPT !.bin = bin, !.old = 0]
    <3>1. result.last = i /\ result.old = 0 /\ result.counted = counted
      BY <1>6, <2>2 DEF ProfileStates
    <3>2. 0 <= i
      OBVIOUS
    <3> QED
      BY <1>3, <3>1, <3>2, Zenon DEF ProfileSound
  <2>3. CASE result = [next EXCEPT !.bin = bin, !.old = i,
                                   !.counted = IF p.old = 0 \/ list[i].state # state
                                                 THEN @ ELSE Append(@, interval)]
    <3> DEFINE all == IF p.old = 0 \/ list[i].state # state THEN counted ELSE more
    <3>1. result = [next EXCEPT !.bin = bin, !.old = i, !.counted = all]
      BY <1>6, <2>3, Zenon DEF more
    <3> HIDE DEF all, interval
    <3>2. result.last = i /\ result.old = i /\ result.counted = all
      BY <1>6, <3>1 DEF ProfileStates
    <3>3. CountedSoFar(list, state, i, all, i)
      BY <1>3, <1>5, <2>0, Zenon DEF all
    <3>4. \A x \in i..i : list[x].state = list[i].state
      OBVIOUS
    <3>5. i <= i
      OBVIOUS
    <3> QED
      BY <3>2, <3>3, <3>4, <3>5, Zenon DEF ProfileSound
  <2>4. \/ result = next
        \/ result = [next EXCEPT !.bin = bin, !.old = 0]
        \/ result = [next EXCEPT !.bin = bin, !.old = i,
                                 !.counted = IF p.old = 0 \/ list[i].state # state
                                               THEN @ ELSE Append(@, interval)]
    BY <1>8, Zenon DEF ProfileStep, next, bin, interval, result
  <2> QED
    BY <2>1, <2>2, <2>3, <2>4
<1> QED
  BY <1>7, <1>8

LEMMA ProfileIsSound ==
  ASSUME NEW list \in Seq(Item), NEW state
  PROVE  /\ ProfileIntervals(list, state) \in
              Seq([bin : Int, from : 1..Len(list), to : 1..Len(list)])
         /\ CountedSoFar(list, state, Len(list), ProfileIntervals(list, state), 0)
<1> DEFINE P == ProfileStates(Len(list))
<1>1. PICK after \in [0..Len(list) -> P] :
        /\ after[0] = ProfileStart
        /\ \A n \in 1..Len(list) : after[n] = ProfileStep(after[n - 1], list, n, state)
        /\ ProfileIntervals(list, state) = after[Len(list)].counted
  BY ProfileLoop, Zenon
<1> DEFINE J == {n \in 0..Len(list) : ProfileSound(list, state, n, after[n])}
<1>2. Len(list) \in Nat /\ 0 \in 0..Len(list) /\ Len(list) \in 0..Len(list)
  OBVIOUS
<1>3. 0 \in J
  <2>1. ProfileSound(list, state, 0, ProfileStart)
    BY DEF ProfileSound, ProfileStart, CountedSoFar
  <2> QED
    BY <1>1, <1>2, <2>1
<1>4. ASSUME NEW n \in 1..Len(list), n - 1 \in J PROVE n \in J
  <2>1. ProfileSound(list, state, n - 1, after[n - 1]) /\ n \in 0..Len(list)
          /\ after[n - 1] \in P
    <3>1. n - 1 \in 0..Len(list) /\ n \in 0..Len(list)
      OBVIOUS
    <3> QED
      BY <1>1, <1>4, <3>1, Zenon
  <2>2. ProfileSound(list, state, n, after[n])
    BY <1>1, <2>1, OneMoreProfiled, Zenon
  <2> QED
    BY <2>1, <2>2
<1> HIDE DEF J
<1>5. \A n \in 0..Len(list) : n \in J
  BY <1>2, <1>3, <1>4, InductionUpTo
<1>6. ProfileSound(list, state, Len(list), after[Len(list)]) /\ after[Len(list)] \in P
  BY <1>1, <1>2, <1>5 DEF J
<1>7. CountedSoFar(list, state, Len(list), after[Len(list)].counted, 0)
  BY <1>6, Zenon DEF ProfileSound, CountedSoFar
<1> QED
  BY <1>1, <1>6, <1>7 DEF ProfileStates

\* Statistics count only time that the device spent in the state they are about,
\* never the time the daemon or the machine was off, none of it twice and none of it
\* negative (up_history_get_profile_data(), up_history_load_data()).
THEOREM ProfileSkipsDowntimeSafety == HistorySpec => []ProfileSkipsDowntime
<1>1. HistoryIInv => ProfileSkipsDowntime
  <2> SUFFICES ASSUME HistoryIInv, NEW state
               PROVE  LET list == samples["charge"]
                          counted == ProfileIntervals(list, state)
                      IN  \A a \in DOMAIN counted :
                            LET from == counted[a].from to == counted[a].to
                            IN  /\ from < to /\ list[from].time <= list[to].time
                                /\ \A x \in from..to : list[x].state = state
                                /\ \A b \in DOMAIN counted : a < b => to <= counted[b].from
    BY Zenon DEF ProfileSkipsDowntime
  <2> DEFINE list == samples["charge"]
             counted == ProfileIntervals(list, state)
  <2>1. list \in Seq(Item) /\ InOrder(list, Earlier)
    <3>1. Memory.samples = samples
      BY DEF Memory
    <3> QED
      BY <3>1 DEF HistoryIInv, MemoryInv, MemoryTyped, Histories, Lists
  <2> HIDE DEF list
  <2>2. counted \in Seq([bin : Int, from : 1..Len(list), to : 1..Len(list)])
          /\ CountedSoFar(list, state, Len(list), counted, 0)
    BY <2>1, ProfileIsSound, Zenon
  <2> HIDE DEF counted
  <2>3. ASSUME NEW a \in DOMAIN counted
        PROVE  list[counted[a].from].time <= list[counted[a].to].time
    <3>1. counted[a].from \in DOMAIN list /\ counted[a].to \in DOMAIN list
      <4> DEFINE S == [bin : Int, from : 1..Len(list), to : 1..Len(list)]
      <4>1. counted[a] \in S
        <5>1. counted \in Seq(S)
          BY <2>2
        <5> HIDE DEF S
        <5> QED
          BY <5>1
      <4> QED
        BY <2>1, <4>1
    <3>2. counted[a].from < counted[a].to
      BY <2>2, Zenon DEF CountedSoFar
    <3>3. <<list[counted[a].from], list[counted[a].to]>> \in Earlier
      BY <2>1, <3>1, <3>2, Zenon DEF InOrder
    <3> QED
      BY <3>3 DEF Earlier
  <2> QED
    BY <2>2, <2>3, Zenon DEF CountedSoFar, list, counted
<1> QED
  BY <1>1, HistoryIInvHolds, PTL

-----------------------------------------------------------------------------
(* The changes of state in a list.                                         *)

\* The loop of Changes, as an equation of the function states.
ChangesAfter(list, states) ==
  [n \in 0..Len(list) |-> IF n = 0 THEN <<>> ELSE AddChange(states[n - 1], list[n].state)]

LEMMA AddChangeTyped ==
  ASSUME NEW T, NEW states \in Seq(T), NEW state \in T
  PROVE  /\ AddChange(states, state) \in Seq(T)
         /\ AddChange(AddChange(states, state), state) = AddChange(states, state)
         /\ Len(AddChange(states, state)) \in {Len(states), Len(states) + 1}
<1> DEFINE more == Append(states, state)
<1>1. /\ more \in Seq(T) /\ more # <<>> /\ Last(more) = state /\ Len(more) = Len(states) + 1
  BY DEF Last
<1> HIDE DEF more
<1>2. AddChange(states, state) \in {states, more} /\ AddChange(more, state) = more
  BY <1>1, Zenon DEF AddChange, more
<1>3. AddChange(states, state) = states
        => AddChange(AddChange(states, state), state) = AddChange(states, state)
  BY Zenon
<1> QED
  BY <1>1, <1>2, <1>3, Zenon

LEMMA ChangesLoop ==
  ASSUME NEW T, NEW list, Len(list) \in Nat, \A n \in 1..Len(list) : list[n].state \in T
  PROVE  \E states \in [0..Len(list) -> Seq(T)] :
           /\ states[0] = <<>>
           /\ \A n \in 1..Len(list) : states[n] = AddChange(states[n - 1], list[n].state)
           /\ Changes(list) = states[Len(list)]
<1> DEFINE step == [n \in 1..Len(list) |->
                     [states \in Seq(T) |-> AddChange(states, list[n].state)]]
<1>1. <<>> \in Seq(T)
  OBVIOUS
<1>2. \A n \in 1..Len(list), states \in Seq(T) : AddChange(states, list[n].state) \in Seq(T)
  BY AddChangeTyped
<1>3. step \in [1..Len(list) -> [Seq(T) -> Seq(T)]]
        /\ \A n \in 1..Len(list), states \in Seq(T) :
             step[n][states] = AddChange(states, list[n].state)
  BY <1>2
<1> HIDE DEF step
<1>4. PICK f \in [0..Len(list) -> Seq(T)] : Loops(Len(list), <<>>, step, f)
  BY <1>1, <1>3, LoopEnds
<1>5. f = ChangesAfter(list, f)
  <2> DEFINE Value(n) == IF n = 0 THEN <<>> ELSE AddChange(f[n - 1], list[n].state)
  <2>1. ASSUME NEW n \in 0..Len(list) PROVE f[n] = Value(n)
    <3>1. CASE n = 0
      BY <1>4, <3>1, Zenon DEF Loops
    <3>2. CASE n # 0
      <4>1. n \in 1..Len(list) /\ n - 1 \in 0..Len(list)
        BY <3>2
      <4>2. f[n] = step[n][f[n - 1]] /\ f[n - 1] \in Seq(T)
        BY <1>4, <4>1 DEF Loops
      <4> QED
        BY <1>3, <3>2, <4>1, <4>2, Zenon
    <3> QED
      BY <3>1, <3>2
  <2> HIDE DEF Value
  <2>2. f = [n \in 0..Len(list) |-> Value(n)]
    BY <1>4, <2>1
  <2> QED
    BY <2>2, Zenon DEF ChangesAfter, Value
<1> DEFINE states == CHOOSE states : states = ChangesAfter(list, states)
<1>6. states = ChangesAfter(list, states)
  BY <1>5, Zenon
<1>7. Changes(list) = states[Len(list)]
  BY Zenon DEF Changes, ChangesAfter
<1> HIDE DEF states
<1>8. states \in [0..Len(list) -> Seq(T)] /\ states[0] = <<>>
        /\ \A n \in 1..Len(list) : states[n] = AddChange(states[n - 1], list[n].state)
  <2> DEFINE Value(n) == IF n = 0 THEN <<>> ELSE AddChange(states[n - 1], list[n].state)
  <2>1. states = [n \in 0..Len(list) |-> Value(n)]
    BY <1>6, Zenon DEF ChangesAfter
  <2> HIDE DEF Value
  <2>2. \A n \in 0..Len(list) : states[n] = Value(n)
    BY <2>1
  <2>3. 0 \in 0..Len(list) /\ \A n \in 1..Len(list) : n \in 0..Len(list) /\ n # 0
    OBVIOUS
  <2>4. states[0] = <<>>
          /\ \A n \in 1..Len(list) : states[n] = AddChange(states[n - 1], list[n].state)
    BY <2>2, <2>3, Zenon DEF Value
  <2>5. \A n \in 0..Len(list) : states[n] \in Seq(T)
    BY <1>1, <1>2, <2>4, LoopStays
  <2> QED
    BY <2>1, <2>4, <2>5
<1> QED
  BY <1>7, <1>8, Zenon

\* Whatever function satisfies the equations of the loop has its result.
LEMMA ChangesAre ==
  ASSUME NEW list, Len(list) \in Nat, NEW states, states[0] = <<>>,
         \A n \in 1..Len(list) : states[n] = AddChange(states[n - 1], list[n].state)
  PROVE  Changes(list) = states[Len(list)]
<1> DEFINE T == {list[n].state : n \in 1..Len(list)}
<1>0. \A n \in 1..Len(list) : list[n].state \in T
  OBVIOUS
<1> HIDE DEF T
<1>1. PICK loop :
        /\ loop[0] = <<>>
        /\ \A n \in 1..Len(list) : loop[n] = AddChange(loop[n - 1], list[n].state)
        /\ Changes(list) = loop[Len(list)]
  BY <1>0, ChangesLoop
<1> DEFINE J == {n \in 0..Len(list) : loop[n] = states[n]}
<1>2. 0 \in J
  BY <1>1
<1>3. ASSUME NEW n \in 1..Len(list), n - 1 \in J PROVE n \in J
  <2>1. loop[n - 1] = states[n - 1] /\ n \in 0..Len(list)
    BY <1>3
  <2>2. loop[n] = states[n]
    BY <1>1, <2>1, Zenon
  <2> QED
    BY <2>1, <2>2
<1> HIDE DEF J
<1>4. \A n \in 0..Len(list) : n \in J
  BY <1>2, <1>3, InductionUpTo
<1>5. Len(list) \in 0..Len(list)
  OBVIOUS
<1>6. Len(list) \in J
  BY <1>4, <1>5, Zenon
<1> QED
  BY <1>1, <1>6 DEF J

\* Changes looks at nothing but states.
LEMMA ChangesSame ==
  ASSUME NEW list, NEW other, Len(list) \in Nat, Len(other) = Len(list),
         \A n \in 1..Len(list) : other[n].state = list[n].state
  PROVE  Changes(other) = Changes(list)
<1> DEFINE T == {list[n].state : n \in 1..Len(list)}
<1>0. \A n \in 1..Len(list) : list[n].state \in T
  OBVIOUS
<1> HIDE DEF T
<1>1. PICK states :
        /\ states[0] = <<>>
        /\ \A n \in 1..Len(list) : states[n] = AddChange(states[n - 1], list[n].state)
        /\ Changes(list) = states[Len(list)]
  BY <1>0, ChangesLoop
<1>2. \A n \in 1..Len(other) : states[n] = AddChange(states[n - 1], other[n].state)
  BY <1>1, Zenon
<1>3. Changes(other) = states[Len(other)]
  BY <1>1, <1>2, ChangesAre
<1> QED
  BY <1>1, <1>3, Zenon

\* One more element adds the change to its state.
LEMMA ChangesAppend ==
  ASSUME NEW S, NEW list \in Seq(S), NEW x \in S
  PROVE  Changes(Append(list, x)) = AddChange(Changes(list), x.state)
<1> DEFINE more == Append(list, x)
           T == {y.state : y \in S}
<1>1. /\ Len(list) \in Nat /\ Len(more) = Len(list) + 1 /\ Len(more) \in Nat
      /\ \A n \in 1..Len(list) : more[n] = list[n] /\ n \in 1..Len(more)
      /\ more[Len(more)] = x /\ Len(more) \in 1..Len(more) /\ Len(more) - 1 = Len(list)
  OBVIOUS
<1>2. \A n \in 1..Len(more) : more[n] \in S
  OBVIOUS
<1> HIDE DEF more
<1>3. \A n \in 1..Len(more) : more[n].state \in T
  BY <1>2
<1> HIDE DEF T
<1>4. PICK states :
        /\ states[0] = <<>>
        /\ \A n \in 1..Len(more) : states[n] = AddChange(states[n - 1], more[n].state)
        /\ Changes(more) = states[Len(more)]
  BY <1>1, <1>3, ChangesLoop
<1>5. \A n \in 1..Len(list) : states[n] = AddChange(states[n - 1], list[n].state)
  BY <1>1, <1>4, Zenon
<1>6. Changes(list) = states[Len(list)]
  BY <1>1, <1>4, <1>5, ChangesAre
<1>7. states[Len(more)] = AddChange(states[Len(more) - 1], more[Len(more)].state)
  BY <1>1, <1>4, Zenon
<1>8. Changes(more) = AddChange(Changes(list), x.state)
  BY <1>1, <1>4, <1>6, <1>7, Zenon
<1> QED
  BY <1>8 DEF more

LEMMA NoChanges == Changes(<<>>) = <<>>
<1>1. PICK states : states[0] = <<>> /\ Changes(<<>>) = states[Len(<<>>)]
  <2>1. Len(<<>>) \in Nat /\ \A n \in 1..Len(<<>>) : <<>>[n].state \in {}
    OBVIOUS
  <2> QED
    BY <2>1, ChangesLoop
<1> QED
  BY <1>1

-----------------------------------------------------------------------------
(* The answers of GetHistory.                                              *)

\* What is thinned out is the list, or a part of it in the opposite order.
LEMMA RecordedIsTyped ==
  ASSUME NEW array \in Seq(Item), array # <<>>, NEW timespan
  PROVE  CopyArrayTimespan(array, timespan) \in Seq(Item)
<1>1. CASE timespan = 0
  BY <1>1 DEF CopyArrayTimespan
<1>2. CASE timespan # 0
  <2> DEFINE tail == Tail(array)
             list == Reverse(tail)
             recorded == NoOlderThan(list, (95 * timespan) \div 100 - 1)
             Pairs == Item \X Item
  <2>1. tail \in Seq(Item) /\ Len(tail) \in Nat /\ \A i \in 1..Len(tail) : tail[i] \in Item
    OBVIOUS
  <2> HIDE DEF tail
  <2>2. list \in Seq(Item)
    <3>1. list = [i \in 1..Len(tail) |-> tail[(Len(tail) - i) + 1]]
      BY Zenon DEF Reverse
    <3>2. \A i \in 1..Len(tail) : (Len(tail) - i) + 1 \in 1..Len(tail)
      BY <2>1
    <3> HIDE DEF list
    <3>3. list \in [1..Len(tail) -> Item]
      BY <2>1, <3>1, <3>2
    <3> QED
      BY <2>1, <3>3
  <2> HIDE DEF list
  <2>3. InOrder(list, Pairs)
    <3>1. \A i \in DOMAIN list : list[i] \in Item
      BY <2>2
    <3> QED
      BY <3>1 DEF InOrder
  <2> HIDE DEF Pairs
  <2>4. Keeps(list, Item, (95 * timespan) \div 100 - 1, Pairs, Len(list), recorded)
    BY <2>2, <2>3, NoOlderThanKeeps, Zenon
  <2>5. CopyArrayTimespan(array, timespan) = recorded
    BY <1>2, Zenon DEF CopyArrayTimespan, list, tail
  <2> QED
    BY <2>4, <2>5, Zenon DEF Keeps
<1> QED
  BY <1>1, <1>2

-----------------------------------------------------------------------------
(* Thinning out.                                                           *)

LimitPoints == Seq([items : Seq(Item), state : DeviceState])
LimitStates == [points : LimitPoints, items : Seq(Item), state : DeviceState, step : Nat]
LimitStart == [points |-> <<>>, items |-> <<>>, state |-> "unknown", step |-> 1]

\* The point that is being collected, and the points with it.
OpenPoint(p) == [items |-> p.items, state |-> p.state]
WithOpen(p) == Append(p.points, OpenPoint(p))

\* The loop of up_history_array_limit_resolution(), as an equation of the function
\* after.
LimitAfter(array, last_time, division, after) ==
  [n \in 0..Len(array) |->
     IF n = 0 THEN LimitStart
     ELSE LimitStep(after[n - 1], array[n], last_time, division)]

\* A step closes the point, when the sample is past the next division or in another
\* state, or adds the sample to it.
LEMMA LimitStepIs ==
  ASSUME NEW p \in LimitStates, NEW item \in Item, NEW last_time, NEW division
  PROVE  LET q == LimitStep(p, item, last_time, division)
         IN  /\ q \in LimitStates /\ q.items # <<>>
             /\ \/ /\ p.items # <<>>
                   /\ q.points = WithOpen(p) /\ q.state = item.state /\ q.step = p.step + 1
                \/ /\ p.items # <<>> => item.state = p.state
                   /\ q.points = p.points /\ q.state = p.state /\ q.step = p.step
<1> DEFINE q == LimitStep(p, item, last_time, division)
           closes == p.items # <<>> /\ (item.state # p.state
                                        \/ IsPast(item, last_time, division, p.step))
           closed == [points |-> WithOpen(p), items |-> <<item>>, state |-> item.state,
                      step |-> p.step + 1]
           added == [p EXCEPT !.items = Append(@, item)]
<1>1. /\ closes => q = closed
      /\ ~closes => q = added
  BY Zenon DEF LimitStep, WithOpen, OpenPoint
<1>2. item.state \in DeviceState /\ p.items \in Seq(Item) /\ p.points \in LimitPoints
        /\ p.state \in DeviceState /\ p.step \in Nat
  BY DEF Item, LimitStates
<1>3. WithOpen(p) \in LimitPoints
  <2> DEFINE S == [items : Seq(Item), state : DeviceState]
  <2>1. OpenPoint(p) \in S /\ p.points \in Seq(S)
    BY <1>2 DEF OpenPoint, LimitPoints
  <2> HIDE DEF S
  <2>2. Append(p.points, OpenPoint(p)) \in Seq(S)
    BY <2>1
  <2> QED
    BY <2>2, Zenon DEF WithOpen, LimitPoints, S
<1>4. /\ closed \in LimitStates /\ closed.items # <<>> /\ closed.points = WithOpen(p)
      /\ closed.state = item.state /\ closed.step = p.step + 1
  <2>1. <<item>> \in Seq(Item) /\ <<item>> # <<>> /\ p.step + 1 \in Nat
    BY <1>2
  <2> QED
    BY <1>2, <1>3, <2>1 DEF LimitStates
<1>5. /\ added \in LimitStates /\ added.items # <<>> /\ added.points = p.points
      /\ added.state = p.state /\ added.step = p.step
  <2> DEFINE more == Append(p.items, item)
  <2>1. more \in Seq(Item) /\ more # <<>>
    BY <1>2
  <2>2. added = [p EXCEPT !.items = more]
    OBVIOUS
  <2> HIDE DEF more, added
  <2> QED
    BY <1>2, <2>1, <2>2 DEF LimitStates
<1> HIDE DEF q, closed, added
<1>6. CASE closes
  BY <1>1, <1>4, <1>6, Zenon DEF q
<1>7. CASE ~closes
  BY <1>1, <1>5, <1>7, Zenon DEF q
<1> QED
  BY <1>6, <1>7, Zenon

\* The loop has a state after each sample, and the last has the points.
LEMMA LimitLoop ==
  ASSUME NEW array \in Seq(Item), array # <<>>, NEW max_num, ~(Len(array) < max_num)
  PROVE  LET last_time == Last(array).time
             division == Division(Head(array).time, last_time, max_num)
         IN  \E after \in [0..Len(array) -> LimitStates] :
               /\ after[0] = LimitStart
               /\ \A n \in 1..Len(array) :
                    after[n] = LimitStep(after[n - 1], array[n], last_time, division)
               /\ LET end == after[Len(array)]
                      points == IF end.items = <<>> THEN end.points ELSE WithOpen(end)
                  IN  LimitResolution(array, max_num) = [i \in DOMAIN points |-> Point(points[i])]
<1> DEFINE last_time == Last(array).time
           division == Division(Head(array).time, last_time, max_num)
           P == LimitStates
           Step(p, n) == LimitStep(p, array[n], last_time, division)
           step == [n \in 1..Len(array) |-> [p \in P |-> Step(p, n)]]
<1>1. Len(array) \in Nat /\ Len(array) # 0 /\ LimitStart \in P
  BY DEF LimitStart, LimitStates, LimitPoints, DeviceState
<1>2. \A n \in 1..Len(array), p \in P : Step(p, n) \in P
  <2>1. \A n \in 1..Len(array) : array[n] \in Item
    OBVIOUS
  <2> HIDE DEF last_time, division
  <2> QED
    BY <2>1, LimitStepIs, Zenon
<1> HIDE DEF P, Step
<1>3. step \in [1..Len(array) -> [P -> P]]
        /\ \A n \in 1..Len(array), p \in P : step[n][p] = Step(p, n)
  BY <1>2
<1> HIDE DEF step
<1>4. PICK f \in [0..Len(array) -> P] : Loops(Len(array), LimitStart, step, f)
  BY <1>1, <1>3, LoopEnds
<1>5. f = LimitAfter(array, last_time, division, f)
  <2> DEFINE Value(n) == IF n = 0 THEN LimitStart ELSE Step(f[n - 1], n)
  <2>1. ASSUME NEW n \in 0..Len(array) PROVE f[n] = Value(n)
    <3>1. CASE n = 0
      BY <1>4, <3>1, Zenon DEF Loops
    <3>2. CASE n # 0
      <4>1. n \in 1..Len(array) /\ n - 1 \in 0..Len(array)
        BY <3>2
      <4>2. f[n] = step[n][f[n - 1]] /\ f[n - 1] \in P
        BY <1>4, <4>1 DEF Loops
      <4> QED
        BY <1>3, <3>2, <4>1, <4>2, Zenon
    <3> QED
      BY <3>1, <3>2
  <2> HIDE DEF Value
  <2>2. f = [n \in 0..Len(array) |-> Value(n)]
    BY <1>4, <2>1
  <2> QED
    BY <2>2, Zenon DEF LimitAfter, Value, Step
<1> DEFINE after == CHOOSE after : after = LimitAfter(array, last_time, division, after)
           end == after[Len(array)]
           points == IF end.items = <<>> THEN end.points ELSE WithOpen(end)
<1>6. after = LimitAfter(array, last_time, division, after)
  BY <1>5, Zenon
<1>7. LimitResolution(array, max_num) = [i \in DOMAIN points |-> Point(points[i])]
  <2>1. ~(Len(array) = 0 \/ Len(array) < max_num)
    BY <1>1
  <2> QED
    BY <2>1, Zenon DEF LimitResolution, LimitAfter, LimitStart, WithOpen, OpenPoint
<1> HIDE DEF after
<1>8. after \in [0..Len(array) -> P] /\ after[0] = LimitStart
        /\ \A n \in 1..Len(array) : after[n] = Step(after[n - 1], n)
  <2> DEFINE Value(n) == IF n = 0 THEN LimitStart ELSE Step(after[n - 1], n)
  <2>1. after = [n \in 0..Len(array) |-> Value(n)]
    BY <1>6, Zenon DEF LimitAfter, Step
  <2> HIDE DEF Value
  <2>2. \A n \in 0..Len(array) : after[n] = Value(n)
    BY <2>1
  <2>3. 0 \in 0..Len(array) /\ \A n \in 1..Len(array) : n \in 0..Len(array) /\ n # 0
    BY <1>1
  <2>4. after[0] = LimitStart
          /\ \A n \in 1..Len(array) : after[n] = Step(after[n - 1], n)
    BY <2>2, <2>3, Zenon DEF Value
  <2>5. \A n \in 0..Len(array) : after[n] \in P
    BY <1>1, <1>2, <2>4, LoopStays
  <2> QED
    BY <2>1, <2>4, <2>5
<1> QED
  BY <1>7, <1>8, Zenon DEF P, Step

\* What the loop knows when changes are the changes of state after the first sample:
\* the points show them, and the open one is in the last of these states.
LimitSound(changes, p) ==
  /\ p.items # <<>>
  /\ AddChange(changes, p.state) = changes
  /\ Changes(Tail(WithOpen(p))) = changes

LEMMA TailOfAppend ==
  ASSUME NEW S, NEW list \in Seq(S), list # <<>>, NEW x \in S
  PROVE  Tail(Append(list, x)) = Append(Tail(list), x) /\ Tail(list) \in Seq(S)
OBVIOUS

LEMMA OneMoreThinned ==
  ASSUME NEW item \in Item, NEW p \in LimitStates, NEW last_time, NEW division,
         NEW changes \in Seq(DeviceState), LimitSound(changes, p)
  PROVE  LimitSound(AddChange(changes, item.state), LimitStep(p, item, last_time, division))
<1> DEFINE q == LimitStep(p, item, last_time, division)
           more == AddChange(changes, item.state)
           S == [items : Seq(Item), state : DeviceState]
<1>0. item.state \in DeviceState
  BY DEF Item
<1>1. /\ q \in LimitStates /\ q.items # <<>>
      /\ \/ /\ p.items # <<>>
            /\ q.points = WithOpen(p) /\ q.state = item.state /\ q.step = p.step + 1
         \/ /\ p.items # <<>> => item.state = p.state
            /\ q.points = p.points /\ q.state = p.state /\ q.step = p.step
  BY LimitStepIs
<1>2. /\ p.items # <<>> /\ AddChange(changes, p.state) = changes
      /\ Changes(Tail(WithOpen(p))) = changes
  BY Zenon DEF LimitSound
<1>3. more \in Seq(DeviceState) /\ AddChange(more, item.state) = more
  BY <1>0, AddChangeTyped
<1>4. /\ p.points \in Seq(S) /\ q.points \in Seq(S) /\ OpenPoint(p) \in S /\ OpenPoint(q) \in S
      /\ p.state \in DeviceState /\ p.step \in Nat
      /\ OpenPoint(p).state = p.state /\ OpenPoint(q).state = q.state
  BY <1>1 DEF LimitStates, LimitPoints, OpenPoint
<1> HIDE DEF q, more, S
<1>6. /\ WithOpen(p) \in Seq(S) /\ WithOpen(p) # <<>> /\ Len(WithOpen(p)) = Len(p.points) + 1
      /\ WithOpen(q) \in Seq(S) /\ WithOpen(q) # <<>> /\ Len(WithOpen(q)) = Len(q.points) + 1
  BY <1>4 DEF WithOpen
<1>7. CASE /\ p.items # <<>>
           /\ q.points = WithOpen(p) /\ q.state = item.state /\ q.step = p.step + 1
  <2>1. Changes(Tail(WithOpen(q))) = more
    <3>1. WithOpen(q) = Append(WithOpen(p), OpenPoint(q))
      BY <1>7, Zenon DEF WithOpen
    <3>2. Tail(WithOpen(q)) = Append(Tail(WithOpen(p)), OpenPoint(q))
            /\ Tail(WithOpen(p)) \in Seq(S)
      BY <1>4, <1>6, <3>1, TailOfAppend
    <3>3. Changes(Append(Tail(WithOpen(p)), OpenPoint(q)))
            = AddChange(Changes(Tail(WithOpen(p))), OpenPoint(q).state)
      BY <1>4, <3>2, ChangesAppend, Zenon
    <3> QED
      BY <1>2, <1>4, <1>7, <3>2, <3>3, Zenon DEF more
  <2> QED
    BY <1>1, <1>3, <1>7, <2>1, Zenon DEF LimitSound, q, more
<1>8. CASE /\ p.items # <<>> => item.state = p.state
           /\ q.points = p.points /\ q.state = p.state /\ q.step = p.step
  <2>1. more = changes
    BY <1>2, <1>8, Zenon DEF more
  <2>2. Changes(Tail(WithOpen(q))) = changes
    <3> DEFINE tail == Tail(WithOpen(p))
               other == Tail(WithOpen(q))
    <3>1. /\ Len(tail) = Len(p.points) /\ Len(other) = Len(p.points) /\ Len(p.points) \in Nat
          /\ tail \in Seq(S)
          /\ \A n \in 1..Len(p.points) : /\ tail[n] = WithOpen(p)[n + 1]
                                         /\ other[n] = WithOpen(q)[n + 1]
      BY <1>4, <1>6, <1>8
    <3> HIDE DEF tail, other
    <3>2. ASSUME NEW n \in 1..Len(tail)
          PROVE  other[n].state = tail[n].state
      <4>1. n + 1 \in 1..(Len(p.points) + 1) /\ n \in 1..Len(p.points)
        BY <3>1
      <4>2. CASE n + 1 = Len(p.points) + 1
        <5>1. WithOpen(p)[n + 1] = OpenPoint(p) /\ WithOpen(q)[n + 1] = OpenPoint(q)
          BY <1>4, <1>8, <4>2 DEF WithOpen
        <5> QED
          BY <1>4, <1>8, <3>1, <4>1, <5>1, Zenon
      <4>3. CASE n + 1 # Len(p.points) + 1
        <5>1. WithOpen(p)[n + 1] = p.points[n + 1] /\ WithOpen(q)[n + 1] = p.points[n + 1]
              /\ p.points[n + 1] \in S
          BY <1>4, <1>8, <4>1, <4>3, <3>1 DEF WithOpen
        <5> QED
          BY <3>1, <4>1, <5>1, Zenon
      <4> QED
        BY <4>2, <4>3
    <3>3. Changes(other) = Changes(tail)
      BY <3>1, <3>2, ChangesSame, Zenon
    <3> QED
      BY <1>2, <3>3, Zenon DEF tail, other
  <2> QED
    BY <1>1, <1>2, <1>8, <2>1, <2>2, Zenon DEF LimitSound, q, more
<1> QED
  BY <1>1, <1>2, <1>7, <1>8, Zenon

\* The points of a list that is thinned out show its changes of state.
LEMMA ThinnedShowsChanges ==
  ASSUME NEW array \in Seq(Item), array # <<>>, NEW max_num, ~(Len(array) < max_num)
  PROVE  Changes(Tail(LimitResolution(array, max_num))) = Changes(Tail(array))
<1> DEFINE last_time == Last(array).time
           division == Division(Head(array).time, last_time, max_num)
<1>0. /\ Len(array) \in Nat /\ Len(array) > 0 /\ array[1] \in Item
      /\ \A n \in 1..Len(array) : array[n] \in Item
  OBVIOUS
<1>3. PICK after \in [0..Len(array) -> LimitStates] :
        /\ after[0] = LimitStart
        /\ \A n \in 1..Len(array) :
             after[n] = LimitStep(after[n - 1], array[n], last_time, division)
        /\ LET end == after[Len(array)]
               points == IF end.items = <<>> THEN end.points ELSE WithOpen(end)
           IN  LimitResolution(array, max_num) = [i \in DOMAIN points |-> Point(points[i])]
  BY LimitLoop, Zenon
<1> DEFINE tail == Tail(array)
           N == Len(array) - 1
<1>4. /\ Len(tail) = N /\ N \in Nat /\ Len(array) = N + 1
      /\ \A n \in 1..N : tail[n] = array[n + 1] /\ n + 1 \in 1..Len(array)
  BY <1>0
<1>5. \A n \in 1..N : tail[n].state \in DeviceState
  BY <1>0, <1>4 DEF Item
<1> HIDE DEF last_time, division, tail, N
<1>6. PICK states \in [0..N -> Seq(DeviceState)] :
        /\ states[0] = <<>>
        /\ \A n \in 1..N : states[n] = AddChange(states[n - 1], tail[n].state)
        /\ Changes(tail) = states[N]
  BY <1>4, <1>5, ChangesLoop
<1> DEFINE J == {n \in 0..N : LimitSound(states[n], after[n + 1])}
<1>7. 0 \in J
  <2> DEFINE p == after[1]
  <2>1. p = LimitStep(LimitStart, array[1], last_time, division) /\ LimitStart \in LimitStates
    <3>1. 1 \in 1..Len(array) /\ 1 - 1 = 0 /\ 0 \in 0..Len(array)
      BY <1>0
    <3> QED
      BY <1>3, <3>1, Zenon
  <2>2. LimitStart.items = <<>> /\ LimitStart.points = <<>> /\ LimitStart.state = "unknown"
          /\ LimitStart.step = 1
    BY DEF LimitStart
  <2> HIDE DEF p
  <2>3. p \in LimitStates /\ p.items # <<>> /\ p.points = <<>> /\ p.state = "unknown" /\ p.step = 1
    <3>1. /\ p \in LimitStates /\ p.items # <<>>
          /\ \/ LimitStart.items # <<>>
             \/ /\ p.points = LimitStart.points /\ p.state = LimitStart.state
                /\ p.step = LimitStart.step
      BY <1>0, <2>1, LimitStepIs
    <3> QED
      BY <2>2, <3>1, Zenon
  <2>4. Tail(WithOpen(p)) = <<>>
    BY <2>3 DEF WithOpen
  <2>5. LimitSound(<<>>, p)
    <3>1. AddChange(<<>>, p.state) = <<>> /\ Changes(Tail(WithOpen(p))) = <<>>
      BY <2>3, <2>4, NoChanges, Zenon DEF AddChange
    <3> QED
      BY <2>3, <3>1, Zenon DEF LimitSound
  <2>6. 0 \in 0..N /\ 0 + 1 = 1
    BY <1>4
  <2> QED
    BY <1>6, <2>5, <2>6 DEF p
<1>8. ASSUME NEW n \in 1..N, n - 1 \in J PROVE n \in J
  <2>1. /\ n \in 0..N /\ n - 1 \in 0..N /\ n + 1 \in 1..Len(array) /\ n + 1 - 1 = n
        /\ n \in 0..Len(array) /\ (n - 1) + 1 = n
    BY <1>4
  <2>2. LimitSound(states[n - 1], after[n])
    BY <1>8, <2>1
  <2>3. after[n + 1] = LimitStep(after[n], array[n + 1], last_time, division)
    BY <1>3, <2>1
  <2>4. states[n] = AddChange(states[n - 1], array[n + 1].state)
    BY <1>4, <1>6, Zenon
  <2>5. after[n] \in LimitStates /\ states[n - 1] \in Seq(DeviceState) /\ array[n + 1] \in Item
    BY <1>0, <1>3, <1>6, <2>1, Zenon
  <2>6. LimitSound(AddChange(states[n - 1], array[n + 1].state),
                   LimitStep(after[n], array[n + 1], last_time, division))
    BY <2>2, <2>5, OneMoreThinned, Zenon
  <2> QED
    BY <2>1, <2>3, <2>4, <2>6
<1> HIDE DEF J
<1>9. \A n \in 0..N : n \in J
  BY <1>4, <1>7, <1>8, InductionUpTo
<1> DEFINE end == after[Len(array)]
           points == WithOpen(end)
           data == LimitResolution(array, max_num)
<1>10. LimitSound(Changes(tail), end) /\ end \in LimitStates
  <2>1. N \in 0..N /\ N + 1 = Len(array) /\ Len(array) \in 0..Len(array)
    BY <1>0, <1>4
  <2>2. N \in J
    BY <1>9, <2>1, Zenon
  <2>3. LimitSound(states[N], after[N + 1])
    BY <2>2 DEF J
  <2> QED
    BY <1>3, <1>6, <2>1, <2>3, Zenon
<1>11. data = [i \in DOMAIN points |-> Point(points[i])]
  BY <1>3, <1>10, Zenon DEF LimitSound
<1> HIDE DEF end
<1> DEFINE S == [items : Seq(Item), state : DeviceState]
<1>12. points \in Seq(S) /\ Len(points) = Len(end.points) + 1 /\ Len(points) \in Nat
         /\ Len(points) > 0
  <2>1. end.points \in Seq(S) /\ OpenPoint(end) \in S
    BY <1>10 DEF LimitStates, LimitPoints, OpenPoint
  <2> HIDE DEF S
  <2> QED
    BY <2>1 DEF WithOpen
<1>13. Changes(Tail(points)) = Changes(tail)
  BY <1>10, Zenon DEF LimitSound
<1>14. /\ Len(data) = Len(points)
       /\ \A i \in 1..Len(points) : data[i].state = points[i].state
       /\ Len(Tail(data)) = Len(points) - 1
       /\ \A i \in 1..(Len(points) - 1) : Tail(data)[i] = data[i + 1]
  <2> DEFINE Value(i) == Point(points[i])
  <2>1. \A i : Value(i).state = points[i].state
    BY DEF Point
  <2>2. data = [i \in 1..Len(points) |-> Value(i)]
    BY <1>11, <1>12
  <2> DEFINE V == {Value(i) : i \in 1..Len(points)}
  <2>3. \A i \in 1..Len(points) : Value(i) \in V
    OBVIOUS
  <2> HIDE DEF data, points, Value, V
  <2>4. data \in [1..Len(points) -> V] /\ \A i \in 1..Len(points) : data[i] = Value(i)
    BY <2>2, <2>3
  <2>5. data \in Seq(V) /\ Len(data) = Len(points) /\ data # <<>>
    <3>1. \A n \in Nat : n > 0 =>
            \A f \in [1..n -> V] : f \in Seq(V) /\ Len(f) = n /\ f # <<>>
      OBVIOUS
    <3>2. Len(points) \in Nat /\ Len(points) > 0 /\ data \in [1..Len(points) -> V]
      BY <1>12, <2>4, Zenon
    <3> QED
      BY <3>1, <3>2, Zenon
  <2>6. /\ Len(Tail(data)) = Len(points) - 1
        /\ \A i \in 1..(Len(points) - 1) : Tail(data)[i] = data[i + 1]
    BY <1>12, <2>5
  <2> QED
    BY <2>1, <2>4, <2>5, <2>6
<1>15. Changes(Tail(data)) = Changes(Tail(points))
  <2>1. /\ Len(Tail(points)) = Len(points) - 1
        /\ \A i \in 1..(Len(points) - 1) : Tail(points)[i] = points[i + 1]
                                           /\ points[i + 1] \in S /\ i + 1 \in 1..Len(points)
    <3> HIDE DEF points, S
    <3> QED
      BY <1>12
  <2>3. Len(Tail(points)) \in Nat
    <3> HIDE DEF points, S
    <3> QED
      BY <1>12, <2>1
  <2> HIDE DEF points, data, S
  <2>4. ASSUME NEW i \in 1..Len(Tail(points))
        PROVE  Tail(data)[i].state = Tail(points)[i].state
    BY <1>14, <2>1, <2>4, Zenon
  <2> QED
    BY <1>14, <2>1, <2>3, <2>4, ChangesSame, Zenon
<1> QED
  BY <1>13, <1>14, <1>15, Zenon DEF tail

\* GetHistory hides no change of state after the first sample, however the floats of
\* its divisions are rounded (up_history_array_limit_resolution(),
\* up_history_copy_array_timespan()).
THEOREM AnswersShowChangesSafety == HistorySpec => []AnswersShowChanges
<1>1. HistoryIInv => AnswersShowChanges
  <2> SUFFICES ASSUME HistoryIInv, NEW k \in Histories,
                      NEW timespan, NEW max_num \in 0..MaxSamples, history_id,
                      samples[k] # <<>>, CopyArrayTimespan(samples[k], timespan) # <<>>
               PROVE  Changes(Tail(GetData(k, timespan, max_num)))
                        = Changes(Tail(CopyArrayTimespan(samples[k], timespan)))
    BY Zenon DEF AnswersShowChanges
  <2> DEFINE recorded == CopyArrayTimespan(samples[k], timespan)
             data == GetData(k, timespan, max_num)
  <2>1. samples[k] \in Seq(Item)
    <3>1. Memory.samples = samples
      BY DEF Memory
    <3>2. samples[k] \in Lists
      BY <3>1 DEF HistoryIInv, MemoryInv, MemoryTyped
    <3> QED
      BY <3>2, Zenon DEF Lists
  <2>2. recorded \in Seq(Item)
    BY <2>1, RecordedIsTyped, Zenon
  <2>3. data = LimitResolution(recorded, max_num) /\ recorded # <<>>
    BY Zenon DEF GetData
  <2> HIDE DEF recorded, data
  <2>4. CASE Len(recorded) < max_num
    BY <2>3, <2>4, Zenon DEF LimitResolution, recorded, data
  <2>5. CASE ~(Len(recorded) < max_num)
    BY <2>2, <2>3, <2>5, ThinnedShowsChanges, Zenon DEF recorded, data
  <2> QED
    BY <2>4, <2>5
<1> QED
  BY <1>1, HistoryIInvHolds, PTL
=============================================================================
