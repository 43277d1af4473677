---------------------------- MODULE UpPollProofs ----------------------------
(***************************************************************************)
(* Theorems about UpPoll, for any number of devices of any kinds, any      *)
(* number of sleeps and any signals on their way.                          *)
(***************************************************************************)
EXTENDS UpPoll, SequenceTheorems, TLAPS

\* What the functions of up-daemon.c work on.
Pair == [poll : PollState, sources : SUBSET Source]

PollTimeout == {"short", "long"}

LEMMA TimeoutType == \A level : Timeout(level) \in PollTimeout
BY DEF Timeout, PollTimeout

-----------------------------------------------------------------------------
(* Types.                                                                  *)

LEMMA SourceRemoveType ==
  ASSUME NEW p \in Pair, NEW id
  PROVE  /\ SourceRemove(p, id) \in Pair
         /\ SourceRemove(p, id).poll = p.poll
         /\ SourceRemove(p, id).sources = {s \in p.sources : s.id # id}
BY DEF SourceRemove, Pair

\* What StopPoll makes of a pair.
LEMMA StopPollFields ==
  ASSUME NEW p \in Pair, NEW d \in Device
  PROVE  LET q == StopPoll(p, d)
         IN  /\ q \in Pair
             /\ q.poll.registered = p.poll.registered \ {d}
             /\ q.poll.idle_signals = p.poll.idle_signals \ {d}
             /\ q.poll.id = IF d \in p.poll.registered THEN [p.poll.id EXCEPT ![d] = NoId]
                            ELSE p.poll.id
             /\ q.poll.connected = IF d \in p.poll.idle_signals
                                   THEN [p.poll.connected EXCEPT ![d] = IF @ > 0 THEN @ - 1 ELSE 0]
                                   ELSE p.poll.connected
             /\ q.sources = IF d \in p.poll.registered
                            THEN {s \in p.sources : s.id # p.poll.id[d]} ELSE p.sources
<1> DEFINE n == DisableNotifications(p, d)
<1>1. /\ n \in Pair
      /\ n.poll.registered = p.poll.registered
      /\ n.poll.idle_signals = p.poll.idle_signals \ {d}
      /\ n.poll.id = p.poll.id
      /\ n.poll.connected = IF d \in p.poll.idle_signals
                            THEN [p.poll.connected EXCEPT ![d] = IF @ > 0 THEN @ - 1 ELSE 0]
                            ELSE p.poll.connected
      /\ n.sources = p.sources
  <2>1. CASE d \notin p.poll.idle_signals
    BY <2>1 DEF DisableNotifications, Pair, PollState
  <2>2. CASE d \in p.poll.idle_signals
    <3> DEFINE c == [p.poll.connected EXCEPT ![d] = IF @ > 0 THEN @ - 1 ELSE 0]
               q == [p.poll EXCEPT !.connected = c, !.idle_signals = @ \ {d}]
    <3>1. c \in [Device -> Nat]
      BY DEF Pair, PollState
    <3>2. n = [p EXCEPT !.poll = q]
      BY <2>2 DEF DisableNotifications, Pair, PollState
    <3> HIDE DEF n, c
    <3>3. q \in PollState
      BY <3>1 DEF Pair, PollState
    <3>4. /\ q.registered = p.poll.registered
          /\ q.idle_signals = p.poll.idle_signals \ {d}
          /\ q.id = p.poll.id
          /\ q.connected = c
      BY DEF Pair, PollState
    <3> HIDE DEF q
    <3> QED
      BY <2>2, <3>2, <3>3, <3>4 DEF Pair, c
  <2> QED
    BY <2>1, <2>2
<1>2. CASE d \notin p.poll.registered
  BY <1>1, <1>2 DEF StopPoll
<1>3. CASE d \in p.poll.registered
  <2> DEFINE r == SourceRemove(n, n.poll.id[d])
  <2> HIDE DEF n
  <2>1. /\ r \in Pair
        /\ r.poll = n.poll
        /\ r.sources = {s \in n.sources : s.id # n.poll.id[d]}
    BY <1>1, SourceRemoveType
  <2> HIDE DEF r
  <2>2. StopPoll(p, d) = [r EXCEPT !.poll.registered = @ \ {d}, !.poll.id[d] = NoId,
                                   !.poll.weak_refs[d] = IF @ > 0 THEN @ - 1 ELSE 0]
    BY <1>1, <1>3 DEF StopPoll, n, r
  <2> DEFINE i == [r.poll.id EXCEPT ![d] = NoId]
             w == [r.poll.weak_refs EXCEPT ![d] = IF @ > 0 THEN @ - 1 ELSE 0]
             q == [r.poll EXCEPT !.registered = @ \ {d}, !.id = i, !.weak_refs = w]
  <2>3. i \in [Device -> Id \cup {NoId}] /\ w \in [Device -> Nat]
    BY <2>1 DEF Pair, PollState
  <2>4. StopPoll(p, d) = [r EXCEPT !.poll = q]
    BY <2>1, <2>2 DEF Pair, PollState
  <2> HIDE DEF i, w
  <2>5. /\ q \in PollState
        /\ q.registered = r.poll.registered \ {d}
        /\ q.id = i
        /\ q.idle_signals = r.poll.idle_signals
        /\ q.connected = r.poll.connected
    BY <2>1, <2>3 DEF Pair, PollState
  <2> HIDE DEF q
  <2>6. /\ StopPoll(p, d) \in Pair
        /\ StopPoll(p, d).poll = q
        /\ StopPoll(p, d).sources = r.sources
    BY <2>1, <2>4, <2>5 DEF Pair
  <2> QED
    BY <1>1, <1>3, <2>1, <2>5, <2>6 DEF i
<1> QED
  BY <1>2, <1>3

\* What StartPoll makes of p, in which d is not on record: q.
Started(p, q, d, id, timeout) ==
  /\ q \in Pair
  /\ q.poll.registered = p.poll.registered \cup {d}
  /\ poll_paused =>
       /\ q.poll.id = [p.poll.id EXCEPT ![d] = NoId]
       /\ q.poll.idle_signals = p.poll.idle_signals
       /\ q.poll.connected = p.poll.connected
       /\ q.sources = p.sources
  /\ ~poll_paused =>
       /\ q.poll.id = [p.poll.id EXCEPT ![d] = id]
       /\ q.poll.idle_signals = p.poll.idle_signals \cup {d}
       /\ q.poll.connected = [p.poll.connected EXCEPT ![d] = @ + 1]
       /\ q.sources = p.sources \cup {[id |-> id, device |-> d, kind |-> timeout]}

LEMMA StartPollFields ==
  ASSUME NEW p \in Pair, NEW d \in Device, NEW id \in Id, NEW timeout \in PollTimeout,
         d \notin p.poll.registered
  PROVE  Started(p, StartPoll(p, d, id, timeout), d, id, timeout)
<1> USE DEF Started
<1> DEFINE r == [p EXCEPT !.poll.registered = @ \cup {d}, !.poll.id[d] = NoId]
           n == EnableNotifications(r, d)
<1>1. /\ r \in Pair
      /\ r.poll.registered = p.poll.registered \cup {d}
      /\ r.poll.id = [p.poll.id EXCEPT ![d] = NoId]
      /\ r.poll.idle_signals = p.poll.idle_signals
      /\ r.poll.connected = p.poll.connected
      /\ r.sources = p.sources
  BY DEF Pair, PollState, NoId
<1>2. CASE poll_paused
  <2>1. StartPoll(p, d, id, timeout) = r
    BY <1>2 DEF StartPoll
  <2> HIDE DEF r
  <2> QED
    BY <1>1, <1>2, <2>1
<1>3. CASE ~poll_paused
  <2>1. StartPoll(p, d, id, timeout) = EnablePollForDevice(n, d, id, timeout)
    BY <1>3 DEF StartPoll
  <2> HIDE DEF r
  <2>2. /\ n \in Pair
        /\ n.poll.registered = r.poll.registered
        /\ n.poll.id = r.poll.id
        /\ n.poll.idle_signals = r.poll.idle_signals \cup {d}
        /\ n.poll.connected = [r.poll.connected EXCEPT ![d] = @ + 1]
        /\ n.sources = r.sources
    <3> DEFINE c == [r.poll.connected EXCEPT ![d] = @ + 1]
               w == [r.poll.weak_refs EXCEPT ![d] = @ + 1]
               q == [r.poll EXCEPT !.connected = c, !.idle_signals = @ \cup {d},
                                   !.weak_refs = w]
    <3>1. c \in [Device -> Nat] /\ w \in [Device -> Nat]
      BY <1>1 DEF Pair, PollState
    <3>2. n = [r EXCEPT !.poll = q]
      BY <1>1 DEF EnableNotifications, Pair, PollState
    <3> HIDE DEF n, c, w
    <3>3. /\ q \in PollState
          /\ q.registered = r.poll.registered
          /\ q.idle_signals = r.poll.idle_signals \cup {d}
          /\ q.id = r.poll.id
          /\ q.connected = c
      BY <1>1, <3>1 DEF Pair, PollState
    <3> HIDE DEF q
    <3> QED
      BY <1>1, <3>2, <3>3 DEF Pair, c
  <2> HIDE DEF n
  <2> DEFINE i == [n.poll.id EXCEPT ![d] = id]
             q == [n.poll EXCEPT !.id = i]
             s == n.sources \cup {[id |-> id, device |-> d, kind |-> timeout]}
  <2>3. i \in [Device -> Id \cup {NoId}] /\ s \subseteq Source
    BY <2>2 DEF Pair, PollState, Source, PollTimeout
  <2>4. StartPoll(p, d, id, timeout) = [n EXCEPT !.poll = q, !.sources = s]
    BY <2>1, <2>2 DEF EnablePollForDevice, Pair, PollState
  <2> HIDE DEF i
  <2>5. /\ q \in PollState
        /\ q.registered = n.poll.registered
        /\ q.id = i
        /\ q.idle_signals = n.poll.idle_signals
        /\ q.connected = n.poll.connected
    BY <2>2, <2>3 DEF Pair, PollState
  <2> HIDE DEF q
  <2>6. /\ StartPoll(p, d, id, timeout) \in Pair
        /\ StartPoll(p, d, id, timeout).poll = q
        /\ StartPoll(p, d, id, timeout).sources = s
    BY <2>2, <2>3, <2>4, <2>5 DEF Pair
  <2>7. i = [p.poll.id EXCEPT ![d] = id]
    BY <1>1, <2>2 DEF i, Pair, PollState
  <2> QED
    BY <1>1, <1>3, <2>2, <2>5, <2>6, <2>7
<1> QED
  BY <1>2, <1>3

LEMMA ChangeIdleTimeoutType ==
  ASSUME NEW p \in Pair, NEW d \in Device, NEW id \in Id, NEW timeout \in PollTimeout
  PROVE  ChangeIdleTimeout(p, d, id, timeout) \in Pair
<1>1. /\ StopPoll(p, d) \in Pair
      /\ StopPoll(p, d).poll.registered = p.poll.registered \ {d}
  BY StopPollFields
<1>2. StartPoll(StopPoll(p, d), d, id, timeout) \in Pair
  BY <1>1, StartPollFields DEF Started
<1> QED
  BY <1>2 DEF ChangeIdleTimeout

LEMMA DeviceDestroyedType ==
  ASSUME NEW p \in Pair, NEW d \in Device
  PROVE  DeviceDestroyed(p, d) \in Pair
<1> DEFINE r == SourceRemove(p, p.poll.id[d])
           i == [r.poll.id EXCEPT ![d] = NoId]
           q == [r.poll EXCEPT !.registered = @ \ {d}, !.id = i]
<1>1. r \in Pair
  BY SourceRemoveType
<1> HIDE DEF r
<1>2. i \in [Device -> Id \cup {NoId}]
  BY <1>1 DEF Pair, PollState
<1>3. [r EXCEPT !.poll.registered = @ \ {d}, !.poll.id[d] = NoId] = [r EXCEPT !.poll = q]
  BY <1>1 DEF Pair, PollState
<1> HIDE DEF i
<1>4. q \in PollState
  BY <1>1, <1>2 DEF Pair, PollState
<1> HIDE DEF q
<1>5. [r EXCEPT !.poll = q] \in Pair
  BY <1>1, <1>4 DEF Pair
<1> QED
  BY <1>3, <1>5 DEF DeviceDestroyed, r

\* A pair with one more source.
LEMMA AddRetryType ==
  ASSUME NEW p \in Pair, NEW d \in Device, NEW id \in Id
  PROVE  LET s == [id |-> id, device |-> d, kind |-> "retry"]
             q == [p EXCEPT !.sources = @ \cup {s}]
         IN  /\ q \in Pair
             /\ q.poll = p.poll
             /\ q.sources = p.sources \cup {s}
<1>1. [id |-> id, device |-> d, kind |-> "retry"] \in Source
  BY DEF Source
<1> QED
  BY <1>1 DEF Pair

\* The part of TypeOK that a refresh may change.
RefreshTypeOK ==
  /\ poll \in PollState /\ sources \subseteq Source
  /\ poll_timer_id \in [Device -> Id \cup {NoId}]
  /\ unknown_retries \in [Device -> 0..UnknownRetries]
  /\ warning_level \in [Device -> Level]

LEMMA SetPollingType ==
  ASSUME NEW p \in Pair, SetPolling(p)
  PROVE  poll' \in PollState /\ sources' \subseteq Source
BY DEF SetPolling, Pair

LEMMA RefreshFromType ==
  ASSUME RefreshTypeOK, NEW p \in Pair, NEW d \in Device, NEW used, RefreshFrom(p, d, used)
  PROVE  RefreshTypeOK'
<1> PICK level \in Level, id \in Id, retry \in Id :
      \/ /\ warning_level' = [warning_level EXCEPT ![d] = level]
         /\ \/ PollKind[d] = "battery" /\ RefreshBattery(p, d, level, id, retry)
            \/ /\ PollKind[d] # "battery"
               /\ SetPolling(ChangeIdleTimeout(p, d, id, Timeout(level)))
               /\ UNCHANGED <<poll_timer_id, unknown_retries>>
      \/ /\ PollKind[d] # "battery"
         /\ SetPolling(p)
         /\ UNCHANGED <<warning_level, poll_timer_id, unknown_retries>>
  BY DEF RefreshFrom
<1>1. CASE /\ warning_level' = [warning_level EXCEPT ![d] = level]
           /\ RefreshBattery(p, d, level, id, retry)
  <2> PICK present \in BOOLEAN, known \in BOOLEAN :
        LET q == SourceRemove(p, poll_timer_id[d])
            r == ChangeIdleTimeout(q, d, id, Timeout(level))
        IN  IF present /\ ~NoPollBatteries
              THEN SetupUnknownPoll(r, d, known, retry)
              ELSE /\ SetPolling(r)
                   /\ poll_timer_id' = [poll_timer_id EXCEPT ![d] = NoId]
                   /\ UNCHANGED unknown_retries
    BY <1>1 DEF RefreshBattery
  <2> DEFINE r == ChangeIdleTimeout(SourceRemove(p, poll_timer_id[d]), d, id, Timeout(level))
  <2>1. r \in Pair
    BY SourceRemoveType, ChangeIdleTimeoutType, TimeoutType
  <2> HIDE DEF r
  <2>2. \/ SetupUnknownPoll(r, d, known, retry)
        \/ /\ SetPolling(r)
           /\ poll_timer_id' = [poll_timer_id EXCEPT ![d] = NoId]
           /\ UNCHANGED unknown_retries
    BY DEF r
  <2>3. poll' \in PollState /\ sources' \subseteq Source
    BY <2>1, <2>2, SetPollingType, AddRetryType DEF SetupUnknownPoll
  <2>4. poll_timer_id' \in [Device -> Id \cup {NoId}]
    BY <2>2 DEF RefreshTypeOK, SetupUnknownPoll
  <2>5. unknown_retries' \in [Device -> 0..UnknownRetries]
    BY <2>2, PollAssumption DEF RefreshTypeOK, SetupUnknownPoll
  <2> QED
    BY <1>1, <2>3, <2>4, <2>5 DEF RefreshTypeOK
<1>2. CASE /\ warning_level' = [warning_level EXCEPT ![d] = level]
           /\ SetPolling(ChangeIdleTimeout(p, d, id, Timeout(level)))
           /\ UNCHANGED <<poll_timer_id, unknown_retries>>
  BY <1>2, ChangeIdleTimeoutType, TimeoutType, SetPollingType DEF RefreshTypeOK
<1>3. CASE SetPolling(p) /\ UNCHANGED <<warning_level, poll_timer_id, unknown_retries>>
  BY <1>3, SetPollingType DEF RefreshTypeOK
<1> QED
  BY <1>1, <1>2, <1>3

LEMMA PollingType ==
  RefreshTypeOK => Polling \in Pair /\ Polling.poll = poll /\ Polling.sources = sources
BY DEF RefreshTypeOK, Polling, Pair

LEMMA StartPollType ==
  ASSUME NEW p \in Pair, NEW d \in Device, NEW id \in Id, NEW timeout \in PollTimeout
  PROVE  StartPoll(p, d, id, timeout) \in Pair
<1>1. CASE d \in p.poll.registered
  BY <1>1 DEF StartPoll
<1>2. CASE d \notin p.poll.registered
  BY <1>2, StartPollFields DEF Started
<1> QED
  BY <1>1, <1>2

\* What PausePoll makes of a pair.
LEMMA PausePollFields ==
  ASSUME NEW p \in Pair
  PROVE  LET q == PausePoll(p)
             off == p.poll.registered \cap p.poll.idle_signals
         IN  /\ q \in Pair
             /\ q.poll.registered = p.poll.registered
             /\ q.poll.id = [d \in Device |-> IF d \in p.poll.registered THEN NoId
                                              ELSE p.poll.id[d]]
             /\ q.poll.idle_signals = p.poll.idle_signals \ off
             /\ q.poll.connected =
                  [d \in Device |-> IF d \in off /\ p.poll.connected[d] > 0
                                    THEN p.poll.connected[d] - 1 ELSE p.poll.connected[d]]
             /\ q.sources = {s \in p.sources : s.id \notin {p.poll.id[d] : d \in p.poll.registered}}
<1> DEFINE off == p.poll.registered \cap p.poll.idle_signals
           i == [d \in Device |-> IF d \in p.poll.registered THEN NoId ELSE p.poll.id[d]]
           c == [d \in Device |-> IF d \in off /\ p.poll.connected[d] > 0
                                  THEN p.poll.connected[d] - 1 ELSE p.poll.connected[d]]
           s == {t \in p.sources : t.id \notin {p.poll.id[d] : d \in p.poll.registered}}
           q == [p.poll EXCEPT !.id = i, !.connected = c, !.idle_signals = @ \ off]
<1>1. i \in [Device -> Id \cup {NoId}] /\ c \in [Device -> Nat]
  BY DEF Pair, PollState
<1>2. s \subseteq Source
  BY DEF Pair
<1>3. PausePoll(p) = [poll |-> q, sources |-> s]
  BY DEF PausePoll
<1> HIDE DEF i, c, s
<1>4. /\ q \in PollState
      /\ q.registered = p.poll.registered
      /\ q.id = i
      /\ q.idle_signals = p.poll.idle_signals \ off
      /\ q.connected = c
  BY <1>1 DEF Pair, PollState
<1> HIDE DEF q
<1>5. PausePoll(p) \in Pair /\ PausePoll(p).poll = q /\ PausePoll(p).sources = s
  BY <1>2, <1>3, <1>4 DEF Pair
<1> QED
  BY <1>4, <1>5 DEF i, c, s

\* What ResumePoll makes of a pair.
LEMMA ResumePollFields ==
  ASSUME NEW p \in Pair, NEW ids \in [p.poll.registered -> Id]
  PROVE  LET q == ResumePoll(p, ids)
         IN  /\ q \in Pair
             /\ q.poll.registered = p.poll.registered
             /\ q.poll.id = [d \in Device |-> IF d \in p.poll.registered THEN ids[d]
                                              ELSE p.poll.id[d]]
             /\ q.poll.idle_signals = p.poll.idle_signals \cup p.poll.registered
             /\ q.poll.connected =
                  [d \in Device |-> IF d \in p.poll.registered THEN p.poll.connected[d] + 1
                                    ELSE p.poll.connected[d]]
             /\ q.sources = p.sources \cup
                  {[id |-> ids[d], device |-> d, kind |-> Timeout(warning_level[d])] :
                     d \in p.poll.registered}
<1> DEFINE On(f) == [d \in Device |-> IF d \in p.poll.registered THEN f[d] + 1 ELSE f[d]]
           i == [d \in Device |-> IF d \in p.poll.registered THEN ids[d] ELSE p.poll.id[d]]
           c == On(p.poll.connected)
           w == On(p.poll.weak_refs)
           s == p.sources \cup {[id |-> ids[d], device |-> d, kind |-> Timeout(warning_level[d])] :
                                  d \in p.poll.registered}
           q == [p.poll EXCEPT !.id = i, !.connected = c, !.weak_refs = w,
                               !.idle_signals = @ \cup p.poll.registered]
<1>1. i \in [Device -> Id \cup {NoId}] /\ c \in [Device -> Nat] /\ w \in [Device -> Nat]
  BY DEF Pair, PollState
<1>2. s \subseteq Source
  BY TimeoutType DEF Pair, PollState, Source, PollTimeout
<1>3. ResumePoll(p, ids) = [poll |-> q, sources |-> s]
  BY DEF ResumePoll
<1> HIDE DEF i, c, w, s
<1>4. /\ q \in PollState
      /\ q.registered = p.poll.registered
      /\ q.id = i
      /\ q.idle_signals = p.poll.idle_signals \cup p.poll.registered
      /\ q.connected = c
  BY <1>1 DEF Pair, PollState
<1> HIDE DEF q
<1>5. ResumePoll(p, ids) \in Pair /\ ResumePoll(p, ids).poll = q /\ ResumePoll(p, ids).sources = s
  BY <1>2, <1>3, <1>4 DEF Pair
<1> QED
  BY <1>4, <1>5 DEF i, c, s

\* Remove, after its device's last handlers are gone.
LEMMA RemoveType ==
  ASSUME NEW p \in Pair, NEW d \in Device, NEW id
  PROVE  LET q == SourceRemove(StopPoll(DeviceDestroyed(p, d), d), id)
         IN  [q EXCEPT !.poll.connected[d] = 0, !.poll.weak_refs[d] = 0] \in Pair
<1> DEFINE q == SourceRemove(StopPoll(DeviceDestroyed(p, d), d), id)
           c == [q.poll.connected EXCEPT ![d] = 0]
           w == [q.poll.weak_refs EXCEPT ![d] = 0]
           r == [q.poll EXCEPT !.connected = c, !.weak_refs = w]
<1>1. q \in Pair
  BY DeviceDestroyedType, StopPollFields, SourceRemoveType
<1> HIDE DEF q
<1>2. c \in [Device -> Nat] /\ w \in [Device -> Nat]
  BY <1>1 DEF Pair, PollState
<1>3. [q EXCEPT !.poll.connected[d] = 0, !.poll.weak_refs[d] = 0] = [q EXCEPT !.poll = r]
  BY <1>1 DEF Pair, PollState
<1> HIDE DEF c, w
<1>4. r \in PollState
  BY <1>1, <1>2 DEF Pair, PollState
<1> HIDE DEF r
<1>5. [q EXCEPT !.poll = r] \in Pair
  BY <1>1, <1>4 DEF Pair
<1> QED
  BY <1>3, <1>5 DEF q

\* A signal comes or goes.
LEMMA SignalsType ==
  ASSUME NEW s \in Seq(BOOLEAN)
  PROVE  /\ \A b \in BOOLEAN : Append(s, b) \in Seq(BOOLEAN)
         /\ s # <<>> => Tail(s) \in Seq(BOOLEAN)
OBVIOUS

LEMMA NextKeepsTypeOK == TypeOK /\ [Next]_vars => TypeOK'
<1> SUFFICES ASSUME TypeOK, [Next]_vars
             PROVE  TypeOK'
  OBVIOUS
<1>0. RefreshTypeOK /\ Polling \in Pair /\ Polling.poll = poll /\ Polling.sources = sources
  BY PollingType DEF TypeOK, RefreshTypeOK
<1> USE DEF TypeOK, RefreshTypeOK, environment
<1>1. ASSUME NEW d \in Device, Refresh(d)
      PROVE  TypeOK'
  BY <1>0, <1>1, RefreshFromType DEF Refresh
<1>2. ASSUME NEW d \in Device, Add(d)
      PROVE  TypeOK'
  <2> PICK id \in Id :
        RefreshFrom(IF IsPolled(d) THEN StartPoll(Polling, d, id, "long") ELSE Polling, d, {id})
    BY <1>2 DEF Add
  <2>1. (IF IsPolled(d) THEN StartPoll(Polling, d, id, "long") ELSE Polling) \in Pair
    BY <1>0, StartPollType DEF PollTimeout
  <2>2. RefreshTypeOK'
    BY <1>0, <2>1, RefreshFromType
  <2> QED
    BY <1>2, <2>2 DEF Add
<1>3. ASSUME NEW d \in Device, StartIdevice(d)
      PROVE  TypeOK'
  <2> PICK id \in Id, level \in Level :
        /\ warning_level' = [warning_level EXCEPT ![d] = level]
        /\ SetPolling(StartPoll(Polling, d, id, Timeout(level)))
    BY <1>3 DEF StartIdevice
  <2>1. poll' \in PollState /\ sources' \subseteq Source
    BY <1>0, StartPollType, TimeoutType, SetPollingType
  <2> QED
    BY <1>3, <2>1 DEF StartIdevice
<1>4. ASSUME NEW d \in Device, Remove(d)
      PROVE  TypeOK'
  <2>1. poll' \in PollState /\ sources' \subseteq Source
    BY <1>0, <1>4, RemoveType, SetPollingType DEF Remove
  <2> QED
    BY <1>4, <2>1, PollAssumption DEF Remove
<1>5. ASSUME NEW s \in sources, Fire(s)
      PROVE  TypeOK'
  <2>1. (IF s.kind = "retry" THEN SourceRemove(Polling, s.id) ELSE Polling) \in Pair
    BY <1>0, SourceRemoveType
  <2>2. RefreshTypeOK'
    BY <1>0, <1>5, <2>1, RefreshFromType DEF Fire, Source
  <2> QED
    BY <1>5, <2>2 DEF Fire
<1>6. ASSUME RefreshNext
      PROVE  TypeOK'
  <2>1. RefreshTypeOK'
    BY <1>0, <1>6, RefreshFromType DEF RefreshNext
  <2> QED
    BY <1>6, <2>1 DEF RefreshNext
<1>7. ASSUME FinishWakeUp
      PROVE  TypeOK'
  <2> PICK ids \in [poll.registered -> Id \ InUse] : SetPolling(ResumePoll(Polling, ids))
    BY <1>7 DEF FinishWakeUp
  <2>1. ids \in [Polling.poll.registered -> Id]
    BY <1>0
  <2>2. poll' \in PollState /\ sources' \subseteq Source
    BY <1>0, <2>1, ResumePollFields, SetPollingType
  <2> QED
    BY <1>7, <2>2 DEF FinishWakeUp
<1>8. ASSUME PrepareForSleep
      PROVE  TypeOK'
  <2>1. poll' \in PollState /\ sources' \subseteq Source
    BY <1>0, <1>8, PausePollFields, SetPollingType DEF PrepareForSleep
  <2>2. signals' \in Seq(BOOLEAN)
    BY <1>8, SignalsType DEF PrepareForSleep
  <2>3. poll_paused' \in BOOLEAN /\ inhibitor_fd' \in BOOLEAN
    BY <1>8 DEF PrepareForSleep
  <2> QED
    BY <1>8, <2>1, <2>2, <2>3 DEF PrepareForSleep
<1>9. ASSUME WakeUp
      PROVE  TypeOK'
  <2>1. signals' \in Seq(BOOLEAN)
    BY <1>9, SignalsType DEF WakeUp
  <2>2. inhibitor_fd' \in BOOLEAN /\ waking' \in BOOLEAN
    BY <1>9, Zenon DEF WakeUp, LockTake
  <2> QED
    BY <1>9, <2>1, <2>2 DEF WakeUp
<1>10. ASSUME AnnounceSleep \/ Suspend \/ Resume
       PROVE  TypeOK'
  <2>1. signals' \in Seq(BOOLEAN)
    BY <1>10, SignalsType DEF AnnounceSleep, Suspend, Resume
  <2>2. inhibited' \in BOOLEAN
    BY <1>10, Zenon DEF AnnounceSleep, Suspend, Resume
  <2>3. UNCHANGED daemon
    BY <1>10 DEF AnnounceSleep, Suspend, Resume
  <2>4. logind' \in {"awake", "announced", "asleep"} /\ sleeps' \in {sleeps, sleeps + 1}
    BY <1>10, Zenon DEF AnnounceSleep, Suspend, Resume
  <2> QED
    BY <2>1, <2>2, <2>3, <2>4 DEF daemon
<1>11. CASE UNCHANGED vars
  BY <1>11 DEF vars, daemon
<1> QED
  BY <1>1, <1>2, <1>3, <1>4, <1>5, <1>6, <1>7, <1>8, <1>9, <1>10, <1>11 DEF Next, Wake

\* Type correctness: no count goes below zero, retries stay within their limit,
\* and every id on record is one of the main loop's.
THEOREM TypeSafety == Spec => []TypeOK
<1>1. Init => TypeOK
  <2> SUFFICES ASSUME Init
               PROVE  TypeOK
    OBVIOUS
  <2>1. poll \in PollState
    BY DEF Init, PollState
  <2>2. inhibitor_fd \in BOOLEAN
    BY Zenon DEF Init
  <2>3. signals \in Seq(BOOLEAN) /\ inhibited \in BOOLEAN /\ sleeps \in Nat
    <3>1. signals = <<>> /\ inhibited = FALSE /\ sleeps = 0
      BY Zenon DEF Init
    <3>2. \A s : s = <<>> => s \in Seq(BOOLEAN)
      OBVIOUS
    <3>3. inhibited \in BOOLEAN /\ sleeps \in Nat
      BY <3>1
    <3> QED
      BY <3>1, <3>2, <3>3
  <2>4. logind \in {"awake", "announced", "asleep"}
    <3>1. logind \in IF StartsDuringSleep THEN {"awake", "announced"} ELSE {"awake"}
      BY Zenon DEF Init
    <3> QED
      BY <3>1
  <2>5. /\ sources = {} /\ listed = {} /\ todo = {} /\ poll_paused = FALSE /\ waking = FALSE
        /\ poll_timer_id = [d \in Device |-> NoId] /\ unknown_retries = [d \in Device |-> 0]
        /\ warning_level = [d \in Device |-> "unknown"]
    BY DEF Init
  <2> QED
    <3>1. poll_timer_id \in [Device -> Id \cup {NoId}]
      BY <2>5
    <3>2. unknown_retries \in [Device -> 0..UnknownRetries]
      BY <2>5, PollAssumption
    <3>3. warning_level \in [Device -> Level]
      BY <2>5, PollAssumption
    <3> QED
      BY <2>1, <2>2, <2>3, <2>4, <2>5, <3>1, <3>2, <3>3 DEF TypeOK
<1> QED
  BY <1>1, NextKeepsTypeOK, PTL DEF Spec

-----------------------------------------------------------------------------
(* NoPollBatteries.                                                        *)

\* A pair has nothing for batteries: no record, no handler, no source.
SparesBatteries(p) ==
  \A d \in Device : PollKind[d] = "battery" =>
    /\ d \notin p.poll.registered
    /\ p.poll.connected[d] = 0
    /\ \A s \in p.sources : s.device # d

LEMMA SourceRemoveSpares ==
  ASSUME NEW p \in Pair, NEW id, SparesBatteries(p)
  PROVE  SparesBatteries(SourceRemove(p, id))
BY SourceRemoveType DEF SparesBatteries

LEMMA StopPollSpares ==
  ASSUME NEW p \in Pair, NEW d \in Device, SparesBatteries(p)
  PROVE  SparesBatteries(StopPoll(p, d))
<1>1. LET q == StopPoll(p, d)
      IN  /\ q.poll.registered = p.poll.registered \ {d}
          /\ q.poll.connected = IF d \in p.poll.idle_signals
                                THEN [p.poll.connected EXCEPT ![d] = IF @ > 0 THEN @ - 1 ELSE 0]
                                ELSE p.poll.connected
          /\ q.sources = IF d \in p.poll.registered
                         THEN {s \in p.sources : s.id # p.poll.id[d]} ELSE p.sources
  BY StopPollFields
<1>2. p.poll.connected \in [Device -> Nat]
  BY DEF Pair, PollState
<1> QED
  BY <1>1, <1>2 DEF SparesBatteries

LEMMA StartPollSpares ==
  ASSUME NEW p \in Pair, NEW d \in Device, NEW id \in Id, NEW timeout \in PollTimeout,
         SparesBatteries(p), PollKind[d] # "battery"
  PROVE  SparesBatteries(StartPoll(p, d, id, timeout))
<1> DEFINE q == StartPoll(p, d, id, timeout)
<1>1. CASE d \in p.poll.registered
  BY <1>1 DEF StartPoll
<1>2. CASE d \notin p.poll.registered
  <2>1. Started(p, q, d, id, timeout)
    BY <1>2, StartPollFields
  <2> HIDE DEF q
  <2>2. p.poll.connected \in [Device -> Nat]
    BY DEF Pair, PollState
  <2>3. SparesBatteries(q)
    BY <2>1, <2>2 DEF SparesBatteries, Started
  <2> QED
    BY <2>3 DEF q
<1> QED
  BY <1>1, <1>2

LEMMA ChangeIdleTimeoutSpares ==
  ASSUME NEW p \in Pair, NEW d \in Device, NEW id \in Id, NEW timeout \in PollTimeout,
         SparesBatteries(p)
  PROVE  SparesBatteries(ChangeIdleTimeout(p, d, id, timeout))
<1>1. CASE PollKind[d] = "battery"
  BY <1>1 DEF ChangeIdleTimeout, SparesBatteries
<1>2. CASE PollKind[d] # "battery"
  BY <1>2, StopPollFields, StopPollSpares, StartPollSpares DEF ChangeIdleTimeout
<1> QED
  BY <1>1, <1>2

LEMMA DeviceDestroyedSpares ==
  ASSUME NEW p \in Pair, NEW d \in Device, SparesBatteries(p)
  PROVE  SparesBatteries(DeviceDestroyed(p, d))
<1> DEFINE r == SourceRemove(p, p.poll.id[d])
<1>1. r \in Pair /\ SparesBatteries(r)
  BY SourceRemoveType, SourceRemoveSpares
<1> HIDE DEF r
<1> DEFINE q == [r EXCEPT !.poll.registered = @ \ {d}, !.poll.id[d] = NoId]
<1>2. /\ q.poll.registered = r.poll.registered \ {d}
      /\ q.poll.connected = r.poll.connected
      /\ q.sources = r.sources
  BY <1>1 DEF Pair, PollState
<1> HIDE DEF q
<1>3. SparesBatteries(q)
  BY <1>1, <1>2 DEF SparesBatteries
<1> QED
  BY <1>3 DEF DeviceDestroyed, q, r

LEMMA RefreshFromSpares ==
  ASSUME NoPollBatteries, RefreshTypeOK, NEW p \in Pair, NEW d \in Device, NEW used,
         SparesBatteries(p), RefreshFrom(p, d, used)
  PROVE  SparesBatteries(Polling')
<1> PICK level \in Level, id \in Id :
      \/ \E retry \in Id : RefreshBattery(p, d, level, id, retry)
      \/ SetPolling(ChangeIdleTimeout(p, d, id, Timeout(level)))
      \/ SetPolling(p)
  BY DEF RefreshFrom
<1>1. \E q \in Pair : SparesBatteries(q) /\ SetPolling(q)
  <2>1. CASE \E retry \in Id : RefreshBattery(p, d, level, id, retry)
    <3> DEFINE q == SourceRemove(p, poll_timer_id[d])
               r == ChangeIdleTimeout(q, d, id, Timeout(level))
    <3>1. SetPolling(r)
      BY <2>1 DEF RefreshBattery
    <3>2. q \in Pair /\ SparesBatteries(q)
      BY SourceRemoveType, SourceRemoveSpares
    <3> HIDE DEF q
    <3>3. r \in Pair /\ SparesBatteries(r)
      BY <3>2, TimeoutType, ChangeIdleTimeoutType, ChangeIdleTimeoutSpares
    <3> QED
      BY <3>1, <3>3
  <2>2. CASE SetPolling(ChangeIdleTimeout(p, d, id, Timeout(level)))
    BY <2>2, TimeoutType, ChangeIdleTimeoutType, ChangeIdleTimeoutSpares
  <2> QED
    BY <2>1, <2>2
<1> PICK q \in Pair : SparesBatteries(q) /\ SetPolling(q)
  BY <1>1
<1> QED
  BY DEF SetPolling, Polling, SparesBatteries

\* Under the option, nothing polls a battery: neither a record nor a handler that
\* would start its poll afresh nor a source.
BatteriesInv == NoPollBatteries => SparesBatteries(Polling)

LEMMA NextKeepsBatteriesInv == TypeOK /\ BatteriesInv /\ [Next]_vars => BatteriesInv'
<1> SUFFICES ASSUME TypeOK, SparesBatteries(Polling), NoPollBatteries, [Next]_vars
             PROVE  SparesBatteries(Polling')
  BY DEF BatteriesInv
<1>0. RefreshTypeOK /\ Polling \in Pair /\ Polling.poll = poll /\ Polling.sources = sources
  BY PollingType DEF TypeOK, RefreshTypeOK
<1>a. ASSUME NEW p, SparesBatteries(p), SetPolling(p)
      PROVE  SparesBatteries(Polling')
  BY <1>a DEF SetPolling, Polling, SparesBatteries
<1>1. ASSUME NEW d \in Device, Refresh(d)
      PROVE  SparesBatteries(Polling')
  BY <1>0, <1>1, RefreshFromSpares DEF Refresh
<1>2. ASSUME NEW d \in Device, Add(d)
      PROVE  SparesBatteries(Polling')
  <2> PICK id \in Id :
        RefreshFrom(IF IsPolled(d) THEN StartPoll(Polling, d, id, "long") ELSE Polling, d, {id})
    BY <1>2 DEF Add
  <2> DEFINE p == IF IsPolled(d) THEN StartPoll(Polling, d, id, "long") ELSE Polling
  <2>1. p \in Pair /\ SparesBatteries(p)
    BY <1>0, StartPollType, StartPollSpares DEF PollTimeout, IsPolled
  <2> HIDE DEF p
  <2> QED
    BY <1>0, <2>1, RefreshFromSpares DEF p
<1>3. ASSUME NEW d \in Device, StartIdevice(d)
      PROVE  SparesBatteries(Polling')
  <2> PICK id \in Id, level \in Level : SetPolling(StartPoll(Polling, d, id, Timeout(level)))
    BY <1>3 DEF StartIdevice
  <2> QED
    BY <1>0, <1>3, <1>a, StartPollSpares, TimeoutType DEF StartIdevice
<1>4. ASSUME NEW d \in Device, Remove(d)
      PROVE  SparesBatteries(Polling')
  <2> DEFINE p == SourceRemove(StopPoll(DeviceDestroyed(Polling, d), d), poll_timer_id[d])
             q == [p EXCEPT !.poll.connected[d] = 0, !.poll.weak_refs[d] = 0]
  <2>1. p \in Pair /\ SparesBatteries(p)
    <3>1. DeviceDestroyed(Polling, d) \in Pair /\ SparesBatteries(DeviceDestroyed(Polling, d))
      BY <1>0, DeviceDestroyedType, DeviceDestroyedSpares
    <3>2. /\ StopPoll(DeviceDestroyed(Polling, d), d) \in Pair
          /\ SparesBatteries(StopPoll(DeviceDestroyed(Polling, d), d))
      BY <3>1, StopPollFields, StopPollSpares
    <3> QED
      BY <3>2, SourceRemoveType, SourceRemoveSpares
  <2>2. SetPolling(q)
    BY <1>4 DEF Remove
  <2> HIDE DEF p
  <2>3. /\ q.poll.registered = p.poll.registered
        /\ q.poll.connected = [p.poll.connected EXCEPT ![d] = 0]
        /\ q.sources = p.sources
        /\ p.poll.connected \in [Device -> Nat]
    BY <2>1 DEF Pair, PollState
  <2> HIDE DEF q
  <2>4. SparesBatteries(q)
    BY <2>1, <2>3 DEF SparesBatteries
  <2> QED
    BY <1>a, <2>2, <2>4
<1>5. ASSUME NEW s \in sources, Fire(s)
      PROVE  SparesBatteries(Polling')
  <2> DEFINE p == IF s.kind = "retry" THEN SourceRemove(Polling, s.id) ELSE Polling
  <2>1. p \in Pair /\ SparesBatteries(p)
    BY <1>0, SourceRemoveType, SourceRemoveSpares
  <2>2. s.device \in Device
    BY DEF TypeOK, Source
  <2>3. RefreshFrom(p, s.device, {})
    BY <1>5 DEF Fire
  <2> HIDE DEF p
  <2> QED
    BY <1>0, <2>1, <2>2, <2>3, RefreshFromSpares
<1>6. ASSUME RefreshNext
      PROVE  SparesBatteries(Polling')
  BY <1>0, <1>6, RefreshFromSpares DEF RefreshNext, TypeOK
<1>7. ASSUME FinishWakeUp
      PROVE  SparesBatteries(Polling')
  <2> PICK ids \in [poll.registered -> Id \ InUse] : SetPolling(ResumePoll(Polling, ids))
    BY <1>7 DEF FinishWakeUp
  <2> DEFINE q == ResumePoll(Polling, ids)
  <2>1. ids \in [Polling.poll.registered -> Id]
    BY <1>0
  <2>2. LET p == Polling
        IN  /\ q.poll.registered = p.poll.registered
            /\ q.poll.connected =
                 [d \in Device |-> IF d \in p.poll.registered THEN p.poll.connected[d] + 1
                                   ELSE p.poll.connected[d]]
            /\ q.sources = p.sources \cup
                 {[id |-> ids[d], device |-> d, kind |-> Timeout(warning_level[d])] :
                    d \in p.poll.registered}
    BY <1>0, <2>1, ResumePollFields
  <2> HIDE DEF q
  <2>3. SparesBatteries(q)
    BY <2>2 DEF SparesBatteries
  <2> QED
    BY <1>a, <2>3 DEF q
<1>8. ASSUME PrepareForSleep
      PROVE  SparesBatteries(Polling')
  <2> DEFINE q == PausePoll(Polling)
             off == poll.registered \cap poll.idle_signals
  <2>1. /\ q.poll.registered = poll.registered
        /\ q.poll.connected = [d \in Device |-> IF d \in off /\ poll.connected[d] > 0
                                                THEN poll.connected[d] - 1 ELSE poll.connected[d]]
        /\ q.sources \subseteq sources
    BY <1>0, PausePollFields
  <2> HIDE DEF q
  <2>2. SparesBatteries(q)
    BY <1>0, <2>1 DEF SparesBatteries
  <2> QED
    BY <1>8, <1>a, <2>2 DEF PrepareForSleep, q
<1>9. CASE WakeUp \/ AnnounceSleep \/ Suspend \/ Resume \/ UNCHANGED vars
  <2>1. UNCHANGED <<poll, sources>>
    BY <1>9 DEF WakeUp, AnnounceSleep, Suspend, Resume, vars, daemon
  <2> QED
    BY <2>1 DEF Polling, SparesBatteries
<1> QED
  BY <1>1, <1>2, <1>3, <1>4, <1>5, <1>6, <1>7, <1>8, <1>9 DEF Next, Wake

\* With NoPollBatteries batteries have no timers at all, however they are
\* refreshed and however often the machine sleeps, also when the daemon starts
\* during sleep.
THEOREM BatteriesSafety == Spec => []BatteriesAreNotPolled
<1>1. Init => BatteriesInv
  BY DEF Init, BatteriesInv, SparesBatteries, Polling
<1>2. TypeOK /\ BatteriesInv => BatteriesAreNotPolled
  BY DEF TypeOK, BatteriesInv, SparesBatteries, Polling, BatteriesAreNotPolled, Source
<1> QED
  BY <1>1, <1>2, TypeSafety, NextKeepsBatteriesInv, PTL DEF Spec

-----------------------------------------------------------------------------
(* The timers there are.                                                   *)

PollTimer(d, id, level) == [id |-> id, device |-> d, kind |-> Timeout(level)]
RetryTimer(d, id) == [id |-> id, device |-> d, kind |-> "retry"]

\* The sources are exactly the timers that the records of the daemon and of the
\* batteries speak of, at the interval of the device's level; no two share an id,
\* and exactly the devices with a poll timer have a handler, one each.
Consistent(p, level, retry) ==
  /\ p.poll.idle_signals \subseteq p.poll.registered
  /\ \A d \in Device : p.poll.connected[d] = IF d \in p.poll.idle_signals THEN 1 ELSE 0
  /\ \A d \in Device \ p.poll.idle_signals : p.poll.id[d] = NoId
  /\ \A d \in p.poll.idle_signals : PollTimer(d, p.poll.id[d], level[d]) \in p.sources
  /\ \A d \in Device : retry[d] # NoId =>
       PollKind[d] = "battery" /\ RetryTimer(d, retry[d]) \in p.sources
  /\ \A s \in p.sources :
       \/ /\ s.device \in p.poll.idle_signals
          /\ s = PollTimer(s.device, p.poll.id[s.device], level[s.device])
       \/ retry[s.device] # NoId /\ s = RetryTimer(s.device, retry[s.device])
  /\ \A s, t \in p.sources : s.id = t.id => s = t

\* No source of p has the id.
Fresh(p, id) == \A s \in p.sources : s.id # id

Levels == [Device -> Level]
Retries == [Device -> Id \cup {NoId}]

LEMMA SourceType ==
  /\ \A s \in Source : s.id \in Id /\ s.device \in Device
  /\ \A s \in Source : s.id # NoId
  /\ \A s \in Source : s = [id |-> s.id, device |-> s.device, kind |-> s.kind]
BY PollAssumption DEF Source, NoId

LEMMA TimerFields ==
  /\ \A d, id, level : /\ PollTimer(d, id, level).id = id
                       /\ PollTimer(d, id, level).device = d
                       /\ PollTimer(d, id, level).kind = Timeout(level)
                       /\ PollTimer(d, id, level).kind # "retry"
  /\ \A d, id : /\ RetryTimer(d, id).id = id
                /\ RetryTimer(d, id).device = d
                /\ RetryTimer(d, id).kind = "retry"
  /\ \A d, id, level : /\ d \in Device /\ id \in Id => PollTimer(d, id, level) \in Source
                       /\ d \in Device /\ id \in Id => RetryTimer(d, id) \in Source
BY TimeoutType DEF PollTimer, RetryTimer, Source, PollTimeout

\* The retry of d is removed.
LEMMA RetryRemoved ==
  ASSUME NEW p \in Pair, NEW level \in Levels, NEW retry \in Retries, NEW d \in Device,
         Consistent(p, level, retry)
  PROVE  LET q == SourceRemove(p, retry[d])
         IN  /\ Consistent(q, level, [retry EXCEPT ![d] = NoId])
             /\ q \in Pair /\ q.poll = p.poll
             /\ \A id : Fresh(p, id) => Fresh(q, id)
<1> DEFINE q == SourceRemove(p, retry[d])
           r == [retry EXCEPT ![d] = NoId]
<1>1. /\ q \in Pair /\ q.poll = p.poll
      /\ \A s : s \in q.sources <=> s \in p.sources /\ s.id # retry[d]
  BY SourceRemoveType
<1>2. \A e \in Device : r[e] = IF e = d THEN NoId ELSE retry[e]
  BY DEF Retries
<1>3. \A s \in p.sources : s \in Source
  BY DEF Pair
<1> HIDE DEF q, r
<1>4. /\ q.poll.idle_signals \subseteq q.poll.registered
      /\ \A e \in Device : q.poll.connected[e] = IF e \in q.poll.idle_signals THEN 1 ELSE 0
      /\ \A e \in Device \ q.poll.idle_signals : q.poll.id[e] = NoId
      /\ \A s, t \in q.sources : s.id = t.id => s = t
  BY <1>1 DEF Consistent
<1>5. ASSUME NEW e \in q.poll.idle_signals
      PROVE  PollTimer(e, q.poll.id[e], level[e]) \in q.sources
  <2>1. PollTimer(e, p.poll.id[e], level[e]) \in p.sources
    BY <1>1, <1>5 DEF Consistent
  <2>2. p.poll.id[e] # NoId
    BY <2>1, <1>3, SourceType, TimerFields
  <2>3. p.poll.id[e] # retry[d]
    BY <2>1, <2>2, TimerFields DEF Consistent
  <2> QED
    BY <1>1, <2>1, <2>3, TimerFields
<1>6. ASSUME NEW e \in Device, r[e] # NoId
      PROVE  PollKind[e] = "battery" /\ RetryTimer(e, r[e]) \in q.sources
  <2>1. e # d /\ r[e] = retry[e]
    BY <1>2, <1>6
  <2>2. PollKind[e] = "battery" /\ RetryTimer(e, retry[e]) \in p.sources
    BY <1>6, <2>1 DEF Consistent
  <2>3. retry[e] # retry[d]
    BY <1>6, <2>1, <2>2, TimerFields DEF Consistent
  <2> QED
    BY <1>1, <2>1, <2>2, <2>3, TimerFields
<1>7. ASSUME NEW s \in q.sources
      PROVE  \/ /\ s.device \in q.poll.idle_signals
                /\ s = PollTimer(s.device, q.poll.id[s.device], level[s.device])
             \/ r[s.device] # NoId /\ s = RetryTimer(s.device, r[s.device])
  <2>1. s \in p.sources /\ s.id # retry[d] /\ s.device \in Device
    BY <1>1, <1>3, SourceType
  <2>2. CASE retry[s.device] # NoId /\ s = RetryTimer(s.device, retry[s.device])
    BY <2>1, <2>2, <1>2, TimerFields
  <2>3. CASE /\ s.device \in p.poll.idle_signals
             /\ s = PollTimer(s.device, p.poll.id[s.device], level[s.device])
    BY <2>3, <1>1
  <2> QED
    BY <2>1, <2>2, <2>3 DEF Consistent
<1>8. Consistent(q, level, r)
  BY <1>4, <1>5, <1>6, <1>7 DEF Consistent
<1>9. \A id : Fresh(p, id) => Fresh(q, id)
  BY <1>1 DEF Fresh
<1> QED
  BY <1>1, <1>8, <1>9 DEF q, r

\* The poll of d is stopped, and its level may change.
LEMMA PollStopped ==
  ASSUME NEW p \in Pair, NEW level \in Levels, NEW retry \in Retries, NEW d \in Device,
         NEW l \in Level, Consistent(p, level, retry)
  PROVE  LET q == StopPoll(p, d)
         IN  /\ Consistent(q, [level EXCEPT ![d] = l], retry)
             /\ q \in Pair
             /\ q.poll.registered = p.poll.registered \ {d}
             /\ q.poll.idle_signals = p.poll.idle_signals \ {d}
             /\ \A id : Fresh(p, id) => Fresh(q, id)
<1> DEFINE q == StopPoll(p, d)
           m == [level EXCEPT ![d] = l]
<1>1. /\ q \in Pair
      /\ q.poll.registered = p.poll.registered \ {d}
      /\ q.poll.idle_signals = p.poll.idle_signals \ {d}
      /\ q.poll.id = IF d \in p.poll.registered THEN [p.poll.id EXCEPT ![d] = NoId]
                     ELSE p.poll.id
      /\ q.poll.connected = IF d \in p.poll.idle_signals
                            THEN [p.poll.connected EXCEPT ![d] = IF @ > 0 THEN @ - 1 ELSE 0]
                            ELSE p.poll.connected
      /\ q.sources = IF d \in p.poll.registered
                     THEN {s \in p.sources : s.id # p.poll.id[d]} ELSE p.sources
  BY StopPollFields
<1>2. \A e \in Device : m[e] = IF e = d THEN l ELSE level[e]
  BY DEF Levels
<1>3. \A s \in p.sources : s \in Source
  BY DEF Pair
<1>4. p.poll.connected \in [Device -> Nat] /\ p.poll.id \in [Device -> Id \cup {NoId}]
  BY DEF Pair, PollState
<1> HIDE DEF q, m
\* what follows for the single devices and sources
<1>5. \A e \in Device : q.poll.id[e] = IF e = d THEN NoId ELSE p.poll.id[e]
  BY <1>1, <1>4 DEF Consistent
<1>6. \A e \in Device : q.poll.connected[e] = IF e \in q.poll.idle_signals THEN 1 ELSE 0
  BY <1>1, <1>4 DEF Consistent
<1>7. \A s : s \in q.sources <=> s \in p.sources /\ s.id # p.poll.id[d]
  <2>1. d \notin p.poll.registered => p.poll.id[d] = NoId
    BY DEF Consistent
  <2> QED
    BY <1>1, <1>3, <2>1, SourceType
<1>8. ASSUME NEW e \in q.poll.idle_signals
      PROVE  PollTimer(e, q.poll.id[e], m[e]) \in q.sources
  <2>1. e \in Device /\ e # d /\ e \in p.poll.idle_signals
    BY <1>1 DEF Pair, PollState
  <2>2. PollTimer(e, p.poll.id[e], level[e]) \in p.sources
    BY <2>1 DEF Consistent
  <2>3. p.poll.id[e] # p.poll.id[d]
    <3>1. CASE d \in p.poll.idle_signals
      <4>1. PollTimer(d, p.poll.id[d], level[d]) \in p.sources
        BY <3>1 DEF Consistent
      <4> QED
        BY <2>1, <2>2, <4>1, TimerFields DEF Consistent
    <3>2. CASE d \notin p.poll.idle_signals
      <4>1. p.poll.id[d] = NoId
        BY <3>2 DEF Consistent
      <4> QED
        BY <1>3, <2>2, <4>1, SourceType, TimerFields
    <3> QED
      BY <3>1, <3>2
  <2> QED
    BY <1>2, <1>5, <1>7, <2>1, <2>2, <2>3, TimerFields
<1>9. ASSUME NEW e \in Device, retry[e] # NoId
      PROVE  PollKind[e] = "battery" /\ RetryTimer(e, retry[e]) \in q.sources
  <2>1. PollKind[e] = "battery" /\ RetryTimer(e, retry[e]) \in p.sources
    BY <1>9 DEF Consistent
  <2>2. retry[e] # p.poll.id[d]
    <3>1. CASE d \in p.poll.idle_signals
      <4>1. PollTimer(d, p.poll.id[d], level[d]) \in p.sources
        BY <3>1 DEF Consistent
      <4> QED
        BY <2>1, <4>1, TimerFields DEF Consistent
    <3>2. CASE d \notin p.poll.idle_signals
      BY <1>9, <3>2 DEF Consistent
    <3> QED
      BY <3>1, <3>2
  <2> QED
    BY <1>7, <2>1, <2>2, TimerFields
<1>10. ASSUME NEW s \in q.sources
       PROVE  \/ /\ s.device \in q.poll.idle_signals
                 /\ s = PollTimer(s.device, q.poll.id[s.device], m[s.device])
              \/ retry[s.device] # NoId /\ s = RetryTimer(s.device, retry[s.device])
  <2>1. s \in p.sources /\ s.id # p.poll.id[d] /\ s.device \in Device
    BY <1>3, <1>7, SourceType
  <2>2. CASE /\ s.device \in p.poll.idle_signals
             /\ s = PollTimer(s.device, p.poll.id[s.device], level[s.device])
    <3>1. s.device # d
      BY <2>1, <2>2, TimerFields
    <3> QED
      BY <1>1, <1>2, <1>5, <2>1, <2>2, <3>1
  <2> QED
    BY <2>1, <2>2 DEF Consistent
<1>11. Consistent(q, m, retry)
  <2>1. q.poll.idle_signals \subseteq q.poll.registered
    BY <1>1 DEF Consistent
  <2>2. \A e \in Device \ q.poll.idle_signals : q.poll.id[e] = NoId
    BY <1>1, <1>5 DEF Consistent
  <2>3. \A s, t \in q.sources : s.id = t.id => s = t
    BY <1>7 DEF Consistent
  <2> QED
    BY <2>1, <2>2, <2>3, <1>6, <1>8, <1>9, <1>10 DEF Consistent
<1>12. \A id : Fresh(p, id) => Fresh(q, id)
  BY <1>7 DEF Fresh
<1> QED
  BY <1>1, <1>11, <1>12 DEF q, m

\* Polling is paused for all devices on record, or for none.
PausedOrNot(p) == p.poll.idle_signals = IF poll_paused THEN {} ELSE p.poll.registered

\* A poll of d with a new id is started, at the interval of the device's level.
LEMMA PollStarted ==
  ASSUME NEW p \in Pair, NEW level \in Levels, NEW retry \in Retries, NEW d \in Device,
         NEW id \in Id, Fresh(p, id), Consistent(p, level, retry), PausedOrNot(p)
  PROVE  LET q == StartPoll(p, d, id, Timeout(level[d]))
         IN  /\ Consistent(q, level, retry) /\ PausedOrNot(q)
             /\ q \in Pair
             /\ q.poll.registered = p.poll.registered \cup {d}
             /\ \A i : Fresh(p, i) /\ i # id => Fresh(q, i)
<1> DEFINE q == StartPoll(p, d, id, Timeout(level[d]))
<1>1. CASE d \in p.poll.registered
  BY <1>1 DEF StartPoll
<1>2. CASE d \notin p.poll.registered
  <2>1. Started(p, q, d, id, Timeout(level[d]))
    BY <1>2, StartPollFields, TimeoutType
  <2> HIDE DEF q
  <2>2. /\ q \in Pair
        /\ q.poll.registered = p.poll.registered \cup {d}
    BY <2>1 DEF Started
  <2>3. p.poll.connected \in [Device -> Nat] /\ p.poll.id \in [Device -> Id \cup {NoId}]
    BY DEF Pair, PollState
  <2>4. d \notin p.poll.idle_signals
    BY <1>2 DEF Consistent
  <2>5. p.poll.id[d] = NoId
    BY <2>4 DEF Consistent
  <2>6. CASE poll_paused
    <3>1. /\ q.poll.idle_signals = p.poll.idle_signals
          /\ q.poll.connected = p.poll.connected
          /\ q.sources = p.sources
          /\ q.poll.id = [p.poll.id EXCEPT ![d] = NoId]
      BY <2>1, <2>6 DEF Started
    <3>2. q.poll.id = p.poll.id
      BY <2>3, <2>5, <3>1
    <3>3. Consistent(q, level, retry)
      BY <2>2, <3>1, <3>2 DEF Consistent
    <3>4. PausedOrNot(q)
      BY <2>6, <3>1 DEF PausedOrNot
    <3>5. \A i : Fresh(p, i) => Fresh(q, i)
      BY <3>1 DEF Fresh
    <3> QED
      BY <2>2, <3>3, <3>4, <3>5 DEF q
  <2>7. CASE ~poll_paused
    <3> DEFINE t == PollTimer(d, id, level[d])
    <3>1. /\ q.poll.idle_signals = p.poll.idle_signals \cup {d}
          /\ q.poll.connected = [p.poll.connected EXCEPT ![d] = @ + 1]
          /\ q.sources = p.sources \cup {t}
          /\ q.poll.id = [p.poll.id EXCEPT ![d] = id]
      BY <2>1, <2>7 DEF Started, PollTimer
    <3>2. \A e \in Device : q.poll.id[e] = IF e = d THEN id ELSE p.poll.id[e]
      BY <2>3, <3>1
    <3>3. \A e \in Device : q.poll.connected[e] = IF e \in q.poll.idle_signals THEN 1 ELSE 0
      BY <2>3, <2>4, <3>1 DEF Consistent
    <3>4. q.poll.idle_signals \subseteq q.poll.registered
      BY <2>2, <3>1 DEF Consistent
    <3>5. \A e \in Device \ q.poll.idle_signals : q.poll.id[e] = NoId
      BY <3>1, <3>2 DEF Consistent
    <3>6. \A e \in q.poll.idle_signals : PollTimer(e, q.poll.id[e], level[e]) \in q.sources
      <4> SUFFICES ASSUME NEW e \in q.poll.idle_signals
                   PROVE  PollTimer(e, q.poll.id[e], level[e]) \in q.sources
        OBVIOUS
      <4>1. CASE e = d
        BY <3>1, <3>2, <4>1
      <4>2. CASE e # d
        <5>1. e \in p.poll.idle_signals /\ e \in Device
          BY <3>1, <4>2 DEF Pair, PollState
        <5> QED
          BY <3>1, <3>2, <4>2, <5>1 DEF Consistent
      <4> QED
        BY <4>1, <4>2
    <3>7. \A e \in Device : retry[e] # NoId =>
            PollKind[e] = "battery" /\ RetryTimer(e, retry[e]) \in q.sources
      BY <3>1 DEF Consistent
    <3>8. ASSUME NEW s \in q.sources
          PROVE  \/ /\ s.device \in q.poll.idle_signals
                    /\ s = PollTimer(s.device, q.poll.id[s.device], level[s.device])
                 \/ retry[s.device] # NoId /\ s = RetryTimer(s.device, retry[s.device])
      <4>1. CASE s = t
        BY <3>1, <3>2, <4>1, TimerFields
      <4>2. CASE s \in p.sources
        <5>1. s.device \in Device
          BY <4>2, SourceType DEF Pair
        <5>2. CASE /\ s.device \in p.poll.idle_signals
                   /\ s = PollTimer(s.device, p.poll.id[s.device], level[s.device])
          BY <2>4, <3>1, <3>2, <5>1, <5>2
        <5> QED
          BY <4>2, <5>2 DEF Consistent
      <4> QED
        BY <3>1, <4>1, <4>2
    <3>9. \A r, s \in q.sources : r.id = s.id => r = s
      BY <3>1, TimerFields DEF Consistent, Fresh
    <3>10. Consistent(q, level, retry)
      BY <3>3, <3>4, <3>5, <3>6, <3>7, <3>8, <3>9 DEF Consistent
    <3>11. PausedOrNot(q)
      BY <2>2, <2>7, <3>1 DEF PausedOrNot
    <3>12. \A i : Fresh(p, i) /\ i # id => Fresh(q, i)
      BY <3>1, TimerFields DEF Fresh
    <3> QED
      BY <2>2, <3>10, <3>11, <3>12 DEF q
  <2> QED
    BY <2>6, <2>7
<1> QED
  BY <1>1, <1>2

\* The level of a device that is not polled may be any.
LEMMA LevelOfUnpolled ==
  ASSUME NEW p \in Pair, NEW level \in Levels, NEW retry \in Retries, NEW d \in Device,
         NEW l \in Level, Consistent(p, level, retry), d \notin p.poll.idle_signals
  PROVE  Consistent(p, [level EXCEPT ![d] = l], retry)
<1> DEFINE m == [level EXCEPT ![d] = l]
<1>1. p.poll.idle_signals \subseteq Device /\ p.sources \subseteq Source
  BY DEF Pair, PollState
<1>2. \A e \in p.poll.idle_signals : m[e] = level[e]
  BY <1>1 DEF Levels
<1> HIDE DEF m
<1>3. Consistent(p, m, retry)
  BY <1>2 DEF Consistent
<1> QED
  BY <1>3 DEF m

\* The level of d changes, and its poll is started afresh.
LEMMA LevelChanged ==
  ASSUME NEW p \in Pair, NEW level \in Levels, NEW retry \in Retries, NEW d \in Device,
         NEW l \in Level, NEW id \in Id, Fresh(p, id), Consistent(p, level, retry),
         PausedOrNot(p)
  PROVE  LET q == ChangeIdleTimeout(p, d, id, Timeout(l))
         IN  /\ Consistent(q, [level EXCEPT ![d] = l], retry) /\ PausedOrNot(q)
             /\ q \in Pair
             /\ q.poll.registered = p.poll.registered
             /\ \A i : Fresh(p, i) /\ i # id => Fresh(q, i)
<1> DEFINE m == [level EXCEPT ![d] = l]
<1>1. m \in Levels /\ m[d] = l /\ \A e \in Device \ {d} : m[e] = level[e]
  BY DEF Levels
<1> HIDE DEF m
<1>2. CASE d \notin p.poll.idle_signals
  <2>1. p.poll.connected[d] = 0
    BY <1>2 DEF Consistent
  <2>2. ChangeIdleTimeout(p, d, id, Timeout(l)) = p
    BY <2>1 DEF ChangeIdleTimeout
  <2>3. Consistent(p, m, retry)
    BY <1>2, LevelOfUnpolled DEF m
  <2> QED
    BY <2>2, <2>3 DEF m
<1>3. CASE d \in p.poll.idle_signals
  <2>1. p.poll.connected[d] = 1 /\ d \in p.poll.registered
    BY <1>3 DEF Consistent
  <2>2. ChangeIdleTimeout(p, d, id, Timeout(l)) = StartPoll(StopPoll(p, d), d, id, Timeout(l))
    BY <2>1 DEF ChangeIdleTimeout
  <2> DEFINE q == StopPoll(p, d)
  <2>3. /\ Consistent(q, m, retry)
        /\ q \in Pair
        /\ q.poll.registered = p.poll.registered \ {d}
        /\ q.poll.idle_signals = p.poll.idle_signals \ {d}
        /\ \A i : Fresh(p, i) => Fresh(q, i)
    BY PollStopped DEF m
  <2> HIDE DEF q
  <2>4. PausedOrNot(q)
    BY <1>3, <2>3 DEF PausedOrNot
  <2> DEFINE r == StartPoll(q, d, id, Timeout(m[d]))
  <2>5. /\ Consistent(r, m, retry) /\ PausedOrNot(r)
        /\ r \in Pair
        /\ r.poll.registered = q.poll.registered \cup {d}
        /\ \A i : Fresh(q, i) /\ i # id => Fresh(r, i)
    BY <1>1, <2>3, <2>4, PollStarted
  <2>6. ChangeIdleTimeout(p, d, id, Timeout(l)) = r
    BY <1>1, <2>2 DEF q
  <2> HIDE DEF r
  <2>7. r.poll.registered = p.poll.registered
    BY <2>1, <2>3, <2>5
  <2> QED
    BY <2>3, <2>5, <2>6, <2>7 DEF m
<1> QED
  BY <1>2, <1>3

\* A retry with a new id is set up for a battery that has none.
LEMMA RetryAdded ==
  ASSUME NEW p \in Pair, NEW level \in Levels, NEW retry \in Retries, NEW d \in Device,
         NEW id \in Id, Fresh(p, id), Consistent(p, level, retry), PausedOrNot(p),
         retry[d] = NoId, PollKind[d] = "battery"
  PROVE  LET q == [p EXCEPT !.sources = @ \cup {RetryTimer(d, id)}]
         IN  /\ Consistent(q, level, [retry EXCEPT ![d] = id]) /\ PausedOrNot(q)
             /\ q \in Pair
             /\ q.poll = p.poll
<1> DEFINE q == [p EXCEPT !.sources = @ \cup {RetryTimer(d, id)}]
           r == [retry EXCEPT ![d] = id]
<1>1. q \in Pair /\ q.poll = p.poll /\ q.sources = p.sources \cup {RetryTimer(d, id)}
  BY AddRetryType DEF RetryTimer
<1>2. \A e \in Device : r[e] = IF e = d THEN id ELSE retry[e]
  BY DEF Retries
<1>3. id # NoId /\ \A s \in p.sources : s.device \in Device
  BY PollAssumption, SourceType DEF NoId, Pair
<1> HIDE DEF q, r
<1>4. /\ q.poll.idle_signals \subseteq q.poll.registered
      /\ \A e \in Device : q.poll.connected[e] = IF e \in q.poll.idle_signals THEN 1 ELSE 0
      /\ \A e \in Device \ q.poll.idle_signals : q.poll.id[e] = NoId
      /\ \A e \in q.poll.idle_signals : PollTimer(e, q.poll.id[e], level[e]) \in q.sources
  BY <1>1 DEF Consistent
<1>5. \A e \in Device : r[e] # NoId =>
        PollKind[e] = "battery" /\ RetryTimer(e, r[e]) \in q.sources
  BY <1>1, <1>2 DEF Consistent
<1>6. ASSUME NEW s \in q.sources
      PROVE  \/ /\ s.device \in q.poll.idle_signals
                /\ s = PollTimer(s.device, q.poll.id[s.device], level[s.device])
             \/ r[s.device] # NoId /\ s = RetryTimer(s.device, r[s.device])
  <2>1. CASE s = RetryTimer(d, id)
    BY <1>2, <1>3, <2>1, TimerFields
  <2>2. CASE s \in p.sources
    <3>1. CASE retry[s.device] # NoId /\ s = RetryTimer(s.device, retry[s.device])
      BY <1>2, <1>3, <2>2, <3>1
    <3> QED
      BY <1>1, <2>2, <3>1 DEF Consistent
  <2> QED
    BY <1>1, <2>1, <2>2
<1>7. \A s, t \in q.sources : s.id = t.id => s = t
  BY <1>1, TimerFields DEF Consistent, Fresh
<1>8. Consistent(q, level, r)
  BY <1>4, <1>5, <1>6, <1>7 DEF Consistent
<1>9. PausedOrNot(q)
  BY <1>1 DEF PausedOrNot
<1> QED
  BY <1>1, <1>8, <1>9 DEF q, r

-----------------------------------------------------------------------------
(* A refresh keeps the timers in step with the records.                    *)

\* What a refresh of d leaves behind, in which reg are on record.
Refreshed(d, reg) ==
  /\ RefreshTypeOK'
  /\ Consistent(Polling', warning_level', poll_timer_id') /\ PausedOrNot(Polling')
  /\ poll'.registered = reg
  /\ \A e \in Device \ {d} : /\ warning_level'[e] = warning_level[e]
                             /\ poll_timer_id'[e] = poll_timer_id[e]

\* A battery: its retry goes, its poll starts afresh, and a retry may be set up.
LEMMA BatteryRefreshed ==
  ASSUME RefreshTypeOK, RefreshTypeOK', NEW p \in Pair, NEW d \in Device,
         NEW level \in Level, NEW id \in Id, NEW retry \in Id, id # retry,
         PollKind[d] = "battery",
         Consistent(SourceRemove(p, poll_timer_id[d]), warning_level,
                    [poll_timer_id EXCEPT ![d] = NoId]),
         PausedOrNot(p), Fresh(p, id), Fresh(p, retry),
         warning_level' = [warning_level EXCEPT ![d] = level],
         RefreshBattery(p, d, level, id, retry)
  PROVE  Refreshed(d, p.poll.registered)
<1>0. PICK present \in BOOLEAN, known \in BOOLEAN :
      LET q == SourceRemove(p, poll_timer_id[d])
          r == ChangeIdleTimeout(q, d, id, Timeout(level))
      IN  IF present /\ ~NoPollBatteries
            THEN SetupUnknownPoll(r, d, known, retry)
            ELSE /\ SetPolling(r)
                 /\ poll_timer_id' = [poll_timer_id EXCEPT ![d] = NoId]
                 /\ UNCHANGED unknown_retries
  BY DEF RefreshBattery
<1> DEFINE q == SourceRemove(p, poll_timer_id[d])
           r == ChangeIdleTimeout(q, d, id, Timeout(level))
           none == [poll_timer_id EXCEPT ![d] = NoId]
<1>1. warning_level \in Levels /\ poll_timer_id \in Retries /\ none \in Retries
  BY DEF RefreshTypeOK, Levels, Retries
<1>2. q \in Pair /\ q.poll = p.poll /\ q.sources \subseteq p.sources
  BY SourceRemoveType
<1>3. Consistent(q, warning_level, none) /\ PausedOrNot(q) /\ Fresh(q, id) /\ Fresh(q, retry)
  BY <1>2 DEF PausedOrNot, Fresh
<1>4. \/ SetPolling(r) /\ poll_timer_id' = none
      \/ /\ SetPolling([r EXCEPT !.sources = @ \cup {RetryTimer(d, retry)}])
         /\ poll_timer_id' = [poll_timer_id EXCEPT ![d] = retry]
  BY <1>0 DEF SetupUnknownPoll, RetryTimer
<1>5. none[d] = NoId /\ [none EXCEPT ![d] = retry] = [poll_timer_id EXCEPT ![d] = retry]
  BY <1>1 DEF Retries
<1> HIDE DEF q, none
<1>6. /\ Consistent(r, warning_level', none) /\ PausedOrNot(r)
      /\ r \in Pair
      /\ r.poll.registered = q.poll.registered
      /\ Fresh(r, retry)
  <2>1. Consistent(r, [warning_level EXCEPT ![d] = level], none)
    BY <1>1, <1>2, <1>3, LevelChanged
  <2>2. /\ PausedOrNot(r)
        /\ r \in Pair
        /\ r.poll.registered = q.poll.registered
        /\ Fresh(r, retry)
    BY <1>1, <1>2, <1>3, LevelChanged
  <2> QED
    BY <2>1, <2>2
<1> HIDE DEF r
<1>7. warning_level' \in Levels
  BY DEF RefreshTypeOK, Levels
<1>8. \A s : SetPolling(s) /\ s \in Pair => Polling' = s
  BY DEF SetPolling, Polling, Pair
<1>9. /\ Consistent(Polling', warning_level', poll_timer_id') /\ PausedOrNot(Polling')
      /\ Polling'.poll.registered = q.poll.registered
  <2>1. CASE SetPolling(r) /\ poll_timer_id' = none
    BY <1>6, <1>8, <2>1
  <2>2. CASE /\ SetPolling([r EXCEPT !.sources = @ \cup {RetryTimer(d, retry)}])
             /\ poll_timer_id' = [poll_timer_id EXCEPT ![d] = retry]
    <3> DEFINE t == [r EXCEPT !.sources = @ \cup {RetryTimer(d, retry)}]
    <3>1. /\ Consistent(t, warning_level', [none EXCEPT ![d] = retry]) /\ PausedOrNot(t)
          /\ t \in Pair
          /\ t.poll = r.poll
      BY <1>1, <1>5, <1>6, <1>7, RetryAdded
    <3>2. Polling' = t
      BY <1>8, <2>2, <3>1
    <3> HIDE DEF t
    <3> QED
      BY <1>5, <1>6, <2>2, <3>1, <3>2
  <2> QED
    BY <1>4, <2>1, <2>2
<1>10. Polling'.poll = poll'
  BY DEF Polling
<1>11. \A e \in Device \ {d} : /\ warning_level'[e] = warning_level[e]
                               /\ poll_timer_id'[e] = poll_timer_id[e]
  BY <1>1, <1>4 DEF none, Levels, Retries
<1> QED
  BY <1>2, <1>9, <1>10, <1>11 DEF Refreshed

\* Devices other than batteries: their level and poll may change, nothing else.
LEMMA OtherRefreshed ==
  ASSUME RefreshTypeOK, RefreshTypeOK', NEW p \in Pair, NEW d \in Device,
         NEW level \in Level, NEW id \in Id, Consistent(p, warning_level, poll_timer_id),
         PausedOrNot(p), Fresh(p, id),
         \/ /\ warning_level' = [warning_level EXCEPT ![d] = level]
            /\ SetPolling(ChangeIdleTimeout(p, d, id, Timeout(level)))
         \/ SetPolling(p) /\ UNCHANGED warning_level,
         UNCHANGED poll_timer_id
  PROVE  Refreshed(d, p.poll.registered)
<1>1. warning_level \in Levels /\ poll_timer_id \in Retries
  BY DEF RefreshTypeOK, Levels, Retries
<1>2. \A s : SetPolling(s) /\ s \in Pair => Polling' = s
  BY DEF SetPolling, Polling, Pair
<1>3. Polling'.poll = poll'
  BY DEF Polling
<1>4. \A e \in Device \ {d} : warning_level'[e] = warning_level[e]
  BY <1>1 DEF Levels
<1>5. CASE SetPolling(p) /\ UNCHANGED warning_level
  BY <1>2, <1>3, <1>5 DEF Refreshed
<1>6. CASE /\ warning_level' = [warning_level EXCEPT ![d] = level]
           /\ SetPolling(ChangeIdleTimeout(p, d, id, Timeout(level)))
  <2> DEFINE q == ChangeIdleTimeout(p, d, id, Timeout(level))
  <2>1. /\ Consistent(q, [warning_level EXCEPT ![d] = level], poll_timer_id) /\ PausedOrNot(q)
        /\ q \in Pair
        /\ q.poll.registered = p.poll.registered
    BY <1>1, LevelChanged
  <2>2. Polling' = q
    BY <1>2, <1>6, <2>1
  <2> HIDE DEF q
  <2> QED
    BY <1>3, <1>4, <1>6, <2>1, <2>2 DEF Refreshed
<1> QED
  BY <1>5, <1>6

\* A refresh from p, from which the retry of d is gone when d is a battery, or goes.
LEMMA RefreshedFrom ==
  ASSUME RefreshTypeOK, NEW p \in Pair, NEW d \in Device, NEW used,
         \A s \in p.sources : s.id \in InUse \cup used,
         PausedOrNot(p),
         PollKind[d] = "battery" =>
           Consistent(SourceRemove(p, poll_timer_id[d]), warning_level,
                      [poll_timer_id EXCEPT ![d] = NoId]),
         PollKind[d] # "battery" => Consistent(p, warning_level, poll_timer_id),
         RefreshFrom(p, d, used)
  PROVE  Refreshed(d, p.poll.registered)
<1>1. RefreshTypeOK'
  BY RefreshFromType
<1> PICK level \in Level, id \in Id, retry \in Id :
      /\ IsNew(id, InUse \cup used) /\ IsNew(retry, InUse \cup used \cup {id})
      /\ \/ /\ warning_level' = [warning_level EXCEPT ![d] = level]
            /\ \/ PollKind[d] = "battery" /\ RefreshBattery(p, d, level, id, retry)
               \/ /\ PollKind[d] # "battery"
                  /\ SetPolling(ChangeIdleTimeout(p, d, id, Timeout(level)))
                  /\ UNCHANGED <<poll_timer_id, unknown_retries>>
         \/ /\ PollKind[d] # "battery"
            /\ SetPolling(p)
            /\ UNCHANGED <<warning_level, poll_timer_id, unknown_retries>>
  BY DEF RefreshFrom
<1>2. Fresh(p, id) /\ Fresh(p, retry) /\ id # retry
  BY DEF Fresh, IsNew
<1>3. CASE PollKind[d] = "battery"
  BY <1>1, <1>2, <1>3, BatteryRefreshed
<1>4. CASE PollKind[d] # "battery"
  BY <1>1, <1>2, <1>4, OtherRefreshed
<1> QED
  BY <1>3, <1>4

\* A refresh from a pair in step with the records.
LEMMA RefreshedFromConsistent ==
  ASSUME RefreshTypeOK, NEW p \in Pair, NEW d \in Device, NEW used,
         \A s \in p.sources : s.id \in InUse \cup used,
         PausedOrNot(p), Consistent(p, warning_level, poll_timer_id), RefreshFrom(p, d, used)
  PROVE  Refreshed(d, p.poll.registered)
<1>1. Consistent(SourceRemove(p, poll_timer_id[d]), warning_level,
                 [poll_timer_id EXCEPT ![d] = NoId])
  BY RetryRemoved DEF RefreshTypeOK, Levels, Retries
<1> QED
  BY <1>1, RefreshedFrom

\* A retry goes off: its source goes, and the record of it with the refresh.
LEMMA RefreshedByRetry ==
  ASSUME RefreshTypeOK, NEW s \in sources, s.kind = "retry",
         PausedOrNot(Polling), Consistent(Polling, warning_level, poll_timer_id),
         RefreshFrom(SourceRemove(Polling, s.id), s.device, {})
  PROVE  Refreshed(s.device, poll.registered)
<1>0. Polling \in Pair /\ Polling.poll = poll /\ Polling.sources = sources
  BY PollingType
<1> DEFINE p == SourceRemove(Polling, s.id)
           d == s.device
<1>1. s \in Source /\ d \in Device
  BY SourceType DEF RefreshTypeOK
<1>2. poll_timer_id[d] # NoId /\ s = RetryTimer(d, poll_timer_id[d])
  BY <1>0, <1>1, TimerFields DEF Consistent
<1>3. s.id = poll_timer_id[d] /\ PollKind[d] = "battery"
  BY <1>1, <1>2, TimerFields DEF Consistent
<1>4. /\ p \in Pair /\ p.poll = poll
      /\ p.sources = {t \in sources : t.id # s.id}
  BY <1>0, SourceRemoveType
<1>5. Consistent(p, warning_level, [poll_timer_id EXCEPT ![d] = NoId])
  BY <1>0, <1>1, <1>3, RetryRemoved DEF RefreshTypeOK, Levels, Retries
<1>6. SourceRemove(p, poll_timer_id[d]) = p
  <2>1. SourceRemove(p, s.id).poll = p.poll /\ SourceRemove(p, s.id).sources = p.sources
    BY <1>4, SourceRemoveType
  <2>2. SourceRemove(p, s.id) \in Pair
    BY <1>4, SourceRemoveType
  <2> HIDE DEF p
  <2> QED
    BY <1>3, <1>4, <2>1, <2>2 DEF Pair
<1>7. \A t \in p.sources : t.id \in InUse \cup {}
  BY <1>4 DEF InUse
<1>8. PausedOrNot(p)
  BY <1>0, <1>4 DEF PausedOrNot
<1> HIDE DEF p
<1>9. RefreshFrom(p, d, {})
  BY DEF p
<1> QED
  BY <1>1, <1>3, <1>4, <1>5, <1>6, <1>7, <1>8, <1>9, RefreshedFrom

-----------------------------------------------------------------------------
(* The other changes: a device leaves, the machine sleeps and wakes up.    *)

\* A pair is as good as another with the same timers and records.
LEMMA ConsistentAs ==
  ASSUME NEW p, NEW q, NEW level, NEW retry, Consistent(p, level, retry),
         q.poll.registered = p.poll.registered, q.poll.idle_signals = p.poll.idle_signals,
         q.poll.id = p.poll.id, \A d \in Device : q.poll.connected[d] = p.poll.connected[d],
         q.sources = p.sources
  PROVE  Consistent(q, level, retry)
BY DEF Consistent

\* A device that is destroyed and finalized is stopped, once.
LEMMA DestroyedStopped ==
  ASSUME NEW p \in Pair, NEW d \in Device
  PROVE  LET q == StopPoll(p, d)
             r == StopPoll(DeviceDestroyed(p, d), d)
         IN  /\ r \in Pair
             /\ r.poll.registered = q.poll.registered
             /\ r.poll.idle_signals = q.poll.idle_signals
             /\ r.poll.id = q.poll.id
             /\ r.poll.connected = q.poll.connected
             /\ r.sources = q.sources
<1> DEFINE n == DeviceDestroyed(p, d)
           q == StopPoll(p, d)
           r == StopPoll(n, d)
<1>1. CASE n = p
  BY <1>1, StopPollFields
<1>2. CASE n # p
  <2> DEFINE t == SourceRemove(p, p.poll.id[d])
  <2>1. d \in p.poll.registered
    BY <1>2 DEF DeviceDestroyed
  <2>2. n = [t EXCEPT !.poll.registered = @ \ {d}, !.poll.id[d] = NoId]
    BY <1>2 DEF DeviceDestroyed
  <2>3. /\ t \in Pair /\ t.poll = p.poll
        /\ t.sources = {s \in p.sources : s.id # p.poll.id[d]}
    BY SourceRemoveType
  <2>4. n \in Pair
    BY DeviceDestroyedType
  <2> HIDE DEF t
  <2>5. /\ n.poll.registered = p.poll.registered \ {d}
        /\ n.poll.id = [p.poll.id EXCEPT ![d] = NoId]
        /\ n.poll.idle_signals = p.poll.idle_signals
        /\ n.poll.connected = p.poll.connected
        /\ n.sources = {s \in p.sources : s.id # p.poll.id[d]}
    <3> DEFINE o == [t EXCEPT !.poll.registered = @ \ {d}, !.poll.id[d] = NoId]
    <3>1. /\ o.poll.registered = t.poll.registered \ {d}
          /\ o.poll.id = [t.poll.id EXCEPT ![d] = NoId]
          /\ o.poll.idle_signals = t.poll.idle_signals
          /\ o.poll.connected = t.poll.connected
          /\ o.sources = t.sources
      BY <2>3 DEF Pair, PollState
    <3> HIDE DEF n, o
    <3>2. n = o
      BY <2>2 DEF o
    <3> QED
      BY <2>3, <3>1, <3>2
  <2> HIDE DEF n
  <2>6. /\ r \in Pair
        /\ r.poll.registered = n.poll.registered \ {d}
        /\ r.poll.idle_signals = n.poll.idle_signals \ {d}
        /\ r.poll.id = IF d \in n.poll.registered THEN [n.poll.id EXCEPT ![d] = NoId]
                       ELSE n.poll.id
        /\ r.poll.connected = IF d \in n.poll.idle_signals
                              THEN [n.poll.connected EXCEPT ![d] = IF @ > 0 THEN @ - 1 ELSE 0]
                              ELSE n.poll.connected
        /\ r.sources = IF d \in n.poll.registered
                       THEN {s \in n.sources : s.id # n.poll.id[d]} ELSE n.sources
    BY <2>4, StopPollFields
  <2>7. /\ q \in Pair
        /\ q.poll.registered = p.poll.registered \ {d}
        /\ q.poll.idle_signals = p.poll.idle_signals \ {d}
        /\ q.poll.id = IF d \in p.poll.registered THEN [p.poll.id EXCEPT ![d] = NoId]
                       ELSE p.poll.id
        /\ q.poll.connected = IF d \in p.poll.idle_signals
                              THEN [p.poll.connected EXCEPT ![d] = IF @ > 0 THEN @ - 1 ELSE 0]
                              ELSE p.poll.connected
        /\ q.sources = IF d \in p.poll.registered
                       THEN {s \in p.sources : s.id # p.poll.id[d]} ELSE p.sources
    BY StopPollFields
  <2> HIDE DEF q, r
  <2>8. r.poll.registered = q.poll.registered /\ r.poll.idle_signals = q.poll.idle_signals
    BY <2>5, <2>6, <2>7
  <2>9. r.poll.id = q.poll.id /\ r.sources = q.sources
    BY <2>1, <2>5, <2>6, <2>7
  <2>10. r.poll.connected = q.poll.connected
    BY <2>5, <2>6, <2>7
  <2> QED
    BY <2>6, <2>8, <2>9, <2>10 DEF q, r, n
<1> QED
  BY <1>1, <1>2

\* The pair that Remove makes, when id is the retry of d.
Removed(p, d, id) ==
  LET q == SourceRemove(StopPoll(DeviceDestroyed(p, d), d), id)
  IN  [q EXCEPT !.poll.connected[d] = 0, !.poll.weak_refs[d] = 0]

\* Remove leaves nothing of the device.
LEMMA DeviceRemoved ==
  ASSUME NEW p \in Pair, NEW level \in Levels, NEW retry \in Retries, NEW d \in Device,
         NEW l \in Level, Consistent(p, level, retry), PausedOrNot(p)
  PROVE  LET r == Removed(p, d, retry[d])
         IN  /\ Consistent(r, [level EXCEPT ![d] = l], [retry EXCEPT ![d] = NoId])
             /\ PausedOrNot(r)
             /\ r.poll.registered = p.poll.registered \ {d}
<1> DEFINE s == StopPoll(p, d)
           t == StopPoll(DeviceDestroyed(p, d), d)
           q == SourceRemove(t, retry[d])
           r == [q EXCEPT !.poll.connected[d] = 0, !.poll.weak_refs[d] = 0]
           m == [level EXCEPT ![d] = l]
           none == [retry EXCEPT ![d] = NoId]
<1>1. m \in Levels
  BY DEF Levels
<1>2. /\ Consistent(s, m, retry)
      /\ s.poll.registered = p.poll.registered \ {d}
      /\ s.poll.idle_signals = p.poll.idle_signals \ {d}
  BY PollStopped
<1>3. /\ t \in Pair
      /\ t.poll.registered = s.poll.registered
      /\ t.poll.idle_signals = s.poll.idle_signals
      /\ t.poll.id = s.poll.id
      /\ t.poll.connected = s.poll.connected
      /\ t.sources = s.sources
  BY DestroyedStopped
<1> HIDE DEF m, s, t
<1>4. Consistent(t, m, retry)
  BY <1>2, <1>3, ConsistentAs
<1>5. Consistent(q, m, none) /\ q \in Pair /\ q.poll = t.poll
  BY <1>1, <1>3, <1>4, RetryRemoved
<1> HIDE DEF q, none
<1>6. /\ r.poll.registered = q.poll.registered
      /\ r.poll.idle_signals = q.poll.idle_signals
      /\ r.poll.id = q.poll.id
      /\ r.poll.connected = [q.poll.connected EXCEPT ![d] = 0]
      /\ r.sources = q.sources
      /\ q.poll.connected \in [Device -> Nat]
  BY <1>5 DEF Pair, PollState
<1> HIDE DEF r
<1>7. d \notin q.poll.idle_signals
  BY <1>2, <1>3, <1>5
<1>8. \A e \in Device : r.poll.connected[e] = q.poll.connected[e]
  BY <1>5, <1>6, <1>7 DEF Consistent
<1>9. Consistent(r, m, none)
  BY <1>5, <1>6, <1>8, ConsistentAs
<1>10. PausedOrNot(r)
  BY <1>2, <1>3, <1>5, <1>6 DEF PausedOrNot
<1> QED
  BY <1>2, <1>3, <1>5, <1>6, <1>9, <1>10 DEF Removed, r, q, t, m, none

\* Every poll is paused.
LEMMA PollsPaused ==
  ASSUME NEW p \in Pair, NEW level \in Levels, NEW retry \in Retries,
         Consistent(p, level, retry)
  PROVE  LET q == PausePoll(p)
         IN  /\ Consistent(q, level, retry)
             /\ q \in Pair
             /\ q.poll.registered = p.poll.registered
             /\ q.poll.idle_signals = {}
<1> DEFINE q == PausePoll(p)
           off == p.poll.registered \cap p.poll.idle_signals
<1>1. /\ q \in Pair
      /\ q.poll.registered = p.poll.registered
      /\ q.poll.id = [d \in Device |-> IF d \in p.poll.registered THEN NoId ELSE p.poll.id[d]]
      /\ q.poll.idle_signals = p.poll.idle_signals \ off
      /\ q.poll.connected =
           [d \in Device |-> IF d \in off /\ p.poll.connected[d] > 0
                             THEN p.poll.connected[d] - 1 ELSE p.poll.connected[d]]
      /\ q.sources = {s \in p.sources : s.id \notin {p.poll.id[d] : d \in p.poll.registered}}
  BY PausePollFields
<1> HIDE DEF q
<1>2. p.poll.idle_signals \subseteq p.poll.registered /\ p.poll.registered \subseteq Device
  BY DEF Consistent, Pair, PollState
<1>3. q.poll.idle_signals = {}
  BY <1>1, <1>2
<1>4. \A d \in Device : q.poll.connected[d] = 0 /\ q.poll.id[d] = NoId
  BY <1>1, <1>2 DEF Consistent
<1>5. \A s : s \in q.sources <=> s \in p.sources /\ \A d \in p.poll.registered : s.id # p.poll.id[d]
  BY <1>1
<1>6. \A s \in p.sources : s.device \in Device /\ s.id # NoId
  BY SourceType DEF Pair
<1>7. ASSUME NEW d \in Device, retry[d] # NoId
      PROVE  PollKind[d] = "battery" /\ RetryTimer(d, retry[d]) \in q.sources
  <2>1. PollKind[d] = "battery" /\ RetryTimer(d, retry[d]) \in p.sources
    BY <1>7 DEF Consistent
  <2>2. ASSUME NEW e \in p.poll.registered
        PROVE  retry[d] # p.poll.id[e]
    <3>1. CASE e \in p.poll.idle_signals
      <4>1. PollTimer(e, p.poll.id[e], level[e]) \in p.sources
        BY <3>1 DEF Consistent
      <4> QED
        BY <2>1, <4>1, TimerFields DEF Consistent
    <3>2. CASE e \notin p.poll.idle_signals
      BY <1>2, <1>7, <3>2 DEF Consistent
    <3> QED
      BY <3>1, <3>2
  <2> QED
    BY <1>5, <2>1, <2>2, TimerFields
<1>8. ASSUME NEW s \in q.sources
      PROVE  retry[s.device] # NoId /\ s = RetryTimer(s.device, retry[s.device])
  <2>1. s \in p.sources /\ \A d \in p.poll.registered : s.id # p.poll.id[d]
    BY <1>5
  <2>2. ~ /\ s.device \in p.poll.idle_signals
          /\ s = PollTimer(s.device, p.poll.id[s.device], level[s.device])
    BY <1>2, <2>1, TimerFields
  <2> QED
    BY <2>1, <2>2 DEF Consistent
<1>9. \A s, t \in q.sources : s.id = t.id => s = t
  BY <1>5 DEF Consistent
<1>10. Consistent(q, level, retry)
  BY <1>3, <1>4, <1>7, <1>8, <1>9 DEF Consistent
<1> QED
  BY <1>1, <1>3, <1>10 DEF q

\* Every poll is resumed with an id of its own.
LEMMA PollsResumed ==
  ASSUME NEW p \in Pair, NEW retry \in Retries, NEW ids \in [p.poll.registered -> Id],
         warning_level \in Levels, Consistent(p, warning_level, retry),
         p.poll.idle_signals = {},
         \A d \in p.poll.registered : Fresh(p, ids[d]),
         \A d, e \in p.poll.registered : ids[d] = ids[e] => d = e
  PROVE  LET q == ResumePoll(p, ids)
         IN  /\ Consistent(q, warning_level, retry)
             /\ q \in Pair
             /\ q.poll.registered = p.poll.registered
             /\ q.poll.idle_signals = p.poll.registered
<1> DEFINE q == ResumePoll(p, ids)
           level == warning_level
<1>1. /\ q \in Pair
      /\ q.poll.registered = p.poll.registered
      /\ q.poll.id = [d \in Device |-> IF d \in p.poll.registered THEN ids[d] ELSE p.poll.id[d]]
      /\ q.poll.idle_signals = p.poll.idle_signals \cup p.poll.registered
      /\ q.poll.connected =
           [d \in Device |-> IF d \in p.poll.registered THEN p.poll.connected[d] + 1
                             ELSE p.poll.connected[d]]
      /\ q.sources = p.sources \cup
           {[id |-> ids[d], device |-> d, kind |-> Timeout(warning_level[d])] :
              d \in p.poll.registered}
  BY ResumePollFields
<1> HIDE DEF q
<1>2. q.poll.idle_signals = p.poll.registered /\ p.poll.registered \subseteq Device
  BY <1>1 DEF Pair, PollState
<1>3. /\ \A d \in p.poll.registered : q.poll.id[d] = ids[d] /\ q.poll.connected[d] = 1
      /\ \A d \in Device \ p.poll.registered : q.poll.id[d] = NoId /\ q.poll.connected[d] = 0
  BY <1>1, <1>2 DEF Consistent
<1>4. \A s : s \in q.sources <=>
        \/ s \in p.sources
        \/ \E d \in p.poll.registered : s = PollTimer(d, ids[d], level[d])
  BY <1>1 DEF PollTimer
<1>5. ASSUME NEW s \in q.sources
      PROVE  \/ /\ s.device \in q.poll.idle_signals
                /\ s = PollTimer(s.device, q.poll.id[s.device], level[s.device])
             \/ retry[s.device] # NoId /\ s = RetryTimer(s.device, retry[s.device])
  <2>1. CASE s \in p.sources
    BY <2>1 DEF Consistent
  <2>2. CASE \E d \in p.poll.registered : s = PollTimer(d, ids[d], level[d])
    BY <1>2, <1>3, <2>2, TimerFields
  <2> QED
    BY <1>4, <2>1, <2>2
<1>6. ASSUME NEW s \in q.sources, NEW t \in q.sources, s.id = t.id
      PROVE  s = t
  <2>1. CASE s \in p.sources /\ t \in p.sources
    BY <1>6, <2>1 DEF Consistent
  <2>2. ASSUME NEW r \in p.sources, NEW d \in p.poll.registered
        PROVE  r.id # PollTimer(d, ids[d], level[d]).id
    BY TimerFields DEF Fresh
  <2>3. CASE s \notin p.sources /\ t \notin p.sources
    <3> PICK d \in p.poll.registered : s = PollTimer(d, ids[d], level[d])
      BY <1>4, <2>3
    <3> PICK e \in p.poll.registered : t = PollTimer(e, ids[e], level[e])
      BY <1>4, <2>3
    <3> QED
      BY <1>6, TimerFields
  <2> QED
    BY <1>4, <1>6, <2>1, <2>2, <2>3
<1>7. \A d \in Device : retry[d] # NoId =>
        PollKind[d] = "battery" /\ RetryTimer(d, retry[d]) \in q.sources
  BY <1>4 DEF Consistent
<1>8. \A d \in q.poll.idle_signals : PollTimer(d, q.poll.id[d], level[d]) \in q.sources
  BY <1>2, <1>3, <1>4
<1>9. Consistent(q, level, retry)
  BY <1>1, <1>2, <1>3, <1>5, <1>6, <1>7, <1>8 DEF Consistent
<1> QED
  BY <1>1, <1>2, <1>9 DEF q

-----------------------------------------------------------------------------
(* The handshake with logind.                                              *)

\* The values of s alternate, from another than h on; the last one of h and s.
Alternates(s, h) == \A i \in 1..Len(s) : s[i] # (IF i = 1 THEN h ELSE s[i - 1])
Latest(s, h) == IF s = <<>> THEN h ELSE s[Len(s)]

LEMMA AppendAlternates ==
  ASSUME NEW S, NEW s \in Seq(S), NEW h \in S, NEW b \in S, Alternates(s, h),
         b # Latest(s, h)
  PROVE  Alternates(Append(s, b), h) /\ Latest(Append(s, b), h) = b
<1>1. /\ Append(s, b) \in Seq(S) /\ Len(Append(s, b)) = Len(s) + 1 /\ Append(s, b) # <<>>
      /\ Append(s, b)[Len(s) + 1] = b
      /\ \A i \in 1..Len(s) : Append(s, b)[i] = s[i]
      /\ Len(s) \in Nat /\ (s = <<>> <=> Len(s) = 0)
  OBVIOUS
<1> DEFINE t == Append(s, b)
<1> HIDE DEF t
<1>2. ASSUME NEW i \in 1..Len(t)
      PROVE  t[i] # (IF i = 1 THEN h ELSE t[i - 1])
  <2>1. CASE i \in 1..Len(s)
    BY <1>1, <2>1 DEF Alternates, t
  <2>2. CASE i = Len(s) + 1
    BY <1>1, <2>2 DEF Latest, t
  <2> QED
    BY <1>1, <2>1, <2>2 DEF t
<1> QED
  BY <1>1, <1>2 DEF Alternates, Latest, t

LEMMA TailAlternates ==
  ASSUME NEW S, NEW s \in Seq(S), NEW h \in S, Alternates(s, h), s # <<>>
  PROVE  /\ Head(s) # h
         /\ Alternates(Tail(s), Head(s))
         /\ Latest(Tail(s), Head(s)) = Latest(s, h)
<1>1. /\ Tail(s) \in Seq(S) /\ Len(Tail(s)) = Len(s) - 1 /\ Head(s) = s[1]
      /\ \A i \in 1..Len(s) - 1 : Tail(s)[i] = s[i + 1]
      /\ Len(s) \in Nat \ {0} /\ (Tail(s) = <<>> <=> Len(Tail(s)) = 0)
  <2>1. /\ Tail(s) \in Seq(S) /\ Len(Tail(s)) = Len(s) - 1
        /\ \A i \in 1..Len(Tail(s)) : Tail(s)[i] = s[i + 1]
    BY HeadTailProperties
  <2>2. Head(s) = s[1] /\ Len(s) \in Nat \ {0}
    OBVIOUS
  <2>3. Tail(s) = <<>> <=> Len(Tail(s)) = 0
    BY <2>1, EmptySeq
  <2> QED
    BY <2>1, <2>2, <2>3
<1> QED
  BY <1>1 DEF Alternates, Latest

\* Whether PrepareForSleep(TRUE) is the signal handled last.
Heard == IF poll_paused /\ ~waking THEN TRUE ELSE FALSE
Asleep == IF logind = "awake" THEN FALSE ELSE TRUE

\* The signals on their way alternate with the one handled last, and end with
\* what logind does now: so that no resume comes without a pause.
HandshakeInv ==
  /\ waking => poll_paused
  /\ Alternates(signals, Heard)
  /\ Latest(signals, Heard) = Asleep

LEMMA NextKeepsHandshakeInv ==
  TypeOK /\ HandshakeInv /\ [Next]_vars => HandshakeInv'
<1> SUFFICES ASSUME TypeOK, HandshakeInv, [Next]_vars
             PROVE  HandshakeInv'
  OBVIOUS
<1>0. signals \in Seq(BOOLEAN) /\ Heard \in BOOLEAN
  BY DEF TypeOK, Heard
<1>1. CASE UNCHANGED <<poll_paused, waking, signals>> /\ Asleep' = Asleep
  <2>1. Heard' = Heard
    BY <1>1 DEF Heard
  <2> QED
    BY <1>1, <2>1 DEF HandshakeInv
<1>2. ASSUME NEW d \in Device, Refresh(d) \/ Add(d) \/ StartIdevice(d) \/ Remove(d)
      PROVE  UNCHANGED <<poll_paused, waking, signals>> /\ Asleep' = Asleep
  BY <1>2 DEF Refresh, Add, StartIdevice, Remove, environment, Asleep
<1>3. ASSUME NEW s \in sources, Fire(s)
      PROVE  UNCHANGED <<poll_paused, waking, signals>> /\ Asleep' = Asleep
  BY <1>3 DEF Fire, environment, Asleep
<1>4. CASE RefreshNext \/ Suspend \/ UNCHANGED vars
  <2>1. UNCHANGED <<poll_paused, waking, signals>> /\ Asleep' = Asleep
    BY <1>4 DEF RefreshNext, Suspend, vars, daemon, environment, Asleep
  <2> QED
    BY <1>1, <2>1
<1>5. CASE FinishWakeUp
  <2>1. Heard = FALSE /\ Heard' = FALSE
    BY <1>5 DEF FinishWakeUp, Heard
  <2>2. signals' = signals /\ Asleep' = Asleep /\ waking' = FALSE
    BY <1>5 DEF FinishWakeUp, environment, Asleep
  <2> QED
    BY <2>1, <2>2 DEF HandshakeInv
<1>6. CASE PrepareForSleep
  <2>1. signals # <<>> /\ Head(signals) /\ signals' = Tail(signals)
    BY <1>6 DEF PrepareForSleep
  <2>2. Head(signals) = TRUE
    BY <1>0, <2>1
  <2>3. Heard' = TRUE /\ Asleep' = Asleep /\ (waking' => poll_paused')
    BY <1>6 DEF PrepareForSleep, Heard, Asleep, Dispatching
  <2> QED
    BY <1>0, <2>1, <2>2, <2>3, TailAlternates DEF HandshakeInv
<1>7. CASE WakeUp
  <2>1. signals # <<>> /\ ~Head(signals) /\ signals' = Tail(signals)
    BY <1>7 DEF WakeUp
  <2>2. Head(signals) = FALSE
    <3>1. Head(signals) \in BOOLEAN
      BY <1>0, <2>1, HeadTailProperties
    <3> QED
      BY <2>1, <3>1
  <2>3. Head(signals) # Heard
    BY <1>0, <2>1, TailAlternates DEF HandshakeInv
  <2>4. poll_paused /\ poll_paused' = poll_paused
    BY <1>7, <2>2, <2>3 DEF WakeUp, Heard
  <2>5. Heard' = FALSE /\ Asleep' = Asleep
    BY <1>7 DEF WakeUp, Heard, Asleep
  <2> QED
    BY <1>0, <2>1, <2>2, <2>4, <2>5, TailAlternates DEF HandshakeInv
<1>8. CASE AnnounceSleep
  <2>1. signals' = Append(signals, TRUE) /\ Asleep = FALSE /\ Asleep' = TRUE
    BY <1>8 DEF AnnounceSleep, Asleep
  <2>2. Heard' = Heard /\ (waking' => poll_paused')
    BY <1>8 DEF AnnounceSleep, daemon, Heard, HandshakeInv
  <2>3. Alternates(signals, Heard) /\ TRUE # Latest(signals, Heard)
    BY <2>1 DEF HandshakeInv
  <2>4. Alternates(Append(signals, TRUE), Heard) /\ Latest(Append(signals, TRUE), Heard) = TRUE
    BY <1>0, <2>3, AppendAlternates, Zenon
  <2> QED
    BY <2>1, <2>2, <2>4 DEF HandshakeInv
<1>9. CASE Resume
  <2>1. signals' = Append(signals, FALSE) /\ Asleep = TRUE /\ Asleep' = FALSE
    BY <1>9 DEF Resume, Asleep
  <2>2. Heard' = Heard /\ (waking' => poll_paused')
    BY <1>9 DEF Resume, daemon, Heard, HandshakeInv
  <2>3. Alternates(signals, Heard) /\ FALSE # Latest(signals, Heard)
    BY <2>1 DEF HandshakeInv
  <2>4. Alternates(Append(signals, FALSE), Heard) /\ Latest(Append(signals, FALSE), Heard) = FALSE
    BY <1>0, <2>3, AppendAlternates, Zenon
  <2> QED
    BY <2>1, <2>2, <2>4 DEF HandshakeInv
<1> QED
  BY <1>1, <1>2, <1>3, <1>4, <1>5, <1>6, <1>7, <1>8, <1>9 DEF Next, Wake

LEMMA InitHandshake == ~StartsDuringSleep /\ Init => HandshakeInv
<1> SUFFICES ASSUME ~StartsDuringSleep, Init
             PROVE  HandshakeInv
  OBVIOUS
<1>1. logind \in IF StartsDuringSleep THEN {"awake", "announced"} ELSE {"awake"}
  BY Zenon DEF Init
<1>2. signals = <<>> /\ poll_paused = FALSE /\ waking = FALSE
  BY DEF Init
<1>3. Heard = FALSE /\ Asleep = FALSE
  BY <1>1, <1>2 DEF Heard, Asleep
<1>4. Alternates(<<>>, Heard) /\ Latest(<<>>, Heard) = Heard
  BY DEF Alternates, Latest
<1>5. Alternates(signals, Heard) /\ Latest(signals, Heard) = Heard
  BY <1>2, <1>4
<1> QED
  BY <1>2, <1>3, <1>5 DEF HandshakeInv

-----------------------------------------------------------------------------
(* The timers and the devices.                                             *)

\* Devices on record are listed, those that have to be polled are on record, and
\* a device that is not listed has neither level nor retry.
ListedInv ==
  /\ poll.registered \subseteq listed
  /\ \A d \in listed : IsPolled(d) => d \in poll.registered
  /\ \A d \in Device \ listed : warning_level[d] = "unknown" /\ poll_timer_id[d] = NoId
  /\ todo \subseteq listed /\ (~waking => todo = {})

TimersInv ==
  /\ Consistent(Polling, warning_level, poll_timer_id)
  /\ PausedOrNot(Polling)
  /\ ListedInv

\* A refresh of a listed device, and nothing else.
LEMMA RefreshKeepsTimersInv ==
  ASSUME TypeOK, TimersInv, NEW d \in listed, Refreshed(d, poll.registered),
         UNCHANGED <<listed, poll_paused, waking>>, todo' \subseteq todo
  PROVE  TimersInv'
<1>1. Consistent(Polling, warning_level, poll_timer_id)'
  BY DEF Refreshed, Consistent, PollTimer, RetryTimer
<1>2. PausedOrNot(Polling)'
  BY DEF Refreshed, PausedOrNot
<1>3. ListedInv'
  BY DEF Refreshed, TimersInv, ListedInv, IsPolled
<1> QED
  BY <1>1, <1>2, <1>3 DEF TimersInv

LEMMA NextKeepsTimersInv ==
  TypeOK /\ HandshakeInv /\ TimersInv /\ [Next]_vars => TimersInv'
<1> SUFFICES ASSUME TypeOK, HandshakeInv, TimersInv, [Next]_vars
             PROVE  TimersInv'
  OBVIOUS
<1>0. RefreshTypeOK /\ Polling \in Pair /\ Polling.poll = poll /\ Polling.sources = sources
  BY PollingType DEF TypeOK, RefreshTypeOK
<1>a. warning_level \in Levels /\ poll_timer_id \in Retries
  BY DEF TypeOK, Levels, Retries
<1>b. Consistent(Polling, warning_level, poll_timer_id) /\ PausedOrNot(Polling) /\ ListedInv
  BY DEF TimersInv
<1>c. \A s \in Polling.sources : s.id \in InUse \cup {}
  BY <1>0 DEF InUse
<1>d. \A id : IsNew(id, InUse) => Fresh(Polling, id)
  BY <1>0 DEF IsNew, Fresh, InUse
<1>e. ASSUME NEW p, SetPolling(p), Consistent(p, warning_level', poll_timer_id')
      PROVE  /\ Consistent(Polling, warning_level, poll_timer_id)'
             /\ poll'.registered = p.poll.registered
             /\ poll'.idle_signals = p.poll.idle_signals
  <2>1. Polling'.poll = p.poll /\ Polling'.sources = p.sources /\ poll' = p.poll
    BY <1>e DEF SetPolling, Polling
  <2>2. Consistent(Polling', warning_level', poll_timer_id')
    BY <1>e, <2>1, ConsistentAs
  <2> QED
    BY <2>1, <2>2 DEF Consistent, PollTimer, RetryTimer
<1>1. ASSUME NEW d \in Device, Refresh(d)
      PROVE  TimersInv'
  <2>1. Refreshed(d, poll.registered)
    BY <1>0, <1>1, <1>b, <1>c, RefreshedFromConsistent DEF Refresh
  <2> QED
    BY <1>1, <2>1, RefreshKeepsTimersInv DEF Refresh
<1>2. ASSUME NEW d \in Device, Add(d)
      PROVE  TimersInv'
  <2>0. PICK id \in Id :
          /\ IsNew(id, InUse)
          /\ RefreshFrom(IF IsPolled(d) THEN StartPoll(Polling, d, id, "long") ELSE Polling,
                         d, {id})
    BY <1>2 DEF Add
  <2> DEFINE p == IF IsPolled(d) THEN StartPoll(Polling, d, id, "long") ELSE Polling
             reg == IF IsPolled(d) THEN poll.registered \cup {d} ELSE poll.registered
  <2>1. Timeout(warning_level[d]) = "long" /\ d \notin listed
    BY <1>2, <1>b DEF Add, ListedInv, Timeout, LevelRank
  <2>2. /\ p \in Pair /\ Consistent(p, warning_level, poll_timer_id) /\ PausedOrNot(p)
        /\ p.poll.registered = reg
        /\ \A i : Fresh(Polling, i) /\ i # id => Fresh(p, i)
    <3>1. CASE IsPolled(d)
      <4> DEFINE q == StartPoll(Polling, d, id, Timeout(warning_level[d]))
      <4>1. Fresh(Polling, id)
        BY <1>d, <2>0
      <4>2. Consistent(q, warning_level, poll_timer_id) /\ PausedOrNot(q)
        BY <1>0, <1>a, <1>b, <4>1, PollStarted
      <4>3. /\ q \in Pair
            /\ q.poll.registered = Polling.poll.registered \cup {d}
            /\ \A i : Fresh(Polling, i) /\ i # id => Fresh(q, i)
        BY <1>0, <1>a, <1>b, <4>1, PollStarted
      <4>4. q = p
        BY <2>1, <3>1
      <4> HIDE DEF p, q
      <4> QED
        BY <1>0, <3>1, <4>2, <4>3, <4>4
    <3>2. CASE ~IsPolled(d)
      BY <1>0, <1>b, <3>2
    <3> QED
      BY <3>1, <3>2
  <2>3. RefreshFrom(p, d, {id})
    BY <2>0
  <2> HIDE DEF p
  <2>4. \A s \in p.sources : s.id \in InUse \cup {id}
    <3> SUFFICES ASSUME NEW s \in p.sources, s.id # id
                 PROVE  s.id \in InUse
      OBVIOUS
    <3>1. ~Fresh(p, s.id)
      BY DEF Fresh
    <3>2. ~Fresh(Polling, s.id)
      BY <2>2, <3>1
    <3> QED
      BY <1>0, <3>2 DEF Fresh, InUse
  <2> HIDE DEF reg
  <2>5. Refreshed(d, reg)
    BY <1>0, <2>2, <2>3, <2>4, RefreshedFromConsistent
  <2>6. listed' = listed \cup {d} /\ UNCHANGED <<poll_paused, todo, waking>>
    BY <1>2 DEF Add
  <2>7. Consistent(Polling, warning_level, poll_timer_id)'
    BY <2>5 DEF Refreshed, Consistent, PollTimer, RetryTimer
  <2>8. PausedOrNot(Polling)'
    BY <2>5, <2>6 DEF Refreshed, PausedOrNot
  <2>9. ListedInv'
    BY <1>b, <2>1, <2>5, <2>6 DEF Refreshed, ListedInv, IsPolled, reg
  <2> QED
    BY <2>7, <2>8, <2>9 DEF TimersInv
<1>3. ASSUME NEW d \in Device, StartIdevice(d)
      PROVE  TimersInv'
  <2>0. PICK id \in Id, level \in Level :
          /\ IsNew(id, InUse)
          /\ warning_level' = [warning_level EXCEPT ![d] = level]
          /\ SetPolling(StartPoll(Polling, d, id, Timeout(level)))
    BY <1>3 DEF StartIdevice
  <2> DEFINE m == [warning_level EXCEPT ![d] = level]
             q == StartPoll(Polling, d, id, Timeout(m[d]))
  <2>1. /\ d \in listed /\ d \notin poll.registered
        /\ UNCHANGED <<poll_timer_id, poll_paused, listed, todo, waking>>
    BY <1>3 DEF StartIdevice
  <2>2. m \in Levels /\ m[d] = level /\ \A e \in Device \ {d} : m[e] = warning_level[e]
    BY <1>a DEF Levels
  <2>3. d \notin Polling.poll.idle_signals
    BY <1>0, <1>b, <2>1 DEF Consistent
  <2>4. Consistent(Polling, m, poll_timer_id)
    BY <1>0, <1>a, <1>b, <2>3, LevelOfUnpolled
  <2>5. SetPolling(q) /\ warning_level' = m
    BY <2>0, <2>2
  <2>6. Fresh(Polling, id)
    BY <1>d, <2>0
  <2> HIDE DEF m
  <2>7. Consistent(q, m, poll_timer_id) /\ PausedOrNot(q)
    BY <1>0, <1>a, <1>b, <2>2, <2>4, <2>6, PollStarted
  <2>8. q.poll.registered = poll.registered \cup {d}
    BY <1>0, <1>a, <1>b, <2>2, <2>4, <2>6, PollStarted
  <2> HIDE DEF q
  <2>9. Consistent(q, warning_level', poll_timer_id')
    BY <2>1, <2>5, <2>7
  <2>10. /\ Consistent(Polling, warning_level, poll_timer_id)'
         /\ poll'.registered = q.poll.registered
         /\ poll'.idle_signals = q.poll.idle_signals
    BY <1>e, <2>5, <2>9
  <2>11. PausedOrNot(Polling)'
    BY <2>1, <2>7, <2>10 DEF PausedOrNot, Polling
  <2>12. ListedInv'
    BY <1>b, <2>1, <2>2, <2>5, <2>8, <2>10 DEF ListedInv, IsPolled
  <2> QED
    BY <2>10, <2>11, <2>12 DEF TimersInv
<1>4. ASSUME NEW d \in Device, Remove(d)
      PROVE  TimersInv'
  <2> DEFINE q == Removed(Polling, d, poll_timer_id[d])
             m == [warning_level EXCEPT ![d] = "unknown"]
             none == [poll_timer_id EXCEPT ![d] = NoId]
  <2>1. /\ SetPolling(q) /\ poll_timer_id' = none /\ warning_level' = m
        /\ listed' = listed \ {d} /\ UNCHANGED <<poll_paused, todo, waking>>
        /\ ~waking
    BY <1>4 DEF Remove, Removed, Dispatching
  <2>2. "unknown" \in Level
    BY PollAssumption
  <2>3. /\ Consistent(q, m, none)
        /\ PausedOrNot(q)
        /\ q.poll.registered = Polling.poll.registered \ {d}
    BY <1>0, <1>a, <1>b, <2>2, DeviceRemoved
  <2>4. /\ m[d] = "unknown" /\ none[d] = NoId
        /\ \A e \in Device \ {d} : m[e] = warning_level[e] /\ none[e] = poll_timer_id[e]
    BY <1>a DEF Levels, Retries
  <2> HIDE DEF q, m, none
  <2>5. Consistent(q, warning_level', poll_timer_id')
    BY <2>1, <2>3
  <2>6. /\ Consistent(Polling, warning_level, poll_timer_id)'
        /\ poll'.registered = q.poll.registered
        /\ poll'.idle_signals = q.poll.idle_signals
    BY <1>e, <2>1, <2>5
  <2>7. PausedOrNot(Polling)'
    BY <2>1, <2>3, <2>6 DEF PausedOrNot, Polling
  <2>8. ListedInv'
    BY <1>0, <1>b, <2>1, <2>3, <2>4, <2>6 DEF ListedInv, IsPolled
  <2> QED
    BY <2>6, <2>7, <2>8 DEF TimersInv
<1>5. ASSUME NEW s \in sources, Fire(s)
      PROVE  TimersInv'
  <2>1. /\ s.device \in listed /\ s.device \in Device
        /\ RefreshFrom(IF s.kind = "retry" THEN SourceRemove(Polling, s.id) ELSE Polling,
                       s.device, {})
        /\ UNCHANGED <<listed, poll_paused, waking, todo>>
    BY <1>5 DEF Fire, TypeOK
  <2>2. Refreshed(s.device, poll.registered)
    <3>1. CASE s.kind = "retry"
      BY <1>0, <1>b, <2>1, <3>1, RefreshedByRetry
    <3>2. CASE s.kind # "retry"
      BY <1>0, <1>b, <1>c, <2>1, <3>2, RefreshedFromConsistent
    <3> QED
      BY <3>1, <3>2
  <2> QED
    BY <2>1, <2>2, RefreshKeepsTimersInv
<1>6. ASSUME RefreshNext
      PROVE  TimersInv'
  <2> PICK d \in todo : todo' = todo \ {d} /\ RefreshFrom(Polling, d, {})
    BY <1>6 DEF RefreshNext
  <2>1. d \in listed /\ d \in Device /\ UNCHANGED <<listed, poll_paused, waking>>
    BY <1>6, <1>b DEF RefreshNext, ListedInv, TypeOK
  <2>2. Refreshed(d, poll.registered)
    BY <1>0, <1>b, <1>c, <2>1, RefreshedFromConsistent
  <2> QED
    BY <2>1, <2>2, RefreshKeepsTimersInv
<1>7. ASSUME FinishWakeUp
      PROVE  TimersInv'
  <2>0. PICK ids \in [poll.registered -> Id \ InUse] :
          /\ \A d, e \in poll.registered : ids[d] = ids[e] => d = e
          /\ SetPolling(ResumePoll(Polling, ids))
    BY <1>7 DEF FinishWakeUp
  <2> DEFINE q == ResumePoll(Polling, ids)
  <2>1. /\ poll_paused /\ poll_paused' = FALSE
        /\ UNCHANGED <<poll_timer_id, warning_level, listed, todo>> /\ todo = {}
    BY <1>7 DEF FinishWakeUp, HandshakeInv
  <2>2. Polling.poll.idle_signals = {}
    BY <1>b, <2>1 DEF PausedOrNot
  <2>3. /\ ids \in [Polling.poll.registered -> Id]
        /\ \A d \in Polling.poll.registered : Fresh(Polling, ids[d])
        /\ \A d, e \in Polling.poll.registered : ids[d] = ids[e] => d = e
    BY <1>0, <2>0 DEF Fresh, InUse
  <2>4. /\ Consistent(q, warning_level, poll_timer_id)
        /\ q.poll.registered = Polling.poll.registered
        /\ q.poll.idle_signals = Polling.poll.registered
    BY <1>0, <1>a, <1>b, <2>2, <2>3, PollsResumed
  <2>5. SetPolling(q)
    BY <2>0
  <2> HIDE DEF q
  <2>6. Consistent(q, warning_level', poll_timer_id')
    BY <2>1, <2>4
  <2>7. /\ Consistent(Polling, warning_level, poll_timer_id)'
        /\ poll'.registered = q.poll.registered
        /\ poll'.idle_signals = q.poll.idle_signals
    BY <1>e, <2>5, <2>6
  <2>8. PausedOrNot(Polling)'
    BY <2>1, <2>4, <2>7 DEF PausedOrNot, Polling
  <2>9. ListedInv'
    BY <1>0, <1>b, <2>1, <2>4, <2>7 DEF ListedInv, IsPolled
  <2> QED
    BY <2>7, <2>8, <2>9 DEF TimersInv
<1>8. ASSUME PrepareForSleep
      PROVE  TimersInv'
  <2> DEFINE q == PausePoll(Polling)
  <2>1. /\ SetPolling(q) /\ poll_paused' = TRUE
        /\ UNCHANGED <<poll_timer_id, warning_level, listed, todo, waking>>
    BY <1>8 DEF PrepareForSleep
  <2>2. /\ Consistent(q, warning_level, poll_timer_id)
        /\ q.poll.registered = Polling.poll.registered
        /\ q.poll.idle_signals = {}
    BY <1>0, <1>a, <1>b, PollsPaused
  <2> HIDE DEF q
  <2>3. Consistent(q, warning_level', poll_timer_id')
    BY <2>1, <2>2
  <2>4. /\ Consistent(Polling, warning_level, poll_timer_id)'
        /\ poll'.registered = q.poll.registered
        /\ poll'.idle_signals = q.poll.idle_signals
    BY <1>e, <2>1, <2>3
  <2>5. PausedOrNot(Polling)'
    BY <2>1, <2>2, <2>4 DEF PausedOrNot, Polling
  <2>6. ListedInv'
    BY <1>0, <1>b, <2>1, <2>2, <2>4 DEF ListedInv, IsPolled
  <2> QED
    BY <2>4, <2>5, <2>6 DEF TimersInv
<1>9. ASSUME WakeUp \/ AnnounceSleep \/ Suspend \/ Resume \/ UNCHANGED vars
      PROVE  TimersInv'
  <2>1. UNCHANGED <<poll, sources, poll_timer_id, warning_level, poll_paused, listed>>
    BY <1>9 DEF WakeUp, AnnounceSleep, Suspend, Resume, vars, daemon
  <2>2. \/ UNCHANGED <<todo, waking>>
        \/ todo' = listed /\ waking' = TRUE
    BY <1>9 DEF WakeUp, AnnounceSleep, Suspend, Resume, vars, daemon
  <2>3. Consistent(Polling, warning_level, poll_timer_id)'
    BY <1>b, <2>1 DEF Polling, Consistent, PollTimer, RetryTimer
  <2>4. PausedOrNot(Polling)'
    BY <1>b, <2>1 DEF Polling, PausedOrNot
  <2>5. ListedInv'
    BY <1>b, <2>1, <2>2 DEF ListedInv, IsPolled
  <2> QED
    BY <2>3, <2>4, <2>5 DEF TimersInv
<1> QED
  BY <1>1, <1>2, <1>3, <1>4, <1>5, <1>6, <1>7, <1>8, <1>9 DEF Next, Wake

-----------------------------------------------------------------------------
(* The theorems.  They assume that the daemon is not started on the way to *)
(* sleep: one that is hears of a wakeup without having paused, and the run *)
(* pause_stops_polls shows what that does to its timers.                   *)

TimersIInv == TypeOK /\ HandshakeInv /\ TimersInv

LEMMA InitTimers == Init => TimersInv
<1> SUFFICES ASSUME Init
             PROVE  TimersInv
  OBVIOUS
<1>1. /\ poll = [registered |-> {}, id |-> [d \in Device |-> NoId], idle_signals |-> {},
                 connected |-> [d \in Device |-> 0], weak_refs |-> [d \in Device |-> 0]]
      /\ sources = {} /\ listed = {} /\ todo = {}
      /\ poll_timer_id = [d \in Device |-> NoId]
      /\ warning_level = [d \in Device |-> "unknown"]
  BY DEF Init
<1>2. Consistent(Polling, warning_level, poll_timer_id)
  BY <1>1 DEF Consistent, Polling
<1>3. PausedOrNot(Polling)
  BY <1>1 DEF PausedOrNot, Polling
<1>4. ListedInv
  BY <1>1 DEF ListedInv
<1> QED
  BY <1>2, <1>3, <1>4 DEF TimersInv

LEMMA TimersSafety == ASSUME ~StartsDuringSleep PROVE Spec => []TimersIInv
<1>1. Init => HandshakeInv /\ TimersInv
  BY InitHandshake, InitTimers
<1>2. TypeOK /\ HandshakeInv /\ TimersInv /\ [Next]_vars => HandshakeInv' /\ TimersInv'
  BY NextKeepsHandshakeInv, NextKeepsTimersInv
<1>3. TimersIInv <=> TypeOK /\ HandshakeInv /\ TimersInv
  BY DEF TimersIInv
<1> QED
  BY <1>1, <1>2, <1>3, TypeSafety, PTL DEF Spec

\* The two kinds of timers: what each source belongs to.
LEMMA Kinds ==
  ASSUME TypeOK, TimersInv
  PROVE  /\ \A s \in PollSources :
              /\ s.device \in poll.idle_signals /\ s.id = poll.id[s.device]
              /\ s.kind = Timeout(warning_level[s.device])
         /\ \A s \in RetrySources : poll_timer_id[s.device] = s.id /\ s.id # NoId
         /\ poll.idle_signals = IF poll_paused THEN {} ELSE poll.registered
         /\ \A d \in poll.idle_signals : \E s \in PollSources : s.device = d /\ s.id = poll.id[d]
         /\ \A d \in Device : poll_timer_id[d] # NoId =>
              \E s \in RetrySources : s.device = d /\ s.id = poll_timer_id[d]
<1>1. Polling.poll = poll /\ Polling.sources = sources /\ sources \subseteq Source
  BY DEF Polling, TypeOK
<1>2. Consistent(Polling, warning_level, poll_timer_id)
  BY DEF TimersInv
<1>3. \A s \in sources : \/ s \in PollSources /\ s.kind # "retry"
                         \/ s \in RetrySources /\ s.kind = "retry"
  BY DEF PollSources, RetrySources
<1>4. \A s \in PollSources : s \in sources /\ s.kind # "retry"
  BY DEF PollSources
<1>5. \A s \in RetrySources : s \in sources /\ s.kind = "retry"
  BY DEF RetrySources
<1>6. ASSUME NEW s \in PollSources
      PROVE  /\ s.device \in poll.idle_signals /\ s.id = poll.id[s.device]
             /\ s.kind = Timeout(warning_level[s.device])
  <2>1. s.device \in poll.idle_signals
    BY <1>1, <1>2, <1>4, TimerFields DEF Consistent
  <2>2. s = PollTimer(s.device, poll.id[s.device], warning_level[s.device])
    BY <1>1, <1>2, <1>4, TimerFields DEF Consistent
  <2> QED
    BY <2>1, <2>2, TimerFields
<1>7. ASSUME NEW s \in RetrySources
      PROVE  poll_timer_id[s.device] = s.id /\ s.id # NoId
  <2>1. s = RetryTimer(s.device, poll_timer_id[s.device])
    BY <1>1, <1>2, <1>5, TimerFields DEF Consistent
  <2> QED
    BY <1>1, <1>5, <2>1, TimerFields, SourceType
<1>8. poll.idle_signals = IF poll_paused THEN {} ELSE poll.registered
  BY <1>1 DEF TimersInv, PausedOrNot
<1>9. ASSUME NEW d \in poll.idle_signals
      PROVE  \E s \in PollSources : s.device = d /\ s.id = poll.id[d]
  <2>1. PollTimer(d, poll.id[d], warning_level[d]) \in sources
    BY <1>1, <1>2 DEF Consistent
  <2> QED
    BY <1>3, <2>1, TimerFields
<1>10. ASSUME NEW d \in Device, poll_timer_id[d] # NoId
       PROVE  \E s \in RetrySources : s.device = d /\ s.id = poll_timer_id[d]
  <2>1. RetryTimer(d, poll_timer_id[d]) \in sources
    BY <1>1, <1>2, <1>10 DEF Consistent
  <2> QED
    BY <1>3, <2>1, TimerFields
<1> QED
  BY <1>6, <1>7, <1>8, <1>9, <1>10

\* No poll is lost, doubled or left running: while polling is not paused each
\* device on record has its one timer, and while it is paused there is none,
\* through any number of sleeps, changes and hotplugs.
THEOREM PollsAreNeitherLostNorDoubled ==
  ASSUME ~StartsDuringSleep PROVE Spec => []OnePollEach
<1>1. TimersIInv => OnePollEach
  BY Kinds DEF TimersIInv, OnePollEach
<1> QED
  BY <1>1, TimersSafety, PTL

\* No timer outlives its device, and every callback finds its device on record.
THEOREM TimersHaveOwners ==
  ASSUME ~StartsDuringSleep PROVE Spec => []TimersAreOwned
<1>1. TimersIInv => TimersAreOwned
  <2> SUFFICES ASSUME TimersIInv
               PROVE  TimersAreOwned
    OBVIOUS
  <2>1. poll.registered \subseteq listed /\ \A d \in listed : IsPolled(d) => d \in poll.registered
    BY DEF TimersIInv, TimersInv, ListedInv
  <2>2. \A s \in PollSources : s.device \in poll.registered
    BY Kinds DEF TimersIInv
  <2>3. ASSUME NEW s \in RetrySources
        PROVE  s.device \in listed /\ poll_timer_id[s.device] = s.id
    <3>1. s.device \in Device
      BY SourceType DEF RetrySources, TimersIInv, TypeOK
    <3>2. poll_timer_id[s.device] = s.id /\ s.id # NoId
      BY Kinds DEF TimersIInv
    <3> QED
      BY <3>1, <3>2 DEF TimersIInv, TimersInv, ListedInv
  <2>4. \A d \in Device : poll_timer_id[d] # NoId =>
          \E s \in RetrySources : s.device = d /\ s.id = poll_timer_id[d]
    BY Kinds DEF TimersIInv
  <2> QED
    BY <2>1, <2>2, <2>3, <2>4 DEF TimersAreOwned
<1> QED
  BY <1>1, TimersSafety, PTL

\* A running poll has the interval of its device's present warning level.
THEOREM IntervalsFollowLevels ==
  ASSUME ~StartsDuringSleep PROVE Spec => []IntervalFollowsLevel
<1>1. TimersIInv => IntervalFollowsLevel
  BY Kinds DEF TimersIInv, IntervalFollowsLevel
<1> QED
  BY <1>1, TimersSafety, PTL

\* Once sleep is announced to a daemon that holds the inhibitor and is not behind,
\* either its signal is still on its way, and the inhibitor with it, or polling is
\* paused and stays so.
InhibitedInv ==
  logind # "awake" /\ inhibited =>
    \/ inhibitor_fd /\ signals = <<TRUE>> /\ logind = "announced"
    \/ ~inhibitor_fd /\ signals = <<>> /\ poll_paused /\ ~waking

LEMMA NextKeepsInhibitedInv ==
  ASSUME ~DelayMayExpire PROVE TypeOK /\ InhibitedInv /\ [Next]_vars => InhibitedInv'
<1> SUFFICES ASSUME TypeOK, InhibitedInv, [Next]_vars
             PROVE  InhibitedInv'
  OBVIOUS
<1>1. ASSUME UNCHANGED <<logind, inhibited, inhibitor_fd, signals, poll_paused, waking>>
      PROVE  InhibitedInv'
  BY <1>1, Zenon DEF InhibitedInv
<1>2. ASSUME NEW d \in Device, Refresh(d) \/ Add(d) \/ StartIdevice(d) \/ Remove(d)
      PROVE  InhibitedInv'
  <2>1. UNCHANGED <<logind, inhibited, inhibitor_fd, signals, poll_paused, waking>>
    BY <1>2, Zenon DEF Refresh, Add, StartIdevice, Remove, environment
  <2> QED
    BY <1>1, <2>1, Zenon
<1>3. ASSUME NEW s \in sources, Fire(s)
      PROVE  InhibitedInv'
  <2>1. UNCHANGED <<logind, inhibited, inhibitor_fd, signals, poll_paused, waking>>
    BY <1>3, Zenon DEF Fire, environment
  <2> QED
    BY <1>1, <2>1, Zenon
<1>4. CASE RefreshNext \/ UNCHANGED vars
  <2>1. UNCHANGED <<logind, inhibited, inhibitor_fd, signals, poll_paused, waking>>
    BY <1>4 DEF RefreshNext, vars, daemon, environment
  <2> QED
    BY <1>1, <2>1, Zenon
<1>5. CASE FinishWakeUp
  BY <1>5, Zenon DEF FinishWakeUp, environment, InhibitedInv
<1>6. CASE PrepareForSleep
  <2>1. /\ signals # <<>> /\ signals' = Tail(signals) /\ ~waking
        /\ UNCHANGED <<logind, inhibited, waking>>
        /\ ~inhibitor_fd' /\ poll_paused'
    BY <1>6, Zenon DEF PrepareForSleep, Dispatching
  <2>2. signals = <<TRUE>> => signals' = <<>>
    BY <2>1
  <2> QED
    BY <2>1, <2>2, Zenon DEF InhibitedInv
<1>7. CASE WakeUp
  <2>1. signals # <<>> /\ ~Head(signals) /\ UNCHANGED <<logind, inhibited>>
    BY <1>7, Zenon DEF WakeUp
  <2>2. signals # <<TRUE>>
    <3>1. \A b : Head(<<b>>) = b
      OBVIOUS
    <3> QED
      BY <2>1, <3>1, Zenon
  <2> QED
    BY <2>1, <2>2, Zenon DEF InhibitedInv
<1>8. CASE AnnounceSleep
  <2>1. /\ signals' = Append(signals, TRUE) /\ inhibited' = (inhibitor_fd /\ signals = <<>>)
        /\ inhibitor_fd' = inhibitor_fd /\ logind' = "announced"
    BY <1>8, Zenon DEF AnnounceSleep, daemon
  <2>2. signals = <<>> => signals' = <<TRUE>>
    BY <2>1
  <2> QED
    BY <2>1, <2>2, Zenon DEF InhibitedInv
<1>9. CASE Suspend
  <2>1. /\ logind = "announced" /\ ~inhibitor_fd
        /\ UNCHANGED <<inhibited, inhibitor_fd, signals, poll_paused, waking>>
    BY <1>9, Zenon DEF Suspend, daemon
  <2>2. logind # "awake"
    BY <2>1
  <2> QED
    BY <2>1, <2>2, Zenon DEF InhibitedInv
<1>10. CASE Resume
  <2>1. logind' = "awake"
    BY <1>10, Zenon DEF Resume
  <2> QED
    BY <2>1, Zenon DEF InhibitedInv
<1> QED
  BY <1>1, <1>2, <1>3, <1>4, <1>5, <1>6, <1>7, <1>8, <1>9, <1>10, Zenon DEF Next, Wake

\* The machine does not sleep with a poll timer running, when logind waits for the
\* inhibitors and the daemon held its own and was not behind.
THEOREM SleepIsQuiet ==
  ASSUME ~StartsDuringSleep, ~DelayMayExpire PROVE Spec => []SleepsQuietly
<1>1. Init => InhibitedInv
  BY Zenon DEF Init, InhibitedInv
<1>2. TimersIInv /\ InhibitedInv => SleepsQuietly
  <2> SUFFICES ASSUME TimersIInv, InhibitedInv, logind = "asleep", inhibited
               PROVE  PollSources = {}
    BY DEF SleepsQuietly
  <2>1. logind # "awake" /\ logind # "announced"
    OBVIOUS
  <2>2. poll_paused
    BY <2>1, Zenon DEF InhibitedInv
  <2>3. \A s \in PollSources : s.device \in poll.idle_signals
    BY Kinds DEF TimersIInv
  <2>4. poll.idle_signals = IF poll_paused THEN {} ELSE poll.registered
    BY Kinds DEF TimersIInv
  <2> QED
    BY <2>2, <2>3, <2>4
<1>3. TypeOK /\ InhibitedInv /\ [Next]_vars => InhibitedInv'
  BY NextKeepsInhibitedInv
<1> QED
  BY <1>1, <1>2, <1>3, TypeSafety, TimersSafety, PTL DEF Spec

=============================================================================
