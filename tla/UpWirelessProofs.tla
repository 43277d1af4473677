-------------------------- MODULE UpWirelessProofs --------------------------
(***************************************************************************)
(* Theorems about UpHidpp and UpBluez: for any devices behind a Logitech   *)
(* receiver, any queues, timeouts and refreshes; for any objects of BlueZ, *)
(* appearances, levels and numbers of signals on their way.                *)
(***************************************************************************)
EXTENDS UpHidpp, UpBluez, SequenceTheorems, TLAPS

-----------------------------------------------------------------------------
(* Logitech receivers.                                                     *)

Asking == [of : HidppDevices, what : RefreshStep]
Known == Asking \cup {Unknown}
FeatureIndex == {"none", "battery", "solar"}
Feature == FeatureIndex \cup {"root"}
Function == RefreshStep \cup {"register", "get_feature"}
HidppKey == (HidppDevices \cup {Receiver}) \X Feature \X Function
Error == {"none", "resource_error", "invalid_subid", "invalid_address"}
Message == [key : HidppKey, answer : Asking, error : Error]

HidppObject ==
  [fd : BOOLEAN, version : 0..2, is_present : BOOLEAN, batt_is_approx : BOOLEAN,
   kind : Known, model : Known, serial : Known, batt : Known,
   feature_index : [battery : FeatureIndex, solar : FeatureIndex]]

Job == [dev : HidppDevices \cup {Nobody}, phase : {"idle", "coldplug", "refresh"},
        todo : Seq(RefreshStep), request : Asking \cup {Unknown}, msg : Message \cup {NoMessage}]

HidppTyped ==
  /\ hidpp \in [HidppDevices -> HidppObject]
  /\ unread_messages \in [HidppDevices -> Seq(Message)]
  /\ asked \subseteq Message
  /\ hidpp_job \in Job
  /\ crossed \in BOOLEAN

-----------------------------------------------------------------------------
(* The inductive invariant.                                                *)

\* An answer is for the device of its key, or for the receiver.
Addressed(m) == m.key[1] \in {Receiver, m.answer.of}

MessagesAreAddressed ==
  /\ \A m \in asked : Addressed(m)
  /\ \A d \in HidppDevices : \A i \in 1..Len(unread_messages[d]) :
       Addressed(unread_messages[d][i])

\* A request is one of the device whose refresh runs, and a step that is left.
RequestIsOfTheJob ==
  /\ hidpp_job # IdleHidpp => hidpp_job.dev \in HidppDevices
  /\ hidpp_job.request # Unknown =>
       /\ hidpp_job # IdleHidpp /\ hidpp_job.todo # <<>>
       /\ hidpp_job.request.of = hidpp_job.dev

\* What looks like the answer to the request that waits is one, whether the
\* receiver has still to give it or it lies unread: this is what discarding the
\* queue before each request is for, and what a crossed request breaks.
LooksRight(m, key, request) == m.key = key => m.answer = request

OnlyOneAnswerFits ==
  (/\ ~crossed /\ hidpp_job.request # Unknown
   /\ hidpp_job.request.what # "light_event") =>
     LET key == Key(hidpp_job.dev, hidpp_job.request.what)
         unread == unread_messages[hidpp_job.dev]
     IN  /\ \A m \in asked : LooksRight(m, key, hidpp_job.request)
         /\ \A i \in 1..Len(unread) : LooksRight(unread[i], key, hidpp_job.request)

\* What a device object of d knows is d's own.
Own(d, o) == o.batt.of \in {d, Nobody}
Fits(d, o) ==
  /\ o.kind \in {Unknown, [of |-> d, what |-> "kind"]}
  /\ o.model \in {Unknown, [of |-> d, what |-> "model"]}
  /\ o.serial \in {Unknown, [of |-> d, what |-> "serial"]}
  /\ o.feature_index.battery \in {"none", "battery"}
  /\ o.feature_index.solar \in {"none", "solar"}

HidppIInv ==
  /\ HidppTyped /\ MessagesAreAddressed /\ RequestIsOfTheJob /\ OnlyOneAnswerFits
  /\ \A d \in HidppDevices : Own(d, hidpp[d])
  /\ ~crossed => \A d \in HidppDevices : Fits(d, hidpp[d])

-----------------------------------------------------------------------------
(* Keys, objects and steps.                                                *)

\* Device, feature and function: what Key says of a step, and of no other.
LEMMA KeyParts ==
  ASSUME HidppTyped, NEW d \in HidppDevices, NEW step \in RefreshStep
  PROVE  /\ Key(d, step) \in HidppKey
         /\ Key(d, step)[1] = (IF step \in Register THEN Receiver ELSE d)
         /\ (Key(d, step)[3] = "light_event") <=> (step = "light_event")
<1> DEFINE map == hidpp[d].feature_index
<1>1. map.solar \in FeatureIndex /\ map.battery \in FeatureIndex
  <2>1. hidpp[d] \in HidppObject
    BY DEF HidppTyped
  <2>2. map \in [battery : FeatureIndex, solar : FeatureIndex]
    BY <2>1 DEF HidppObject
  <2> QED  BY <2>2
<1>2. Key(d, step)[1] = IF step \in Register THEN Receiver ELSE d
  BY DEF Key
<1>3. Key(d, step)[2] \in Feature
  BY <1>1 DEF Key, Feature
<1>4. /\ Key(d, step)[3] \in Function
      /\ (Key(d, step)[3] = "light_event") <=> (step = "light_event")
  BY DEF Key, Function, Register
<1>5. Key(d, step) = <<Key(d, step)[1], Key(d, step)[2], Key(d, step)[3]>>
  BY DEF Key
<1> QED
  BY <1>2, <1>3, <1>4, <1>5 DEF HidppKey

LEMMA UnknownIsNoRequest == Unknown \notin Asking
BY DEF Unknown, Asking, RefreshStep, Register

LEMMA NewHidppIsGood ==
  /\ NewHidpp \in HidppObject
  /\ \A d \in HidppDevices : Own(d, NewHidpp) /\ Fits(d, NewHidpp)
<1>1. Unknown \in Known /\ Unknown.of = Nobody
  BY DEF Unknown, Known
<1>2. [battery |-> "none", solar |-> "none"] \in [battery : FeatureIndex, solar : FeatureIndex]
  BY DEF FeatureIndex
<1> QED
  BY <1>1, <1>2 DEF NewHidpp, HidppObject, Own, Fits

\* An object that differs from another only in what is not an answer.
Same(o, p) ==
  /\ p.kind = o.kind /\ p.model = o.model /\ p.serial = o.serial /\ p.batt = o.batt
  /\ p.feature_index = o.feature_index

LEMMA SameIsGood ==
  ASSUME NEW d, NEW o, NEW p, Same(o, p)
  PROVE  /\ Own(d, o) => Own(d, p)
         /\ Fits(d, o) => Fits(d, p)
BY DEF Same, Own, Fits

Opened(o) == [o EXCEPT !.fd = TRUE]
WithPresent(o, b) == [o EXCEPT !.is_present = b]
WithApprox(o) == [o EXCEPT !.batt_is_approx = TRUE]
WithVersion(o, v) == [o EXCEPT !.version = v, !.is_present = TRUE]

LEMMA OneFieldChanges ==
  ASSUME NEW o \in HidppObject
  PROVE  /\ Opened(o) \in HidppObject /\ Same(o, Opened(o))
         /\ WithApprox(o) \in HidppObject /\ Same(o, WithApprox(o))
BY DEF HidppObject, Same, Opened, WithApprox

LEMMA PresenceChanges ==
  ASSUME NEW o \in HidppObject, NEW b \in BOOLEAN
  PROVE  WithPresent(o, b) \in HidppObject /\ Same(o, WithPresent(o, b))
BY DEF HidppObject, Same, WithPresent

LEMMA VersionChanges ==
  ASSUME NEW o \in HidppObject, NEW v \in 0..2
  PROVE  WithVersion(o, v) \in HidppObject /\ Same(o, WithVersion(o, v))
BY DEF HidppObject, Same, WithVersion

-----------------------------------------------------------------------------
(* What lies unread, and the job.                                          *)

UnreadIsGood(unread) ==
  /\ unread \in [HidppDevices -> Seq(Message)]
  /\ \A d \in HidppDevices : \A i \in 1..Len(unread[d]) : Addressed(unread[d][i])

Emptied(unread, d) == [unread EXCEPT ![d] = <<>>]
Shortened(unread, d) == [unread EXCEPT ![d] = Tail(@)]

LEMMA LessIsUnread ==
  ASSUME NEW unread, UnreadIsGood(unread), NEW d \in HidppDevices
  PROVE  /\ UnreadIsGood(Emptied(unread, d))
         /\ unread[d] # <<>> => UnreadIsGood(Shortened(unread, d))
<1>1. unread \in [HidppDevices -> Seq(Message)] /\ unread[d] \in Seq(Message)
  BY DEF UnreadIsGood
<1>2. UnreadIsGood(Emptied(unread, d))
  BY <1>1 DEF UnreadIsGood, Emptied
<1>3. ASSUME unread[d] # <<>>
      PROVE  UnreadIsGood(Shortened(unread, d))
  <2> DEFINE rest == [unread EXCEPT ![d] = Tail(@)]
  <2>1. rest \in [HidppDevices -> Seq(Message)]
    BY <1>1, <1>3
  <2>2. ASSUME NEW e \in HidppDevices, NEW i \in 1..Len(rest[e])
        PROVE  Addressed(rest[e][i])
    <3>1. CASE e = d
      <4>1. rest[e] = Tail(unread[d])
        BY <1>1, <3>1
      <4>2. i + 1 \in 1..Len(unread[d]) /\ rest[e][i] = unread[d][i + 1]
        BY <1>1, <1>3, <2>2, <4>1
      <4> QED  BY <4>2 DEF UnreadIsGood
    <3>2. CASE e # d
      <4>1. rest[e] = unread[e]
        BY <1>1, <3>2
      <4> QED  BY <4>1, <2>2 DEF UnreadIsGood
    <3> QED  BY <3>1, <3>2
  <2> QED  BY <2>1, <2>2 DEF UnreadIsGood, Shortened
<1> QED  BY <1>2, <1>3

LEMMA IdleIsGood ==
  /\ IdleHidpp \in Job /\ IdleHidpp.request = Unknown /\ IdleHidpp.todo = <<>>
  /\ IdleHidpp.dev = Nobody /\ IdleHidpp.phase = "idle"
BY DEF IdleHidpp, Job

\* Jobs that have no request.
Starting(d, phase, todo) == [IdleHidpp EXCEPT !.dev = d, !.phase = phase, !.todo = todo]

LEMMA JobStarts ==
  ASSUME NEW d \in HidppDevices, NEW phase \in {"coldplug", "refresh"},
         NEW todo \in Seq(RefreshStep)
  PROVE  /\ Starting(d, phase, todo) \in Job
         /\ Starting(d, phase, todo).dev = d
         /\ Starting(d, phase, todo).request = Unknown
<1> DEFINE j == [IdleHidpp EXCEPT !.dev = d]
           k == [j EXCEPT !.phase = phase]
           l == [k EXCEPT !.todo = todo]
<1>1. j \in Job /\ j.dev = d /\ j.request = Unknown
  BY IdleIsGood DEF Job
<1> HIDE DEF j
<1>2. k \in Job /\ k.dev = d /\ k.request = Unknown
  BY <1>1 DEF Job
<1> HIDE DEF k
<1>3. l \in Job /\ l.dev = d /\ l.request = Unknown
  BY <1>2 DEF Job
<1> QED  BY <1>3 DEF j, k, Starting

\* With no request that waits, the rest of the invariant is to be shown.
ObjectsAreGood ==
  /\ \A d \in HidppDevices : Own(d, hidpp[d])
  /\ ~crossed => \A d \in HidppDevices : Fits(d, hidpp[d])

LEMMA NothingWaits ==
  ASSUME hidpp' \in [HidppDevices -> HidppObject], UnreadIsGood(unread_messages'),
         asked' \subseteq Message, \A m \in asked' : Addressed(m),
         hidpp_job' \in Job, hidpp_job'.request = Unknown,
         hidpp_job' = IdleHidpp \/ hidpp_job'.dev \in HidppDevices,
         crossed' \in BOOLEAN, ObjectsAreGood'
  PROVE  HidppIInv'
<1>1. HidppTyped'
  BY Zenon DEF HidppTyped, UnreadIsGood
<1>2. MessagesAreAddressed'
  BY Zenon DEF MessagesAreAddressed, UnreadIsGood
<1>3. RequestIsOfTheJob' /\ OnlyOneAnswerFits'
  BY Zenon DEF RequestIsOfTheJob, OnlyOneAnswerFits
<1> QED  BY <1>1, <1>2, <1>3, Zenon DEF HidppIInv, ObjectsAreGood

LEMMA UnreadIsGoodNow ==
  ASSUME HidppIInv PROVE UnreadIsGood(unread_messages)
BY DEF HidppIInv, HidppTyped, MessagesAreAddressed, UnreadIsGood

LEMMA OneObjectChanges ==
  ASSUME HidppIInv, NEW d \in HidppDevices, NEW o \in HidppObject,
         Own(d, o), ~crossed => Fits(d, o), hidpp' = [hidpp EXCEPT ![d] = o],
         crossed' = crossed
  PROVE  hidpp' \in [HidppDevices -> HidppObject] /\ ObjectsAreGood'
<1>1. hidpp \in [HidppDevices -> HidppObject]
  BY DEF HidppIInv, HidppTyped
<1>2. hidpp' \in [HidppDevices -> HidppObject]
  BY <1>1
<1>3. \A e \in HidppDevices : hidpp'[e] = IF e = d THEN o ELSE hidpp[e]
  BY <1>1
<1>4. \A e \in HidppDevices : Own(e, hidpp'[e])
  BY <1>3, Zenon DEF HidppIInv
<1>5. ~crossed => \A e \in HidppDevices : Fits(e, hidpp'[e])
  BY <1>3, Zenon DEF HidppIInv
<1> QED  BY <1>2, <1>4, <1>5, Zenon DEF ObjectsAreGood

LEMMA ObjectIsGoodNow ==
  ASSUME HidppIInv, NEW d \in HidppDevices
  PROVE  hidpp[d] \in HidppObject /\ Own(d, hidpp[d]) /\ (~crossed => Fits(d, hidpp[d]))
BY DEF HidppIInv, HidppTyped

-----------------------------------------------------------------------------
(* The start and the end of a refresh.                                     *)

LEMMA StartStep ==
  ASSUME HidppIInv, NEW d \in HidppDevices, NEW phase \in {"coldplug", "refresh"},
         NEW todo \in Seq(RefreshStep), StartHidpp(d, phase, todo),
         UNCHANGED <<unread_messages, asked, crossed>>
  PROVE  HidppIInv'
<1> DEFINE o == Opened(hidpp[d])
<1>1. hidpp[d] \in HidppObject /\ Own(d, hidpp[d]) /\ (~crossed => Fits(d, hidpp[d]))
  BY ObjectIsGoodNow
<1>2. o \in HidppObject /\ Same(hidpp[d], o)
  BY <1>1, OneFieldChanges
<1>3. Own(d, o) /\ (~crossed => Fits(d, o))
  BY <1>1, <1>2, SameIsGood
<1>4. hidpp' = [hidpp EXCEPT ![d] = o]
  BY DEF StartHidpp, Opened
<1> HIDE DEF o
<1>5. hidpp' \in [HidppDevices -> HidppObject] /\ ObjectsAreGood'
  BY <1>2, <1>3, <1>4, OneObjectChanges, Zenon
<1>6. hidpp_job' \in Job /\ hidpp_job'.request = Unknown /\ hidpp_job'.dev = d
  <2>1. hidpp_job' = Starting(d, phase, todo)
    BY DEF StartHidpp, Starting
  <2> QED  BY <2>1, JobStarts
<1>7. UnreadIsGood(unread_messages') /\ asked' = asked /\ crossed' = crossed
  BY UnreadIsGoodNow, Zenon
<1>8. asked \subseteq Message /\ (\A m \in asked : Addressed(m)) /\ crossed \in BOOLEAN
  BY Zenon DEF HidppIInv, HidppTyped, MessagesAreAddressed
<1> QED
  BY <1>5, <1>6, <1>7, <1>8, NothingWaits, Zenon

LEMMA StepsAreSteps ==
  /\ <<"ping", "kind", "model", "serial">> \in Seq(RefreshStep)
  /\ \A version : RefreshSteps(version) \in Seq(RefreshStep)
<1>1. <<"ping", "kind", "model", "serial">> \in Seq(RefreshStep)
  BY DEF RefreshStep, Register
<1>2. <<"ping">> \in Seq(RefreshStep)
      /\ <<"battery">> \in Seq(RefreshStep) /\ <<>> \in Seq(RefreshStep)
  BY DEF RefreshStep
<1>3. \A a \in Seq(RefreshStep), b \in Seq(RefreshStep) : a \o b \in Seq(RefreshStep)
  OBVIOUS
<1> QED
  BY <1>1, <1>2, <1>3 DEF RefreshSteps

LEMMA StartsStep ==
  ASSUME HidppIInv, NEW d \in HidppDevices, ColdplugUnifying(d) \/ RefreshUnifying(d)
  PROVE  HidppIInv'
<1>1. CASE ColdplugUnifying(d)
  BY <1>1, StartStep, StepsAreSteps, Zenon DEF ColdplugUnifying
<1>2. CASE RefreshUnifying(d)
  BY <1>2, StartStep, StepsAreSteps, Zenon DEF RefreshUnifying
<1> QED
  BY <1>1, <1>2

\* A refresh ends with an object that is as good as the one it began with.
LEMMA EndStep ==
  ASSUME HidppIInv, NEW dev \in HidppObject, NEW ret \in BOOLEAN, NEW unread,
         UnreadIsGood(unread), hidpp_job.dev \in HidppDevices,
         Own(hidpp_job.dev, dev), ~crossed => Fits(hidpp_job.dev, dev),
         EndHidpp(dev, ret, unread)
  PROVE  HidppIInv'
<1> DEFINE d == hidpp_job.dev
           failed == hidpp_job.phase = "coldplug" /\ ~ret
           o == IF failed THEN NewHidpp ELSE dev
<1>1. o \in HidppObject /\ Own(d, o) /\ (~crossed => Fits(d, o))
  BY NewHidppIsGood
<1>2. hidpp' = [hidpp EXCEPT ![d] = o] /\ asked' = asked /\ crossed' = crossed
  BY DEF EndHidpp
<1>3. hidpp' \in [HidppDevices -> HidppObject] /\ ObjectsAreGood'
  <2> HIDE DEF o
  <2> QED  BY <1>1, <1>2, OneObjectChanges, Zenon
<1>4. UnreadIsGood(unread_messages')
  <2>1. unread \in [HidppDevices -> Seq(Message)]
    BY DEF UnreadIsGood
  <2>2. CASE failed
    <3>1. unread_messages' = Emptied(unread, d)
      BY <2>2 DEF EndHidpp, Emptied
    <3> QED  BY <3>1, LessIsUnread
  <2>3. CASE ~failed
    <3>1. unread_messages' = [unread EXCEPT ![d] = unread[d]]
      BY <2>3 DEF EndHidpp
    <3>2. unread_messages' = unread
      BY <2>1, <3>1
    <3> QED  BY <3>2
  <2> QED  BY <2>2, <2>3
<1>5. /\ hidpp_job' \in Job /\ hidpp_job'.request = Unknown
      /\ hidpp_job' = IdleHidpp \/ hidpp_job'.dev \in HidppDevices
  <2>1. CASE hidpp_job.phase = "coldplug" /\ ret
    <3>1. hidpp_job' = Starting(d, "refresh", RefreshSteps(dev.version))
      BY <2>1 DEF EndHidpp, Starting
    <3>2. RefreshSteps(dev.version) \in Seq(RefreshStep)
      BY StepsAreSteps
    <3> QED  BY <3>1, <3>2, JobStarts
  <2>2. CASE ~(hidpp_job.phase = "coldplug" /\ ret)
    <3>1. hidpp_job' = IdleHidpp
      BY <2>2 DEF EndHidpp
    <3> QED  BY <3>1, IdleIsGood
  <2> QED  BY <2>1, <2>2
<1>6. asked \subseteq Message /\ (\A m \in asked : Addressed(m)) /\ crossed \in BOOLEAN
  BY Zenon DEF HidppIInv, HidppTyped, MessagesAreAddressed
<1> QED
  BY <1>2, <1>3, <1>4, <1>5, <1>6, NothingWaits, Zenon

LEMMA ReturnStep ==
  ASSUME HidppIInv, RefreshReturns PROVE HidppIInv'
<1> DEFINE dev == hidpp[hidpp_job.dev]
           present == dev.version > 0 \/ dev.is_present
           o == WithPresent(dev, present)
<1>1. hidpp_job.dev \in HidppDevices
  BY DEF RefreshReturns, HidppIInv, RequestIsOfTheJob
<1>2. dev \in HidppObject /\ Own(hidpp_job.dev, dev) /\ (~crossed => Fits(hidpp_job.dev, dev))
  BY <1>1, ObjectIsGoodNow
<1>3. present \in BOOLEAN
  BY Zenon
<1>4. o \in HidppObject /\ Same(dev, o)
  <2> HIDE DEF present, dev
  <2> QED  BY <1>2, <1>3, PresenceChanges
<1>5. Own(hidpp_job.dev, o) /\ (~crossed => Fits(hidpp_job.dev, o))
  <2> HIDE DEF o, dev
  <2> QED  BY <1>2, <1>4, SameIsGood
<1>6. EndHidpp(o, TRUE, unread_messages)
  BY DEF RefreshReturns, WithPresent
<1> HIDE DEF o
<1> QED
  BY <1>1, <1>4, <1>5, <1>6, EndStep, UnreadIsGoodNow

LEMMA RemoveStep ==
  ASSUME HidppIInv, NEW d \in HidppDevices, RemoveUnifying(d) PROVE HidppIInv'
<1>1. hidpp' = [hidpp EXCEPT ![d] = NewHidpp] /\ crossed' = crossed /\ asked' = asked
  BY DEF RemoveUnifying
<1>2. hidpp' \in [HidppDevices -> HidppObject] /\ ObjectsAreGood'
  BY <1>1, NewHidppIsGood, OneObjectChanges, Zenon
<1>3. UnreadIsGood(unread_messages')
  <2>1. unread_messages' = Emptied(unread_messages, d)
    BY DEF RemoveUnifying, Emptied
  <2> QED  BY <2>1, UnreadIsGoodNow, LessIsUnread
<1>4. hidpp_job' = IdleHidpp
  BY DEF RemoveUnifying
<1>5. asked \subseteq Message /\ (\A m \in asked : Addressed(m)) /\ crossed \in BOOLEAN
  BY Zenon DEF HidppIInv, HidppTyped, MessagesAreAddressed
<1> QED
  BY <1>1, <1>2, <1>3, <1>4, <1>5, IdleIsGood, NothingWaits, Zenon

\* A receiver that was just plugged in.
LEMMA NewReceiver ==
  ASSUME hidpp' = [d \in HidppDevices |-> NewHidpp],
         unread_messages' = [d \in HidppDevices |-> <<>>],
         hidpp_job' = IdleHidpp, asked' = {}, crossed' = FALSE
  PROVE  HidppIInv'
<1>1. hidpp' \in [HidppDevices -> HidppObject] /\ ObjectsAreGood'
  BY NewHidppIsGood DEF ObjectsAreGood
<1>2. UnreadIsGood(unread_messages')
  BY DEF UnreadIsGood
<1>3. asked' \subseteq Message /\ crossed' \in BOOLEAN
  OBVIOUS
<1> QED
  BY <1>1, <1>2, <1>3, IdleIsGood, NothingWaits, Zenon

LEMMA ReplugStep ==
  ASSUME HidppIInv, ReplugReceiver PROVE HidppIInv'
BY NewReceiver DEF ReplugReceiver

-----------------------------------------------------------------------------
(* The receiver answers.                                                   *)

\* The answer to a request, with an error or without, and the event that follows.
AnswerTo(req, error) == [req EXCEPT !.error = error]
EventAfter(req) == [req EXCEPT !.key = <<req.answer.of, "solar", "light_event">>,
                               !.answer.what = "light_event"]

LEMMA AnswerParts ==
  ASSUME NEW req \in Message, NEW error \in Error
  PROVE  /\ AnswerTo(req, error) \in Message
         /\ AnswerTo(req, error).key = req.key /\ AnswerTo(req, error).answer = req.answer
BY DEF Message, AnswerTo, Error

LEMMA EventParts ==
  ASSUME NEW req \in Message
  PROVE  /\ EventAfter(req) \in Message /\ Addressed(EventAfter(req))
         /\ EventAfter(req).key[3] = "light_event"
<1> DEFINE key == <<req.answer.of, "solar", "light_event">>
           m == [req EXCEPT !.key = key]
           n == [m EXCEPT !.answer.what = "light_event"]
<1>1. req.answer \in Asking /\ req.answer.of \in HidppDevices
  BY DEF Message, Asking
<1>2. /\ key \in HidppKey /\ key[1] = req.answer.of /\ key[3] = "light_event"
  BY <1>1 DEF HidppKey, Feature, FeatureIndex, Function, RefreshStep
<1> HIDE DEF key
<1>3. m \in Message /\ m.answer = req.answer /\ m.key = key
  BY <1>2 DEF Message
<1> HIDE DEF m
<1>4. n.answer = [m.answer EXCEPT !.what = "light_event"] /\ n.key = m.key /\ n.error = m.error
  BY <1>3 DEF Message
<1>5. n.answer \in Asking /\ n.answer.of = req.answer.of
  BY <1>1, <1>3, <1>4 DEF Asking, RefreshStep
<1>6. n \in Message
  BY <1>3, <1>5 DEF Message
<1>7. n = EventAfter(req)
  BY DEF EventAfter, m, key
<1> HIDE DEF n
<1>8. n \in Message /\ n.key[3] = "light_event" /\ n.key[1] = n.answer.of
  BY <1>2, <1>3, <1>4, <1>5, <1>6
<1> QED  BY <1>7, <1>8 DEF Addressed

\* What is put in the queues.
Delivered(req, s) ==
  /\ s \in Seq(Message)
  /\ \A i \in 1..Len(s) :
       /\ Addressed(s[i])
       /\ \/ s[i].key = req.key /\ s[i].answer = req.answer
          \/ s[i].key[3] = "light_event"

LEMMA AnswersAreGood ==
  ASSUME NEW req \in Message, Addressed(req), NEW reachable \in BOOLEAN
  PROVE  Delivered(req, Answers(req, reachable))
<1> DEFINE d == req.answer.of
           what == req.answer.what
           error == IF what \in Register THEN "none"
                    ELSE IF ~reachable THEN "resource_error"
                    ELSE IF what = "ping" /\ Features[d] = {} THEN "invalid_subid"
                    ELSE IF what = "level" /\ d \in ApproxOnly THEN "invalid_address"
                    ELSE "none"
           a == AnswerTo(req, error)
           e == EventAfter(req)
<1>1. Answers(req, reachable) \in {<<a, e>>, <<a>>}
  BY DEF Answers, AnswerTo, EventAfter
<1>2. error \in Error
  BY Zenon DEF Error
<1> HIDE DEF error
<1>3. a \in Message /\ a.key = req.key /\ a.answer = req.answer
  BY <1>2, AnswerParts
<1>4. Addressed(a)
  BY <1>3 DEF Addressed
<1>5. e \in Message /\ Addressed(e) /\ e.key[3] = "light_event"
  BY EventParts
<1> HIDE DEF a, e
<1>6. Delivered(req, <<a, e>>) /\ Delivered(req, <<a>>)
  BY <1>3, <1>4, <1>5 DEF Delivered
<1> QED  BY <1>1, <1>6

LEMMA AnswerStep ==
  ASSUME HidppIInv, NEW req \in asked, NEW reachable \in BOOLEAN, Answer(req, reachable)
  PROVE  HidppIInv'
<1> DEFINE s == Answers(req, reachable)
           Room(d) == hidpp[d].fd /\ Len(unread_messages[d]) < MaxMessages
<1>1. req \in Message /\ Addressed(req) /\ asked \subseteq Message
  BY DEF HidppIInv, HidppTyped, MessagesAreAddressed
<1>2. Delivered(req, s)
  BY <1>1, AnswersAreGood
<1>3. unread_messages' = [d \in HidppDevices |->
                           IF Room(d) THEN unread_messages[d] \o s ELSE unread_messages[d]]
  BY DEF Answer
<1>4. unread_messages \in [HidppDevices -> Seq(Message)] /\ s \in Seq(Message)
  BY <1>2 DEF HidppIInv, HidppTyped, Delivered
<1> HIDE DEF s, Room
<1>5. unread_messages' \in [HidppDevices -> Seq(Message)]
  BY <1>3, <1>4
<1>6. ASSUME NEW d \in HidppDevices, NEW i \in 1..Len(unread_messages'[d])
      PROVE  \/ i \in 1..Len(unread_messages[d]) /\ unread_messages'[d][i] = unread_messages[d][i]
             \/ \E j \in 1..Len(s) : unread_messages'[d][i] = s[j]
  <2>1. CASE ~Room(d)
    <3>1. unread_messages'[d] = unread_messages[d]
      BY <1>3, <2>1
    <3> QED  BY <1>6, <3>1
  <2>2. CASE Room(d)
    <3>1. unread_messages'[d] = unread_messages[d] \o s
      BY <1>3, <2>2
    <3>2. unread_messages[d] \in Seq(Message)
      BY <1>4
    <3>3. CASE i <= Len(unread_messages[d])
      BY <1>4, <1>6, <3>1, <3>2, <3>3
    <3>4. CASE i > Len(unread_messages[d])
      <4>1. /\ i - Len(unread_messages[d]) \in 1..Len(s)
            /\ unread_messages'[d][i] = s[i - Len(unread_messages[d])]
        BY <1>4, <1>6, <3>1, <3>2, <3>4
      <4> QED  BY <4>1
    <3>5. i \in Int /\ Len(unread_messages[d]) \in Int
      BY <1>6, <3>2
    <3> QED  BY <3>3, <3>4, <3>5
  <2> QED  BY <2>1, <2>2
<1>7. /\ asked' = asked \ {req}
      /\ hidpp' = hidpp /\ hidpp_job' = hidpp_job /\ crossed' = crossed
  BY DEF Answer
<1>8. HidppTyped'
  BY <1>1, <1>5, <1>7 DEF HidppIInv, HidppTyped
<1>9. MessagesAreAddressed'
  <2>1. \A m \in asked' : Addressed(m)
    BY <1>7 DEF HidppIInv, MessagesAreAddressed
  <2>2. ASSUME NEW d \in HidppDevices, NEW i \in 1..Len(unread_messages'[d])
        PROVE  Addressed(unread_messages'[d][i])
    BY <1>2, <1>6, <2>2, Zenon DEF HidppIInv, MessagesAreAddressed, Delivered
  <2> QED  BY <2>1, <2>2, Zenon DEF MessagesAreAddressed
<1>10. RequestIsOfTheJob'
  BY <1>7, Zenon DEF HidppIInv, RequestIsOfTheJob
<1>11. OnlyOneAnswerFits'
  <2> DEFINE key == Key(hidpp_job.dev, hidpp_job.request.what)
             request == hidpp_job.request
             unread == unread_messages[hidpp_job.dev]
             unread2 == unread_messages'[hidpp_job.dev]
  <2>1. key' = key
    BY <1>7, Zenon DEF Key
  <2>2. ASSUME ~crossed, request # Unknown, request.what # "light_event"
        PROVE  /\ \A m \in asked' : LooksRight(m, key, request)
               /\ \A i \in 1..Len(unread2) : LooksRight(unread2[i], key, request)
    <3>1. hidpp_job.dev \in HidppDevices /\ request.what \in RefreshStep
      <4>1. hidpp_job \in Job
        BY DEF HidppIInv, HidppTyped
      <4>2. request \in Asking
        BY <2>2, <4>1 DEF Job
      <4> QED  BY <2>2, <4>2 DEF HidppIInv, RequestIsOfTheJob, Asking
    <3>2. key[3] # "light_event"
      BY <2>2, <3>1, KeyParts DEF HidppIInv
    <3>3. /\ \A m \in asked : LooksRight(m, key, request)
          /\ \A i \in 1..Len(unread) : LooksRight(unread[i], key, request)
      BY <2>2, Zenon DEF HidppIInv, OnlyOneAnswerFits
    <3> HIDE DEF key
    <3>4. ASSUME NEW i \in 1..Len(s)
          PROVE  LooksRight(s[i], key, request)
      <4>1. CASE s[i].key = req.key /\ s[i].answer = req.answer
        BY <3>3, <4>1 DEF LooksRight
      <4>2. CASE s[i].key[3] = "light_event"
        BY <3>2, <4>2 DEF LooksRight
      <4> QED  BY <1>2, <3>4, <4>1, <4>2, Zenon DEF Delivered
    <3>5. ASSUME NEW i \in 1..Len(unread2)
          PROVE  LooksRight(unread2[i], key, request)
      BY <1>6, <3>1, <3>3, <3>4, <3>5, Zenon
    <3>6. ASSUME NEW m \in asked'
          PROVE  LooksRight(m, key, request)
      BY <1>7, <3>3
    <3> QED  BY <3>5, <3>6
  <2> QED  BY <1>7, <2>1, <2>2, Zenon DEF OnlyOneAnswerFits
<1>12. ObjectsAreGood'
  BY <1>7, Zenon DEF HidppIInv, ObjectsAreGood
<1> QED
  BY <1>8, <1>9, <1>10, <1>11, <1>12, Zenon DEF HidppIInv, ObjectsAreGood

-----------------------------------------------------------------------------
(* The requests.                                                           *)

\* The job goes on to its next step, or waits for an answer.
Proceeding(more, msg) ==
  [hidpp_job EXCEPT !.todo = more \o Tail(@), !.request = Unknown, !.msg = msg]
Expanding(more) == [hidpp_job EXCEPT !.todo = more \o Tail(@)]
Waiting(request) == [hidpp_job EXCEPT !.request = request]
WaitingAnew(request) == [hidpp_job EXCEPT !.request = request, !.msg = NoMessage]

LEMMA JobProceeds ==
  ASSUME hidpp_job \in Job, hidpp_job.todo # <<>>, NEW more \in Seq(RefreshStep),
         NEW msg \in Message \cup {NoMessage}
  PROVE  /\ Proceeding(more, msg) \in Job /\ Proceeding(more, msg).request = Unknown
         /\ Proceeding(more, msg).dev = hidpp_job.dev
<1> DEFINE todo == more \o Tail(hidpp_job.todo)
           j == [hidpp_job EXCEPT !.todo = todo]
           k == [j EXCEPT !.request = Unknown]
           l == [k EXCEPT !.msg = msg]
<1>1. todo \in Seq(RefreshStep)
  BY DEF Job
<1> HIDE DEF todo
<1>2. j \in Job /\ j.dev = hidpp_job.dev
  BY <1>1 DEF Job
<1> HIDE DEF j
<1>3. k \in Job /\ k.dev = hidpp_job.dev /\ k.request = Unknown
  BY <1>2 DEF Job
<1> HIDE DEF k
<1>4. l \in Job /\ l.dev = hidpp_job.dev /\ l.request = Unknown
  BY <1>3 DEF Job
<1> QED  BY <1>4 DEF Proceeding, k, j, todo

LEMMA JobExpands ==
  ASSUME hidpp_job \in Job, hidpp_job.todo # <<>>, NEW more \in Seq(RefreshStep)
  PROVE  /\ Expanding(more) \in Job /\ Expanding(more).request = hidpp_job.request
         /\ Expanding(more).dev = hidpp_job.dev
<1>1. more \o Tail(hidpp_job.todo) \in Seq(RefreshStep)
  BY DEF Job
<1> QED  BY <1>1 DEF Expanding, Job

LEMMA JobWaits ==
  ASSUME hidpp_job \in Job, NEW request \in Asking
  PROVE  /\ Waiting(request) \in Job /\ Waiting(request).request = request
         /\ Waiting(request).dev = hidpp_job.dev /\ Waiting(request).todo = hidpp_job.todo
         /\ WaitingAnew(request) \in Job /\ WaitingAnew(request).request = request
         /\ WaitingAnew(request).dev = hidpp_job.dev
         /\ WaitingAnew(request).todo = hidpp_job.todo
<1> DEFINE j == [hidpp_job EXCEPT !.request = request]
           k == [j EXCEPT !.msg = NoMessage]
<1>1. /\ j \in Job /\ j.request = request /\ j.dev = hidpp_job.dev
      /\ j.todo = hidpp_job.todo
  BY DEF Job
<1>2. Waiting(request) = j
  BY DEF Waiting
<1> HIDE DEF j
<1>3. /\ k \in Job /\ k.request = request /\ k.dev = hidpp_job.dev
      /\ k.todo = hidpp_job.todo
  BY <1>1 DEF Job
<1>4. WaitingAnew(request) = k
  BY DEF WaitingAnew, j
<1> QED  BY <1>1, <1>2, <1>3, <1>4

LEMMA BatteryStepsAreSteps ==
  ASSUME NEW d PROVE BatterySteps(d) \in Seq(RefreshStep)
<1>1. /\ <<"approx">> \in Seq(RefreshStep) /\ <<"level">> \in Seq(RefreshStep)
      /\ <<"light", "light_event">> \in Seq(RefreshStep) /\ <<"status">> \in Seq(RefreshStep)
      /\ <<>> \in Seq(RefreshStep)
  BY DEF RefreshStep
<1>2. \A a \in Seq(RefreshStep), b \in Seq(RefreshStep) : a \o b \in Seq(RefreshStep)
  OBVIOUS
<1> QED
  BY <1>1, <1>2 DEF BatterySteps

LEMMA CmdStep ==
  ASSUME HidppIInv, HidppCmd PROVE HidppIInv'
<1> DEFINE d == hidpp_job.dev
           step == Head(hidpp_job.todo)
           request == [of |-> d, what |-> step]
           req == [key |-> Key(d, step), answer |-> request, error |-> "none"]
<1>1. /\ hidpp_job # IdleHidpp /\ hidpp_job.request = Unknown /\ hidpp_job.todo # <<>>
      /\ hidpp' = hidpp
  BY DEF HidppCmd
<1>2. hidpp_job \in Job /\ d \in HidppDevices
  BY <1>1 DEF HidppIInv, HidppTyped, RequestIsOfTheJob
<1>3. step \in RefreshStep /\ request \in Asking
  BY <1>1, <1>2 DEF Job, Asking
<1>4. /\ req \in Message /\ Addressed(req)
      /\ req.key = Key(d, step) /\ req.answer = request
  <2>1. Key(d, step) \in HidppKey /\ Key(d, step)[1] \in {Receiver, d}
    BY <1>2, <1>3, KeyParts DEF HidppIInv
  <2>2. request.of = d
    OBVIOUS
  <2> DEFINE key == Key(d, step)
  <2>3. req = [key |-> key, answer |-> request, error |-> "none"]
    OBVIOUS
  <2>4. key = Key(d, step)
    OBVIOUS
  <2> HIDE DEF req, request, key
  <2>5. req \in Message /\ req.key = key /\ req.answer = request
    BY <1>3, <2>1, <2>3, <2>4 DEF Message, Error
  <2> QED  BY <2>1, <2>2, <2>4, <2>5 DEF Addressed
<1>5. ASSUME crossed' = crossed PROVE ObjectsAreGood'
  BY <1>1, <1>5, Zenon DEF HidppIInv, ObjectsAreGood
<1>6. CASE step = "battery"
  <2>1. hidpp_job' = Expanding(BatterySteps(d))
    BY <1>6 DEF HidppCmd, Expanding
  <2>2. unread_messages' = unread_messages /\ asked' = asked /\ crossed' = crossed
    BY <1>6 DEF HidppCmd
  <2>3. hidpp_job' \in Job /\ hidpp_job'.request = Unknown /\ hidpp_job'.dev = d
    BY <1>1, <1>2, <2>1, JobExpands, BatteryStepsAreSteps
  <2>4. hidpp' \in [HidppDevices -> HidppObject]
    BY <1>1 DEF HidppIInv, HidppTyped
  <2>5. asked \subseteq Message /\ (\A m \in asked : Addressed(m)) /\ crossed \in BOOLEAN
    BY Zenon DEF HidppIInv, HidppTyped, MessagesAreAddressed
  <2> QED
    BY <1>2, <1>5, <2>2, <2>3, <2>4, <2>5, NothingWaits, UnreadIsGoodNow, Zenon
<1>7. CASE step = "light_event"
  <2>1. hidpp_job' = Waiting(request)
    BY <1>7 DEF HidppCmd, Waiting
  <2>2. unread_messages' = unread_messages /\ asked' = asked /\ crossed' = crossed
    BY <1>7 DEF HidppCmd
  <2>3. /\ hidpp_job' \in Job /\ hidpp_job'.request = request /\ hidpp_job'.dev = d
        /\ hidpp_job'.todo # <<>>
    BY <1>1, <1>2, <1>3, <2>1, JobWaits
  <2>4. HidppTyped' /\ MessagesAreAddressed'
    BY <1>1, <2>2, <2>3, Zenon DEF HidppIInv, HidppTyped, MessagesAreAddressed
  <2>5. RequestIsOfTheJob'
    <3>1. request # Unknown /\ request.of = d
      BY <1>3, UnknownIsNoRequest
    <3> QED  BY <1>2, <2>3, <3>1, IdleIsGood DEF RequestIsOfTheJob
  <2>6. OnlyOneAnswerFits'
    <3>1. hidpp_job'.request.what = "light_event"
      BY <1>7, <2>3
    <3> QED  BY <3>1, Zenon DEF OnlyOneAnswerFits
  <2> QED  BY <1>5, <2>2, <2>4, <2>5, <2>6, Zenon DEF HidppIInv, ObjectsAreGood
<1>8. CASE step \notin {"battery", "light_event"}
  <2>1. hidpp_job' = WaitingAnew(request)
    BY <1>8 DEF HidppCmd, WaitingAnew
  <2>2. unread_messages' = Emptied(unread_messages, d) /\ asked' = asked \cup {req}
    BY <1>8 DEF HidppCmd, DiscardMessages, Emptied
  <2>3. crossed' = (crossed \/ \E other \in asked : other.key = req.key)
    BY <1>8, Zenon DEF HidppCmd
  <2>4. /\ hidpp_job' \in Job /\ hidpp_job'.request = request /\ hidpp_job'.dev = d
        /\ hidpp_job'.todo # <<>>
    BY <1>1, <1>2, <1>3, <2>1, JobWaits
  <2>5. UnreadIsGood(unread_messages')
    BY <1>2, <2>2, UnreadIsGoodNow, LessIsUnread
  <2>6. asked \subseteq Message /\ \A m \in asked : Addressed(m)
    BY Zenon DEF HidppIInv, HidppTyped, MessagesAreAddressed
  <2> HIDE DEF req
  <2>7. crossed' \in BOOLEAN
    BY <2>3, Zenon
  <2>8. hidpp' \in [HidppDevices -> HidppObject]
    BY <1>1 DEF HidppIInv, HidppTyped
  <2>9. asked' \subseteq Message /\ \A m \in asked' : Addressed(m)
    BY <1>4, <2>2, <2>6
  <2>10. HidppTyped' /\ MessagesAreAddressed'
    BY <2>4, <2>5, <2>7, <2>8, <2>9, Zenon DEF HidppTyped, MessagesAreAddressed, UnreadIsGood
  <2>11. RequestIsOfTheJob'
    <3>1. request # Unknown /\ request.of = d
      BY <1>3, UnknownIsNoRequest
    <3> QED  BY <1>2, <2>4, <3>1, IdleIsGood DEF RequestIsOfTheJob
  <2>12. ~crossed' => ~crossed /\ \A other \in asked : other.key # req.key
    BY <2>3, Zenon
  <2>13. OnlyOneAnswerFits'
    <3>1. Key(hidpp_job.dev, hidpp_job.request.what)' = req.key
      <4>1. hidpp_job'.dev = d /\ hidpp_job'.request.what = step
        BY <2>4
      <4> HIDE DEF d, step
      <4>2. Key(hidpp_job.dev, hidpp_job.request.what)' = Key(d, step)
        BY <1>1, <4>1, Zenon DEF Key
      <4> QED  BY <1>4, <4>2
    <3>3. unread_messages'[d] = <<>>
      BY <1>2, <2>2 DEF Emptied, HidppIInv, HidppTyped
    <3>4. Len(unread_messages'[hidpp_job'.dev]) = 0
      BY <2>4, <3>3
    <3>5. ASSUME ~crossed', NEW m \in asked'
          PROVE  LooksRight(m, req.key, request)
      BY <1>4, <2>2, <2>12, <3>5 DEF LooksRight
    <3>6. \A i : i \notin 1..0
      OBVIOUS
    <3> QED  BY <2>4, <3>1, <3>4, <3>5, <3>6, Zenon DEF OnlyOneAnswerFits
  <2>14. ObjectsAreGood'
    BY <1>1, <2>12, Zenon DEF HidppIInv, ObjectsAreGood
  <2> QED  BY <2>10, <2>11, <2>13, <2>14, Zenon DEF HidppIInv, ObjectsAreGood
<1> QED  BY <1>6, <1>7, <1>8

-----------------------------------------------------------------------------
(* The answers.                                                            *)

\* What is read for a step: a battery's answer is for this device, and where only
\* one answer fits, it is that of the request.
LEMMA StoredIsGood ==
  ASSUME HidppIInv, NEW d \in HidppDevices, NEW step \in RefreshStep, NEW answer \in Asking,
         step \in {"level", "approx", "light_event", "status"} => answer.of = d,
         ~crossed /\ step # "light_event" => answer = [of |-> d, what |-> step]
  PROVE  /\ Stored(d, step, answer) \in HidppObject
         /\ Own(d, Stored(d, step, answer))
         /\ ~crossed => Fits(d, Stored(d, step, answer))
<1> DEFINE o == hidpp[d]
           map == o.feature_index
           Has(f) == f \in Features[answer.of]
           Index == IF answer.what = "battery_feature" THEN "battery" ELSE "solar"
           p == Stored(d, step, answer)
<1>1. o \in HidppObject /\ Own(d, o) /\ (~crossed => Fits(d, o))
  BY ObjectIsGoodNow
<1>2. answer \in Known
  BY DEF Known
<1>3. map \in [battery : FeatureIndex, solar : FeatureIndex]
  BY <1>1 DEF HidppObject
<1>4. Index \in {"battery", "solar"}
  OBVIOUS
<1>5. CASE step = "ping"
  <2>1. p = WithVersion(o, 2)
    BY <1>5 DEF Stored, WithVersion
  <2>2. WithVersion(o, 2) \in HidppObject /\ Same(o, WithVersion(o, 2))
    BY <1>1, VersionChanges
  <2> HIDE DEF o, p
  <2>3. p \in HidppObject /\ Own(d, p) /\ (~crossed => Fits(d, p))
    BY <1>1, <2>1, <2>2, SameIsGood
  <2> QED  BY <2>3 DEF p
<1>6. CASE step \in {"battery_feature", "solar_feature"}
  <2>1. PICK m \in [battery : FeatureIndex, solar : FeatureIndex] :
           /\ p = [o EXCEPT !.feature_index = m]
           /\ \/ m = map
              \/ /\ step = "battery_feature" /\ m = [map EXCEPT !.battery = Index]
              \/ /\ step = "solar_feature" /\ m = [map EXCEPT !.solar = Index]
    <3>1. CASE step = "battery_feature"
      <4> DEFINE x == IF Has(Index) THEN Index ELSE map.battery
                 m == [map EXCEPT !.battery = x]
      <4>1. p = [o EXCEPT !.feature_index = m]
        BY <3>1, <1>1, Zenon DEF Stored
      <4>2. x \in FeatureIndex
        BY <1>3 DEF FeatureIndex
      <4>3. CASE x = Index
        BY <1>3, <3>1, <4>1, <4>2, <4>3
      <4>4. CASE x = map.battery
        <5>1. m = map
          BY <1>3, <4>4
        <5> QED  BY <1>3, <4>1, <5>1
      <4> QED  BY <4>3, <4>4
    <3>2. CASE step = "solar_feature"
      <4> DEFINE x == IF Has(Index) THEN Index ELSE map.solar
                 m == [map EXCEPT !.solar = x]
      <4>1. p = [o EXCEPT !.feature_index = m]
        BY <3>2, <1>1, Zenon DEF Stored
      <4>2. x \in FeatureIndex
        BY <1>3 DEF FeatureIndex
      <4>3. CASE x = Index
        BY <1>3, <3>2, <4>1, <4>2, <4>3
      <4>4. CASE x = map.solar
        <5>1. m = map
          BY <1>3, <4>4
        <5> QED  BY <1>3, <4>1, <5>1
      <4> QED  BY <4>3, <4>4
    <3> QED  BY <1>6, <3>1, <3>2
  <2>2. p \in HidppObject /\ Own(d, p)
    BY <1>1, <2>1 DEF HidppObject, Own
  <2>3. ASSUME ~crossed PROVE Fits(d, p)
    <3>1. answer.what = step
      BY <1>6, <2>3
    <3>2. Fits(d, o)
      BY <1>1, <2>3
    <3>3. m.battery \in {"none", "battery"} /\ m.solar \in {"none", "solar"}
      BY <1>3, <1>6, <2>1, <3>1, <3>2 DEF Fits
    <3>4. p.feature_index = m /\ p.kind = o.kind /\ p.model = o.model /\ p.serial = o.serial
      BY <1>1, <2>1 DEF HidppObject
    <3> QED  BY <3>2, <3>3, <3>4 DEF Fits
  <2> QED  BY <2>2, <2>3
<1>7. CASE step \in Register
  <2>1. \/ step = "kind" /\ p = [o EXCEPT !.kind = answer]
        \/ step = "model" /\ p = [o EXCEPT !.model = answer]
        \/ step = "serial" /\ p = [o EXCEPT !.serial = answer]
    BY <1>7 DEF Stored, Register
  <2> HIDE DEF p
  <2>2. p \in HidppObject /\ Own(d, p)
    BY <1>1, <1>2, <2>1 DEF HidppObject, Own
  <2>3. ASSUME ~crossed PROVE Fits(d, p)
    BY <1>1, <2>1, <2>3 DEF HidppObject, Fits
  <2> QED  BY <2>2, <2>3 DEF p
<1>8. CASE step \in {"level", "approx", "light_event", "status"}
  <2>1. p = [o EXCEPT !.batt = answer]
    BY <1>8 DEF Stored
  <2> HIDE DEF p
  <2>2. p \in HidppObject /\ Own(d, p)
    BY <1>1, <1>2, <1>8, <2>1 DEF HidppObject, Own
  <2>3. ASSUME ~crossed PROVE Fits(d, p)
    BY <1>1, <2>1, <2>3 DEF HidppObject, Fits
  <2> QED  BY <2>2, <2>3 DEF p
<1>9. CASE step \in {"battery", "light"}
  <2>1. p = o
    BY <1>9 DEF Stored, Register
  <2> QED  BY <1>1, <2>1
<1> QED
  BY <1>5, <1>6, <1>7, <1>8, <1>9 DEF RefreshStep

LEMMA WaitingJob ==
  ASSUME HidppIInv, hidpp_job.request # Unknown
  PROVE  /\ hidpp_job \in Job /\ hidpp_job.dev \in HidppDevices /\ hidpp_job.todo # <<>>
         /\ hidpp_job.request \in Asking /\ hidpp_job.request.what \in RefreshStep
         /\ hidpp_job.request = [of |-> hidpp_job.dev, what |-> hidpp_job.request.what]
<1>1. hidpp_job \in Job /\ hidpp_job.dev \in HidppDevices /\ hidpp_job.todo # <<>>
  BY DEF HidppIInv, HidppTyped, RequestIsOfTheJob
<1>2. hidpp_job.request \in Asking /\ hidpp_job.request.of = hidpp_job.dev
  BY <1>1 DEF HidppIInv, RequestIsOfTheJob, Job
<1> QED  BY <1>1, <1>2 DEF Asking

\* A step is done, and the object is as good as before.
LEMMA GoStep ==
  ASSUME HidppIInv, hidpp_job.request # Unknown, NEW o \in HidppObject,
         Own(hidpp_job.dev, o), ~crossed => Fits(hidpp_job.dev, o),
         NEW more \in Seq(RefreshStep), NEW unread, UnreadIsGood(unread),
         Proceed(NoMessage, more), hidpp' = [hidpp EXCEPT ![hidpp_job.dev] = o],
         unread_messages' = unread, UNCHANGED <<asked, crossed>>
  PROVE  HidppIInv'
<1>1. hidpp_job \in Job /\ hidpp_job.dev \in HidppDevices /\ hidpp_job.todo # <<>>
  BY WaitingJob
<1>2. hidpp' \in [HidppDevices -> HidppObject] /\ ObjectsAreGood'
  BY <1>1, OneObjectChanges, Zenon
<1>3. hidpp_job' = Proceeding(more, NoMessage)
  BY DEF Proceed, Proceeding
<1>4. hidpp_job' \in Job /\ hidpp_job'.request = Unknown /\ hidpp_job'.dev \in HidppDevices
  BY <1>1, <1>3, JobProceeds
<1>5. asked \subseteq Message /\ (\A m \in asked : Addressed(m)) /\ crossed \in BOOLEAN
  BY Zenon DEF HidppIInv, HidppTyped, MessagesAreAddressed
<1> QED
  BY <1>2, <1>4, <1>5, NothingWaits, Zenon

LEMMA FailedStep ==
  ASSUME HidppIInv, hidpp_job.request # Unknown, NEW msg, NEW unread,
         UnreadIsGood(unread), HidppFailed(msg, unread)
  PROVE  HidppIInv'
<1> DEFINE d == hidpp_job.dev
           o == hidpp[d]
           step == hidpp_job.request.what
           Go(dev, more) == /\ Proceed(NoMessage, more)
                            /\ hidpp' = [hidpp EXCEPT ![d] = dev]
                            /\ unread_messages' = unread
                            /\ UNCHANGED <<asked, unifying, crossed>>
           Ends(dev) == \E ret \in BOOLEAN : EndHidpp(dev, ret, unread)
<1>1. d \in HidppDevices
  BY WaitingJob
<1>2. o \in HidppObject /\ Own(d, o) /\ (~crossed => Fits(d, o))
  BY <1>1, ObjectIsGoodNow
<1>3. \/ Go(WithVersion(o, 1), <<>>)
      \/ Go(WithPresent(o, FALSE), <<>>)
      \/ Go(o, <<>>)
      \/ Go(WithApprox(o), <<"approx">>)
      \/ Ends(o)
      \/ Ends(WithPresent(o, FALSE))
  BY Zenon DEF HidppFailed, OutFailed, WithVersion, WithPresent, WithApprox
<1>4. <<>> \in Seq(RefreshStep) /\ <<"approx">> \in Seq(RefreshStep)
  BY DEF RefreshStep
<1>5. /\ WithVersion(o, 1) \in HidppObject /\ Same(o, WithVersion(o, 1))
      /\ WithPresent(o, FALSE) \in HidppObject /\ Same(o, WithPresent(o, FALSE))
      /\ WithApprox(o) \in HidppObject /\ Same(o, WithApprox(o))
  <2> HIDE DEF o
  <2>1. WithVersion(o, 1) \in HidppObject /\ Same(o, WithVersion(o, 1))
    BY <1>2, VersionChanges
  <2>2. WithPresent(o, FALSE) \in HidppObject /\ Same(o, WithPresent(o, FALSE))
    BY <1>2, PresenceChanges
  <2>3. WithApprox(o) \in HidppObject /\ Same(o, WithApprox(o))
    BY <1>2, OneFieldChanges
  <2> QED  BY <2>1, <2>2, <2>3
<1>6. \A p : Same(o, p) => Own(d, p) /\ (~crossed => Fits(d, p))
  BY <1>2, SameIsGood
<1>7. ASSUME NEW p \in HidppObject, Own(d, p), ~crossed => Fits(d, p),
             NEW more \in Seq(RefreshStep), Go(p, more)
      PROVE  HidppIInv'
  BY <1>7, GoStep, Zenon
<1>8. ASSUME NEW p \in HidppObject, Own(d, p), ~crossed => Fits(d, p), Ends(p)
      PROVE  HidppIInv'
  BY <1>1, <1>8, EndStep, Zenon
<1> HIDE DEF Go, Ends, o, d
<1> QED
  BY <1>2, <1>3, <1>4, <1>5, <1>6, <1>7, <1>8, Zenon

LEMMA TimeoutStep ==
  ASSUME HidppIInv, HidppTimeout PROVE HidppIInv'
BY FailedStep, UnreadIsGoodNow DEF HidppTimeout

LEMMA ReadStep ==
  ASSUME HidppIInv, ReadResp PROVE HidppIInv'
<1> DEFINE d == hidpp_job.dev
           step == hidpp_job.request.what
           request == hidpp_job.request
           key == Key(d, step)
           unread == unread_messages[d]
           msg == Head(unread)
           rest == Shortened(unread_messages, d)
           more == IF step = "ping" /\ hidpp[d].version < 2
                     THEN <<"battery_feature", "solar_feature">> ELSE <<>>
<1>1. request # Unknown /\ unread # <<>>
  BY DEF ReadResp
<1>2. /\ hidpp_job \in Job /\ d \in HidppDevices /\ step \in RefreshStep /\ request \in Asking
      /\ request = [of |-> d, what |-> step] /\ hidpp_job.todo # <<>>
  BY <1>1, WaitingJob
<1>3. unread \in Seq(Message) /\ msg = unread[1] /\ 1 \in 1..Len(unread)
  BY <1>1, <1>2 DEF HidppIInv, HidppTyped
<1>4. msg \in Message /\ Addressed(msg)
  BY <1>2, <1>3 DEF HidppIInv, MessagesAreAddressed
<1>5. UnreadIsGood(rest)
  BY <1>1, <1>2, UnreadIsGoodNow, LessIsUnread
<1>6. \/ /\ hidpp_job' = [hidpp_job EXCEPT !.msg = msg] /\ unread_messages' = rest
         /\ UNCHANGED <<hidpp, asked, unifying, crossed>>
      \/ /\ msg.key = key
         /\ hidpp' = [hidpp EXCEPT ![d] = Stored(d, step, msg.answer)]
         /\ Proceed(NoMessage, more) /\ unread_messages' = rest
         /\ UNCHANGED <<asked, unifying, crossed>>
      \/ HidppFailed(msg, rest)
  BY Zenon DEF ReadResp, IsAnswer, Shortened
<1>7. CASE /\ hidpp_job' = [hidpp_job EXCEPT !.msg = msg] /\ unread_messages' = rest
           /\ UNCHANGED <<hidpp, asked, unifying, crossed>>
  <2>1. /\ hidpp_job' \in Job /\ hidpp_job'.request = request /\ hidpp_job'.dev = d
        /\ hidpp_job'.todo # <<>>
    BY <1>2, <1>4, <1>7 DEF Job
  <2>2. unread_messages' = rest /\ UNCHANGED <<hidpp, asked, crossed>>
    BY <1>7
  <2> HIDE DEF rest
  <2>3. HidppTyped' /\ MessagesAreAddressed'
    BY <1>5, <2>1, <2>2, Zenon
       DEF HidppIInv, HidppTyped, MessagesAreAddressed, UnreadIsGood
  <2>4. RequestIsOfTheJob'
    <3>1. request.of = d /\ hidpp_job' # IdleHidpp
      BY <1>1, <1>2, <2>1, IdleIsGood
    <3> QED  BY <1>2, <2>1, <3>1, Zenon DEF RequestIsOfTheJob
  <2>5. OnlyOneAnswerFits'
    <3>1. Key(hidpp_job.dev, hidpp_job.request.what)' = key
      BY <2>1, <2>2, Zenon DEF Key
    <3>2. ASSUME ~crossed, step # "light_event"
          PROVE  /\ \A m \in asked : LooksRight(m, key, request)
                 /\ \A i \in 1..Len(rest[d]) : LooksRight(rest[d][i], key, request)
      <4>1. /\ \A m \in asked : LooksRight(m, key, request)
            /\ \A i \in 1..Len(unread) : LooksRight(unread[i], key, request)
        BY <1>1, <3>2, Zenon DEF HidppIInv, OnlyOneAnswerFits
      <4>2. rest[d] = Tail(unread)
        BY <1>2 DEF rest, Shortened, HidppIInv, HidppTyped
      <4>3. ASSUME NEW i \in 1..Len(rest[d])
            PROVE  i + 1 \in 1..Len(unread) /\ rest[d][i] = unread[i + 1]
        BY <1>1, <1>3, <4>2, <4>3
      <4> QED  BY <4>1, <4>3, Zenon
    <3> HIDE DEF key
    <3> QED  BY <2>1, <2>2, <3>1, <3>2, Zenon DEF OnlyOneAnswerFits
  <2>6. ObjectsAreGood'
    BY <2>2, Zenon DEF HidppIInv, ObjectsAreGood
  <2> QED  BY <2>3, <2>4, <2>5, <2>6, Zenon DEF HidppIInv, ObjectsAreGood
<1>8. CASE /\ msg.key = key
           /\ hidpp' = [hidpp EXCEPT ![d] = Stored(d, step, msg.answer)]
           /\ Proceed(NoMessage, more) /\ unread_messages' = rest
           /\ UNCHANGED <<asked, unifying, crossed>>
  <2> DEFINE o == Stored(d, step, msg.answer)
  <2>1. msg.answer \in Asking /\ msg.answer.of \in HidppDevices
    BY <1>4 DEF Message, Asking
  <2>2. ASSUME step \in {"level", "approx", "light_event", "status"}
        PROVE  msg.answer.of = d
    <3>1. key[1] = d
      BY <1>2, <2>2, KeyParts DEF HidppIInv, Register
    <3> QED  BY <1>2, <1>4, <1>8, <3>1, HidppAssumption DEF Addressed
  <2>3. ASSUME ~crossed, step # "light_event"
        PROVE  msg.answer = [of |-> d, what |-> step]
    <3>1. LooksRight(msg, key, request)
      BY <1>1, <1>3, <2>3, Zenon DEF HidppIInv, OnlyOneAnswerFits
    <3> QED  BY <1>2, <1>8, <3>1 DEF LooksRight
  <2>4. o \in HidppObject /\ Own(d, o) /\ (~crossed => Fits(d, o))
    BY <1>2, <2>1, <2>2, <2>3, StoredIsGood, Zenon
  <2>5. more \in Seq(RefreshStep)
    <3>1. <<"battery_feature", "solar_feature">> \in Seq(RefreshStep) /\ <<>> \in Seq(RefreshStep)
      BY DEF RefreshStep
    <3> QED  BY <3>1
  <2> HIDE DEF o, more, rest
  <2>6. /\ hidpp' = [hidpp EXCEPT ![d] = o] /\ Proceed(NoMessage, more)
        /\ unread_messages' = rest /\ UNCHANGED <<asked, crossed>>
    BY <1>8, Zenon DEF o
  <2> QED  BY <1>1, <1>5, <2>4, <2>5, <2>6, GoStep, Zenon
<1>9. CASE HidppFailed(msg, rest)
  BY <1>1, <1>5, <1>9, FailedStep, Zenon
<1> QED  BY <1>6, <1>7, <1>8, <1>9, Zenon

-----------------------------------------------------------------------------
(* The theorems.                                                           *)

LEMMA HidppInitIsGood == HidppInit => HidppIInv
<1> SUFFICES ASSUME HidppInit PROVE HidppIInv
  OBVIOUS
<1>1. hidpp \in [HidppDevices -> HidppObject] /\ \A d \in HidppDevices : hidpp[d] = NewHidpp
  BY NewHidppIsGood DEF HidppInit
<1>2. /\ unread_messages \in [HidppDevices -> Seq(Message)]
      /\ \A d \in HidppDevices : Len(unread_messages[d]) = 0
  BY DEF HidppInit
<1>3. hidpp_job = IdleHidpp /\ asked = {} /\ crossed = FALSE
  BY DEF HidppInit
<1>4. HidppTyped
  BY <1>1, <1>2, <1>3, IdleIsGood DEF HidppTyped
<1>5. MessagesAreAddressed
  BY <1>2, <1>3 DEF MessagesAreAddressed
<1>6. RequestIsOfTheJob /\ OnlyOneAnswerFits
  BY <1>3, IdleIsGood, Zenon DEF RequestIsOfTheJob, OnlyOneAnswerFits
<1>7. \A d \in HidppDevices : Own(d, hidpp[d]) /\ Fits(d, hidpp[d])
  BY <1>1, NewHidppIsGood, Zenon
<1> QED  BY <1>4, <1>5, <1>6, <1>7, Zenon DEF HidppIInv

LEMMA HidppStep == HidppIInv /\ [HidppNext]_hidppVars => HidppIInv'
<1> SUFFICES ASSUME HidppIInv, [HidppNext]_hidppVars PROVE HidppIInv'
  OBVIOUS
<1>1. CASE \E d \in HidppDevices : ColdplugUnifying(d) \/ RefreshUnifying(d) \/ RemoveUnifying(d)
  BY <1>1, StartsStep, RemoveStep, Zenon
<1>2. CASE HidppCmd
  BY <1>2, CmdStep
<1>3. CASE ReadResp
  BY <1>3, ReadStep
<1>4. CASE HidppTimeout
  BY <1>4, TimeoutStep
<1>5. CASE RefreshReturns
  BY <1>5, ReturnStep
<1>6. CASE ReplugReceiver
  BY <1>6, ReplugStep
<1>7. CASE \E req \in asked, reachable \in BOOLEAN : Answer(req, reachable)
  BY <1>7, AnswerStep, Zenon
<1>8. CASE UNCHANGED hidppVars
  BY <1>8, Zenon DEF hidppVars, HidppIInv, HidppTyped, MessagesAreAddressed, RequestIsOfTheJob,
     OnlyOneAnswerFits, Key
<1> QED
  BY <1>1, <1>2, <1>3, <1>4, <1>5, <1>6, <1>7, <1>8, Zenon DEF HidppNext

LEMMA HidppSafety == HidppSpec => []HidppIInv
BY HidppInitIsGood, HidppStep, PTL DEF HidppSpec

\* A device's battery is its own, whatever answers of other devices of the receiver
\* are read, however late, and even when requests are crossed.
THEOREM BatterySafety == HidppSpec => []BatteryIsOwn
<1>1. HidppIInv => BatteryIsOwn
  BY DEF HidppIInv, Own, BatteryIsOwn
<1> QED  BY <1>1, HidppSafety, PTL

\* As long as no two requests that look alike have been under way at once, a
\* device's kind, model, serial number and feature indices are what was asked for:
\* the queue that is discarded before each request is all the protection needed.
THEOREM AnswersSafety == HidppSpec => []AnswersFit
<1>1. ASSUME HidppIInv PROVE AnswersFit
  <2> SUFFICES ASSUME ~crossed, NEW d \in HidppDevices
               PROVE  /\ \A w \in Register : hidpp[d][w] \in {Unknown, [of |-> d, what |-> w]}
                      /\ \A f \in {"battery", "solar"} :
                           hidpp[d].feature_index[f] \in {"none", f}
    BY Zenon DEF AnswersFit
  <2>1. Fits(d, hidpp[d])
    BY <1>1, Zenon DEF HidppIInv
  <2>2. hidpp[d] \in HidppObject
    BY <1>1 DEF HidppIInv, HidppTyped
  <2>3. /\ hidpp[d]["kind"] = hidpp[d].kind /\ hidpp[d]["model"] = hidpp[d].model
        /\ hidpp[d]["serial"] = hidpp[d].serial
    OBVIOUS
  <2> QED  BY <2>1, <2>3 DEF Fits, Register
<1> QED  BY <1>1, HidppSafety, PTL

-----------------------------------------------------------------------------
(* Type correctness of the receivers.                                      *)

\* What is not open has nothing to read, and the devices show a presence.
ClosedIsEmpty == \A e \in HidppDevices : hidpp[e].fd = TRUE \/ unread_messages[e] = <<>>
Shown == [added : BOOLEAN, present : BOOLEAN]
HidppRest == ClosedIsEmpty /\ unifying \in [HidppDevices -> Shown]

\* Nothing comes to a descriptor that had nothing to read.
NoneComes(unread) == \A e \in HidppDevices : unread[e] = <<>> \/ unread_messages[e] # <<>>

LEMMA StaysClosed ==
  ASSUME HidppIInv, ClosedIsEmpty, NEW d \in HidppDevices, NEW o,
         o.fd = TRUE \/ o.fd = hidpp[d].fd, hidpp' = [hidpp EXCEPT ![d] = o],
         NoneComes(unread_messages')
  PROVE  ClosedIsEmpty'
<1>1. \A e \in HidppDevices : hidpp'[e] = IF e = d THEN o ELSE hidpp[e]
  BY DEF HidppIInv, HidppTyped
<1> QED  BY <1>1, Zenon DEF ClosedIsEmpty, NoneComes

LEMMA LessComes ==
  ASSUME HidppIInv, NEW d \in HidppDevices
  PROVE  /\ NoneComes(unread_messages) /\ NoneComes(Emptied(unread_messages, d))
         /\ unread_messages[d] # <<>> => NoneComes(Shortened(unread_messages, d))
<1>1. unread_messages \in [HidppDevices -> Seq(Message)]
  BY DEF HidppIInv, HidppTyped
<1>2. /\ \A e \in HidppDevices :
           Emptied(unread_messages, d)[e] = IF e = d THEN <<>> ELSE unread_messages[e]
      /\ \A e \in HidppDevices : e # d =>
           Shortened(unread_messages, d)[e] = unread_messages[e]
  BY <1>1 DEF Emptied, Shortened
<1> QED  BY <1>2, Zenon DEF NoneComes

\* The end of a refresh: what the device shows is what its object has.
LEMMA EndTypes ==
  ASSUME HidppIInv, HidppIInv', HidppRest, hidpp_job.dev \in HidppDevices, NEW dev,
         dev.fd = hidpp[hidpp_job.dev].fd, NEW ret \in BOOLEAN, NEW unread,
         unread \in [HidppDevices -> Seq(Message)], NoneComes(unread),
         EndHidpp(dev, ret, unread)
  PROVE  HidppRest'
<1> DEFINE d == hidpp_job.dev
           failed == hidpp_job.phase = "coldplug" /\ ~ret
           o == IF failed THEN NewHidpp ELSE dev
<1>1. /\ hidpp' = [hidpp EXCEPT ![d] = o]
      /\ unread_messages' = [unread EXCEPT ![d] = IF failed THEN <<>> ELSE @]
      /\ \/ unifying' = unifying
         \/ unifying' = [unifying EXCEPT ![d].added = TRUE]
         \/ ~failed /\ unifying' = [unifying EXCEPT ![d].present = dev.is_present]
  BY Zenon DEF EndHidpp
<1>2. hidpp \in [HidppDevices -> HidppObject]
  BY DEF HidppIInv, HidppTyped
<1>3. /\ \A e \in HidppDevices : hidpp'[e] = IF e = d THEN o ELSE hidpp[e]
      /\ \A e \in HidppDevices :
           unread_messages'[e] = IF e = d /\ failed THEN <<>> ELSE unread[e]
  BY <1>1, <1>2
<1>4. ClosedIsEmpty'
  BY <1>3, Zenon DEF HidppRest, ClosedIsEmpty, NoneComes
<1>5. ~failed => dev.is_present \in BOOLEAN
  <2>1. hidpp'[d] \in HidppObject
    BY DEF HidppIInv, HidppTyped
  <2>2. ~failed => dev \in HidppObject
    BY <1>3, <2>1, Zenon
  <2> QED  BY <2>2 DEF HidppObject
<1>6. unifying' \in [HidppDevices -> Shown]
  <2> HIDE DEF failed, o
  <2>1. unifying \in [HidppDevices -> Shown]
    BY DEF HidppRest
  <2>2. /\ [unifying[d] EXCEPT !.added = TRUE] \in Shown
        /\ dev.is_present \in BOOLEAN => [unifying[d] EXCEPT !.present = dev.is_present] \in Shown
    <3>1. unifying[d] \in Shown
      BY <2>1
    <3> QED  BY <3>1 DEF Shown
  <2>3. \A s \in Shown : [unifying EXCEPT ![d] = s] \in [HidppDevices -> Shown]
    BY <2>1
  <2> QED  BY <1>1, <1>5, <2>1, <2>2, <2>3
<1> QED  BY <1>4, <1>6 DEF HidppRest

\* A command that failed.
LEMMA FailedTypes ==
  ASSUME HidppIInv, HidppIInv', HidppRest, hidpp_job.request # Unknown, NEW msg, NEW unread,
         unread \in [HidppDevices -> Seq(Message)], NoneComes(unread), HidppFailed(msg, unread)
  PROVE  HidppRest'
<1> DEFINE d == hidpp_job.dev
           o == hidpp[d]
           Go(dev, more) == /\ Proceed(NoMessage, more)
                            /\ hidpp' = [hidpp EXCEPT ![d] = dev]
                            /\ unread_messages' = unread
                            /\ UNCHANGED <<asked, unifying, crossed>>
           Ends(dev) == \E ret \in BOOLEAN : EndHidpp(dev, ret, unread)
<1>1. d \in HidppDevices
  BY WaitingJob
<1>2. o \in HidppObject
  BY <1>1, ObjectIsGoodNow
<1>3. \/ Go(WithVersion(o, 1), <<>>)
      \/ Go(WithPresent(o, FALSE), <<>>)
      \/ Go(o, <<>>)
      \/ Go(WithApprox(o), <<"approx">>)
      \/ Ends(o)
      \/ Ends(WithPresent(o, FALSE))
  BY Zenon DEF HidppFailed, OutFailed, WithVersion, WithPresent, WithApprox
<1>4. /\ WithVersion(o, 1).fd = o.fd /\ WithPresent(o, FALSE).fd = o.fd
      /\ WithApprox(o).fd = o.fd
  <2> HIDE DEF o
  <2> QED  BY <1>2 DEF HidppObject, WithVersion, WithPresent, WithApprox
<1>5. ASSUME NEW p, p.fd = o.fd, NEW more, Go(p, more) PROVE HidppRest'
  <2>1. ClosedIsEmpty'
    BY <1>1, <1>5, StaysClosed, Zenon DEF HidppRest
  <2> QED  BY <1>5, <2>1, Zenon DEF HidppRest
<1>6. ASSUME NEW p, p.fd = o.fd, Ends(p) PROVE HidppRest'
  BY <1>1, <1>6, EndTypes, Zenon
<1> HIDE DEF Go, Ends, o, d
<1> QED  BY <1>3, <1>4, <1>5, <1>6, Zenon

\* A message that is read.
LEMMA ReadTypes ==
  ASSUME HidppIInv, HidppIInv', HidppRest, ReadResp
  PROVE  HidppRest'
<1> DEFINE d == hidpp_job.dev
           step == hidpp_job.request.what
           msg == Head(unread_messages[d])
           rest == Shortened(unread_messages, d)
           stored == Stored(d, step, msg.answer)
<1>1. hidpp_job.request # Unknown /\ unread_messages[d] # <<>>
  BY DEF ReadResp
<1>2. d \in HidppDevices
  BY <1>1, WaitingJob
<1>3. /\ rest \in [HidppDevices -> Seq(Message)] /\ NoneComes(rest)
      /\ hidpp[d] \in HidppObject
  <2>1. UnreadIsGood(rest)
    BY <1>1, <1>2, UnreadIsGoodNow, LessIsUnread
  <2> QED  BY <1>1, <1>2, <2>1, LessComes, ObjectIsGoodNow DEF UnreadIsGood
<1>4. \/ UNCHANGED <<hidpp, unifying>> /\ unread_messages' = rest
      \/ /\ hidpp' = [hidpp EXCEPT ![d] = stored] /\ unread_messages' = rest
         /\ UNCHANGED unifying
      \/ HidppFailed(msg, rest)
  BY Zenon DEF ReadResp, Shortened
<1>5. stored.fd = hidpp[d].fd
  <2> DEFINE o == hidpp[d]
  <2> HIDE DEF o
  <2>1. o \in HidppObject
    BY <1>3 DEF o
  <2>2. /\ [o EXCEPT !.version = 2, !.is_present = TRUE].fd = o.fd
        /\ \A m : [o EXCEPT !.feature_index = m].fd = o.fd
        /\ \A m : [o EXCEPT !.kind = m].fd = o.fd
        /\ \A m : [o EXCEPT !.model = m].fd = o.fd
        /\ \A m : [o EXCEPT !.serial = m].fd = o.fd
        /\ \A m : [o EXCEPT !.batt = m].fd = o.fd
    BY <2>1 DEF HidppObject
  <2>3. \/ stored = [o EXCEPT !.version = 2, !.is_present = TRUE] \/ stored = o
        \/ \E m : stored = [o EXCEPT !.feature_index = m]
        \/ \E m : stored = [o EXCEPT !.kind = m]
        \/ \E m : stored = [o EXCEPT !.model = m]
        \/ \E m : stored = [o EXCEPT !.serial = m]
        \/ \E m : stored = [o EXCEPT !.batt = m]
    BY Zenon DEF Stored, o
  <2> HIDE DEF stored
  <2>4. stored.fd = o.fd
    BY <2>2, <2>3, Zenon
  <2> QED  BY <2>4 DEF o
<1> HIDE DEF stored, rest
<1>6. CASE UNCHANGED <<hidpp, unifying>> /\ unread_messages' = rest
  BY <1>3, <1>6, Zenon DEF HidppRest, ClosedIsEmpty, NoneComes
<1>7. CASE /\ hidpp' = [hidpp EXCEPT ![d] = stored] /\ unread_messages' = rest
           /\ UNCHANGED unifying
  <2>1. ClosedIsEmpty'
    BY <1>2, <1>3, <1>5, <1>7, StaysClosed, Zenon DEF HidppRest
  <2> QED  BY <1>7, <2>1, Zenon DEF HidppRest
<1>8. CASE HidppFailed(msg, rest)
  BY <1>1, <1>3, <1>8, FailedTypes, Zenon
<1> QED  BY <1>4, <1>6, <1>7, <1>8

LEMMA HidppRestStep ==
  ASSUME HidppIInv, HidppIInv', HidppRest, [HidppNext]_hidppVars
  PROVE  HidppRest'
<1>1. /\ hidpp \in [HidppDevices -> HidppObject] /\ hidpp_job \in Job
      /\ unread_messages \in [HidppDevices -> Seq(Message)]
      /\ unifying \in [HidppDevices -> Shown] /\ ClosedIsEmpty
  BY DEF HidppIInv, HidppTyped, HidppRest
<1>2. ASSUME NEW d \in HidppDevices, ColdplugUnifying(d) \/ RefreshUnifying(d)
      PROVE  HidppRest'
  <2>1. /\ hidpp' = [hidpp EXCEPT ![d] = Opened(hidpp[d])]
        /\ UNCHANGED <<unread_messages, unifying>>
    BY <1>2, Zenon DEF ColdplugUnifying, RefreshUnifying, StartHidpp, Opened
  <2>2. Opened(hidpp[d]).fd = TRUE
    <3>1. hidpp[d] \in HidppObject
      BY <1>1
    <3> QED  BY <3>1 DEF Opened, HidppObject
  <2>3. NoneComes(unread_messages')
    BY <2>1, Zenon DEF NoneComes
  <2>4. ClosedIsEmpty'
    BY <1>1, <2>1, <2>2, <2>3, StaysClosed
  <2> QED  BY <1>1, <2>1, <2>4, Zenon DEF HidppRest
<1>3. [added |-> FALSE, present |-> FALSE] \in Shown
  BY DEF Shown
<1>4. ASSUME NEW d \in HidppDevices, RemoveUnifying(d) PROVE HidppRest'
  <2>1. /\ hidpp' = [hidpp EXCEPT ![d] = NewHidpp]
        /\ unread_messages' = [unread_messages EXCEPT ![d] = <<>>]
        /\ unifying' = [unifying EXCEPT ![d] = [added |-> FALSE, present |-> FALSE]]
    BY <1>4, Zenon DEF RemoveUnifying
  <2>2. /\ unread_messages'[d] = <<>>
        /\ \A e \in HidppDevices : e # d =>
             hidpp'[e] = hidpp[e] /\ unread_messages'[e] = unread_messages[e]
    BY <1>1, <2>1
  <2>3. ClosedIsEmpty'
    BY <1>1, <2>2, Zenon DEF ClosedIsEmpty
  <2>4. unifying' \in [HidppDevices -> Shown]
    BY <1>1, <1>3, <2>1
  <2> QED  BY <2>3, <2>4 DEF HidppRest
<1>5. CASE HidppCmd
  <2>1. UNCHANGED <<hidpp, unifying>>
    BY <1>5, Zenon DEF HidppCmd
  <2>2. \/ UNCHANGED unread_messages
        \/ unread_messages' = Emptied(unread_messages, hidpp_job.dev)
    BY <1>5, Zenon DEF HidppCmd, DiscardMessages, Emptied
  <2>3. hidpp_job.dev \in HidppDevices
    BY <1>5, Zenon DEF HidppCmd, HidppIInv, RequestIsOfTheJob
  <2>4. NoneComes(unread_messages')
    BY <2>2, <2>3, LessComes
  <2>5. ClosedIsEmpty'
    BY <1>1, <2>1, <2>4, Zenon DEF ClosedIsEmpty, NoneComes
  <2> QED  BY <1>1, <2>1, <2>5, Zenon DEF HidppRest
<1>6. CASE ReadResp
  BY <1>6, ReadTypes
<1>7. CASE HidppTimeout
  <2>1. hidpp_job.request # Unknown /\ HidppFailed(hidpp_job.msg, unread_messages)
    BY <1>7, Zenon DEF HidppTimeout
  <2>2. NoneComes(unread_messages)
    BY Zenon DEF NoneComes
  <2> QED  BY <1>1, <2>1, <2>2, FailedTypes, Zenon
<1>8. CASE RefreshReturns
  <2> DEFINE dev ==
               [hidpp[hidpp_job.dev] EXCEPT !.is_present = hidpp[hidpp_job.dev].version > 0 \/ @]
  <2>1. EndHidpp(dev, TRUE, unread_messages) /\ hidpp_job # IdleHidpp
    BY <1>8, Zenon DEF RefreshReturns
  <2>2. hidpp_job.dev \in HidppDevices
    BY <2>1, Zenon DEF HidppIInv, RequestIsOfTheJob
  <2>3. dev.fd = hidpp[hidpp_job.dev].fd
    <3>1. hidpp[hidpp_job.dev] \in HidppObject
      BY <1>1, <2>2
    <3> QED  BY <3>1 DEF HidppObject
  <2>4. NoneComes(unread_messages)
    BY Zenon DEF NoneComes
  <2> HIDE DEF dev
  <2> QED  BY <1>1, <2>1, <2>2, <2>3, <2>4, EndTypes, Zenon
<1>9. CASE ReplugReceiver
  <2>1. /\ \A e \in HidppDevices : unread_messages'[e] = <<>>
        /\ unifying' = [e \in HidppDevices |-> [added |-> FALSE, present |-> FALSE]]
    BY <1>9 DEF ReplugReceiver
  <2>2. unifying' \in [HidppDevices -> Shown]
    BY <1>3, <2>1
  <2> QED  BY <2>1, <2>2, Zenon DEF HidppRest, ClosedIsEmpty
<1>10. ASSUME NEW req \in asked, NEW reachable \in BOOLEAN, Answer(req, reachable)
       PROVE  HidppRest'
  <2>1. /\ \A e \in HidppDevices : hidpp[e].fd # TRUE => unread_messages'[e] = unread_messages[e]
        /\ UNCHANGED <<hidpp, unifying>>
    <3>1. \A e \in HidppDevices : hidpp[e].fd \in BOOLEAN
      <4>1. \A e \in HidppDevices : hidpp[e] \in HidppObject
        BY <1>1
      <4> QED  BY <4>1 DEF HidppObject
    <3> QED  BY <1>10, <3>1 DEF Answer
  <2>2. ClosedIsEmpty'
    BY <1>1, <2>1, Zenon DEF ClosedIsEmpty
  <2> QED  BY <1>1, <2>1, <2>2, Zenon DEF HidppRest
<1>11. CASE UNCHANGED hidppVars
  BY <1>11, Zenon DEF hidppVars, HidppRest, ClosedIsEmpty
<1> QED
  BY <1>2, <1>4, <1>5, <1>6, <1>7, <1>8, <1>9, <1>10, <1>11, Zenon DEF HidppNext

\* The invariant with all the types.
HidppAll == HidppIInv /\ HidppRest

LEMMA HidppInitAll == HidppInit => HidppAll
<1>1. ASSUME HidppInit PROVE HidppRest
  <2>1. \A e \in HidppDevices : unread_messages[e] = <<>>
    BY <1>1 DEF HidppInit
  <2>2. unifying \in [HidppDevices -> Shown]
    BY <1>1 DEF HidppInit, Shown
  <2> QED  BY <2>1, <2>2, Zenon DEF HidppRest, ClosedIsEmpty
<1> QED  BY <1>1, HidppInitIsGood DEF HidppAll

LEMMA HidppStepAll == HidppAll /\ [HidppNext]_hidppVars => HidppAll'
BY HidppStep, HidppRestStep DEF HidppAll

LEMMA HidppTypesFollow == HidppAll => HidppTypeOK
<1> SUFFICES ASSUME HidppAll PROVE HidppTypeOK
  OBVIOUS
<1>1. HidppTyped /\ HidppRest
  BY DEF HidppAll, HidppIInv
<1>2. Known = Origin
  BY DEF Known, Asking, Origin
<1>3. ASSUME NEW d \in HidppDevices
      PROVE  /\ hidpp[d].version \in 0..2 /\ hidpp[d].is_present \in BOOLEAN
             /\ {hidpp[d].kind, hidpp[d].model, hidpp[d].serial, hidpp[d].batt} \subseteq Origin
             /\ hidpp[d].fd \/ unread_messages[d] = <<>>
  <2>1. hidpp[d] \in HidppObject
    BY <1>1 DEF HidppTyped
  <2>2. /\ hidpp[d].version \in 0..2 /\ hidpp[d].is_present \in BOOLEAN
        /\ {hidpp[d].kind, hidpp[d].model, hidpp[d].serial, hidpp[d].batt} \subseteq Known
    BY <2>1 DEF HidppObject
  <2> QED  BY <1>1, <1>2, <2>2 DEF HidppRest, ClosedIsEmpty
<1>4. hidpp_job.dev \in HidppDevices \cup {Nobody} /\ crossed \in BOOLEAN
  BY <1>1 DEF HidppTyped, Job
<1>5. unifying \in [HidppDevices -> [added : BOOLEAN, present : BOOLEAN]]
  BY <1>1 DEF HidppRest, Shown
<1> QED  BY <1>3, <1>4, <1>5, Zenon DEF HidppTypeOK

-----------------------------------------------------------------------------
(* Bluetooth devices.                                                      *)

BluezKind == {AppearanceKind(a) : a \in Nat \X Nat} \cup {"unknown"}
BluezDevice == [path : BluezObjects, type : BluezKind, percentage : BluezLevels \cup {0}]
BluezSignal == BluezObjects \X {"added", "removed", "changed"} \X (BluezInterfaces \cup BluezLevels)

\* Signals are of an interface, or of the percentage.
SignalOf(m, o, what, value) == m[1] = o /\ m[2] = what /\ m[3] = value
Changed(m, o) == m[1] = o /\ m[2] = "changed"
RemovalWaits(signals, o) ==
  \E i \in 1..Len(signals) : SignalOf(signals[i], o, "removed", "Battery1")
ChangeWaits(signals, o) == \E i \in 1..Len(signals) : Changed(signals[i], o)

SignalsAreTyped(signals) ==
  /\ signals \in Seq(BluezSignal)
  /\ \A i \in 1..Len(signals) :
       /\ signals[i][2] = "changed" => signals[i][3] \in BluezLevels
       /\ signals[i][2] # "changed" => signals[i][3] \in BluezInterfaces

\* The removal of an interface follows its coming.
AddedAreRemoved(signals, o) ==
  \A i \in 1..Len(signals) : SignalOf(signals[i], o, "added", "Battery1") =>
    \E j \in 1..Len(signals) : j > i /\ SignalOf(signals[j], o, "removed", "Battery1")

\* The last change that waits tells this level.
LastIs(signals, o, level) ==
  \A i \in 1..Len(signals) :
    /\ Changed(signals[i], o)
    /\ \A j \in 1..Len(signals) : j > i => ~Changed(signals[j], o)
    => signals[i][3] = level

BluezTyped ==
  /\ bluez_running \in BOOLEAN /\ bluez_client \in BOOLEAN
  /\ bluez_ifaces \in [BluezObjects -> SUBSET BluezInterfaces]
  /\ bluez_view \in [BluezObjects -> SUBSET BluezInterfaces]
  /\ bluez_level \in [BluezObjects -> BluezLevels]
  /\ SignalsAreTyped(bluez_signals)
  /\ bluez_devices \subseteq BluezDevice
  /\ bluez_announced \subseteq BluezObjects /\ bluez_lost \subseteq BluezObjects
  /\ bluez_stale \subseteq BluezObjects

-----------------------------------------------------------------------------
(* The inductive invariant.                                                *)

\* Each object is listed once, and announced.
ListedOnce ==
  /\ \A d, e \in bluez_devices : d.path = e.path => d = e
  /\ \A o \in BluezObjects : o \in bluez_announced <=> \E d \in bluez_devices : d.path = o

\* Without a client there are no signals, and what is listed is left over.
NoClient ==
  bluez_client = FALSE =>
    bluez_signals = <<>> /\ \A d \in bluez_devices : d.path \in bluez_stale

\* What the client knows to have a battery is listed, and what is listed, if not
\* left over, the client knows to have one.
ViewIsListed ==
  bluez_client = TRUE =>
    /\ \A o \in BluezObjects :
         "Battery1" \in bluez_view[o] /\ o \notin bluez_lost => o \in bluez_announced
    /\ \A d \in bluez_devices : d.path \notin bluez_stale => "Battery1" \in bluez_view[d.path]

Follows == bluez_client = TRUE /\ bluez_running = TRUE

\* A battery that the object has no more is to be removed, also when the client has
\* still to hear of its coming.
RemovalIsTold(o) ==
  Follows /\ "Battery1" \notin bluez_ifaces[o] =>
    /\ "Battery1" \in bluez_view[o] => RemovalWaits(bluez_signals, o)
    /\ AddedAreRemoved(bluez_signals, o)

\* A device shows the level, is to be told it, or is to be removed.
LevelIsFollowed(d) ==
  Follows /\ d.path \notin bluez_stale =>
    \/ d.percentage = bluez_level[d.path]
    \/ ChangeWaits(bluez_signals, d.path)
    \/ RemovalWaits(bluez_signals, d.path)

BluezIInv ==
  /\ BluezTyped /\ ListedOnce /\ NoClient /\ ViewIsListed
  /\ \A o \in BluezObjects : RemovalIsTold(o) /\ LastIs(bluez_signals, o, bluez_level[o])
  /\ \A d \in bluez_devices : LevelIsFollowed(d)

-----------------------------------------------------------------------------
(* Devices that are made.                                                  *)

LEMMA ColdplugIsADevice ==
  ASSUME BluezTyped, NEW o \in BluezObjects
  PROVE  /\ BluezColdplug(o) \in BluezDevice /\ BluezColdplug(o).path = o
         /\ "Battery1" \in bluez_ifaces[o] => BluezColdplug(o).percentage = bluez_level[o]
<1> DEFINE type == IF "Device1" \in bluez_ifaces[o] THEN AppearanceKind(Appearances[o])
                   ELSE "unknown"
           percentage == IF "Battery1" \in bluez_ifaces[o] THEN bluez_level[o] ELSE 0
<1>1. BluezColdplug(o) = [path |-> o, type |-> type, percentage |-> percentage]
  BY Zenon DEF BluezColdplug
<1>2. type \in BluezKind
  <2>1. Appearances[o] \in Nat \X Nat
    BY BluezAssumption
  <2> QED  BY <2>1, Zenon DEF BluezKind
<1>3. percentage \in BluezLevels \cup {0}
  BY DEF BluezTyped
<1>4. "Battery1" \in bluez_ifaces[o] => percentage = bluez_level[o]
  OBVIOUS
<1> HIDE DEF type, percentage
<1> QED  BY <1>1, <1>2, <1>3, <1>4 DEF BluezDevice

\* What is added: a device for each object that the view has with a battery and the
\* list has not, but for those that cannot be read.
Added(objects, view) ==
  /\ bluez_devices' \subseteq BluezDevice
  /\ bluez_announced' \subseteq BluezObjects /\ bluez_lost' \subseteq BluezObjects
  /\ bluez_stale' = bluez_stale
  /\ ListedOnce'
  /\ \A d \in bluez_devices' :
       \/ d \in bluez_devices
       \/ /\ d.path \in objects /\ "Battery1" \in view[d.path]
          /\ "Battery1" \in bluez_ifaces[d.path] => d.percentage = bluez_level[d.path]
  /\ \A o \in BluezObjects :
       /\ o \in bluez_announced => o \in bluez_announced'
       /\ o \in bluez_lost => o \in bluez_lost' \cup bluez_announced'
       /\ o \in objects /\ "Battery1" \in view[o] => o \in bluez_lost' \cup bluez_announced'

LEMMA AddAdds ==
  ASSUME BluezTyped, ListedOnce, NEW objects \in SUBSET BluezObjects, NEW view,
         BluezAdd(objects, view)
  PROVE  Added(objects, view)
<1> DEFINE new == {o \in objects : "Battery1" \in view[o] /\ BluezLookup(o) = {}}
<1>1. PICK failed \in SUBSET new :
        /\ bluez_devices' = bluez_devices \cup {BluezColdplug(o) : o \in new \ failed}
        /\ bluez_announced' = bluez_announced \cup (new \ failed)
        /\ bluez_lost' = (bluez_lost \ new) \cup failed
        /\ bluez_stale' = bluez_stale
  BY Zenon DEF BluezAdd
<1>2. new \subseteq BluezObjects /\ failed \subseteq BluezObjects
  OBVIOUS
<1>3. \A o \in new : /\ o \in objects /\ "Battery1" \in view[o]
                     /\ \A d \in bluez_devices : d.path # o
  BY DEF BluezLookup
<1>4. \A o \in objects : "Battery1" \in view[o] =>
        o \in new \/ \E d \in bluez_devices : d.path = o
  BY DEF BluezLookup
<1> HIDE DEF new
<1>5. \A o \in BluezObjects :
        /\ BluezColdplug(o) \in BluezDevice /\ BluezColdplug(o).path = o
        /\ "Battery1" \in bluez_ifaces[o] => BluezColdplug(o).percentage = bluez_level[o]
  BY ColdplugIsADevice
<1>6. \A d \in bluez_devices' :
        d \in bluez_devices \/ \E o \in new \ failed : d = BluezColdplug(o)
  BY <1>1, Zenon
<1>7. \A o \in new \ failed : BluezColdplug(o) \in bluez_devices'
  BY <1>1, Zenon
<1>8. bluez_devices \subseteq bluez_devices'
  BY <1>1, Zenon
<1>9. bluez_devices' \subseteq BluezDevice
  <2>1. ASSUME NEW d \in bluez_devices' PROVE d \in BluezDevice
    BY <1>2, <1>5, <1>6 DEF BluezTyped
  <2> QED  BY <2>1
<1>10. bluez_announced' \subseteq BluezObjects /\ bluez_lost' \subseteq BluezObjects
  BY <1>1, <1>2 DEF BluezTyped
<1>11. ASSUME NEW d \in bluez_devices', NEW e \in bluez_devices', d.path = e.path
       PROVE  d = e
  <2>1. CASE d \in bluez_devices /\ e \in bluez_devices
    BY <1>11, <2>1, Zenon DEF ListedOnce
  <2>2. CASE d \notin bluez_devices
    <3>1. PICK o \in new \ failed : d = BluezColdplug(o)
      BY <1>6, <2>2, Zenon
    <3>2. d.path = o
      BY <1>2, <1>5, <3>1
    <3>3. e \notin bluez_devices
      BY <1>3, <1>11, <3>2, Zenon
    <3>4. PICK p \in new \ failed : e = BluezColdplug(p)
      BY <1>6, <3>3, Zenon
    <3>5. e.path = p
      BY <1>2, <1>5, <3>4
    <3> QED  BY <1>11, <3>1, <3>2, <3>4, <3>5
  <2>3. CASE e \notin bluez_devices
    <3>1. PICK o \in new \ failed : e = BluezColdplug(o)
      BY <1>6, <2>3, Zenon
    <3>2. e.path = o
      BY <1>2, <1>5, <3>1
    <3>3. d \notin bluez_devices
      BY <1>3, <1>11, <3>2, Zenon
    <3>4. PICK p \in new \ failed : d = BluezColdplug(p)
      BY <1>6, <3>3, Zenon
    <3>5. d.path = p
      BY <1>2, <1>5, <3>4
    <3> QED  BY <1>11, <3>1, <3>2, <3>4, <3>5
  <2> QED  BY <2>1, <2>2, <2>3
<1>12. ASSUME NEW o \in BluezObjects
       PROVE  o \in bluez_announced' <=> \E d \in bluez_devices' : d.path = o
  <2>1. ASSUME o \in bluez_announced' PROVE \E d \in bluez_devices' : d.path = o
    <3>1. CASE o \in bluez_announced
      BY <1>8, <3>1 DEF ListedOnce
    <3>2. CASE o \in new \ failed
      BY <1>5, <1>7, <3>2
    <3> QED  BY <1>1, <2>1, <3>1, <3>2
  <2>2. ASSUME NEW d \in bluez_devices', d.path = o PROVE o \in bluez_announced'
    <3>1. CASE d \in bluez_devices
      BY <1>1, <2>2, <3>1 DEF ListedOnce
    <3>2. CASE \E p \in new \ failed : d = BluezColdplug(p)
      BY <1>1, <1>2, <1>5, <2>2, <3>2
    <3> QED  BY <1>6, <2>2, <3>1, <3>2
  <2> QED  BY <2>1, <2>2
<1>13. ASSUME NEW d \in bluez_devices', d \notin bluez_devices
       PROVE  /\ d.path \in objects /\ "Battery1" \in view[d.path]
              /\ "Battery1" \in bluez_ifaces[d.path] => d.percentage = bluez_level[d.path]
  <2>1. PICK o \in new \ failed : d = BluezColdplug(o)
    BY <1>6, <1>13, Zenon
  <2>2. d.path = o
    BY <1>2, <1>5, <2>1
  <2> QED  BY <1>2, <1>3, <1>5, <2>1, <2>2
<1>14. ASSUME NEW o \in BluezObjects
       PROVE  /\ o \in bluez_announced => o \in bluez_announced'
              /\ o \in bluez_lost => o \in bluez_lost' \cup bluez_announced'
              /\ o \in objects /\ "Battery1" \in view[o] => o \in bluez_lost' \cup bluez_announced'
  <2>1. o \in new => o \in bluez_lost' \cup bluez_announced'
    BY <1>1
  <2>2. (\E d \in bluez_devices : d.path = o) => o \in bluez_announced'
    BY <1>1 DEF ListedOnce
  <2> QED  BY <1>1, <1>4, <2>1, <2>2
<1>15. ListedOnce'
  BY <1>11, <1>12, Zenon DEF ListedOnce
<1> QED  BY <1>1, <1>9, <1>10, <1>13, <1>14, <1>15, Zenon DEF Added

-----------------------------------------------------------------------------
(* Signals that are taken.                                                 *)

LEMMA TailOfSignals ==
  ASSUME NEW s, NEW t, SignalsAreTyped(s), s # <<>>, t = Tail(s)
  PROVE  /\ SignalsAreTyped(t) /\ Head(s) = s[1] /\ 1 \in 1..Len(s) /\ s[1] \in BluezSignal
         /\ \A i \in 1..Len(t) : i + 1 \in 1..Len(s) /\ t[i] = s[i + 1]
         /\ \A i \in 1..Len(s) : i # 1 => i - 1 \in 1..Len(t) /\ t[i - 1] = s[i]
<1>1. s \in Seq(BluezSignal)
  BY DEF SignalsAreTyped
<1>2. /\ t \in Seq(BluezSignal) /\ Head(s) = s[1] /\ 1 \in 1..Len(s) /\ s[1] \in BluezSignal
      /\ \A i \in 1..Len(t) : i + 1 \in 1..Len(s) /\ t[i] = s[i + 1]
      /\ \A i \in 1..Len(s) : i # 1 => i - 1 \in 1..Len(t) /\ t[i - 1] = s[i]
  BY <1>1
<1>3. \A i \in 1..Len(t) :
        /\ t[i][2] = "changed" => t[i][3] \in BluezLevels
        /\ t[i][2] # "changed" => t[i][3] \in BluezInterfaces
  BY <1>2 DEF SignalsAreTyped
<1> QED  BY <1>2, <1>3, Zenon DEF SignalsAreTyped

\* What is left of the queue when its first signal is taken.
LEMMA WhatIsLeft ==
  ASSUME NEW s, NEW t, SignalsAreTyped(s), s # <<>>, t = Tail(s), NEW o
  PROVE  /\ RemovalWaits(s, o) => RemovalWaits(t, o) \/ SignalOf(s[1], o, "removed", "Battery1")
         /\ ChangeWaits(s, o) => ChangeWaits(t, o) \/ Changed(s[1], o)
         /\ AddedAreRemoved(s, o) => AddedAreRemoved(t, o)
         /\ AddedAreRemoved(s, o) /\ SignalOf(s[1], o, "added", "Battery1") => RemovalWaits(t, o)
<1>1. /\ 1 \in 1..Len(s)
      /\ \A i \in 1..Len(t) : i + 1 \in 1..Len(s) /\ t[i] = s[i + 1]
      /\ \A i \in 1..Len(s) : i # 1 => i - 1 \in 1..Len(t) /\ t[i - 1] = s[i]
  BY TailOfSignals
<1>2. RemovalWaits(s, o) => RemovalWaits(t, o) \/ SignalOf(s[1], o, "removed", "Battery1")
  BY <1>1, Zenon DEF RemovalWaits
<1>3. ChangeWaits(s, o) => ChangeWaits(t, o) \/ Changed(s[1], o)
  BY <1>1, Zenon DEF ChangeWaits
<1>4. ASSUME AddedAreRemoved(s, o), NEW i \in 1..Len(t), SignalOf(t[i], o, "added", "Battery1")
      PROVE  \E j \in 1..Len(t) : j > i /\ SignalOf(t[j], o, "removed", "Battery1")
  <2>1. PICK j \in 1..Len(s) : j > i + 1 /\ SignalOf(s[j], o, "removed", "Battery1")
    BY <1>1, <1>4, Zenon DEF AddedAreRemoved
  <2>2. j # 1 /\ j - 1 > i
    BY <2>1
  <2> QED  BY <1>1, <2>1, <2>2, Zenon
<1>5. ASSUME AddedAreRemoved(s, o), SignalOf(s[1], o, "added", "Battery1")
      PROVE  RemovalWaits(t, o)
  <2>1. PICK j \in 1..Len(s) : j > 1 /\ SignalOf(s[j], o, "removed", "Battery1")
    BY <1>1, <1>5, Zenon DEF AddedAreRemoved
  <2>2. j # 1
    BY <2>1
  <2> QED  BY <1>1, <2>1, <2>2, Zenon DEF RemovalWaits
<1> QED  BY <1>2, <1>3, <1>4, <1>5, Zenon DEF AddedAreRemoved

\* The last change that is left is the last that there was, and a change that is
\* taken is the last one or another is left.
LEMMA LastIsLeft ==
  ASSUME NEW s, NEW t, SignalsAreTyped(s), s # <<>>, t = Tail(s), NEW o, NEW level,
         LastIs(s, o, level)
  PROVE  /\ LastIs(t, o, level)
         /\ Changed(s[1], o) => ChangeWaits(t, o) \/ s[1][3] = level
<1>1. /\ 1 \in 1..Len(s)
      /\ \A i \in 1..Len(t) : i + 1 \in 1..Len(s) /\ t[i] = s[i + 1]
      /\ \A i \in 1..Len(s) : i # 1 => i - 1 \in 1..Len(t) /\ t[i - 1] = s[i]
  BY TailOfSignals
<1>2. ASSUME NEW i \in 1..Len(t), Changed(t[i], o),
             \A j \in 1..Len(t) : j > i => ~Changed(t[j], o)
      PROVE  t[i][3] = level
  <2>1. i + 1 \in 1..Len(s) /\ t[i] = s[i + 1]
    BY <1>1
  <2>2. ASSUME NEW j \in 1..Len(s), j > i + 1 PROVE ~Changed(s[j], o)
    <3>1. j # 1 /\ j - 1 > i
      BY <2>2
    <3> QED  BY <1>1, <1>2, <3>1, Zenon
  <2> QED  BY <1>2, <2>1, <2>2, Zenon DEF LastIs
<1>3. ASSUME Changed(s[1], o), ~ChangeWaits(t, o) PROVE s[1][3] = level
  <2>1. ASSUME NEW j \in 1..Len(s), j > 1 PROVE ~Changed(s[j], o)
    <3>1. j # 1
      BY <2>1
    <3> QED  BY <1>1, <1>3, <3>1, Zenon DEF ChangeWaits
  <2> QED  BY <1>1, <1>3, <2>1, Zenon DEF LastIs
<1> QED  BY <1>2, <1>3, Zenon DEF LastIs

\* A signal that is raised.
LEMMA WhatIsAppended ==
  ASSUME NEW s, NEW t, NEW m \in BluezSignal, SignalsAreTyped(s), t = Append(s, m),
         m[2] = "changed" => m[3] \in BluezLevels, m[2] # "changed" => m[3] \in BluezInterfaces
  PROVE  /\ SignalsAreTyped(t) /\ Len(t) \in 1..Len(t) /\ t[Len(t)] = m
         /\ \A i \in 1..Len(s) : i \in 1..Len(t) /\ i < Len(t) /\ t[i] = s[i]
         /\ \A i \in 1..Len(t) : i # Len(t) => i \in 1..Len(s) /\ i < Len(t)
<1>1. s \in Seq(BluezSignal)
  BY DEF SignalsAreTyped
<1> HIDE DEF BluezSignal
<1>2. /\ t \in Seq(BluezSignal) /\ Len(t) \in 1..Len(t) /\ t[Len(t)] = m
      /\ \A i \in 1..Len(s) : i \in 1..Len(t) /\ i < Len(t) /\ t[i] = s[i]
      /\ \A i \in 1..Len(t) : i # Len(t) => i \in 1..Len(s) /\ i < Len(t)
  BY <1>1
<1>3. \A i \in 1..Len(t) :
        /\ t[i][2] = "changed" => t[i][3] \in BluezLevels
        /\ t[i][2] # "changed" => t[i][3] \in BluezInterfaces
  BY <1>2, Zenon DEF SignalsAreTyped
<1> QED  BY <1>2, <1>3, Zenon DEF SignalsAreTyped

\* What the queue says of an object when a signal is raised.
LEMMA WhatIsSaid ==
  ASSUME NEW s, NEW t, NEW m \in BluezSignal, SignalsAreTyped(s), t = Append(s, m),
         m[2] = "changed" => m[3] \in BluezLevels, m[2] # "changed" => m[3] \in BluezInterfaces,
         NEW o
  PROVE  /\ RemovalWaits(s, o) => RemovalWaits(t, o)
         /\ ChangeWaits(s, o) => ChangeWaits(t, o)
         /\ SignalOf(m, o, "removed", "Battery1") => RemovalWaits(t, o) /\ AddedAreRemoved(t, o)
         /\ AddedAreRemoved(s, o) /\ ~SignalOf(m, o, "added", "Battery1") =>
              AddedAreRemoved(t, o)
         /\ Changed(m, o) => ChangeWaits(t, o) /\ LastIs(t, o, m[3])
         /\ ~Changed(m, o) => \A level : LastIs(s, o, level) => LastIs(t, o, level)
<1>1. /\ Len(t) \in 1..Len(t) /\ t[Len(t)] = m
      /\ \A i \in 1..Len(s) : i \in 1..Len(t) /\ i < Len(t) /\ t[i] = s[i]
      /\ \A i \in 1..Len(t) : i # Len(t) => i \in 1..Len(s) /\ i < Len(t)
  BY WhatIsAppended
<1>2. RemovalWaits(s, o) => RemovalWaits(t, o)
  BY <1>1, Zenon DEF RemovalWaits
<1>3. ChangeWaits(s, o) => ChangeWaits(t, o)
  BY <1>1, Zenon DEF ChangeWaits
<1>4. ASSUME SignalOf(m, o, "removed", "Battery1")
      PROVE  RemovalWaits(t, o) /\ AddedAreRemoved(t, o)
  <2>1. RemovalWaits(t, o)
    BY <1>1, <1>4, Zenon DEF RemovalWaits
  <2>2. ASSUME NEW i \in 1..Len(t), SignalOf(t[i], o, "added", "Battery1")
        PROVE  \E j \in 1..Len(t) : j > i /\ SignalOf(t[j], o, "removed", "Battery1")
    <3>1. i # Len(t)
      BY <1>1, <1>4, <2>2 DEF SignalOf
    <3>2. Len(t) > i
      BY <1>1, <3>1
    <3> QED  BY <1>1, <1>4, <3>2
  <2> QED  BY <2>1, <2>2, Zenon DEF AddedAreRemoved
<1>5. ASSUME AddedAreRemoved(s, o), ~SignalOf(m, o, "added", "Battery1")
      PROVE  AddedAreRemoved(t, o)
  <2>1. ASSUME NEW i \in 1..Len(t), SignalOf(t[i], o, "added", "Battery1")
        PROVE  \E j \in 1..Len(t) : j > i /\ SignalOf(t[j], o, "removed", "Battery1")
    <3>1. i \in 1..Len(s) /\ t[i] = s[i]
      BY <1>1, <1>5, <2>1, Zenon
    <3> QED  BY <1>1, <1>5, <2>1, <3>1, Zenon DEF AddedAreRemoved
  <2> QED  BY <2>1, Zenon DEF AddedAreRemoved
<1>6. ASSUME Changed(m, o) PROVE ChangeWaits(t, o) /\ LastIs(t, o, m[3])
  <2>1. ChangeWaits(t, o)
    BY <1>1, <1>6, Zenon DEF ChangeWaits
  <2>2. ASSUME NEW i \in 1..Len(t), \A j \in 1..Len(t) : j > i => ~Changed(t[j], o)
        PROVE  t[i][3] = m[3]
    <3>1. ~(Len(t) > i)
      BY <1>1, <1>6, <2>2, Zenon
    <3>2. i = Len(t)
      BY <1>1, <3>1
    <3> QED  BY <1>1, <3>2
  <2> QED  BY <2>1, <2>2, Zenon DEF LastIs
<1>7. ASSUME ~Changed(m, o), NEW level, LastIs(s, o, level) PROVE LastIs(t, o, level)
  <2>1. ASSUME NEW i \in 1..Len(t), Changed(t[i], o),
               \A j \in 1..Len(t) : j > i => ~Changed(t[j], o)
        PROVE  t[i][3] = level
    <3>1. i \in 1..Len(s) /\ t[i] = s[i]
      BY <1>1, <1>7, <2>1, Zenon
    <3>2. \A j \in 1..Len(s) : j > i => ~Changed(s[j], o)
      BY <1>1, <2>1, Zenon
    <3> QED  BY <1>7, <2>1, <3>1, <3>2, Zenon DEF LastIs
  <2> QED  BY <2>1, Zenon DEF LastIs
<1> QED  BY <1>2, <1>3, <1>4, <1>5, <1>6, <1>7, Zenon

-----------------------------------------------------------------------------
(* The steps of BlueZ.                                                     *)

LEMMA InitBluez == BluezInit => BluezIInv
<1> SUFFICES ASSUME BluezInit PROVE BluezIInv
  OBVIOUS
<1>1. (CHOOSE level \in BluezLevels : TRUE) \in BluezLevels
  BY BluezAssumption
<1>2. SignalsAreTyped(bluez_signals)
  BY DEF BluezInit, SignalsAreTyped
<1>3. BluezTyped
  BY <1>1, <1>2 DEF BluezInit, BluezTyped
<1>4. ListedOnce /\ NoClient /\ ViewIsListed /\ \A d \in bluez_devices : LevelIsFollowed(d)
  BY DEF BluezInit, ListedOnce, NoClient, ViewIsListed
<1>5. \A o \in BluezObjects : RemovalIsTold(o) /\ LastIs(bluez_signals, o, bluez_level[o])
  <2>1. ~Follows /\ bluez_signals = <<>>
    BY DEF BluezInit, Follows
  <2>2. \A o \in BluezObjects : RemovalIsTold(o)
    BY <2>1, Zenon DEF RemovalIsTold
  <2>3. \A o \in BluezObjects : LastIs(bluez_signals, o, bluez_level[o])
    BY <2>1 DEF LastIs
  <2> QED  BY <2>2, <2>3
<1> QED  BY <1>3, <1>4, <1>5, Zenon DEF BluezIInv

\* What the daemon knows and lists is left alone.
DaemonRests ==
  UNCHANGED <<bluez_client, bluez_view, bluez_devices, bluez_announced, bluez_lost, bluez_stale>>

LEMMA RestIsKept ==
  ASSUME BluezIInv, DaemonRests
  PROVE  /\ ListedOnce' /\ ViewIsListed'
         /\ (bluez_client = FALSE /\ bluez_signals' = <<>> => NoClient')
BY DEF BluezIInv, DaemonRests, ListedOnce, ViewIsListed, NoClient

LEMMA StartsKeep ==
  ASSUME BluezIInv, BluezStarts \/ BluezStops
  PROVE  BluezIInv'
<1>1. /\ DaemonRests /\ UNCHANGED <<bluez_level, bluez_signals>> /\ bluez_running' \in BOOLEAN
      /\ ~Follows' /\ bluez_ifaces' \in [BluezObjects -> SUBSET BluezInterfaces]
  <2>1. CASE BluezStarts
    BY <2>1 DEF BluezStarts, BluezIInv, BluezTyped, DaemonRests, bluezListVars, Follows,
                  BluezInterfaces
  <2>2. CASE BluezStops
    BY <2>2 DEF BluezStops, BluezIInv, BluezTyped, DaemonRests, bluezListVars, Follows,
                  BluezInterfaces
  <2> QED  BY <2>1, <2>2
<1>2. BluezTyped'
  BY <1>1 DEF BluezIInv, BluezTyped, DaemonRests
<1>3. ListedOnce' /\ ViewIsListed'
  BY <1>1, RestIsKept
<1>4. NoClient'
  BY <1>1 DEF BluezIInv, NoClient, DaemonRests
<1>5. \A o \in BluezObjects : RemovalIsTold(o)'
  BY <1>1, Zenon DEF RemovalIsTold
<1>6. \A o \in BluezObjects : LastIs(bluez_signals, o, bluez_level[o])'
  BY <1>1 DEF BluezIInv
<1>7. \A d \in bluez_devices' : LevelIsFollowed(d)'
  BY <1>1, Zenon DEF LevelIsFollowed
<1> QED  BY <1>2, <1>3, <1>4, <1>5, <1>6, <1>7, Zenon DEF BluezIInv

\* A signal of an object, and what has become of the object when it is raised.
Told(o, what, value) ==
  /\ DaemonRests /\ bluez_running = TRUE /\ bluez_running' = TRUE
  /\ bluez_client = TRUE => bluez_signals' = Append(bluez_signals, <<o, what, value>>)
  /\ bluez_client = FALSE => bluez_signals' = bluez_signals
  /\ bluez_ifaces' \in [BluezObjects -> SUBSET BluezInterfaces]
  /\ bluez_level' \in [BluezObjects -> BluezLevels]
  /\ what # "changed" => bluez_level' = bluez_level
  /\ \A p \in BluezObjects : p # o => bluez_level'[p] = bluez_level[p]
  /\ what = "changed" => bluez_level'[o] = value
  /\ \A p \in BluezObjects : "Battery1" \in bluez_ifaces[p] /\ "Battery1" \notin bluez_ifaces'[p] =>
        p = o /\ what = "removed" /\ value = "Battery1"
  /\ what = "added" /\ value = "Battery1" => "Battery1" \in bluez_ifaces'[o]

LEMMA ToldKeeps ==
  ASSUME BluezIInv, NEW o \in BluezObjects, NEW what \in {"added", "removed", "changed"},
         NEW value, Told(o, what, value),
         what = "changed" => value \in BluezLevels,
         what # "changed" => value \in BluezInterfaces
  PROVE  BluezIInv'
<1> DEFINE m == <<o, what, value>>
<1>1. /\ m \in BluezSignal /\ m[1] = o /\ m[2] = what /\ m[3] = value
      /\ m[2] = "changed" => m[3] \in BluezLevels
      /\ m[2] # "changed" => m[3] \in BluezInterfaces
  BY DEF BluezSignal
<1>2. SignalsAreTyped(bluez_signals) /\ bluez_client \in BOOLEAN
  BY DEF BluezIInv, BluezTyped
<1>3. bluez_client = TRUE => bluez_signals' = Append(bluez_signals, m)
  BY DEF Told
<1>4. bluez_client = FALSE => bluez_signals' = bluez_signals /\ bluez_signals = <<>>
  BY DEF Told, BluezIInv, NoClient
<1> HIDE DEF m
<1>5. SignalsAreTyped(bluez_signals')
  <2>1. bluez_client = TRUE => SignalsAreTyped(bluez_signals')
    BY <1>1, <1>2, <1>3, WhatIsAppended
  <2> QED  BY <1>2, <1>4, <2>1
<1>6. BluezTyped'
  BY <1>5 DEF BluezIInv, BluezTyped, Told, DaemonRests
<1>7. ListedOnce' /\ ViewIsListed' /\ DaemonRests
  BY RestIsKept DEF Told
<1>8. NoClient'
  BY <1>4, <1>7 DEF BluezIInv, NoClient, DaemonRests
<1>9. \A p \in BluezObjects : bluez_client = TRUE =>
        /\ RemovalWaits(bluez_signals, p) => RemovalWaits(bluez_signals', p)
        /\ ChangeWaits(bluez_signals, p) => ChangeWaits(bluez_signals', p)
        /\ SignalOf(m, p, "removed", "Battery1") =>
             RemovalWaits(bluez_signals', p) /\ AddedAreRemoved(bluez_signals', p)
        /\ AddedAreRemoved(bluez_signals, p) /\ ~SignalOf(m, p, "added", "Battery1") =>
             AddedAreRemoved(bluez_signals', p)
        /\ Changed(m, p) => ChangeWaits(bluez_signals', p) /\ LastIs(bluez_signals', p, m[3])
        /\ ~Changed(m, p) => \A level : LastIs(bluez_signals, p, level) =>
             LastIs(bluez_signals', p, level)
  BY <1>1, <1>2, <1>3, WhatIsSaid
<1>10. ASSUME NEW p \in BluezObjects PROVE RemovalIsTold(p)'
  <2>1. SUFFICES ASSUME bluez_client = TRUE, "Battery1" \notin bluez_ifaces'[p]
                 PROVE  /\ "Battery1" \in bluez_view[p] => RemovalWaits(bluez_signals', p)
                        /\ AddedAreRemoved(bluez_signals', p)
    BY <1>7, Zenon DEF RemovalIsTold, Follows, DaemonRests
  <2>2. CASE "Battery1" \in bluez_ifaces[p]
    <3>1. SignalOf(m, p, "removed", "Battery1")
      BY <1>1, <2>1, <2>2 DEF Told, SignalOf
    <3> QED  BY <1>9, <2>1, <3>1
  <2>3. CASE "Battery1" \notin bluez_ifaces[p]
    <3>1. ~SignalOf(m, p, "added", "Battery1")
      BY <1>1, <2>1 DEF Told, SignalOf
    <3>2. Follows
      BY <2>1 DEF Follows, Told
    <3>3. /\ "Battery1" \in bluez_view[p] => RemovalWaits(bluez_signals, p)
          /\ AddedAreRemoved(bluez_signals, p)
      BY <2>3, <3>2, Zenon DEF BluezIInv, RemovalIsTold
    <3> QED  BY <1>9, <2>1, <3>1, <3>3, Zenon
  <2> QED  BY <2>2, <2>3
<1>11. ASSUME NEW p \in BluezObjects PROVE LastIs(bluez_signals', p, bluez_level'[p])
  <2>1. LastIs(bluez_signals, p, bluez_level[p])
    BY DEF BluezIInv
  <2>2. CASE bluez_client = FALSE
    BY <1>4, <2>2 DEF LastIs
  <2>3. CASE bluez_client = TRUE /\ Changed(m, p)
    <3>1. m[3] = bluez_level'[p]
      BY <1>1, <2>3 DEF Told, Changed
    <3> QED  BY <1>9, <2>3, <3>1, Zenon
  <2>4. CASE bluez_client = TRUE /\ ~Changed(m, p)
    <3>1. bluez_level'[p] = bluez_level[p]
      BY <1>1, <2>4, Zenon DEF Told, Changed
    <3> QED  BY <1>9, <2>1, <2>4, <3>1, Zenon
  <2> QED  BY <1>2, <2>2, <2>3, <2>4
<1>12. ASSUME NEW d \in bluez_devices' PROVE LevelIsFollowed(d)'
  <2>1. SUFFICES ASSUME bluez_client = TRUE, d.path \notin bluez_stale
                 PROVE  \/ d.percentage = bluez_level'[d.path]
                        \/ ChangeWaits(bluez_signals', d.path)
                        \/ RemovalWaits(bluez_signals', d.path)
    BY <1>7, Zenon DEF LevelIsFollowed, Follows, DaemonRests
  <2>2. d \in bluez_devices /\ d.path \in BluezObjects
    BY <1>7 DEF DaemonRests, BluezIInv, BluezTyped, BluezDevice
  <2>3. \/ d.percentage = bluez_level[d.path] \/ ChangeWaits(bluez_signals, d.path)
        \/ RemovalWaits(bluez_signals, d.path)
    BY <2>1, <2>2 DEF BluezIInv, LevelIsFollowed, Follows, Told
  <2>4. CASE Changed(m, d.path)
    BY <1>9, <2>1, <2>2, <2>4
  <2>5. CASE ~Changed(m, d.path)
    <3>1. bluez_level'[d.path] = bluez_level[d.path]
      BY <1>1, <2>2, <2>5, Zenon DEF Told, Changed
    <3> QED  BY <1>9, <2>1, <2>2, <2>3, <3>1
  <2> QED  BY <2>4, <2>5
<1> QED  BY <1>6, <1>7, <1>8, <1>10, <1>11, <1>12, Zenon DEF BluezIInv

LEMMA RaisedIsTold ==
  ASSUME BluezIInv, NEW o \in BluezObjects, NEW i \in BluezInterfaces, NEW level \in BluezLevels
  PROVE  /\ BluezGainsInterface(o, i) => Told(o, "added", i)
         /\ BluezLosesInterface(o, i) => Told(o, "removed", i)
         /\ BluezLevelChanges(o, level) => Told(o, "changed", level)
<1>1. /\ bluez_client \in BOOLEAN /\ bluez_level \in [BluezObjects -> BluezLevels]
      /\ bluez_ifaces \in [BluezObjects -> SUBSET BluezInterfaces] /\ bluez_running \in BOOLEAN
  BY DEF BluezIInv, BluezTyped
<1>2. ASSUME NEW what, NEW value, Raise(o, what, value)
      PROVE  /\ DaemonRests /\ bluez_running = TRUE /\ bluez_running' = TRUE
             /\ bluez_client = TRUE => bluez_signals' = Append(bluez_signals, <<o, what, value>>)
             /\ bluez_client = FALSE => bluez_signals' = bluez_signals
  BY <1>1, <1>2 DEF Raise, DaemonRests, bluezListVars
<1>3. ASSUME BluezGainsInterface(o, i) PROVE Told(o, "added", i)
  <2>1. bluez_ifaces' = [bluez_ifaces EXCEPT ![o] = @ \cup {i}] /\ bluez_level' = bluez_level
    BY <1>3 DEF BluezGainsInterface
  <2>2. Raise(o, "added", i)
    BY <1>3 DEF BluezGainsInterface
  <2>3. bluez_ifaces' \in [BluezObjects -> SUBSET BluezInterfaces]
    BY <1>1, <2>1
  <2>4. \A p \in BluezObjects : bluez_ifaces[p] \subseteq bluez_ifaces'[p]
    BY <1>1, <2>1
  <2>5. i \in bluez_ifaces'[o]
    BY <1>1, <2>1
  <2> QED  BY <1>1, <1>2, <2>1, <2>2, <2>3, <2>4, <2>5 DEF Told
<1>4. ASSUME BluezLosesInterface(o, i) PROVE Told(o, "removed", i)
  <2>1. bluez_ifaces' = [bluez_ifaces EXCEPT ![o] = @ \ {i}] /\ bluez_level' = bluez_level
    BY <1>4 DEF BluezLosesInterface
  <2>2. Raise(o, "removed", i)
    BY <1>4 DEF BluezLosesInterface
  <2>3. bluez_ifaces' \in [BluezObjects -> SUBSET BluezInterfaces]
    BY <1>1, <2>1
  <2>4. \A p \in BluezObjects :
          "Battery1" \in bluez_ifaces[p] /\ "Battery1" \notin bluez_ifaces'[p] =>
          p = o /\ i = "Battery1"
    BY <1>1, <2>1
  <2> QED  BY <1>1, <1>2, <2>1, <2>2, <2>3, <2>4 DEF Told
<1>5. ASSUME BluezLevelChanges(o, level) PROVE Told(o, "changed", level)
  <2>1. bluez_level' = [bluez_level EXCEPT ![o] = level] /\ bluez_ifaces' = bluez_ifaces
    BY <1>5 DEF BluezLevelChanges
  <2>2. Raise(o, "changed", level)
    BY <1>5 DEF BluezLevelChanges
  <2>3. /\ bluez_level' \in [BluezObjects -> BluezLevels] /\ bluez_level'[o] = level
        /\ \A p \in BluezObjects : p # o => bluez_level'[p] = bluez_level[p]
    BY <1>1, <2>1
  <2> QED  BY <1>1, <1>2, <2>1, <2>2, <2>3 DEF Told
<1> QED  BY <1>3, <1>4, <1>5

LEMMA RaisesKeep ==
  ASSUME BluezIInv, NEW o \in BluezObjects, NEW i \in BluezInterfaces, NEW level \in BluezLevels,
         BluezGainsInterface(o, i) \/ BluezLosesInterface(o, i) \/ BluezLevelChanges(o, level)
  PROVE  BluezIInv'
<1>1. CASE BluezGainsInterface(o, i)
  BY <1>1, RaisedIsTold, ToldKeeps
<1>2. CASE BluezLosesInterface(o, i)
  BY <1>2, RaisedIsTold, ToldKeeps
<1>3. CASE BluezLevelChanges(o, level)
  BY <1>3, RaisedIsTold, ToldKeeps
<1> QED  BY <1>1, <1>2, <1>3

-----------------------------------------------------------------------------
(* The steps of the daemon.                                                *)

LEMMA AppearedKeeps ==
  ASSUME BluezIInv, BluezAppeared
  PROVE  BluezIInv'
<1>1. /\ bluez_running = TRUE /\ bluez_client = FALSE /\ bluez_client' = TRUE
      /\ BluezAdd(BluezObjects, bluez_ifaces) /\ bluez_view' = bluez_ifaces
      /\ UNCHANGED <<bluez_running, bluez_ifaces, bluez_level, bluez_signals>>
  BY DEF BluezAppeared, bluezServiceVars, BluezAdd, BluezIInv, BluezTyped
<1>2. Added(BluezObjects, bluez_ifaces)
  BY <1>1, AddAdds DEF BluezIInv
<1>3. bluez_signals = <<>> /\ \A d \in bluez_devices : d.path \in bluez_stale
  BY <1>1, Zenon DEF BluezIInv, NoClient
<1>4. BluezTyped'
  BY <1>1, <1>2 DEF BluezIInv, BluezTyped, Added
<1>5. ListedOnce' /\ NoClient'
  BY <1>1, <1>2 DEF Added, NoClient
<1>6. \A d \in bluez_devices' : d.path \notin bluez_stale' =>
        /\ "Battery1" \in bluez_ifaces[d.path] /\ d.percentage = bluez_level[d.path]
  BY <1>2, <1>3, Zenon DEF Added
<1>7. ViewIsListed'
  <2>1. \A o \in BluezObjects :
          "Battery1" \in bluez_ifaces[o] => o \in bluez_lost' \cup bluez_announced'
    BY <1>2, Zenon DEF Added
  <2> QED  BY <1>1, <1>6, <2>1 DEF ViewIsListed
<1>8. ASSUME NEW o \in BluezObjects
      PROVE  RemovalIsTold(o)' /\ LastIs(bluez_signals', o, bluez_level'[o])
  <2>1. AddedAreRemoved(bluez_signals', o) /\ LastIs(bluez_signals', o, bluez_level'[o])
    BY <1>1, <1>3 DEF AddedAreRemoved, LastIs
  <2> QED  BY <1>1, <2>1, Zenon DEF RemovalIsTold
<1>9. \A d \in bluez_devices' : LevelIsFollowed(d)'
  BY <1>1, <1>6, Zenon DEF LevelIsFollowed
<1> QED  BY <1>4, <1>5, <1>7, <1>8, <1>9, Zenon DEF BluezIInv

LEMMA VanishedKeeps ==
  ASSUME BluezIInv, BluezVanished
  PROVE  BluezIInv'
<1>1. /\ bluez_client' = FALSE /\ bluez_signals = <<>>
      /\ bluez_view' = [o \in BluezObjects |-> {}] /\ bluez_lost' = {}
      /\ bluez_stale' = {d.path : d \in bluez_devices}
      /\ UNCHANGED <<bluez_running, bluez_ifaces, bluez_level, bluez_signals, bluez_devices,
                     bluez_announced>>
  BY DEF BluezVanished, bluezServiceVars
<1>2. bluez_stale' \subseteq BluezObjects /\ \A d \in bluez_devices : d.path \in bluez_stale'
  BY <1>1 DEF BluezIInv, BluezTyped, BluezDevice
<1>3. BluezTyped'
  BY <1>1, <1>2 DEF BluezIInv, BluezTyped
<1>4. ListedOnce' /\ NoClient' /\ ViewIsListed' /\ ~Follows'
  BY <1>1, <1>2 DEF BluezIInv, ListedOnce, NoClient, ViewIsListed, Follows
<1>5. \A o \in BluezObjects : RemovalIsTold(o)' /\ LastIs(bluez_signals', o, bluez_level'[o])
  <2>1. \A o \in BluezObjects : LastIs(bluez_signals', o, bluez_level'[o])
    BY <1>1 DEF LastIs
  <2> QED  BY <1>4, <2>1, Zenon DEF RemovalIsTold
<1>6. \A d \in bluez_devices' : LevelIsFollowed(d)'
  BY <1>4, Zenon DEF LevelIsFollowed
<1> QED  BY <1>3, <1>4, <1>5, <1>6, Zenon DEF BluezIInv

\* A signal that the daemon takes, of an object of BlueZ.
Taken(m, o, what) ==
  /\ bluez_client = TRUE /\ bluez_client' = TRUE /\ bluez_signals # <<>>
  /\ m = bluez_signals[1] /\ m[1] = o /\ m[2] = what
  /\ bluez_signals' = Tail(bluez_signals)
  /\ UNCHANGED <<bluez_running, bluez_ifaces, bluez_level>>

LEMMA NextIsTaken ==
  ASSUME BluezIInv, NEW o, NEW what, NextSignal(o, what)
  PROVE  /\ Taken(Head(bluez_signals), o, what)
         /\ SignalsAreTyped(bluez_signals')
         /\ what = "changed" => Head(bluez_signals)[3] \in BluezLevels
         /\ what # "changed" => Head(bluez_signals)[3] \in BluezInterfaces
<1>1. SignalsAreTyped(bluez_signals) /\ bluez_client \in BOOLEAN
  BY DEF BluezIInv, BluezTyped
<1>2. /\ bluez_client = TRUE /\ bluez_client' = bluez_client /\ bluez_signals # <<>>
      /\ Head(bluez_signals)[1] = o /\ Head(bluez_signals)[2] = what
      /\ bluez_signals' = Tail(bluez_signals)
      /\ UNCHANGED <<bluez_running, bluez_ifaces, bluez_level>>
  BY <1>1 DEF NextSignal, bluezServiceVars
<1>3. /\ SignalsAreTyped(bluez_signals') /\ Head(bluez_signals) = bluez_signals[1]
      /\ 1 \in 1..Len(bluez_signals)
  BY <1>1, <1>2, TailOfSignals
<1> QED  BY <1>1, <1>2, <1>3 DEF Taken, SignalsAreTyped

\* What the queue tells once a signal is taken.
LEMMA TakenLeaves ==
  ASSUME BluezIInv, NEW m, NEW o, NEW what, Taken(m, o, what), NEW p \in BluezObjects
  PROVE  /\ RemovalWaits(bluez_signals, p) =>
              RemovalWaits(bluez_signals', p) \/ SignalOf(m, p, "removed", "Battery1")
         /\ ChangeWaits(bluez_signals, p) => ChangeWaits(bluez_signals', p) \/ Changed(m, p)
         /\ AddedAreRemoved(bluez_signals, p) => AddedAreRemoved(bluez_signals', p)
         /\ AddedAreRemoved(bluez_signals, p) /\ SignalOf(m, p, "added", "Battery1") =>
              RemovalWaits(bluez_signals', p)
         /\ LastIs(bluez_signals', p, bluez_level'[p])
         /\ Changed(m, p) => ChangeWaits(bluez_signals', p) \/ m[3] = bluez_level'[p]
<1>1. /\ SignalsAreTyped(bluez_signals) /\ LastIs(bluez_signals, p, bluez_level[p])
      /\ bluez_signals # <<>> /\ m = bluez_signals[1]
      /\ bluez_signals' = Tail(bluez_signals) /\ bluez_level' = bluez_level
  BY DEF BluezIInv, BluezTyped, Taken
<1>2. /\ LastIs(bluez_signals', p, bluez_level[p])
      /\ Changed(m, p) => ChangeWaits(bluez_signals', p) \/ m[3] = bluez_level[p]
  BY <1>1, LastIsLeft
<1> QED  BY <1>1, <1>2, WhatIsLeft

LEMMA AddedKeeps ==
  ASSUME BluezIInv, NEW o \in BluezObjects, BluezInterfaceAdded(o)
  PROVE  BluezIInv'
<1> DEFINE m == Head(bluez_signals)
           view == [bluez_view EXCEPT ![o] = @ \cup {m[3]}]
<1>1. /\ Taken(m, o, "added") /\ SignalsAreTyped(bluez_signals') /\ m[3] \in BluezInterfaces
  BY NextIsTaken DEF BluezInterfaceAdded
<1>2. BluezAdd({o}, view) /\ bluez_view' = view
  BY DEF BluezInterfaceAdded, BluezAdd
<1>3. Added({o}, view)
  BY <1>2, AddAdds DEF BluezIInv
<1>4. /\ view \in [BluezObjects -> SUBSET BluezInterfaces]
      /\ \A p \in BluezObjects :
           /\ bluez_view[p] \subseteq view[p]
           /\ "Battery1" \in view[p] /\ "Battery1" \notin bluez_view[p] =>
                p = o /\ m[3] = "Battery1"
  BY <1>1 DEF BluezIInv, BluezTyped
<1> HIDE DEF m, view
<1>5. BluezTyped'
  BY <1>1, <1>2, <1>3, <1>4 DEF BluezIInv, BluezTyped, Added, Taken
<1>6. ListedOnce' /\ NoClient' /\ bluez_stale' = bluez_stale
  BY <1>1, <1>3 DEF Added, NoClient, Taken
<1>7. \A d \in bluez_devices' : d.path \in BluezObjects
  BY <1>5 DEF BluezTyped, BluezDevice
<1>8. ViewIsListed'
  <2>1. ASSUME NEW p \in BluezObjects, "Battery1" \in view[p], p \notin bluez_lost'
        PROVE  p \in bluez_announced'
    <3>1. CASE "Battery1" \in bluez_view[p]
      <4>1. p \in bluez_lost \/ p \in bluez_announced
        BY <1>1, <3>1 DEF BluezIInv, ViewIsListed, Taken
      <4> QED  BY <1>3, <2>1, <4>1 DEF Added
    <3>2. CASE "Battery1" \notin bluez_view[p]
      <4>1. p \in {o}
        BY <1>4, <2>1, <3>2
      <4> QED  BY <1>3, <2>1, <4>1 DEF Added
    <3> QED  BY <3>1, <3>2
  <2>2. ASSUME NEW d \in bluez_devices', d.path \notin bluez_stale'
        PROVE  "Battery1" \in view[d.path]
    <3>1. CASE d \in bluez_devices
      BY <1>1, <1>4, <1>6, <1>7, <2>2, <3>1 DEF BluezIInv, ViewIsListed, Taken
    <3>2. CASE d \notin bluez_devices
      BY <1>3, <3>2, Zenon DEF Added
    <3> QED  BY <3>1, <3>2
  <2> QED  BY <1>2, <2>1, <2>2, Zenon DEF ViewIsListed
<1>9. \A p \in BluezObjects :
        ~SignalOf(m, p, "removed", "Battery1") /\ ~Changed(m, p)
  BY <1>1 DEF Taken, SignalOf, Changed
<1>10. ASSUME NEW p \in BluezObjects, bluez_client = TRUE, bluez_running = TRUE,
              "Battery1" \notin bluez_ifaces[p]
       PROVE  /\ "Battery1" \in view[p] => RemovalWaits(bluez_signals', p)
              /\ AddedAreRemoved(bluez_signals', p)
  <2>1. /\ "Battery1" \in bluez_view[p] => RemovalWaits(bluez_signals, p)
        /\ AddedAreRemoved(bluez_signals, p)
    BY <1>10, Zenon DEF BluezIInv, RemovalIsTold, Follows
  <2>2. ASSUME "Battery1" \in view[p], "Battery1" \notin bluez_view[p]
        PROVE  SignalOf(m, p, "added", "Battery1")
    BY <1>1, <1>4, <2>2 DEF Taken, SignalOf
  <2> QED  BY <1>1, <1>9, <2>1, <2>2, TakenLeaves
<1>11. \A p \in BluezObjects : RemovalIsTold(p)'
  BY <1>1, <1>2, <1>10, Zenon DEF RemovalIsTold, Follows, Taken
<1>12. \A p \in BluezObjects : LastIs(bluez_signals', p, bluez_level'[p])
  BY <1>1, TakenLeaves
<1>13. ASSUME NEW d \in bluez_devices', bluez_client = TRUE, bluez_running = TRUE,
              d.path \notin bluez_stale'
       PROVE  \/ d.percentage = bluez_level[d.path] \/ ChangeWaits(bluez_signals', d.path)
              \/ RemovalWaits(bluez_signals', d.path)
  <2>1. CASE d \in bluez_devices
    <3>1. \/ d.percentage = bluez_level[d.path] \/ ChangeWaits(bluez_signals, d.path)
          \/ RemovalWaits(bluez_signals, d.path)
      BY <1>6, <1>13, <2>1, Zenon DEF BluezIInv, LevelIsFollowed, Follows
    <3> QED  BY <1>1, <1>7, <1>9, <3>1, TakenLeaves
  <2>2. CASE d \notin bluez_devices
    <3>1. /\ "Battery1" \in view[d.path]
          /\ "Battery1" \in bluez_ifaces[d.path] => d.percentage = bluez_level[d.path]
      BY <1>3, <2>2, Zenon DEF Added
    <3> QED  BY <1>7, <1>10, <1>13, <3>1
  <2> QED  BY <2>1, <2>2
<1>14. \A d \in bluez_devices' : LevelIsFollowed(d)'
  BY <1>1, <1>13, Zenon DEF LevelIsFollowed, Follows, Taken
<1> QED  BY <1>5, <1>6, <1>8, <1>11, <1>12, <1>14, Zenon DEF BluezIInv

\* What the list keeps when an interface has gone.
Removed(o, view) ==
  /\ bluez_devices' \subseteq bluez_devices
  /\ bluez_announced' \subseteq bluez_announced /\ bluez_lost' \subseteq bluez_lost
  /\ bluez_stale' \subseteq bluez_stale
  /\ ListedOnce'
  /\ \A d \in bluez_devices' : d.path = o => "Battery1" \in view[o]
  /\ \A p \in BluezObjects : p # o \/ "Battery1" \in view[o] =>
       /\ p \in bluez_announced' <=> p \in bluez_announced
       /\ p \in bluez_lost' <=> p \in bluez_lost
       /\ p \in bluez_stale' <=> p \in bluez_stale

LEMMA RemoveRemoves ==
  ASSUME BluezIInv, NEW o \in BluezObjects, BluezInterfaceRemoved(o),
         NEW view, view = bluez_view'
  PROVE  Removed(o, view)
<1>1. ListedOnce
  BY DEF BluezIInv
<1>2. CASE "Battery1" \in view[o]
  <2>1. UNCHANGED <<bluez_devices, bluez_announced, bluez_lost, bluez_stale>>
    BY <1>2 DEF BluezInterfaceRemoved, bluezListVars
  <2> QED  BY <1>1, <1>2, <2>1 DEF Removed, ListedOnce
<1>3. CASE "Battery1" \notin view[o]
  <2>1. /\ bluez_devices' = {d \in bluez_devices : d.path # o}
        /\ bluez_announced' = bluez_announced \ {o} /\ bluez_lost' = bluez_lost \ {o}
        /\ bluez_stale' = bluez_stale \ {o}
    BY <1>3 DEF BluezInterfaceRemoved, BluezRemove, BluezLookup
  <2>2. ListedOnce'
    BY <1>1, <2>1 DEF ListedOnce
  <2> QED  BY <1>3, <2>1, <2>2 DEF Removed
<1> QED  BY <1>2, <1>3

LEMMA RemovedKeeps ==
  ASSUME BluezIInv, NEW o \in BluezObjects, BluezInterfaceRemoved(o)
  PROVE  BluezIInv'
<1> DEFINE m == Head(bluez_signals)
           view == [bluez_view EXCEPT ![o] = @ \ {m[3]}]
<1>1. /\ Taken(m, o, "removed") /\ SignalsAreTyped(bluez_signals') /\ m[3] \in BluezInterfaces
  BY NextIsTaken DEF BluezInterfaceRemoved
<1>2. bluez_view' = view
  BY DEF BluezInterfaceRemoved
<1>3. Removed(o, view)
  BY <1>2, RemoveRemoves
<1>4. /\ view \in [BluezObjects -> SUBSET BluezInterfaces]
      /\ \A p \in BluezObjects :
           /\ view[p] \subseteq bluez_view[p]
           /\ p # o => view[p] = bluez_view[p]
      /\ m[3] = "Battery1" => "Battery1" \notin view[o]
  BY <1>1 DEF BluezIInv, BluezTyped
<1> HIDE DEF m, view
<1>5. BluezTyped'
  BY <1>1, <1>2, <1>3, <1>4 DEF BluezIInv, BluezTyped, Removed, Taken
<1>6. ListedOnce' /\ NoClient'
  BY <1>1, <1>3 DEF Removed, NoClient, Taken
<1>7. \A d \in bluez_devices' :
        /\ d \in bluez_devices /\ d.path \in BluezObjects
        /\ d.path = o => "Battery1" \in view[o]
        /\ d.path \notin bluez_stale' => d.path \notin bluez_stale
  BY <1>3, <1>5 DEF BluezTyped, BluezDevice, Removed
<1>8. ViewIsListed'
  <2>1. ASSUME NEW p \in BluezObjects, "Battery1" \in view[p], p \notin bluez_lost'
        PROVE  p \in bluez_announced'
    <3>1. "Battery1" \in bluez_view[p] /\ (p # o \/ "Battery1" \in view[o])
      BY <1>4, <2>1
    <3>2. p \notin bluez_lost
      BY <1>3, <2>1, <3>1 DEF Removed
    <3>3. p \in bluez_announced
      BY <1>1, <3>1, <3>2 DEF BluezIInv, ViewIsListed, Taken
    <3> QED  BY <1>3, <3>1, <3>3 DEF Removed
  <2>2. ASSUME NEW d \in bluez_devices', d.path \notin bluez_stale'
        PROVE  "Battery1" \in view[d.path]
    <3>1. "Battery1" \in bluez_view[d.path]
      BY <1>1, <1>7, <2>2 DEF BluezIInv, ViewIsListed, Taken
    <3> QED  BY <1>4, <1>7, <3>1
  <2> QED  BY <1>2, <2>1, <2>2, Zenon DEF ViewIsListed
<1>9. \A p \in BluezObjects :
        /\ ~SignalOf(m, p, "added", "Battery1") /\ ~Changed(m, p)
        /\ SignalOf(m, p, "removed", "Battery1") => p = o /\ "Battery1" \notin view[o]
  BY <1>1, <1>4 DEF Taken, SignalOf, Changed
<1>10. ASSUME NEW p \in BluezObjects, bluez_client = TRUE, bluez_running = TRUE,
              "Battery1" \notin bluez_ifaces[p]
       PROVE  /\ "Battery1" \in view[p] => RemovalWaits(bluez_signals', p)
              /\ AddedAreRemoved(bluez_signals', p)
  <2>1. /\ "Battery1" \in bluez_view[p] => RemovalWaits(bluez_signals, p)
        /\ AddedAreRemoved(bluez_signals, p)
    BY <1>10, Zenon DEF BluezIInv, RemovalIsTold, Follows
  <2>2. "Battery1" \in view[p] => "Battery1" \in bluez_view[p]
    BY <1>4
  <2> QED  BY <1>1, <1>9, <2>1, <2>2, TakenLeaves
<1>11. \A p \in BluezObjects : RemovalIsTold(p)'
  BY <1>1, <1>2, <1>10, Zenon DEF RemovalIsTold, Follows, Taken
<1>12. \A p \in BluezObjects : LastIs(bluez_signals', p, bluez_level'[p])
  BY <1>1, TakenLeaves
<1>13. ASSUME NEW d \in bluez_devices', bluez_client = TRUE, bluez_running = TRUE,
              d.path \notin bluez_stale'
       PROVE  \/ d.percentage = bluez_level[d.path] \/ ChangeWaits(bluez_signals', d.path)
              \/ RemovalWaits(bluez_signals', d.path)
  <2>1. \/ d.percentage = bluez_level[d.path] \/ ChangeWaits(bluez_signals, d.path)
        \/ RemovalWaits(bluez_signals, d.path)
    BY <1>7, <1>13, Zenon DEF BluezIInv, LevelIsFollowed, Follows
  <2> QED  BY <1>1, <1>7, <1>9, <2>1, TakenLeaves
<1>14. \A d \in bluez_devices' : LevelIsFollowed(d)'
  BY <1>1, <1>13, Zenon DEF LevelIsFollowed, Follows, Taken
<1> QED  BY <1>5, <1>6, <1>8, <1>11, <1>12, <1>14, Zenon DEF BluezIInv

LEMMA ChangedKeeps ==
  ASSUME BluezIInv, NEW o \in BluezObjects, BluezProxiesChanged(o)
  PROVE  BluezIInv'
<1> DEFINE m == Head(bluez_signals)
           shown(d) == IF d.path = o THEN [d EXCEPT !.percentage = m[3]] ELSE d
<1>1. /\ Taken(m, o, "changed") /\ SignalsAreTyped(bluez_signals') /\ m[3] \in BluezLevels
  BY NextIsTaken DEF BluezProxiesChanged
<1>2. /\ bluez_devices' = {shown(d) : d \in bluez_devices}
      /\ UNCHANGED <<bluez_view, bluez_announced, bluez_lost, bluez_stale>>
  BY DEF BluezProxiesChanged
<1>3. ASSUME NEW d \in bluez_devices
      PROVE  /\ shown(d) \in BluezDevice /\ shown(d).path = d.path
             /\ d.path # o => shown(d) = d
             /\ d.path = o => shown(d).percentage = m[3]
  <2>1. d \in BluezDevice
    BY DEF BluezIInv, BluezTyped
  <2> HIDE DEF m
  <2> QED  BY <1>1, <2>1 DEF BluezDevice
<1> HIDE DEF m, shown
<1>4. /\ \A e \in bluez_devices' : \E d \in bluez_devices : e = shown(d)
      /\ \A d \in bluez_devices : shown(d) \in bluez_devices'
  BY <1>2
<1>5. BluezTyped'
  <2>1. bluez_devices' \subseteq BluezDevice
    BY <1>3, <1>4
  <2> QED  BY <1>1, <1>2, <2>1 DEF BluezIInv, BluezTyped, Taken
<1>6. ListedOnce'
  <2>1. \A d, e \in bluez_devices' : d.path = e.path => d = e
    BY <1>3, <1>4 DEF BluezIInv, ListedOnce
  <2>2. \A p \in BluezObjects : p \in bluez_announced' <=> \E d \in bluez_devices' : d.path = p
    BY <1>2, <1>3, <1>4 DEF BluezIInv, ListedOnce
  <2> QED  BY <2>1, <2>2, Zenon DEF ListedOnce
<1>7. NoClient' /\ ViewIsListed'
  <2>1. NoClient'
    BY <1>1 DEF NoClient, Taken
  <2>2. ViewIsListed'
    BY <1>1, <1>2, <1>3, <1>4 DEF BluezIInv, ViewIsListed, Taken
  <2> QED  BY <2>1, <2>2
<1>8. \A p \in BluezObjects :
        /\ ~SignalOf(m, p, "added", "Battery1") /\ ~SignalOf(m, p, "removed", "Battery1")
        /\ Changed(m, p) <=> p = o
  BY <1>1 DEF Taken, SignalOf, Changed
<1>9. ASSUME NEW p \in BluezObjects, bluez_client = TRUE, bluez_running = TRUE,
             "Battery1" \notin bluez_ifaces[p]
      PROVE  /\ "Battery1" \in bluez_view[p] => RemovalWaits(bluez_signals', p)
             /\ AddedAreRemoved(bluez_signals', p)
  <2>1. /\ "Battery1" \in bluez_view[p] => RemovalWaits(bluez_signals, p)
        /\ AddedAreRemoved(bluez_signals, p)
    BY <1>9, Zenon DEF BluezIInv, RemovalIsTold, Follows
  <2> QED  BY <1>1, <1>8, <2>1, TakenLeaves
<1>10. \A p \in BluezObjects : RemovalIsTold(p)'
  BY <1>1, <1>2, <1>9, Zenon DEF RemovalIsTold, Follows, Taken
<1>11. \A p \in BluezObjects : LastIs(bluez_signals', p, bluez_level'[p])
  BY <1>1, TakenLeaves
<1>12. ASSUME NEW e \in bluez_devices', bluez_client = TRUE, bluez_running = TRUE,
              e.path \notin bluez_stale'
       PROVE  \/ e.percentage = bluez_level[e.path] \/ ChangeWaits(bluez_signals', e.path)
              \/ RemovalWaits(bluez_signals', e.path)
  <2>1. PICK d \in bluez_devices : e = shown(d)
    BY <1>4
  <2>2. d.path = e.path /\ e.path \in BluezObjects
    BY <1>3, <1>5, <2>1 DEF BluezTyped, BluezDevice
  <2>3. CASE e.path = o
    <3>1. ChangeWaits(bluez_signals', o) \/ m[3] = bluez_level'[o]
      BY <1>1, <1>8, TakenLeaves
    <3>2. bluez_level' = bluez_level /\ e.percentage = m[3]
      BY <1>1, <1>3, <2>1, <2>2, <2>3 DEF Taken
    <3> QED  BY <2>3, <3>1, <3>2
  <2>4. CASE e.path # o
    <3>1. e = d /\ d.path \notin bluez_stale
      BY <1>2, <1>3, <1>12, <2>1, <2>2, <2>4
    <3>2. \/ d.percentage = bluez_level[d.path] \/ ChangeWaits(bluez_signals, d.path)
          \/ RemovalWaits(bluez_signals, d.path)
      BY <1>12, <3>1, Zenon DEF BluezIInv, LevelIsFollowed, Follows
    <3> QED  BY <1>1, <1>8, <2>2, <2>4, <3>1, <3>2, TakenLeaves
  <2> QED  BY <2>3, <2>4
<1>13. \A d \in bluez_devices' : LevelIsFollowed(d)'
  BY <1>1, <1>12, Zenon DEF LevelIsFollowed, Follows, Taken
<1> QED  BY <1>5, <1>6, <1>7, <1>10, <1>11, <1>13, Zenon DEF BluezIInv

-----------------------------------------------------------------------------
(* The theorem.                                                            *)

LEMMA BluezStep == BluezIInv /\ [BluezNext]_bluezVars => BluezIInv'
<1> SUFFICES ASSUME BluezIInv, [BluezNext]_bluezVars PROVE BluezIInv'
  OBVIOUS
<1>1. CASE UNCHANGED bluezVars
  BY <1>1 DEF bluezVars, BluezIInv, BluezTyped, ListedOnce, NoClient, ViewIsListed, Follows,
     RemovalIsTold, LevelIsFollowed
<1>2. CASE BluezNext
  <2>1. CASE BluezAppeared
    BY <2>1, AppearedKeeps
  <2>2. CASE BluezVanished
    BY <2>2, VanishedKeeps
  <2>3. CASE BluezStarts \/ BluezStops
    BY <2>3, StartsKeep
  <2>4. ASSUME NEW o \in BluezObjects, BluezInterfaceAdded(o) PROVE BluezIInv'
    BY <2>4, AddedKeeps
  <2>5. ASSUME NEW o \in BluezObjects, BluezInterfaceRemoved(o) PROVE BluezIInv'
    BY <2>5, RemovedKeeps
  <2>6. ASSUME NEW o \in BluezObjects, BluezProxiesChanged(o) PROVE BluezIInv'
    BY <2>6, ChangedKeeps
  <2>7. ASSUME NEW o \in BluezObjects, NEW i \in BluezInterfaces \ {"Device1"},
               BluezGainsInterface(o, i) \/ BluezLosesInterface(o, i)
        PROVE  BluezIInv'
    <3>1. PICK level \in BluezLevels : TRUE
      BY BluezAssumption
    <3> QED  BY <2>7, <3>1, RaisesKeep
  <2>8. ASSUME NEW o \in BluezObjects, NEW level \in BluezLevels, BluezLevelChanges(o, level)
        PROVE  BluezIInv'
    BY <2>8, RaisesKeep DEF BluezInterfaces
  <2> QED  BY <1>2, <2>1, <2>2, <2>3, <2>4, <2>5, <2>6, <2>7, <2>8, Zenon DEF BluezNext
<1> QED  BY <1>1, <1>2

LEMMA BluezGoal == BluezIInv => BluezBatteriesAreFollowed
<1> SUFFICES ASSUME BluezIInv PROVE BluezBatteriesAreFollowed
  OBVIOUS
<1>1. \A d, e \in bluez_devices : d.path = e.path => d = e
  BY DEF BluezIInv, ListedOnce
<1>2. bluez_announced = {d.path : d \in bluez_devices}
  BY DEF BluezIInv, BluezTyped, BluezDevice, ListedOnce
<1>3. bluez_client =>
        {o \in BluezObjects : "Battery1" \in bluez_view[o]} \ bluez_lost \subseteq bluez_announced
  BY DEF BluezIInv, BluezTyped, ViewIsListed
<1>4. ASSUME bluez_client, bluez_running, bluez_signals = <<>>,
             NEW d \in bluez_devices, d.path \notin bluez_stale
      PROVE  d.percentage = bluez_level[d.path]
  <2>1. Follows
    BY <1>4 DEF Follows, BluezIInv, BluezTyped
  <2>2. ~ChangeWaits(bluez_signals, d.path) /\ ~RemovalWaits(bluez_signals, d.path)
    BY <1>4 DEF ChangeWaits, RemovalWaits
  <2> QED  BY <1>4, <2>1, <2>2, Zenon DEF BluezIInv, LevelIsFollowed
<1> QED  BY <1>1, <1>2, <1>3, <1>4, Zenon DEF BluezBatteriesAreFollowed

\* Bluetooth batteries are listed once each and announced as they are listed, and once
\* no signal is on its way they show what BlueZ tells, however its objects gain and
\* lose interfaces, BlueZ comes and goes and signals queue up: bluez_interface_added(),
\* bluez_interface_removed(), bluez_proxies_changed() of up-backend.c.
THEOREM BluezSafety == BluezSpec => []BluezBatteriesAreFollowed
<1>1. BluezSpec => []BluezIInv
  BY InitBluez, BluezStep, PTL DEF BluezSpec
<1> QED  BY <1>1, BluezGoal, PTL
=============================================================================
