------------------------------ MODULE UpHidpp ------------------------------
(***************************************************************************)
(* Logitech devices (src/linux/hidpp-device.c, up-device-unifying.c).  The *)
(* devices of one receiver share its hidraw node: every answer reaches all *)
(* open descriptors, and an answer may come after its request has timed    *)
(* out.  A request is matched with an answer by device, feature and        *)
(* function only.                                                          *)
(*                                                                         *)
(* What an answer says is abstracted to whose answer to what it is.        *)
(* Reports other than HID++ messages, which are skipped, are left out, and *)
(* the protocol is 1.0 or 2.0.                                             *)
(***************************************************************************)
EXTENDS Integers, SequencesExt

CONSTANTS
  HidppDevices,     \* the devices paired with the receiver
  Features,         \* the HID++ 2.0 features of each; a device without is 1.0
  ApproxOnly,       \* 1.0 devices that know their battery only approximately
  Receiver,         \* HIDPP_RECEIVER_ADDRESS
  MaxMessages,      \* bound: messages a descriptor has unread
  MaxRefreshes,     \* bound: coldplugs, with their refresh, and refreshes
  MaxTimeouts       \* bound: timeouts, and so requests without an answer

ASSUME HidppAssumption ==
  /\ Features \in [HidppDevices -> SUBSET {"battery", "solar"}]
  /\ ApproxOnly \subseteq HidppDevices /\ Receiver \notin HidppDevices
  /\ MaxMessages \in Nat /\ MaxTimeouts \in Nat /\ MaxRefreshes \in Nat

VARIABLES
  hidpp,            \* the HidppDevice objects
  unread_messages,  \* what each descriptor has to read
  hidpp_job,        \* the refresh that runs
  asked,            \* requests the receiver has not answered yet
  timeouts,         \* how many there were (bound)
  refreshes,        \* how many were started (bound)
  unifying,         \* the devices of the daemon: added, and what they show
  crossed           \* a request was sent while one that looks alike was
                    \* still to be answered (history variable)

hidppVars == <<hidpp, unread_messages, hidpp_job, asked, unifying, crossed,
              timeouts, refreshes>>

Nobody == "none"
Unknown == [of |-> Nobody, what |-> "none"]

\* The steps of hidpp_device_refresh() are named for what they ask; each is a
\* request but "battery", which stands for those the battery takes.
Register == {"kind", "model", "serial"}
RefreshStep ==
  Register \cup {"ping", "battery_feature", "solar_feature", "battery", "level", "approx",
                 "light", "light_event", "status"}

\* Where an answer is from.
Origin == [of : HidppDevices, what : RefreshStep] \cup {Unknown}

\* hidpp_device_init(), with the descriptor closed.
NewHidpp ==
  [fd |-> FALSE, version |-> 0, is_present |-> FALSE, batt_is_approx |-> FALSE,
   kind |-> Unknown, model |-> Unknown, serial |-> Unknown, batt |-> Unknown,
   feature_index |-> [battery |-> "none", solar |-> "none"]]

NoMessage == [key |-> <<>>, answer |-> Unknown, error |-> "none"]
IdleHidpp == [dev |-> Nobody, phase |-> "idle", todo |-> <<>>, request |-> Unknown,
              msg |-> NoMessage]
-----------------------------------------------------------------------------
(* Requests.                                                               *)

\* Device, feature and function of the request of a step, all that is compared.
\* The registers of the receiver, and the features of the root, look alike.
Key(d, step) ==
  <<IF step \in Register THEN Receiver ELSE d,
    IF step \in {"light", "light_event"} THEN hidpp[d].feature_index.solar
    ELSE IF step = "status" THEN hidpp[d].feature_index.battery ELSE "root",
    IF step \in Register THEN "register"
    ELSE IF step \in {"battery_feature", "solar_feature"} THEN "get_feature" ELSE step>>

\* HIDPP_REFRESH_FLAGS_BATTERY, for what is known of the device by then.
BatterySteps(d) ==
  LET map == hidpp[d].feature_index
  IN  IF hidpp[d].version = 1
        THEN IF hidpp[d].batt_is_approx THEN <<"approx">> ELSE <<"level">>
      ELSE IF hidpp[d].version = 2
        THEN (IF map.solar # "none" THEN <<"light", "light_event">> ELSE <<>>)
             \o (IF map.battery # "none" THEN <<"status">> ELSE <<>>)
      ELSE <<>>

\* The receiver's answers to a request: the device may be out of reach.
Answers(req, reachable) ==
  LET d == req.answer.of
      what == req.answer.what
      error == IF what \in Register THEN "none"
               ELSE IF ~reachable THEN "resource_error"
               ELSE IF what = "ping" /\ Features[d] = {} THEN "invalid_subid"
               ELSE IF what = "level" /\ d \in ApproxOnly THEN "invalid_address"
               ELSE "none"
      event == [req EXCEPT !.key = <<d, "solar", "light_event">>,
                           !.answer.what = "light_event"]
      answer == [req EXCEPT !.error = error]
  IN  IF what = "light" /\ error = "none" /\ req.key[2] = "solar"
        THEN <<answer, event>> ELSE <<answer>>

\* An answer reaches every open descriptor that has room.
Answer(req, reachable) ==
  /\ asked' = asked \ {req}
  /\ unread_messages' =
       [d \in HidppDevices |->
          IF hidpp[d].fd /\ Len(unread_messages[d]) < MaxMessages
            THEN unread_messages[d] \o Answers(req, reachable) ELSE unread_messages[d]]
  /\ UNCHANGED <<hidpp, hidpp_job, unifying, crossed, timeouts, refreshes>>
-----------------------------------------------------------------------------
(* hidpp_device_refresh()                                                  *)

StartHidpp(d, phase, todo) ==
  /\ hidpp_job' = [IdleHidpp EXCEPT !.dev = d, !.phase = phase, !.todo = todo]
  /\ hidpp' = [hidpp EXCEPT ![d].fd = TRUE]
  /\ refreshes < MaxRefreshes /\ refreshes' = refreshes + 1

\* up_device_unifying_coldplug()
ColdplugUnifying(d) ==
  /\ hidpp_job = IdleHidpp /\ ~unifying[d].added
  /\ StartHidpp(d, "coldplug", <<"ping", "kind", "model", "serial">>)
  /\ UNCHANGED <<unread_messages, asked, unifying, crossed, timeouts>>

\* up_device_unifying_refresh()
RefreshSteps(version) == (IF version = 0 THEN <<"ping">> ELSE <<>>) \o <<"battery">>
RefreshUnifying(d) ==
  /\ hidpp_job = IdleHidpp /\ unifying[d].added
  /\ StartHidpp(d, "refresh", RefreshSteps(hidpp[d].version))
  /\ UNCHANGED <<unread_messages, asked, unifying, crossed, timeouts>>

\* Mutant: queued messages are left to the reader.
MutDiscardMessages(d) == unread_messages

\* hidpp_discard_messages()
DiscardMessages(d) == [unread_messages EXCEPT ![d] = <<>>]

\* The next request: hidpp_device_cmd() up to the write.  The light measurement's
\* event is only waited for.
HidppCmd ==
  LET d == hidpp_job.dev
      step == Head(hidpp_job.todo)
      req == [key |-> Key(d, step), answer |-> [of |-> d, what |-> step], error |-> "none"]
  IN  /\ hidpp_job # IdleHidpp /\ hidpp_job.request = Unknown /\ hidpp_job.todo # <<>>
      /\ IF step = "battery"
           THEN /\ hidpp_job' = [hidpp_job EXCEPT !.todo = BatterySteps(d) \o Tail(@)]
                /\ UNCHANGED <<unread_messages, asked, crossed>>
         ELSE IF step = "light_event"
           THEN /\ hidpp_job' = [hidpp_job EXCEPT !.request = req.answer]
                /\ UNCHANGED <<unread_messages, asked, crossed>>
         ELSE /\ hidpp_job' = [hidpp_job EXCEPT !.request = req.answer, !.msg = NoMessage]
              /\ unread_messages' = DiscardMessages(d)
              /\ asked' = asked \cup {req}
              /\ crossed' = (crossed \/ \E other \in asked : other.key = req.key)
      /\ UNCHANGED <<hidpp, unifying, timeouts, refreshes>>

\* The answer's payload is stored.  A feature the device does not have is not
\* added to the map.
Stored(d, step, answer) ==
  LET Has(f) == f \in Features[answer.of]
      Index == IF answer.what = "battery_feature" THEN "battery" ELSE "solar"
  IN  CASE step = "ping" -> [hidpp[d] EXCEPT !.version = 2, !.is_present = TRUE]
        [] step = "battery_feature" ->
             [hidpp[d] EXCEPT !.feature_index.battery = IF Has(Index) THEN Index ELSE @]
        [] step = "solar_feature" ->
             [hidpp[d] EXCEPT !.feature_index.solar = IF Has(Index) THEN Index ELSE @]
        [] step = "kind" -> [hidpp[d] EXCEPT !.kind = answer]
        [] step = "model" -> [hidpp[d] EXCEPT !.model = answer]
        [] step = "serial" -> [hidpp[d] EXCEPT !.serial = answer]
        [] step \in {"level", "approx", "light_event", "status"} ->
             [hidpp[d] EXCEPT !.batt = answer]
        [] OTHER -> hidpp[d]

\* A step is done; a device found to speak 2.0 has its features looked up first.
Proceed(msg, more) ==
  hidpp_job' = [hidpp_job EXCEPT !.todo = more \o Tail(@), !.request = Unknown, !.msg = msg]

\* The end of a refresh: the object of a coldplug that failed is destroyed, that
\* of one that did not is refreshed next, and a refresh shows what it knows.
EndHidpp(dev, ret, unread) ==
  LET d == hidpp_job.dev
      failed == hidpp_job.phase = "coldplug" /\ ~ret
  IN  /\ hidpp' = [hidpp EXCEPT ![d] = IF failed THEN NewHidpp ELSE dev]
      /\ unread_messages' = [unread EXCEPT ![d] = IF failed THEN <<>> ELSE @]
      /\ hidpp_job' = IF hidpp_job.phase = "coldplug" /\ ret
                        THEN [IdleHidpp EXCEPT !.dev = d, !.phase = "refresh",
                                               !.todo = RefreshSteps(dev.version)]
                        ELSE IdleHidpp
      /\ unifying' = IF ~ret THEN unifying
                     ELSE IF hidpp_job.phase = "coldplug"
                       THEN [unifying EXCEPT ![d].added = TRUE]
                       ELSE [unifying EXCEPT ![d].present = dev.is_present]
      /\ UNCHANGED <<asked, crossed>>

\* "out": the last message that was read, whoever it was for, tells whether the
\* device is out of reach; the refresh then counts as a success.
OutFailed(dev, msg, unread) ==
  IF msg.error = "resource_error"
    THEN EndHidpp([dev EXCEPT !.is_present = FALSE], TRUE, unread)
    ELSE EndHidpp(dev, FALSE, unread)

\* A command failed, with the last message read in msg.
HidppFailed(msg, unread) ==
  LET d == hidpp_job.dev
      step == hidpp_job.request.what
      Go(dev, more) == /\ Proceed(NoMessage, more) /\ hidpp' = [hidpp EXCEPT ![d] = dev]
                       /\ unread_messages' = unread /\ UNCHANGED <<asked, unifying, crossed>>
  IN  CASE step = "ping" /\ msg.error = "invalid_subid" ->
             Go([hidpp[d] EXCEPT !.version = 1, !.is_present = TRUE], <<>>)
        [] step = "ping" /\ msg.error = "resource_error" ->
             Go([hidpp[d] EXCEPT !.is_present = FALSE], <<>>)
        [] step \in {"battery_feature", "solar_feature"} -> Go(hidpp[d], <<>>)
        [] step = "level" /\ msg.error = "invalid_address" ->
             Go([hidpp[d] EXCEPT !.batt_is_approx = TRUE], <<"approx">>)
        [] OTHER -> OutFailed(hidpp[d], msg, unread)

\* Mutant: the device is not compared.
MutIsAnswer(msg, key) == msg.key[2] = key[2] /\ msg.key[3] = key[3]

\* "yep, this is our request", and its error
IsAnswer(msg, key) == msg.key = key

\* One message in hidpp_device_read_resp().
ReadResp ==
  LET d == hidpp_job.dev
      step == hidpp_job.request.what
      msg == Head(unread_messages[d])
      rest == [unread_messages EXCEPT ![d] = Tail(@)]
      more == IF step = "ping" /\ hidpp[d].version < 2
                THEN <<"battery_feature", "solar_feature">> ELSE <<>>
  IN  /\ hidpp_job.request # Unknown /\ unread_messages[d] # <<>>
      /\ IF ~IsAnswer(msg, Key(d, step))
           THEN /\ hidpp_job' = [hidpp_job EXCEPT !.msg = msg] /\ unread_messages' = rest
                /\ UNCHANGED <<hidpp, asked, unifying, crossed>>
         ELSE IF msg.error = "none"
           THEN /\ hidpp' = [hidpp EXCEPT ![d] = Stored(d, step, msg.answer)]
                /\ Proceed(NoMessage, more) /\ unread_messages' = rest
                /\ UNCHANGED <<asked, unifying, crossed>>
         ELSE HidppFailed(msg, rest)
      /\ UNCHANGED <<timeouts, refreshes>>

\* Nothing comes within the timeout, or the read fails.  Timeouts are bounded as
\* long as there is an answer to come.
HidppTimeout ==
  /\ hidpp_job.request # Unknown /\ HidppFailed(hidpp_job.msg, unread_messages)
  /\ asked # {} => timeouts < MaxTimeouts
  /\ timeouts' = (IF asked = {} THEN timeouts ELSE timeouts + 1) /\ UNCHANGED refreshes

\* Every step is done: the device is present if its version is known.
RefreshReturns ==
  LET dev == hidpp[hidpp_job.dev]
  IN  /\ hidpp_job # IdleHidpp /\ hidpp_job.todo = <<>>
      /\ EndHidpp([dev EXCEPT !.is_present = dev.version > 0 \/ @], TRUE, unread_messages)
      /\ UNCHANGED <<timeouts, refreshes>>

\* The device is unpaired: up_device_unifying_finalize().
RemoveUnifying(d) ==
  /\ hidpp_job = IdleHidpp /\ unifying[d].added
  /\ unifying' = [unifying EXCEPT ![d] = [added |-> FALSE, present |-> FALSE]]
  /\ hidpp' = [hidpp EXCEPT ![d] = NewHidpp]
  /\ unread_messages' = [unread_messages EXCEPT ![d] = <<>>]
  /\ UNCHANGED <<hidpp_job, asked, crossed, timeouts, refreshes>>

\* The receiver is unplugged, with the same for all its devices, and plugged in.
ReplugReceiver ==
  /\ hidpp_job = IdleHidpp
  /\ hidpp' = [d \in HidppDevices |-> NewHidpp]
  /\ unread_messages' = [d \in HidppDevices |-> <<>>]
  /\ unifying' = [d \in HidppDevices |-> [added |-> FALSE, present |-> FALSE]]
  /\ asked' = {} /\ crossed' = FALSE /\ timeouts' = 0 /\ refreshes' = 0
  /\ UNCHANGED hidpp_job

HidppInit ==
  /\ hidpp = [d \in HidppDevices |-> NewHidpp]
  /\ unread_messages = [d \in HidppDevices |-> <<>>]
  /\ hidpp_job = IdleHidpp /\ asked = {} /\ crossed = FALSE /\ timeouts = 0 /\ refreshes = 0
  /\ unifying = [d \in HidppDevices |-> [added |-> FALSE, present |-> FALSE]]

HidppNext ==
  \/ \E d \in HidppDevices : ColdplugUnifying(d) \/ RefreshUnifying(d) \/ RemoveUnifying(d)
  \/ HidppCmd
  \/ ReadResp
  \/ HidppTimeout
  \/ RefreshReturns
  \/ ReplugReceiver
  \/ \E req \in asked, reachable \in BOOLEAN : Answer(req, reachable)

HidppSpec == HidppInit /\ [][HidppNext]_hidppVars
-----------------------------------------------------------------------------
HidppTypeOK ==
  /\ \A d \in HidppDevices :
       /\ hidpp[d].version \in 0..2 /\ hidpp[d].is_present \in BOOLEAN
       /\ {hidpp[d].kind, hidpp[d].model, hidpp[d].serial, hidpp[d].batt} \subseteq Origin
       /\ hidpp[d].fd \/ unread_messages[d] = <<>>
  /\ unifying \in [HidppDevices -> [added : BOOLEAN, present : BOOLEAN]]
  /\ hidpp_job.dev \in HidppDevices \cup {Nobody} /\ crossed \in BOOLEAN

\* A device's battery is its own: no answer for another device of the receiver is
\* taken for it, however late it comes and whoever has given up waiting.
BatteryIsOwn == \A d \in HidppDevices : hidpp[d].batt.of \in {d, Nobody}

\* What lies unread in a descriptor, such as the answers to other devices of the
\* receiver, is never taken for an answer.  Kind, model, serial number and feature
\* indices are those that were asked for, as long as no request is sent while one
\* that only differs in its parameters is still to be answered.
AnswersFit ==
  ~crossed => \A d \in HidppDevices :
    /\ \A w \in Register : hidpp[d][w] \in {Unknown, [of |-> d, what |-> w]}
    /\ \A f \in {"battery", "solar"} : hidpp[d].feature_index[f] \in {"none", f}
=============================================================================
