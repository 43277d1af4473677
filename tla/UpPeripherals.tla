--------------------------- MODULE UpPeripherals ---------------------------
(***************************************************************************)
(* Three kinds of device that are read by a timer: the Watts Up Pro meter  *)
(* (src/linux/up-device-wup.c), which sends its readings unasked down a    *)
(* serial line; the CSR mice and keyboards (src/linux/up-device-csr.c),    *)
(* asked through their USB receiver; and Apple's devices                   *)
(* (src/linux/up-device-idevice.c), which may refuse to talk until they    *)
(* are unlocked, so that the connection is tried again every five seconds. *)
(* A handler is one step: the calls to the devices block the main loop.    *)
(*                                                                         *)
(* A packet of the meter is two halves, so that a read can end inside one. *)
(***************************************************************************)
EXTENDS Integers, Sequences

CONSTANTS
  Watts,            \* readings of the meter
  WupReadSize,      \* halves of packets that one read() takes
  MaxStream         \* bound: halves waiting in the serial line

ASSUME PeripheralsAssumption ==
  Watts # {} /\ Watts \subseteq Nat /\ WupReadSize \in Nat /\ MaxStream \in Nat

None == -1          \* no such number was ever read or answered

VARIABLES
  wup,              \* the meter's object
  wup_stream,       \* the kernel's buffer of the serial line
  wup_buffer,       \* the stack where up_device_wup_read_command() has its buffer
  csr,              \* the mouse's object
  idevice           \* the phone's object

wupVars == <<wup, wup_stream, wup_buffer>>
peripheralsVars == <<wup, wup_stream, wup_buffer, csr, idevice>>

Half == [part : {"head", "tail"}, watts : Watts]
Packet(w) == <<[part |-> "head", watts |-> w], [part |-> "tail", watts |-> w]>>

NoWup == [listed |-> FALSE, fd |-> FALSE, timer |-> FALSE, rate |-> None]
NoCsr == [listed |-> FALSE, polls |-> 0, raw_value |-> None, percentage |-> 0]
NoIdevice == [listed |-> FALSE, start_id |-> 0, polls |-> 0, dev |-> FALSE,
              present |-> FALSE, percentage |-> None, state |-> "unset"]
-----------------------------------------------------------------------------
\* up_device_wup_read_command(): the buffer is not cleared and read() does not
\* end it, so what an earlier call left behind may follow what was read.
ReadCommand(read) ==
  {read, read \o SubSeq(wup_buffer, Len(read) + 1, Len(wup_buffer))}

\* up_device_wup_parse_command(): only the last packet that starts counts, and
\* it must be whole.  The readings taken from the data: none or one.
ParseCommand(data) ==
  LET starts == {i \in DOMAIN data : data[i].part = "head"}
      last   == CHOOSE i \in starts : \A j \in starts : j <= i
  IN  IF starts = {} \/ last = Len(data) THEN {} ELSE {data[last].watts}

\* up_device_wup_refresh(), which up_device_wup_poll_cb() calls.
WupRefresh(w) ==
  IF wup_stream = <<>>
  THEN wup' = w /\ UNCHANGED <<wup_stream, wup_buffer>>
  ELSE LET size == IF Len(wup_stream) < WupReadSize THEN Len(wup_stream) ELSE WupReadSize
       IN  \E data \in ReadCommand(SubSeq(wup_stream, 1, size)) :
             /\ wup_stream' = SubSeq(wup_stream, size + 1, Len(wup_stream))
             /\ wup_buffer' = data
             /\ wup' \in IF ParseCommand(data) = {} THEN {w}
                         ELSE {[w EXCEPT !.rate = r] : r \in ParseCommand(data)}

\* up_device_wup_finalize()
WupFinalize(w) == [w EXCEPT !.listed = FALSE, !.fd = FALSE, !.timer = FALSE, !.rate = None]

\* up_device_wup_init(), up_device_wup_coldplug(), up_device_wup_set_speed(): the
\* timer is made before it is known whether this is a meter.
WupAppears ==
  LET made == [NoWup EXCEPT !.timer = TRUE]
  IN  /\ ~wup.listed
      /\ \/ wup' = WupFinalize(made) /\ UNCHANGED <<wup_stream, wup_buffer>>
         \/ WupRefresh([made EXCEPT !.fd = TRUE, !.listed = TRUE])

\* up_device_wup_poll_cb()
WupPollCb ==
  /\ wup.timer
  /\ WupRefresh(wup)

\* The meter sends a reading, or (when the line is opened late) its second half.
WupSends ==
  /\ Len(wup_stream) + 2 <= MaxStream
  /\ \E w \in Watts : wup_stream' \in {wup_stream \o Packet(w), wup_stream \o Tail(Packet(w))}
  /\ UNCHANGED <<wup, wup_buffer>>

WupGoes ==
  /\ wup.listed
  /\ wup' = WupFinalize(wup) /\ wup_stream' = <<>> /\ UNCHANGED wup_buffer
-----------------------------------------------------------------------------
\* Answers of the receiver: None for an error, a wrong size or "busy", or the level.
CsrAnswers == {None} \cup 0..7

\* up_device_csr_refresh(): a level of 0 is an answer, but no percentage.
CsrRefresh(c, answer) ==
  CASE answer = None -> c
    [] answer = 0 -> [c EXCEPT !.raw_value = 0]
    [] OTHER -> [c EXCEPT !.raw_value = answer, !.percentage = (100 * answer) \div 7]

\* up_device_csr_coldplug(), up_device_csr_find_device(): polled once it has answered.
CsrAppears ==
  /\ ~csr.listed
  /\ \E answer \in CsrAnswers :
       csr' = IF answer = None THEN csr
              ELSE CsrRefresh([NoCsr EXCEPT !.listed = TRUE, !.polls = 1], answer)

\* up_device_csr_poll_cb()
CsrPollCb ==
  /\ csr.polls > 0
  /\ \E answer \in CsrAnswers : csr' = CsrRefresh(csr, answer)

\* up_device_csr_finalize(), with up_daemon_stop_poll()
CsrGoes ==
  /\ csr.listed /\ csr' = NoCsr
-----------------------------------------------------------------------------
\* What the phone answers: whether it lets itself be reached at all, whether its
\* battery is in the answer, and whether the answer says if it is charging.
PhoneAnswers == [reached : BOOLEAN, capacity : {None, 0, 50, 100},
                 charging : {"none", "yes", "no"}]

\* up_device_idevice_refresh(): its success, and the object after it.
IdeviceReads(a) == a.reached /\ a.capacity # None /\ a.charging # "none"

IdeviceRefresh(d, a) ==
  IF ~a.reached \/ a.capacity = None THEN d
  ELSE [d EXCEPT !.percentage = a.capacity,
                 !.state = CASE a.charging = "none" -> @
                             [] a.capacity = 100 -> "fully-charged"
                             [] a.capacity = 0 -> "empty"
                             [] OTHER -> IF a.charging = "yes" THEN "charging" ELSE "discharging"]

\* up_device_idevice_coldplug()
IdeviceAppears ==
  /\ ~idevice.listed
  /\ idevice' = [NoIdevice EXCEPT !.listed = TRUE, !.start_id = 1]

\* Mutant: a phone is polled once it answers, whether or not the reading is whole.
MutIdeviceStarted(d, a) ==
  IF a.reached
  THEN [IdeviceRefresh(d, a) EXCEPT !.dev = TRUE, !.present = TRUE, !.polls = @ + 1,
                                    !.start_id = 0]
  ELSE IdeviceRefresh(d, a)

\* up_device_idevice_start_poll_cb(): tried again until a reading is whole.
IdeviceStarted(d, a) ==
  IF IdeviceReads(a)
  THEN [IdeviceRefresh(d, a) EXCEPT !.dev = TRUE, !.present = TRUE, !.polls = @ + 1,
                                    !.start_id = 0]
  ELSE IdeviceRefresh(d, a)

IdeviceStartPollCb ==
  /\ idevice.start_id > 0
  /\ \E a \in PhoneAnswers : idevice' = IdeviceStarted(idevice, a)

\* up_device_idevice_poll_cb()
IdevicePollCb ==
  /\ idevice.polls > 0
  /\ \E a \in PhoneAnswers : idevice' = IdeviceRefresh(idevice, a)

\* The Refresh method of the device, at any time: nothing is reached without dev.
IdeviceClientRefresh ==
  /\ idevice.listed
  /\ \E a \in PhoneAnswers :
       idevice' = IdeviceRefresh(idevice, [a EXCEPT !.reached = @ /\ idevice.dev])

\* up_device_idevice_finalize(): whichever of the two timers there is goes.
IdeviceFinalize(d) ==
  [d EXCEPT !.listed = FALSE, !.start_id = 0, !.polls = 0, !.dev = FALSE,
            !.present = FALSE, !.percentage = None, !.state = "unset"]

IdeviceGoes ==
  /\ idevice.listed /\ idevice' = IdeviceFinalize(idevice)
-----------------------------------------------------------------------------
PeripheralsInit ==
  /\ wup = NoWup /\ wup_stream = <<>> /\ wup_buffer = <<>>
  /\ csr = NoCsr /\ idevice = NoIdevice

WupNext == WupAppears \/ WupPollCb \/ WupSends \/ WupGoes
CsrNext == CsrAppears \/ CsrPollCb \/ CsrGoes
IdeviceNext ==
  \/ IdeviceAppears \/ IdeviceStartPollCb \/ IdevicePollCb \/ IdeviceClientRefresh
  \/ IdeviceGoes

PeripheralsNext ==
  \/ WupNext /\ UNCHANGED <<csr, idevice>>
  \/ CsrNext /\ UNCHANGED <<wupVars, idevice>>
  \/ IdeviceNext /\ UNCHANGED <<wupVars, csr>>

PeripheralsSpec == PeripheralsInit /\ [][PeripheralsNext]_peripheralsVars
-----------------------------------------------------------------------------
PeripheralsTypeOK ==
  /\ wup \in [listed : BOOLEAN, fd : BOOLEAN, timer : BOOLEAN, rate : Watts \cup {None}]
  /\ wup_stream \in Seq(Half) /\ wup_buffer \in Seq(Half)
  /\ csr \in [listed : BOOLEAN, polls : 0..1, raw_value : CsrAnswers,
              percentage : 0..100]
  /\ idevice \in [listed : BOOLEAN, start_id : 0..1, polls : Nat, dev : BOOLEAN,
                  present : BOOLEAN, percentage : {None} \cup 0..100,
                  state : {"unset", "fully-charged", "empty", "charging", "discharging"}]

(* A device that is listed is read by exactly one timer, and nothing of one  *)
(* that has gone is left running or open.  A phone is told present only once *)
(* a reading of it was whole, however many tries that took, and then its     *)
(* connection is held (up_device_idevice_start_poll_cb and the finalizers).  *)
PeripheralsAreFollowed ==
  /\ wup.timer = wup.listed /\ wup.fd = wup.listed
  /\ csr.polls = IF csr.listed THEN 1 ELSE 0
  /\ idevice.start_id + idevice.polls = IF idevice.listed THEN 1 ELSE 0
  /\ idevice.present <=> idevice.polls = 1
  /\ idevice.present => idevice.dev /\ idevice.percentage # None /\ idevice.state # "unset"
=============================================================================
