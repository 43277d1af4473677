------------------------------- MODULE UpLid -------------------------------
(***************************************************************************)
(* The lid switch (src/linux/up-input.c): every uevent about an input      *)
(* device that is a lid makes a reader of its event device, which is       *)
(* never taken back; each event makes the reader ask for the state of the  *)
(* switch and set LidIsClosed.  The kernel moves between opening, asking   *)
(* and reading; a read may return half an event.                           *)
(*                                                                         *)
(* The kernel's queue of a reader is taken to be long enough.              *)
(***************************************************************************)
EXTENDS Integers, Sequences, FiniteSets

CONSTANTS
  Capabilities,     \* the file capabilities/sw: words of set bits, highest first; the
                    \* code has room for one, and kernels print one
  IgnoreLid,        \* the option of UPower.conf
  MaxReaders,       \* bound: UpInput objects made
  MaxLidEvents      \* bound: events in a queue

BitsPerLong == 64
SW_LID == 0
SW_CNT == 16

ASSUME LidAssumption ==
  /\ Len(Capabilities) = 1 /\ Capabilities[1] \subseteq 0..(BitsPerLong - 1)
  /\ IgnoreLid \in BOOLEAN /\ MaxReaders \in Nat /\ MaxLidEvents \in Nat

VARIABLES
  lid_switch,       \* the kernel's state of the switch: closed
  lid_device,       \* the event device is there
  readers,          \* UpInput objects, in the order of their creation
  lid_is_closed,    \* the daemon's properties
  lid_is_present

lidVars == <<lid_switch, lid_device, readers, lid_is_closed, lid_is_present>>

\* opened: the coldplug is not done; ended: the watch is gone.  dead: the device
\* is.  offset: half of the first event has been read.
Reader == [phase : {"opened", "watching", "ended"}, dead : BOOLEAN,
           queue : Seq({"lid", "other"}), offset : 0..1]

\* up_input_str_to_bitmask()
StrToBitmask(words) ==
  UNION {{BitsPerLong * (Len(words) - i) + bit : bit \in words[i]} : i \in 1..Len(words)}

\* The first half of up_input_coldplug(): the device is a lid.
IsLid ==
  LET bitmask == StrToBitmask(Capabilities)
  IN  Cardinality(bitmask) \in 1..(SW_CNT - 1) /\ SW_LID \in bitmask

Coldplugging == \E r \in DOMAIN readers : readers[r].phase = "opened"

\* up_daemon_set_lid_is_closed(), up_daemon_set_lid_is_present()
SetLidIsClosed(closed) == lid_is_closed' = IF IgnoreLid THEN lid_is_closed ELSE closed
SetLidIsPresent == lid_is_present' = IF IgnoreLid THEN lid_is_present ELSE TRUE
-----------------------------------------------------------------------------
\* up_input_coldplug(), up to the device being open, of an add or a change uevent.
OpenLid ==
  /\ ~Coldplugging /\ lid_device /\ IsLid /\ Len(readers) < MaxReaders
  /\ readers' = Append(readers, [phase |-> "opened", dead |-> FALSE, queue |-> <<>>,
                                 offset |-> 0])
  /\ UNCHANGED <<lid_switch, lid_device, lid_is_closed, lid_is_present>>

\* The rest of it: the initial state, the watch, and the daemon's properties; a
\* device that is gone fails.
GetInitialState(r) ==
  /\ readers[r].phase = "opened"
  /\ IF readers[r].dead
       THEN /\ readers' = [readers EXCEPT ![r].phase = "ended"]
            /\ UNCHANGED <<lid_is_closed, lid_is_present>>
       ELSE /\ readers' = [readers EXCEPT ![r].phase = "watching"]
            /\ SetLidIsClosed(lid_switch) /\ SetLidIsPresent
  /\ UNCHANGED <<lid_switch, lid_device>>

\* Mutant: a lid event is taken for a change of what is known.
MutEventIo(r) ==
  /\ ~Coldplugging /\ readers[r].phase = "watching" /\ readers[r].queue # <<>>
  /\ readers' = [readers EXCEPT ![r].queue = Tail(@), ![r].offset = 0]
  /\ IF Head(readers[r].queue) = "lid" /\ ~readers[r].dead
       THEN SetLidIsClosed(~lid_is_closed) ELSE UNCHANGED lid_is_closed
  /\ UNCHANGED <<lid_switch, lid_device, lid_is_present>>

\* One read of up_input_event_io() that completes an event.  Only a lid event
\* asks for the state, which is refused when the device is gone.
EventIo(r) ==
  /\ ~Coldplugging /\ readers[r].phase = "watching" /\ readers[r].queue # <<>>
  /\ readers' = [readers EXCEPT ![r].queue = Tail(@), ![r].offset = 0]
  /\ IF Head(readers[r].queue) = "lid" /\ ~readers[r].dead
       THEN SetLidIsClosed(lid_switch) ELSE UNCHANGED lid_is_closed
  /\ UNCHANGED <<lid_switch, lid_device, lid_is_present>>

\* One that returns half an event.
EventIoIncomplete(r) ==
  /\ ~Coldplugging /\ readers[r].phase = "watching" /\ readers[r].queue # <<>>
  /\ readers[r].offset = 0
  /\ readers' = [readers EXCEPT ![r].offset = 1]
  /\ UNCHANGED <<lid_switch, lid_device, lid_is_closed, lid_is_present>>

\* up_input_event_io() with G_IO_HUP: the watch ends, whatever is still unread.
EventIoHup(r) ==
  /\ ~Coldplugging /\ readers[r].phase = "watching" /\ readers[r].dead
  /\ readers' = [readers EXCEPT ![r].phase = "ended"]
  /\ UNCHANGED <<lid_switch, lid_device, lid_is_closed, lid_is_present>>
-----------------------------------------------------------------------------
(* The kernel.                                                             *)

\* An event reaches every open reader of the device.
Deliver(kind) ==
  /\ \A r \in DOMAIN readers : Len(readers[r].queue) < MaxLidEvents
  /\ readers' = [r \in DOMAIN readers |->
                   IF readers[r].dead \/ readers[r].phase = "ended" THEN readers[r]
                   ELSE [readers[r] EXCEPT !.queue = Append(@, kind)]]

LidMoves ==
  /\ lid_device /\ lid_switch' = ~lid_switch /\ Deliver("lid")
  /\ UNCHANGED <<lid_device, lid_is_closed, lid_is_present>>

OtherEvent ==
  /\ lid_device /\ Deliver("other")
  /\ UNCHANGED <<lid_switch, lid_device, lid_is_closed, lid_is_present>>

\* The device goes, or comes back with the switch in any position.
LidUnplug ==
  /\ lid_device /\ lid_device' = FALSE
  /\ readers' = [r \in DOMAIN readers |-> [readers[r] EXCEPT !.dead = TRUE]]
  /\ UNCHANGED <<lid_switch, lid_is_closed, lid_is_present>>

LidPlug ==
  /\ ~lid_device /\ lid_device' = TRUE /\ lid_switch' \in BOOLEAN
  /\ UNCHANGED <<readers, lid_is_closed, lid_is_present>>

LidInit ==
  /\ lid_switch = FALSE /\ lid_device = TRUE /\ readers = <<>>
  /\ lid_is_closed = FALSE /\ lid_is_present = FALSE

LidNext ==
  \/ OpenLid
  \/ \E r \in DOMAIN readers : \/ GetInitialState(r)
                               \/ EventIo(r)
                               \/ EventIoIncomplete(r)
                               \/ EventIoHup(r)
  \/ LidMoves
  \/ OtherEvent
  \/ LidUnplug
  \/ LidPlug

LidSpec == LidInit /\ [][LidNext]_lidVars
-----------------------------------------------------------------------------
LidTypeOK ==
  /\ lid_switch \in BOOLEAN /\ lid_device \in BOOLEAN
  /\ \A r \in DOMAIN readers : readers[r] \in Reader
  /\ lid_is_closed \in BOOLEAN /\ lid_is_present \in BOOLEAN

\* As soon as one reader has caught up with the switch, LidIsClosed is right, and
\* no reader that lags, or that read its event in two parts, makes it wrong again.
LidIsCurrent ==
  \A r \in DOMAIN readers :
    (/\ readers[r].phase = "watching" /\ ~readers[r].dead
     /\ \A i \in 1..Len(readers[r].queue) : readers[r].queue[i] # "lid")
      => IgnoreLid \/ (lid_is_present /\ lid_is_closed = lid_switch)
=============================================================================
