-------------------------- MODULE UpKbdBacklight ---------------------------
(***************************************************************************)
(* The keyboard backlight (src/up-kbd-backlight.c): clients set it through *)
(* one sysfs file, the hardware changes it by itself and raises an event   *)
(* on another, and every change is announced.  No other program writes the *)
(* file.                                                                   *)
(***************************************************************************)
EXTENDS Integers

CONSTANTS
  KbdMax,           \* max_brightness
  KbdRequests       \* what clients ask for

ASSUME KbdAssumption == KbdMax \in Nat /\ KbdRequests \subseteq Int

VARIABLES
  kbd_brightness,   \* the file brightness
  kbd_hw_changed,   \* the file brightness_hw_changed: the last change by the hardware
  kbd_event,        \* it has an event (G_IO_PRI)
  kbd_watched,      \* the object is exported; and the event is watched
  kbd_announced,    \* the last signal, none at first
  kbd_written,      \* a client wrote since kbd_hw_changed did (history variable)
  kbd_misled        \* the last signal told an old value or none (history variable)

kbdVars == <<kbd_brightness, kbd_hw_changed, kbd_event, kbd_watched, kbd_announced,
             kbd_written, kbd_misled>>

KbdSignal == [value : -1..KbdMax, source : {"internal", "external"}]
NoSignal == [value |-> -1, source |-> "none"]

\* up_kbd_backlight_brightness_read(): -1 when the file cannot be read.
BrightnessRead(file, readable) ==
  IF readable /\ file \in 0..KbdMax THEN file ELSE -1

\* Mutant: what a client asks for is written as it is.
MutClamp(value) == value

Clamp(value) == IF value < 0 THEN 0 ELSE IF value > KbdMax THEN KbdMax ELSE value

\* up_kbd_backlight_find(): without a readable brightness nothing is exported.
KbdFind ==
  /\ kbd_watched.exported = FALSE
  /\ \E readable, has_hw_changed \in BOOLEAN :
       LET found == BrightnessRead(kbd_brightness, readable) >= 0
       IN  kbd_watched' = [exported |-> found, hw_changed |-> found /\ has_hw_changed]
  /\ UNCHANGED <<kbd_brightness, kbd_hw_changed, kbd_event, kbd_announced, kbd_written,
                 kbd_misled>>

\* Mutant: the signal does not wait for the result of the write.
MutSetBrightness(request, accepted) ==
  LET value == Clamp(request)
  IN  /\ kbd_watched.exported
      /\ kbd_brightness' = IF accepted THEN value ELSE kbd_brightness
      /\ kbd_announced' = [value |-> value, source |-> "external"]
      /\ kbd_written' = TRUE /\ kbd_misled' = FALSE
      /\ UNCHANGED <<kbd_hw_changed, kbd_event, kbd_watched>>

\* up_kbd_backlight_set_brightness() and up_kbd_backlight_brightness_write(): a
\* write that the driver refuses is answered by an error, without a signal.
SetBrightness(request, accepted) ==
  LET value == Clamp(request)
  IN  /\ kbd_watched.exported
      /\ IF accepted
           THEN /\ kbd_brightness' = value
                /\ kbd_announced' = [value |-> value, source |-> "external"]
                /\ kbd_written' = TRUE /\ kbd_misled' = FALSE
           ELSE UNCHANGED <<kbd_brightness, kbd_announced, kbd_written, kbd_misled>>
      /\ UNCHANGED <<kbd_hw_changed, kbd_event, kbd_watched>>

\* up_kbd_backlight_event_io(): what is read is announced, a failure as -1.
KbdEventIo(readable) ==
  /\ kbd_watched.hw_changed /\ kbd_event /\ kbd_event' = FALSE
  /\ kbd_announced' = [value |-> BrightnessRead(kbd_hw_changed, readable),
                       source |-> "internal"]
  /\ kbd_misled' = (kbd_written \/ ~readable)
  /\ UNCHANGED <<kbd_brightness, kbd_hw_changed, kbd_watched, kbd_written>>

\* The hardware changes the brightness.
KbdHardware(value) ==
  /\ value # kbd_brightness /\ kbd_brightness' = value
  /\ kbd_hw_changed' = value /\ kbd_event' = TRUE /\ kbd_written' = FALSE
  /\ UNCHANGED <<kbd_watched, kbd_announced, kbd_misled>>

KbdInit ==
  /\ kbd_brightness = 0 /\ kbd_hw_changed = -1 /\ kbd_event = FALSE
  /\ kbd_watched = [exported |-> FALSE, hw_changed |-> FALSE]
  /\ kbd_announced = NoSignal /\ kbd_written = FALSE /\ kbd_misled = FALSE

KbdNext ==
  \/ KbdFind
  \/ \E request \in KbdRequests, accepted \in BOOLEAN : SetBrightness(request, accepted)
  \/ \E readable \in BOOLEAN : KbdEventIo(readable)
  \/ \E value \in 0..KbdMax : KbdHardware(value)

KbdSpec == KbdInit /\ [][KbdNext]_kbdVars
-----------------------------------------------------------------------------
KbdTypeOK ==
  /\ kbd_brightness \in 0..KbdMax /\ kbd_hw_changed \in -1..KbdMax
  /\ kbd_event \in BOOLEAN /\ kbd_written \in BOOLEAN /\ kbd_misled \in BOOLEAN
  /\ kbd_watched \in [exported : BOOLEAN, hw_changed : BOOLEAN]
  /\ kbd_announced \in KbdSignal \cup {NoSignal}

\* When no event is left to handle, the last signal tells the brightness there
\* is, whoever changed it last and whatever failed before.  Excepted are an event
\* whose file could not be read, and one that a client's write overtook: the older
\* value of the hardware is then announced after the newer one of the client.
SignalsTellBrightness ==
  (/\ kbd_watched.hw_changed /\ ~kbd_event /\ ~kbd_misled
   /\ kbd_announced # NoSignal) => kbd_announced.value = kbd_brightness
=============================================================================
