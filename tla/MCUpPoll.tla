------------------------------ MODULE MCUpPoll ------------------------------
(* The instances of UpPoll for TLC: a battery, a mouse and an iDevice.     *)
EXTENDS UpPoll

CONSTANTS BAT, MOUSE, PHONE

MCPollKind == [d \in Device |-> IF d = BAT THEN "battery"
                                ELSE IF d = MOUSE THEN "mouse" ELSE "idevice"]

\* A level of either interval, beside the one a new device has.
MCLevel == {"unknown", "low"}

MCId == 1..6
=============================================================================
