----------------------------- MODULE MCUpBluez -----------------------------
(***************************************************************************)
(* The instance of UpBluez for TLC: a mouse and a keyboard.                *)
(***************************************************************************)
EXTENDS UpBluez, TLC

MCAppearances == "mouse" :> <<15, 2>> @@ "keyboard" :> <<15, 1>>
=============================================================================
