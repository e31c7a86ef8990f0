--------------------------- MODULE MCKeyboardHelper ---------------------------
(* Instances of KeyboardHelper for TLC: codes of linux/input-event-codes.h. *)
EXTENDS KeyboardHelper

KeyLeftAlt == 56
KeyF6  == 64
KeyF7  == 65
KeyF9  == 67
KeyF12 == 88

AltF9 == {[key |-> KeyF9, modifiers |-> {KeyLeftAlt}]}
F7    == {[key |-> KeyF7, modifiers |-> {}]}
F12   == {[key |-> KeyF12, modifiers |-> {}]}

AltAndF9  == {KeyLeftAlt, KeyF9}
F6AndF7   == {KeyF6, KeyF7}
OnlyAlt   == {KeyLeftAlt}
OnlyF12   == {KeyF12}
DeviceSymmetry == Permutations(Devices)
=============================================================================
