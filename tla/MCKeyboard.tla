----------------------------- MODULE MCKeyboard -----------------------------
(* A keyboard for TLC: a letter, the 4 of the keypad, the arrow key that   *)
(* has its code behind a prefix, and the modifiers, as keymap has them.    *)
EXTENDS Keyboard

MCRows == {"LETTER", "PAD_4", "SHIFT_L", "CAPSLOCK"}
MCPlain == [k \in MCRows |-> CASE k = "LETTER" -> "a" [] k = "PAD_4" -> "4"
                               [] OTHER -> NoKey]
MCShifted == [k \in MCRows |-> IF k = "LETTER" THEN "A" ELSE NoKey]
=============================================================================
