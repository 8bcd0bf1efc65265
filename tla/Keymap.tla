------------------------------- MODULE Keymap -------------------------------
(***************************************************************************)
(* How keyboardHandler (kernel/keyboard.cpp) makes characters of the bytes *)
(* that the keyboard controller sends: a make code for a key that goes     *)
(* down, a break code for one that goes up, and the prefix E0 in front of  *)
(* the codes of the keys the first keyboards did not have.                 *)
(*                                                                         *)
(* Of the flags keymap[..][2] and [..][3] only those read later are kept,  *)
(* keymap[..][2] of the shift keys; ctrl_state and alt_state are unused.   *)
(***************************************************************************)
EXTENDS Sequences

CONSTANTS
    Rows,       \* the make codes keymap has a row for
    Plain,      \* keymap[..][0]: the character of a key by itself
    Shifted,    \* keymap[..][1]: its character with shift
    NoKey       \* INV, of a key without a character

VARIABLES
    ext,        \* extcode_state
    shifts,     \* the shift keys that are down
    locks       \* the locks that are on: capslock_state and the like

vars == <<ext, shifts, locks>>

ShiftKeys == {"SHIFT_L", "SHIFT_R"}
LockKeys  == {"CAPSLOCK", "NUMLOCK", "SCRLOCK"}

Prefix   == <<"E0">>
Make(k)  == <<k, "make">>
Break(k) == <<k, "break">>

Init == ext = FALSE /\ shifts = {} /\ locks = {}

\* The flags once key k has gone down or up.  The codes of a shift key with
\* a prefix, which the keyboard adds around others, set flags nobody reads.
Down(k, isDown) ==
    IF ext \/ k \notin ShiftKeys THEN shifts
    ELSE IF isDown THEN shifts \cup {k} ELSE shifts \ {k}

\* Caps lock swaps the characters of every key: the condition on the letter
\* compares a truth value with 'z', and always holds.
Shift == ("CAPSLOCK" \in locks) # (shifts # {})

\* The character of a make code; a shift or lock key itself has none.
Char(k) == IF (ext /\ k # "SLASH") \/ Shift THEN Shifted[k] ELSE Plain[k]

Extend == ext' = TRUE /\ UNCHANGED <<shifts, locks>>

\* Mutant: a code without a row returns before the prefix is dropped.
IgnoreKept == UNCHANGED <<ext, shifts, locks>>

\* A code the table has no row for.
Ignore == ext' = FALSE /\ UNCHANGED <<shifts, locks>>

Release(k) ==
    /\ ext' = FALSE
    /\ shifts' = Down(k, FALSE)
    /\ UNCHANGED locks

Press(k) ==
    /\ ext' = FALSE
    /\ shifts' = Down(k, TRUE)
    /\ locks' = IF k \notin LockKeys THEN locks
                ELSE IF k \in locks THEN locks \ {k} ELSE locks \cup {k}
=============================================================================
