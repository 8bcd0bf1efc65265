------------------------------ MODULE TypeAhead ------------------------------
(***************************************************************************)
(* What the keyboard of SoulOS promises to its readers: the keys typed are *)
(* kept in order, up to a limit, and each is handed to one reader, once.   *)
(* When the limit is reached the oldest key is given up for the newest.    *)
(* Keyboard.tla, with the ring of lib/fifo.cpp, implements this module.    *)
(***************************************************************************)
EXTENDS Integers, Sequences

CONSTANTS
    Readers,    \* the tasks
    Keys,       \* the characters typed
    Limit       \* how many of them are kept

VARIABLES
    queue,      \* the keys nobody has read, the oldest first
    text        \* what each task has read in its current call

Init == queue = <<>> /\ text = [t \in Readers |-> <<>>]

Type(k) ==
    /\ queue' = IF Len(queue) < Limit THEN Append(queue, k)
                                      ELSE Append(Tail(queue), k)
    /\ UNCHANGED text

Read(t) ==
    /\ queue # <<>>
    /\ text' = [text EXCEPT ![t] = Append(@, Head(queue))]
    /\ queue' = Tail(queue)

Restart(t) == text' = [text EXCEPT ![t] = <<>>] /\ UNCHANGED queue

Next ==
    \/ \E k \in Keys : Type(k)
    \/ \E t \in Readers : Read(t) \/ Restart(t)

Spec == Init /\ [][Next]_<<queue, text>>
=============================================================================
