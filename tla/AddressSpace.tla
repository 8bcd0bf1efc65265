---------------------------- MODULE AddressSpace ----------------------------
(***************************************************************************)
(* What kernel/memory.cpp promises to the processes of SoulOS: each has    *)
(* pages of its own.  A fork copies them at once, and from then on no      *)
(* process sees a store of another one.  Memory.tla, where pages are       *)
(* shared until they are written, is shown to implement this module.       *)
(***************************************************************************)

CONSTANTS
    Procs,      \* the slots of processes
    Pages,      \* the pages of the user part of an address space
    Values,     \* what a page may contain
    Unmapped    \* the content of a page that is not there

VARIABLES
    users,      \* the processes that have an address space
    view        \* the content of every page of every process

NoPages == [v \in Pages |-> Unmapped]

Init ==
    /\ users = {}
    /\ view = [p \in Procs |-> NoPages]

Enter(p) ==
    /\ p \notin users
    /\ users' = users \cup {p}
    /\ UNCHANGED view

Exit(p) ==
    /\ p \in users
    /\ users' = users \ {p}
    /\ view' = [view EXCEPT ![p] = NoPages]

Fork(p, child) ==
    /\ p \in users /\ child \notin users
    /\ users' = users \cup {child}
    /\ view' = [view EXCEPT ![child] = view[p]]

\* A page that comes into being holds whatever its frame held.
Store(p, v) == \E x \in Values :
    /\ p \in users
    /\ view' = [view EXCEPT ![p][v] = x]
    /\ UNCHANGED users

Drop(p, S) ==
    /\ p \in users
    /\ view' = [view EXCEPT ![p] =
                   [v \in Pages |-> IF v \in S THEN Unmapped ELSE view[p][v]]]
    /\ UNCHANGED users

Next == \E p \in Procs :
    \/ Enter(p)
    \/ Exit(p)
    \/ \E child \in Procs : Fork(p, child)
    \/ \E v \in Pages : Store(p, v)
    \/ \E S \in SUBSET Pages : Drop(p, S)

Spec == Init /\ [][Next]_<<users, view>>
=============================================================================
