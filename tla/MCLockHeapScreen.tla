-------------------------- MODULE MCLockHeapScreen --------------------------
(* The lock, the kernel's own memory and the screen share no state: a      *)
(* behaviour is one of a single part, while the others stay as they start. *)
EXTENDS Lock, MCKernelHeap, Console

VARIABLE part

allVars == <<vars, heapVars, conVars, part>>

MCInit == Init /\ HeapInit /\ ConInit /\ part \in {"lock", "heap", "screen"}
MCNext ==
    \/ part = "lock" /\ Next /\ UNCHANGED <<heapVars, conVars, part>>
    \/ part = "heap" /\ HeapNext /\ UNCHANGED <<vars, conVars, part>>
    \/ part = "screen" /\ ConNext /\ UNCHANGED <<vars, heapVars, part>>
    \* The kernel stops for good when it panics.
    \/ part = "heap" /\ panicked /\ UNCHANGED allVars
MCSpec == MCInit /\ [][MCNext]_allVars
=============================================================================
