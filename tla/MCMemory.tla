------------------------------ MODULE MCMemory ------------------------------
(* Constants for TLC: the heap under the first table of a directory, the   *)
(* stack under the second.  Processes, frames and values are symmetric.    *)
EXTENDS Memory, TLC

MCTableOf  == [v \in Pages |-> IF v < StackBottom THEN "heap" ELSE "stack"]
MCSymmetry ==
    Permutations(Procs) \cup Permutations(Frames) \cup Permutations(Values)
=============================================================================
