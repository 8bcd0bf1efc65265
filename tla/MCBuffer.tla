------------------------------ MODULE MCBuffer ------------------------------
(* Tasks, and what a block may contain, are interchangeable.               *)
EXTENDS Buffer

MCSymmetry == Permutations(Tasks) \cup Permutations(Values)
=============================================================================
