---------------------------- MODULE MCKernelHeap ----------------------------
(* Constants for TLC: blocks of two sizes, three and two to a page.        *)
EXTENDS KernelHeap

MCTotalBlock == [c \in Classes |-> IF c = "c512" THEN 3 ELSE 2]
=============================================================================
