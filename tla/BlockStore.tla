----------------------------- MODULE BlockStore -----------------------------
(***************************************************************************)
(* What kernel/buffer.cpp promises to those who take turns with a block:   *)
(* whoever opens it finds what the one before has left, as if there were   *)
(* no cache, and what was closed is on the disk.  Buffer.tla, where blocks *)
(* share a few buffers, is shown to implement this module.                 *)
(***************************************************************************)

CONSTANTS
    Tasks,
    Blocks,
    Values,     \* what a block may contain
    Closed      \* a task that has no block

VARIABLES
    store,      \* the content of every block
    disk,       \* what would be left of it without power
    open        \* the block a task has, and what it sees there

Init ==
    /\ store \in [Blocks -> Values]
    /\ disk = store
    /\ open = [t \in Tasks |-> Closed]

Open(t, b) ==
    /\ open[t] = Closed
    /\ \A u \in Tasks : open[u] # Closed => open[u].block # b
    /\ open' = [open EXCEPT ![t] = [block |-> b, data |-> store[b]]]
    /\ UNCHANGED <<store, disk>>

Change(t, v) ==
    /\ open[t] # Closed
    /\ store' = [store EXCEPT ![open[t].block] = v]
    /\ open' = [open EXCEPT ![t].data = v]
    /\ UNCHANGED disk

Save(t) ==
    /\ open[t] # Closed
    /\ disk' = [disk EXCEPT ![open[t].block] = open[t].data]
    /\ UNCHANGED <<store, open>>

Close(t) ==
    /\ open[t] # Closed
    /\ disk[open[t].block] = open[t].data
    /\ open' = [open EXCEPT ![t] = Closed]
    /\ UNCHANGED <<store, disk>>

Next == \E t \in Tasks :
    \/ \E b \in Blocks : Open(t, b)
    \/ \E v \in Values : Change(t, v)
    \/ Save(t)
    \/ Close(t)

Spec == Init /\ [][Next]_<<store, disk, open>>
=============================================================================
