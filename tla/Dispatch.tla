------------------------------ MODULE Dispatch ------------------------------
(***************************************************************************)
(* What the task subsystem of SoulOS (kernel/task.cpp) promises to the     *)
(* rest of the kernel, with its policy left out: one processor, a table    *)
(* of tasks, and a schedule() that hands the processor to some ready task  *)
(* or to the idle task.  WHICH ready task is not said; Scheduler.tla says  *)
(* it exactly, and is shown to implement this module, as is the process    *)
(* life cycle of Process.tla.                                              *)
(*                                                                         *)
(* Every gate of the kernel is an interrupt gate (interrupt.cpp), so code  *)
(* that runs in the kernel is interrupted only where it enables interrupts *)
(* or calls schedule(): a step below is the code between two such points.  *)
(***************************************************************************)

CONSTANTS
    Threads,    \* the slots of taskTable
    Idle,       \* the slot of the idle task
    Boot        \* the pseudo-task the kernel boots on; it has no slot

\* What a module that implements this one has to see to.
ThreadsAssumption == Idle \in Threads /\ Boot \notin Threads

VARIABLES
    current,    \* the task whose stack the processor is on (runningTask)
    state       \* task_t.state of every slot, FREE where the slot is null

vars == <<current, state>>

Suspended == {"BLOCKED", "SLEEPING", "WAITING"}
States    == {"FREE", "RUNNING", "READY", "DIED"} \cup Suspended

TypeOK ==
    /\ current \in Threads \cup {Boot}
    /\ state \in [Threads -> States]

-----------------------------------------------------------------------------
\* The tasks taskSearch(TASK_READY) may return, given the table st.
Ready(st) == {t \in Threads \ {current} : st[t] = "READY"}

Eligible(st) == IF Ready(st) = {} THEN {Idle} ELSE Ready(st)

\* schedule() switching from current to next, with the table at st: current,
\* if it was running, is put back among the ready tasks.
SwitchTo(next, st) ==
    /\ current' = next
    /\ state' = [t \in Threads |->
                    IF t = next THEN "RUNNING"
                    ELSE IF t = current /\ st[t] = "RUNNING" THEN "READY"
                    ELSE st[t]]

Reschedule(st) == \E next \in Eligible(st) : SwitchTo(next, st)

\* taskUnblock on every task of W.
Unblocked(W) == [t \in Threads |-> IF t \in W THEN "READY" ELSE state[t]]

Sleepers == {t \in Threads : state[t] \in Suspended}

-----------------------------------------------------------------------------
Init ==
    /\ current = Boot
    /\ state \in [Threads -> {"FREE", "READY"}]
    /\ state[Idle] = "READY"

\* The clock tick or a handler makes some tasks ready, and may preempt.
Resume == \E W \in SUBSET Sleepers :
    \/ Reschedule(Unblocked(W))
    \/ state' = Unblocked(W) /\ UNCHANGED current

\* current gives up the processor for good or until it is unblocked, and may
\* unblock others on its way out (an exiting child, its waiting parent).
Leave == \E s \in Suspended \cup {"DIED"}, W \in SUBSET Sleepers :
    /\ current \in Threads \ {Idle}
    /\ Reschedule([Unblocked(W) EXCEPT ![current] = s])

\* current fills a free slot with a copy of itself, or empties a dead one.
Create == \E t \in Threads :
    /\ state[t] = "FREE" /\ current # Boot
    /\ state' = [state EXCEPT ![t] = "READY"]
    /\ UNCHANGED current

Reap == \E t \in Threads :
    /\ state[t] = "DIED" /\ current # Boot
    /\ state' = [state EXCEPT ![t] = "FREE"]
    /\ UNCHANGED current

Next == Resume \/ Leave \/ Create \/ Reap

Spec == Init /\ [][Next]_vars

-----------------------------------------------------------------------------
(* Once the kernel has left its boot stack, the task on the processor is   *)
(* the one and only task whose state is RUNNING; before, there is none.    *)
SoleRunner == {t \in Threads : state[t] = "RUNNING"} = {current} \ {Boot}

(* A task that has died never runs again: its slot can only be emptied, by *)
(* the parent that waits for it, and a free slot only becomes ready.       *)
DeadStayDead == [][\A t \in Threads :
    /\ state[t] = "DIED" => state'[t] \in {"DIED", "FREE"}
    /\ state[t] = "FREE" => state'[t] \in {"FREE", "READY"}]_vars
=============================================================================
