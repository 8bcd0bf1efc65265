---------------------------- MODULE MCScheduler -----------------------------
(* Instances of the scheduler for TLC: the idle task and three workers.    *)
EXTENDS Scheduler

\* Idle has priority 1, as in taskInit; the workers' slices differ.
MCPriority == [t \in Threads |-> IF t = Idle THEN 1 ELSE IF t = 1 THEN 2 ELSE 3]

\* Less than a tick, and two lengths of sleep that overlap.
MCMillis == {5, 20, 30}
=============================================================================
