-------------------------------- MODULE Lock --------------------------------
(***************************************************************************)
(* The reentrant lock of kernel/mutex.cpp: a mutex with a queue of blocked *)
(* tasks, and around it a holder and a count of nested acquisitions.       *)
(*                                                                         *)
(* The mutex works with interrupts off and its callers are system calls,   *)
(* so each action runs up to the next schedule(): in the loop of mutexLock *)
(* after the caller has queued, in mutexUnlock after it has woken a task.  *)
(* A holder may well block for something else, a device or a key, before   *)
(* it releases.  Which ready task runs next is left to Dispatch.tla.       *)
(***************************************************************************)
EXTENDS Integers, SequencesExt

CONSTANTS
    NrTasks,    \* tasks in taskTable, in slots 0 .. NrTasks - 1
    MaxDepth    \* bound: how deep a task nests its acquisitions

ASSUME LockAssumption == NrTasks \in Nat \ {0} /\ MaxDepth \in Nat \ {0}

Threads == 0 .. NrTasks - 1
Idle    == 0
Boot    == NrTasks
None    == NrTasks + 1

VARIABLES
    current,    \* the task on the processor
    state,      \* task_t.state
    value,      \* mutex_t.value
    waiters,    \* mutex_t.waiters, from head to tail
    holder,     \* lock_t.holder
    repeat,     \* lock_t.repeat
    inLoop,     \* the task is inside the loop of mutexLock
    depth       \* the calls of lockAcquire the task has not yet released

lockVars == <<value, waiters, holder, repeat, inLoop, depth>>
vars     == <<current, state, lockVars>>

D == INSTANCE Dispatch

TypeOK ==
    /\ current \in Threads \cup {Boot}
    /\ state \in [Threads -> {"RUNNING", "READY", "BLOCKED"}]
    /\ value \in BOOLEAN
    /\ waiters \in Seq(Threads)
    /\ holder \in Threads \cup {None}
    /\ repeat \in Nat
    /\ inLoop \in [Threads -> BOOLEAN]
    /\ depth \in [Threads -> Nat]

-----------------------------------------------------------------------------
Init ==
    /\ current = Boot
    /\ state = [t \in Threads |-> "READY"]
    /\ value = FALSE
    /\ waiters = <<>>
    /\ holder = None
    /\ repeat = 0
    /\ inLoop = [t \in Threads |-> FALSE]
    /\ depth = [t \in Threads |-> 0]

\* current is a task that runs code of its own.
Computing == current # Boot /\ ~ inLoop[current]
Worker    == Computing /\ current # Idle

Preempt ==
    /\ current = Boot \/ Computing
    /\ D!Reschedule(state)
    /\ UNCHANGED lockVars

\* The task waits for something that is not the lock.
Block ==
    /\ Worker
    /\ D!Reschedule([state EXCEPT ![current] = "BLOCKED"])
    /\ UNCHANGED lockVars

Unblock(t) ==
    /\ Computing
    /\ state[t] = "BLOCKED" /\ ~ Contains(waiters, t)
    /\ state' = [state EXCEPT ![t] = "READY"]
    /\ UNCHANGED <<current, lockVars>>

\* Mutant: a woken task does not look at the mutex again.
TakeUnseen ==
    /\ value => inLoop[current]
    /\ value' = TRUE
    /\ holder' = current
    /\ repeat' = 1
    /\ inLoop' = [inLoop EXCEPT ![current] = FALSE]
    /\ depth' = [depth EXCEPT ![current] = @ + 1]
    /\ UNCHANGED <<current, state, waiters>>

\* mutexLock finds the mutex free, and lockAcquire makes the caller holder.
Take ==
    /\ ~ value
    /\ value' = TRUE
    /\ holder' = current
    /\ repeat' = 1
    /\ inLoop' = [inLoop EXCEPT ![current] = FALSE]
    /\ depth' = [depth EXCEPT ![current] = @ + 1]
    /\ UNCHANGED <<current, state, waiters>>

\* Mutant: the state of a task that waits for a child is passed.
QueueWaiting ==
    /\ value
    /\ waiters' = <<current>> \o waiters
    /\ inLoop' = [inLoop EXCEPT ![current] = TRUE]
    /\ D!Reschedule([state EXCEPT ![current] = "WAITING"])
    /\ UNCHANGED <<value, holder, repeat, depth>>

\* mutexLock finds it held: taskBlock pushes the caller to the head.
Queue ==
    /\ value
    /\ waiters' = <<current>> \o waiters
    /\ inLoop' = [inLoop EXCEPT ![current] = TRUE]
    /\ D!Reschedule([state EXCEPT ![current] = "BLOCKED"])
    /\ UNCHANGED <<value, holder, repeat, depth>>

Acquire ==
    /\ Worker
    /\ depth[current] < MaxDepth
    /\ holder # current
    /\ Take \/ Queue

AcquireAgain ==
    /\ current # Boot
    /\ inLoop[current]
    /\ Take \/ Queue

Reacquire ==
    /\ Worker
    /\ depth[current] < MaxDepth
    /\ holder = current
    /\ repeat' = repeat + 1
    /\ depth' = [depth EXCEPT ![current] = @ + 1]
    /\ UNCHANGED <<current, state, value, waiters, holder, inLoop>>

-----------------------------------------------------------------------------
\* Mutants: the task made ready is not the one taken off the queue; no one
\* is woken.
WakeNewest ==
    /\ waiters' = Front(waiters)
    /\ D!Reschedule([state EXCEPT ![Head(waiters)] = "READY"])

WakeNobody == UNCHANGED <<current, state, waiters>>

\* mutexUnlock with tasks in the queue: the one at the tail, the first that
\* came, is made ready, and the caller yields.
Wake ==
    /\ waiters' = Front(waiters)
    /\ D!Reschedule([state EXCEPT ![Last(waiters)] = "READY"])

\* lockRelease of an inner, and of the outermost acquisition.
ReleaseInner ==
    /\ repeat > 1
    /\ repeat' = repeat - 1
    /\ UNCHANGED <<current, state, value, waiters, holder>>

ReleaseOuter ==
    /\ repeat = 1
    /\ holder' = None
    /\ repeat' = 0
    /\ value' = FALSE
    /\ IF waiters = <<>> THEN UNCHANGED <<current, state, waiters>> ELSE Wake

Release ==
    /\ Worker
    /\ depth[current] > 0
    /\ depth' = [depth EXCEPT ![current] = @ - 1]
    /\ ReleaseInner \/ ReleaseOuter
    /\ UNCHANGED inLoop

Next ==
    \/ Preempt
    \/ Block
    \/ \E t \in Threads : Unblock(t)
    \/ Acquire
    \/ AcquireAgain
    \/ Reacquire
    \/ Release

Spec == Init /\ [][Next]_vars

-----------------------------------------------------------------------------
(* Mutual exclusion: a task between lockAcquire and lockRelease is the     *)
(* holder, so there is one at most; the count says how deep it is, and     *)
(* the mutex is taken exactly while there is a holder.  The assertions of  *)
(* lockAcquire and lockRelease follow.                                     *)
Exclusive ==
    /\ \A t \in Threads : depth[t] > 0 <=> holder = t
    /\ holder # None => repeat = depth[holder]
    /\ holder = None => repeat = 0
    /\ value <=> holder # None

(* The queue holds the tasks that are blocked in mutexLock, each once: no  *)
(* interrupt and no other waker touches them, and the holder, which may    *)
(* block for a device, is never among them.                                *)
QueueSound ==
    /\ \A t \in Threads :
          Contains(waiters, t) <=> inLoop[t] /\ state[t] = "BLOCKED"
    /\ \A i, j \in DOMAIN waiters : waiters[i] = waiters[j] => i = j
    /\ \A t \in Threads : inLoop[t] => depth[t] = 0

(* No wake-up is lost: tasks are queued only while the mutex is held or a  *)
(* woken task is on its way to it, though that task may find the mutex     *)
(* taken by another one that came first and queue again.                   *)
NoLostWakeup ==
    waiters # <<>> =>
        \/ value
        \/ \E t \in Threads : inLoop[t] /\ state[t] # "BLOCKED"
=============================================================================
