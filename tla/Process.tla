------------------------------ MODULE Process -------------------------------
(***************************************************************************)
(* The life of a process in SoulOS: taskFork, taskExit and taskWaitpid of  *)
(* kernel/task.cpp, over the task table with its slots.  A pid is the      *)
(* index of the slot, so pids are reused as soon as a dead child is        *)
(* reaped; an exiting task hands its children to its own parent.           *)
(*                                                                         *)
(* Which ready task runs next is left open (Dispatch.tla).  A system call  *)
(* runs with interrupts off: it is one step up to its schedule(), and a    *)
(* task that waits in waitpid goes on with its loop as soon as it is       *)
(* switched to, before any interrupt.                                      *)
(***************************************************************************)
EXTENDS Integers, FiniteSetsExt

CONSTANT NrTasks    \* slots in taskTable

ASSUME ProcessAssumption == NrTasks \in Nat /\ NrTasks >= 3

Threads == 0 .. NrTasks - 1
Idle    == 0
Boot    == NrTasks
AnyPid  == -1

VARIABLES
    current,    \* the task on the processor
    state,      \* task_t.state, FREE where taskTable holds a null pointer
    ppid,       \* task_t.ppid
    waitpid,    \* task_t.waitpid: the child it last blocked for, or AnyPid
    inWait,     \* the task is inside the loop of taskWaitpid
    panicked    \* getFreeTask found no free slot, and the kernel stopped

procVars == <<ppid, waitpid, inWait, panicked>>
vars     == <<current, state, ppid, waitpid, inWait, panicked>>

D == INSTANCE Dispatch

TypeOK ==
    /\ current \in Threads \cup {Boot}
    /\ state \in [Threads -> D!States]
    /\ ppid \in [Threads -> Threads]
    /\ waitpid \in [Threads -> Threads \cup {AnyPid}]
    /\ inWait \in [Threads -> BOOLEAN]
    /\ panicked \in BOOLEAN

-----------------------------------------------------------------------------
Used == {t \in Threads : state[t] # "FREE"}

\* The children of p that waitpid(pid) is about.  Both loops over the table
\* start at slot 2: idle and init are nobody's children.
Matching(p, pid) ==
    {t \in Used : t >= 2 /\ ppid[t] = p /\ pid \in {t, AnyPid}}

\* Mutants: the loop of taskExit leaves the children where they are, or gives
\* them to no one.
AdoptNone(x) == ppid
AdoptNobody(x) == [t \in Threads |->
    IF t \in Used /\ t >= 2 /\ ppid[t] = x THEN AnyPid ELSE ppid[t]]

\* The parents of all tasks once those of the children of x have changed.
Adopt(x) == [t \in Threads |->
    IF t \in Used /\ t >= 2 /\ ppid[t] = x THEN ppid[x] ELSE ppid[t]]

\* Mutant: taskExit forgets that its parent may wait for any child.
AwaitedByName(x) ==
    {p \in {ppid[x]} : state[p] = "WAITING" /\ waitpid[p] = x}

\* The parent of x, if it waits for the exit of x.
Awaited(x) ==
    {p \in {ppid[x]} : state[p] = "WAITING" /\ waitpid[p] \in {x, AnyPid}}

-----------------------------------------------------------------------------
\* taskInit: idle, init and test, all of them created with ppid 0.
Init ==
    /\ current = Boot
    /\ state = [t \in Threads |-> IF t <= 2 THEN "READY" ELSE "FREE"]
    /\ ppid = [t \in Threads |-> 0]
    /\ waitpid = [t \in Threads |-> 0]
    /\ inWait = [t \in Threads |-> FALSE]
    /\ panicked = FALSE

\* current is a task that runs code of its own, with interrupts on.
Computing ==
    /\ ~ panicked
    /\ current # Boot
    /\ ~ inWait[current]

InSyscall == Computing /\ current # Idle

\* yield, and the clock interrupt at the end of a time slice; the first one
\* takes the processor from the boot stack.
Preempt ==
    /\ ~ panicked
    /\ current = Boot \/ Computing
    /\ D!Reschedule(state)
    /\ UNCHANGED procVars

\* The task waits for something else: a lock, a device, the clock.
Block ==
    /\ InSyscall
    /\ D!Reschedule([state EXCEPT ![current] = "BLOCKED"])
    /\ UNCHANGED procVars

Unblock(t) ==
    /\ Computing
    /\ state[t] = "BLOCKED"
    /\ state' = [state EXCEPT ![t] = "READY"]
    /\ UNCHANGED <<current, procVars>>

\* taskFork: the child is a copy of the task control block in the first free
\* slot, ready to return to user mode; the parent keeps the processor.
Fork ==
    /\ InSyscall
    /\ Used # Threads
    /\ LET child == Min(Threads \ Used)
       IN  /\ state' = [state EXCEPT ![child] = "READY"]
           /\ ppid' = [ppid EXCEPT ![child] = current]
           /\ waitpid' = [waitpid EXCEPT ![child] = waitpid[current]]
           /\ inWait' = [inWait EXCEPT ![child] = FALSE]
    /\ UNCHANGED <<current, panicked>>

ForkPanic ==
    /\ InSyscall
    /\ Used = Threads
    /\ panicked' = TRUE
    /\ UNCHANGED <<current, state, ppid, waitpid, inWait>>

Exit ==
    /\ InSyscall
    /\ ppid' = Adopt(current)
    /\ D!Reschedule([t \in Threads |-> IF t = current THEN "DIED"
                                       ELSE IF t \in Awaited(current) THEN "READY"
                                       ELSE state[t]])
    /\ UNCHANGED <<waitpid, inWait, panicked>>

\* Mutant: taskWaitpid reaps a child that is not there to answer.
DeadOrStopped == {"DIED", "BLOCKED"}

Dead == {"DIED"}

\* One round of the loop of taskWaitpid: the first dead child is reaped and
\* the call returns; without a dead one, the caller blocks if it has any
\* child that matches, and returns -1 if it has none.  What the control block
\* of a free slot held is gone with its page.
Reap(pid) ==
    LET dead == {t \in Matching(current, pid) : state[t] \in Dead}
    IN  /\ dead # {}
        /\ state' = [state EXCEPT ![Min(dead)] = "FREE"]
        /\ ppid' = [ppid EXCEPT ![Min(dead)] = 0]
        /\ waitpid' = [waitpid EXCEPT ![Min(dead)] = 0]
        /\ inWait' = [inWait EXCEPT ![current] = FALSE]
        /\ UNCHANGED <<current, panicked>>

AwaitChild(pid) ==
    /\ Matching(current, pid) # {}
    /\ \A t \in Matching(current, pid) : state[t] \notin Dead
    /\ waitpid' = [waitpid EXCEPT ![current] = pid]
    /\ inWait' = [inWait EXCEPT ![current] = TRUE]
    /\ D!Reschedule([state EXCEPT ![current] = "WAITING"])
    /\ UNCHANGED <<ppid, panicked>>

NoChild(pid) ==
    /\ Matching(current, pid) = {}
    /\ inWait' = [inWait EXCEPT ![current] = FALSE]
    /\ UNCHANGED <<current, state, ppid, waitpid, panicked>>

Round(pid) == Reap(pid) \/ AwaitChild(pid) \/ NoChild(pid)

Waitpid(pid) == InSyscall /\ Round(pid)

WaitpidAgain ==
    /\ ~ panicked
    /\ current # Boot
    /\ inWait[current]
    /\ Round(waitpid[current])

Next ==
    \/ Preempt
    \/ Block
    \/ \E t \in Threads : Unblock(t)
    \/ Fork
    \/ ForkPanic
    \/ Exit
    \/ \E pid \in Threads \cup {AnyPid} : Waitpid(pid)
    \/ WaitpidAgain

Spec == Init /\ [][Next]_vars

-----------------------------------------------------------------------------
(* taskExit dereferences taskTable[ppid] without a check: the parent of    *)
(* every task, dead ones included, is a task that is there and alive.      *)
ParentAlive == \A t \in Used : state[ppid[t]] \notin {"FREE", "DIED"}

(* A task waits in waitpid only as long as some child it waits for is      *)
(* alive and none has died: no exit is missed, whoever the child was given *)
(* to, and no one waits for a child that will never come.                  *)
NoMissedExit ==
    \A p \in Threads : state[p] = "WAITING" =>
        /\ Matching(p, waitpid[p]) # {}
        /\ \A t \in Matching(p, waitpid[p]) : state[t] # "DIED"

(* However slots are reused and children handed on, every task descends    *)
(* from the idle task: no set of tasks is closed under "parent of".        *)
FamilyTree ==
    \A S \in SUBSET (Used \ {Idle}) :
        S # {} => \E t \in S : ppid[t] \notin S

(* The life cycle keeps to Dispatch.tla: forks fill free slots, only dead  *)
(* tasks are reaped, and schedule() is the one way onto the processor.     *)
DispatchSpec == D!Spec
=============================================================================
