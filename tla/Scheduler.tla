----------------------------- MODULE Scheduler ------------------------------
(***************************************************************************)
(* The scheduler of SoulOS: the task table and its policy (taskSearch,     *)
(* schedule), sleeping (taskSleep, taskWakeup), blocking, and the clock    *)
(* interrupt that drives them (kernel/task.cpp, kernel/clock.cpp).         *)
(*                                                                         *)
(* Each action is one uninterruptible stretch of kernel code: a system     *)
(* call up to the schedule() that ends it, or a whole interrupt handler.   *)
(* Tasks are created when the kernel boots; fork, exit and waitpid are in  *)
(* Process.tla.  The counter jiffies is bounded, far from where it wraps.   *)
(***************************************************************************)
EXTENDS Integers, Sequences, SequencesExt

CONSTANTS
    NrTasks,    \* tasks in taskTable, in slots 0 .. NrTasks - 1
    Priority,   \* task_t.priority of each: the length of its time slice
    Millis,     \* the arguments given to sleep()
    Jiffy,      \* milliseconds per clock tick
    MaxJiffies  \* bound: the clock stops here

Threads == 0 .. NrTasks - 1
Idle    == 0
Boot    == NrTasks
None    == NrTasks + 1

ASSUME SchedulerAssumption ==
    /\ NrTasks \in Nat \ {0}
    /\ Priority \in [Threads -> Nat \ {0}]
    /\ Millis \subseteq Nat
    /\ Jiffy \in Nat \ {0}
    /\ MaxJiffies \in Nat

VARIABLES
    current,    \* the task on whose stack the processor runs
    state,      \* task_t.state
    ticks,      \* task_t.ticks: time slice left, or the tick to wake up at
    lastRun,    \* task_t.jiffies: the tick at which the task last ran
    jiffies,    \* the global tick counter
    sleepList   \* the tasks asleep, by the tick to wake up at

vars == <<current, state, ticks, lastRun, jiffies, sleepList>>

States == {"RUNNING", "READY", "BLOCKED", "SLEEPING"}

TypeOK ==
    /\ current \in Threads \cup {Boot}
    /\ state \in [Threads -> States]
    /\ ticks \in [Threads -> Int]
    /\ lastRun \in [Threads -> Nat]
    /\ jiffies \in 0 .. MaxJiffies
    /\ sleepList \in Seq(Threads)

-----------------------------------------------------------------------------
\* The tasks taskSearch(TASK_READY) looks at, given the states st.
Candidate(st, t) == t # current /\ st[t] = "READY"

\* The scan of taskSearch(TASK_READY) over the slots below i: the best ready
\* task so far, where a later slot beats an earlier one if it has more ticks
\* left or has not run for longer.
Scan(st, tk) ==
    LET beats(t, b) == tk[b] < tk[t] \/ lastRun[t] < lastRun[b]
        best[i \in 0 .. NrTasks] ==
            IF i = 0 THEN None
            ELSE IF /\ Candidate(st, i - 1)
                    /\ best[i - 1] # None => beats(i - 1, best[i - 1])
                 THEN i - 1
                 ELSE best[i - 1]
    IN  best

\* Mutant: no fallback on the idle task.
TaskSearchNoIdle(st, tk) == Scan(st, tk)[NrTasks]

TaskSearch(st, tk) ==
    LET found == Scan(st, tk)[NrTasks] IN IF found = None THEN Idle ELSE found

\* Mutant: schedule() forgets to put the current task back among the ready.
SwitchedNotReleased(next, st) ==
    [t \in Threads |-> IF t = next THEN "RUNNING" ELSE st[t]]

\* The states schedule() leaves behind when it switches from current to next.
Switched(next, st) ==
    [t \in Threads |->
        IF t = next THEN "RUNNING"
        ELSE IF t = current /\ st[t] = "RUNNING" THEN "READY"
        ELSE st[t]]

\* schedule() once the table holds the states st and the ticks tk.
Schedule(st, tk) ==
    LET next == TaskSearch(st, tk)
    IN  /\ current' = next
        /\ state' = Switched(next, st)
        /\ ticks' = [t \in Threads |->
                        IF t = current /\ tk[t] = 0 THEN Priority[t] ELSE tk[t]]

\* Mutant: the list is pushed to, not sorted.
InsertionPointFront(key) == 1

\* Where listInsertSort puts a key: before the first one that is greater.
InsertionPoint(key) ==
    CHOOSE p \in 1 .. Len(sleepList) + 1 :
        /\ \A i \in 1 .. p - 1 : ticks[sleepList[i]] <= key
        /\ p <= Len(sleepList) => ticks[sleepList[p]] > key

-----------------------------------------------------------------------------
Init ==
    /\ current = Boot
    /\ state = [t \in Threads |-> "READY"]
    /\ ticks = Priority
    /\ lastRun = [t \in Threads |-> 0]
    /\ jiffies = 0
    /\ sleepList = <<>>

\* The task on the processor is one that was scheduled, and not the idle
\* task, which only ever yields (idleThread).
Worker == current \in Threads \ {Idle}

Yield ==
    /\ current # Boot
    /\ Schedule(state, ticks)
    /\ UNCHANGED <<lastRun, jiffies, sleepList>>

Sleep(ms) ==
    LET nap      == IF ms \div Jiffy > 0 THEN ms \div Jiffy ELSE 1
        deadline == jiffies + nap
    IN  /\ Worker
        /\ sleepList' = InsertAt(sleepList, InsertionPoint(deadline), current)
        /\ Schedule([state EXCEPT ![current] = "SLEEPING"],
                    [ticks EXCEPT ![current] = deadline])
        /\ UNCHANGED <<lastRun, jiffies>>

Block ==
    /\ Worker
    /\ Schedule([state EXCEPT ![current] = "BLOCKED"], ticks)
    /\ UNCHANGED <<lastRun, jiffies, sleepList>>

\* taskUnblock, by the running task or by an interrupt handler.
Unblock(t) ==
    /\ state[t] = "BLOCKED"
    /\ state' = [state EXCEPT ![t] = "READY"]
    /\ UNCHANGED <<current, ticks, lastRun, jiffies, sleepList>>

\* Mutants: tasks are woken a tick early; only the first of those due is.
DueEarly(i) == ticks[sleepList[i]] <= jiffies + 1

WokenFirst(n) == {sleepList[i] : i \in 1 .. n \cap {1}}

\* Mutant: a woken task keeps the tick it slept for as its time slice.
TicksAfterKept(W) ==
    [t \in Threads |-> IF t = current THEN ticks[t] - 1 ELSE ticks[t]]

\* taskWakeup: the n tasks that are due are at the front of sleepList.
Due(i) == ticks[sleepList[i]] <= jiffies

Woken(n) == {sleepList[i] : i \in 1 .. n}

\* The ticks once the tasks W are woken and the current one is charged.
TicksAfter(W) ==
    [t \in Threads |-> IF t \in W THEN 0
                       ELSE IF t = current THEN ticks[t] - 1
                       ELSE ticks[t]]

\* clockHandler.  taskWakeup works before jiffies moves on, and stops at the
\* first task that is not due; then the interrupted task is charged a tick,
\* and preempted if that was its last.  The boot task has one tick.
ClockTick ==
    /\ jiffies < MaxJiffies
    /\ jiffies' = jiffies + 1
    /\ lastRun' = [t \in Threads |->
                      IF t = current THEN jiffies + 1 ELSE lastRun[t]]
    /\ \E n \in 0 .. Len(sleepList) :
        /\ \A i \in 1 .. n : Due(i)
        /\ n < Len(sleepList) => ~ Due(n + 1)
        /\ LET tk == TicksAfter(Woken(n))
               st == [t \in Threads |->
                         IF t \in Woken(n) THEN "READY" ELSE state[t]]
           IN  /\ sleepList' = SubSeq(sleepList, n + 1, Len(sleepList))
               /\ IF current = Boot \/ tk[current] = 0
                  THEN Schedule(st, tk)
                  ELSE state' = st /\ ticks' = tk /\ UNCHANGED current

Next ==
    \/ ClockTick
    \/ Yield
    \/ Block
    \/ \E ms \in Millis : Sleep(ms)
    \/ \E t \in Threads : Unblock(t)

Spec == Init /\ [][Next]_vars

\* The clock is the only step that must happen: nothing makes a task run its
\* own code, but the timer interrupt comes whatever the tasks do.
FairSpec == Spec /\ WF_vars(ClockTick)

-----------------------------------------------------------------------------
(* schedule() picks the next task before it takes the processor from the   *)
(* current one: the switch must leave exactly one running task, the one on *)
(* whose stack the processor is, in every path that calls it.              *)
SoleRunner == {t \in Threads : state[t] = "RUNNING"} = {current} \ {Boot}

(* A task has one list node: it is asleep exactly while the node is on     *)
(* sleepList, once, so that taskBlock never finds it linked.               *)
SleepListed ==
    /\ \A t \in Threads : state[t] = "SLEEPING" <=> Contains(sleepList, t)
    /\ \A i, j \in DOMAIN sleepList : sleepList[i] = sleepList[j] => i = j

(* listInsertSort keeps sleepList by the tick to wake up at, though that   *)
(* field is also the time slice that ClockTick and schedule() write.       *)
SleepOrdered ==
    \A i, j \in DOMAIN sleepList :
        i < j => ticks[sleepList[i]] <= ticks[sleepList[j]]

(* No task is still asleep once the tick it waits for is over: taskWakeup  *)
(* may stop at the first task that is not due.                             *)
NoOversleep == \A t \in Threads : state[t] = "SLEEPING" => jiffies <= ticks[t]

(* A task that sleeps is found by taskWakeup, in time and only once: the   *)
(* three facts above, which depend on each other.                          *)
SleepSound == SleepListed /\ SleepOrdered /\ NoOversleep

(* The tick a task slept for never passes for a time slice: outside of     *)
(* sleep a task has at most its priority in ticks.                         *)
SliceBounded ==
    \A t \in Threads : state[t] # "SLEEPING" => ticks[t] <= Priority[t]

(* A sleeping task is woken in the clock interrupt of the tick that        *)
(* taskSleep recorded, neither before it nor after.                        *)
WokenOnTime ==
    [][\A t \in Threads :
          state[t] = "SLEEPING" /\ state'[t] # "SLEEPING"
              => jiffies = ticks[t] /\ jiffies' = jiffies + 1]_vars

(* schedule() is the one way onto the processor and picks a ready task or  *)
(* the idle task: the scheduler does what Dispatch.tla promises.           *)
Abstract == INSTANCE Dispatch
DispatchSpec == Abstract!Spec

(* With the timer interrupt running, a task that sleeps is ready again     *)
(* before the clock stops, whatever the other tasks do.                    *)
SleeperWakes ==
    \A t \in Threads :
        (state[t] = "SLEEPING" /\ ticks[t] < MaxJiffies)
            ~> state[t] \in {"READY", "RUNNING"}

=============================================================================
