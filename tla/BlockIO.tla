------------------------------ MODULE BlockIO -------------------------------
(***************************************************************************)
(* Disk requests in SoulOS: deviceRequest of kernel/device.cpp with its    *)
(* list of requests and the elevator that chooses the next one, and the    *)
(* driver of kernel/ide.cpp, where the disks of a controller share a lock  *)
(* and one place for the task that waits for the interrupt.                *)
(*                                                                         *)
(* A task in deviceRequest runs with interrupts off until it blocks: for   *)
(* its turn, for the lock, or for the interrupt at each sector.  When it   *)
(* is woken it still polls, as the interrupt may have been an older one.   *)
(***************************************************************************)
EXTENDS Integers, SequencesExt, FiniteSets

CONSTANTS
    NrTasks,    \* tasks in taskTable, the idle task among them
    Disks,      \* the disks on one controller
    Parts,      \* for each disk, where its partitions start
    Sectors,    \* bound: the sectors asked for, as a device counts them
    MaxCount    \* bound: how many sectors one request is about

ASSUME BlockIOAssumption ==
    /\ NrTasks \in Nat \ {0} /\ MaxCount \in Nat \ {0} /\ Sectors \subseteq Nat
    /\ Parts \in [Disks -> Seq(Nat)]

VARIABLES
    current, state, value, waiters, holder, repeat, inLoop, depth,
    list,       \* device_t.requestList: the tasks, in the order of the list
    up,         \* device_t.direct = DIRECT_UP
    waiter,     \* ide_ctrl_t.waiter
    busy,       \* the controller works on a sector
    irq,        \* its interrupt has not been taken
    stage,      \* how far each task is in deviceRequest
    dev,        \* request_t.dev
    idx,        \* request_t.idx
    left        \* the sectors idePioRead or idePioWrite has not waited for

lockVars == <<current, state, value, waiters, holder, repeat, inLoop, depth>>
reqVars  == <<list, up, dev, idx>>
ctrlVars == <<waiter, busy, irq>>
vars     == <<lockVars, reqVars, ctrlVars, stage, left>>

L == INSTANCE Lock WITH MaxDepth <- 1

TypeOK ==
    /\ L!TypeOK
    /\ list \in [Disks -> Seq(L!Threads)]
    /\ up \in [Disks -> BOOLEAN]
    /\ waiter \in L!Threads \cup {L!None}
    /\ busy \in BOOLEAN /\ irq \in BOOLEAN
    /\ stage \in [L!Threads -> {"user", "turn", "work", "move", "done"}]
    /\ dev \in [L!Threads -> Disks \cup {L!None}]
    /\ idx \in [L!Threads -> Nat]
    /\ left \in [L!Threads -> 0 .. MaxCount]

-----------------------------------------------------------------------------
\* ideCtrlInit identifies the disks by polling, so that an interrupt may wait
\* for interrupts to be let in.
CtrlInit ==
    /\ waiter = L!None
    /\ busy = FALSE
    /\ irq \in BOOLEAN

Init ==
    /\ L!Init
    /\ CtrlInit
    /\ list = [d \in Disks |-> <<>>]
    /\ up = [d \in Disks |-> TRUE]
    /\ stage = [t \in L!Threads |-> "user"]
    /\ dev = [t \in L!Threads |-> L!None]
    /\ idx = [t \in L!Threads |-> 0]
    /\ left = [t \in L!Threads |-> 0]

\* current is in deviceRequest, where interrupts are off.
InRequest == current # L!Boot /\ stage[current] # "user"

Preempt ==
    /\ ~ InRequest
    /\ L!Preempt
    /\ UNCHANGED <<reqVars, ctrlVars, stage, left>>

\* Mutant: the list is kept with the last sector first.
PositionDown(s, i) ==
    CHOOSE n \in 1 .. Len(s) + 1 :
        /\ \A m \in 1 .. n - 1 : idx[s[m]] >= i
        /\ n <= Len(s) => idx[s[n]] < i

\* listInsertSort: before the first request for a greater sector.
Position(s, i) ==
    CHOOSE n \in 1 .. Len(s) + 1 :
        /\ \A m \in 1 .. n - 1 : idx[s[m]] <= i
        /\ n <= Len(s) => idx[s[n]] > i

\* DEV_CMD_SECTOR_START of a disk, k = 0, and of its partition k.
SectorStart(d, k) == IF k = 0 THEN 0 ELSE Parts[d][k]

\* deviceRequest, up to the point where the caller may start or must wait.
\* The requests for a partition are requests for its disk.
Request(d, k, sector, count) == LET i == sector + SectorStart(d, k) IN
    /\ L!Worker /\ ~ InRequest
    /\ dev' = [dev EXCEPT ![current] = d]
    /\ idx' = [idx EXCEPT ![current] = i]
    /\ left' = [left EXCEPT ![current] = count]
    /\ list' = [list EXCEPT ![d] = InsertAt(@, Position(@, i), current)]
    /\ stage' = [stage EXCEPT ![current] = "turn"]
    /\ IF list[d] = <<>> THEN UNCHANGED lockVars ELSE L!Block
    /\ UNCHANGED <<up, ctrlVars>>

\* The caller goes on to doRequest: idePioRead takes the controller's lock.
DoRequest ==
    /\ InRequest /\ stage[current] = "turn"
    /\ L!Acquire
    /\ stage' = [stage EXCEPT ![current] = "work"]
    /\ UNCHANGED <<reqVars, ctrlVars, left>>

AcquireAgain ==
    L!AcquireAgain /\ UNCHANGED <<reqVars, ctrlVars, stage, left>>

\* ideBusyWait: the caller polls until the controller is ready.
Polled(where) == InRequest /\ stage[current] = where /\ ~ busy

\* The drive and the sectors are selected, and the command is given.
Command ==
    /\ Polled("work") /\ holder = current
    /\ stage' = [stage EXCEPT ![current] = "move"]
    /\ UNCHANGED <<lockVars, reqVars, ctrlVars, left>>

\* One sector: the controller works, and the caller waits for its interrupt.
Sector ==
    /\ Polled("move")
    /\ left[current] > 0
    /\ left' = [left EXCEPT ![current] = @ - 1]
    /\ busy' = TRUE
    /\ waiter' = current
    /\ L!Block
    /\ UNCHANGED <<reqVars, irq, stage>>

\* The controller is done with it.  Interrupts that wait are one.
Ready ==
    /\ busy
    /\ busy' = FALSE
    /\ irq' = TRUE
    /\ UNCHANGED <<lockVars, reqVars, waiter, stage, left>>

IdeHandler ==
    /\ ~ InRequest
    /\ irq
    /\ irq' = FALSE
    /\ IF waiter = L!None THEN UNCHANGED lockVars
       ELSE /\ state' = [state EXCEPT ![waiter] = "READY"]
            /\ UNCHANGED <<current, value, waiters, holder, repeat, inLoop, depth>>
    /\ waiter' = L!None
    /\ UNCHANGED <<reqVars, busy, stage, left>>

\* Mutant: the interrupt is trusted, and the last sector not polled for.
ReleaseUnpolled ==
    /\ InRequest /\ stage[current] = "move"
    /\ left[current] = 0
    /\ L!Release
    /\ stage' = [stage EXCEPT ![current] = "done"]
    /\ UNCHANGED <<reqVars, ctrlVars, left>>

\* The last sector is done; lockRelease may let others run before it returns.
Release ==
    /\ Polled("move")
    /\ left[current] = 0
    /\ L!Release
    /\ stage' = [stage EXCEPT ![current] = "done"]
    /\ UNCHANGED <<reqVars, ctrlVars, left>>

-----------------------------------------------------------------------------
Place(d, t) == CHOOSE n \in DOMAIN list[d] : list[d][n] = t

\* Mutant: the elevator turns around one request too late.
UpAfterLate(d, t) ==
    IF up[d] THEN Place(d, t) <= Len(list[d]) ELSE Place(d, t) = 1

\* requestNextreq: the direction after the request of t on disk d.
UpAfter(d, t) ==
    IF up[d] THEN Place(d, t) # Len(list[d]) ELSE Place(d, t) = 1

\* Mutant: whatever the direction, the first request of the list is next.
NextRequestsFirst(d, t) == {list[d][1]}

\* requestNextreq: the request next to that of t in this direction, if any.
NextRequests(d, t) ==
    {list[d][n] : n \in {IF UpAfter(d, t) THEN Place(d, t) + 1
                                          ELSE Place(d, t) - 1} \cap DOMAIN list[d]}

\* The end of deviceRequest: the request goes, the next one is woken.
Finish ==
    /\ InRequest /\ stage[current] = "done"
    /\ LET d == dev[current] IN
       /\ up' = [up EXCEPT ![d] = UpAfter(d, current)]
       /\ list' = [list EXCEPT ![d] = RemoveAt(@, Place(d, current))]
       /\ state' = [t \in L!Threads |->
                       IF t \in NextRequests(d, current) THEN "READY" ELSE state[t]]
    /\ stage' = [stage EXCEPT ![current] = "user"]
    /\ idx' = [idx EXCEPT ![current] = 0]
    /\ dev' = [dev EXCEPT ![current] = L!None]
    /\ UNCHANGED <<current, value, waiters, holder, repeat, inLoop, depth,
                   ctrlVars, left>>

Next ==
    \/ Preempt
    \/ \E d \in Disks, sector \in Sectors, count \in 1 .. MaxCount :
          \E k \in 0 .. Len(Parts[d]) : Request(d, k, sector, count)
    \/ DoRequest
    \/ AcquireAgain
    \/ Command
    \/ Sector
    \/ Ready
    \/ IdeHandler
    \/ Release
    \/ Finish

Spec == Init /\ [][Next]_vars

-----------------------------------------------------------------------------
Listed(d) == {list[d][n] : n \in DOMAIN list[d]}

\* The task waits in its disk's list.
Queued(t) == stage[t] = "turn" /\ state[t] = "BLOCKED"

(* A list holds the requests that are not finished, each once, by sector,  *)
(* and all but one of them wait: that one has the disk, and wakes the next *)
(* one when it is done.                                                    *)
ListSound == TypeOK /\ \A d \in Disks :
    /\ Listed(d) = {t \in L!Threads : stage[t] # "user" /\ dev[t] = d}
    /\ Len(list[d]) = Cardinality(Listed(d))
    /\ \A m, n \in DOMAIN list[d] : m < n => idx[list[d][m]] <= idx[list[d][n]]
    /\ list[d] # <<>> => Cardinality({t \in Listed(d) : ~ Queued(t)}) = 1

(* The controller works only for the task that has its lock, and whoever   *)
(* waits for its interrupt will get one, though an older one may come      *)
(* first.  As long as a request is open, one task with an open request can *)
(* run or is going to be woken by an interrupt: the tasks in the lists and *)
(* in the queue of the lock do not wait for each other only.               *)
Progress ==
    /\ \A t \in L!Threads : waiter = t <=> holder = t /\ state[t] = "BLOCKED"
    /\ waiter # L!None => busy \/ irq
    /\ busy => holder # L!None /\ stage[holder] = "move"
    /\ (\E d \in Disks : list[d] # <<>>) =>
          \E t \in L!Threads : stage[t] # "user" /\ (state[t] # "BLOCKED" \/ waiter = t)

Beyond(t, v, rising) == IF rising THEN idx[v] > idx[t] ELSE idx[v] < idx[t]

(* The elevator: when a request is done, the disk passes to a waiting one  *)
(* in the direction of travel with no other in between, and it turns only  *)
(* when nothing is left ahead.                                             *)
Elevator == [][\A d \in Disks : \A t \in Listed(d) \ Listed(d)' :
    LET rest == Listed(d)' IN
    /\ up'[d] # up[d] => \A v \in rest : ~ Beyond(t, v, up[d])
    /\ rest # {} => \E u \in rest :
          /\ Queued(u) /\ state'[u] = "READY"
          /\ ~ Beyond(t, u, ~ up'[d])
          /\ \A v \in rest : ~ (Beyond(t, v, up'[d]) /\ Beyond(v, u, up'[d]))]_vars

(* The requests keep to the rules of the lock and of the scheduler.        *)
LockSpec == L!Spec
=============================================================================
