# SoulOS: a verification project

SoulOS is a small 32-bit x86 kernel with one processor: tasks with fork, exit
and waitpid, sleeping and locks, paged memory with copy-on-write, a kernel
heap, a keyboard, a console, IDE disks, a clock, and the beginning of a MINIX
file system. This directory holds TLA+ models of its parts, the TLC configurations
that check them on small instances, and proofs for TLAPS of what holds for
every instance. `PROJECT.json` lists components, runs, mutants, the source
lines of every definition, findings, hazards and theorems.

Source paths below are relative to `src/src/`.

## 1. Inventory

### How the parts fit together

Every gate of the descriptor table is an interrupt gate (`kernel/interrupt.cpp`
168-211). A system call or an interrupt handler therefore runs with interrupts
off, and the processor changes hands only where the code calls `schedule()`.
This one fact decides what a step is in all models: **the code between two
calls of `schedule()`**. User code, and kernel threads with interrupts on, can
be interrupted at any point, which the models allow between any two steps.

    user programs, kernel threads
       | system calls (gate.cpp)
       v
    fork/exit/waitpid -----> paging -----> kernel pages, kmalloc
       |                                        ^
       v                                        |
    scheduler <--- block/unblock --- lock <--- keyboardRead   idePioRead/Write
       ^                                        ^    ^            ^
       | clock                    keyboard irq--+  fifo     disk irq, request list
                                                                  ^
                                   console    buffer cache -------+
                                                   ^
                                              super, inode, bmap

Shared state: the task table with the task states (written by nearly all), the
list node of a task (on one list at a time: sleepers, waiters of a mutex,
blocked tasks), the `waiter` fields that interrupt handlers read, the page
reference counts.

### Components

| Component | State | Operations | What is hard |
|---|---|---|---|
| Scheduler: `kernel/task.cpp`, `kernel/clock.cpp` | running task, state, ticks and last run of each task, `sleepList`, `jiffies` | taskSearch, schedule, taskYield, taskBlock, taskUnblock, taskSleep, taskWakeup, clockHandler | `schedule()` is entered from four directions; `ticks` is a time slice or a deadline, depending on the state |
| Process life cycle: `kernel/task.cpp` | task table, `ppid`, `waitpid` | getFreeTask, taskFork, taskExit, taskWaitpid | exit before or after the parent's wait; orphans; reuse of a slot |
| Kernel lock: `kernel/mutex.cpp` | value, waiters, holder, repeat | mutexLock/Unlock, lockAcquire/Release | a wake-up is no hand-over; nesting |
| Paging: `kernel/memory.cpp`, `memory.asm` | `memoryMap`, page directories and tables, `vmap`, `brk`, `freePages`, the TLB | getPage, putPage, linkPage, unlinkPage, copyPage, copyPde, freePde, sysBrk, pageFault | reference counts under every order of fork, fault, brk and exit; stale translations; exhaustion |
| Kernel pages and heap: `kernel/arena.cpp`, `memory.cpp`, `lib/bitmap.cpp` | `kernelMap`, free list per block size, arena counts | allocKpage, freeKpage, kmalloc, kfree | a page goes back with its last block |
| Keyboard: `kernel/keyboard.cpp`, `lib/fifo.cpp` | ring, waiter, lock, prefix/shift/lock flags | keyboardHandler, keyboardRead | interrupt against reader; codes that span interrupts |
| Block I/O: `kernel/device.cpp`, `kernel/ide.cpp` | request list and direction per disk, controller lock, waiter | deviceRequest, doRequest, requestNextreq, idePioRead/Write, ideHandler | two disks share a controller; partitions share a disk; order of requests; late and lost interrupts |
| Console: `kernel/console.cpp` | video memory, window, cursor, saved cursor, parser state, parameters | consoleWrite and the 25 operations under it | cursor kept twice; window wraps; parser states |
| Linked lists: `lib/list.cpp` | head, tail, nodes | push, pop, remove, insertSort, ... | intrusive nodes, on one list at a time |
| Buffer cache: `kernel/buffer.cpp` | hash table, free list, waiters, buffers | getblk, bread, bwrite, brelse | state read before and used after a disk wait; a full cache with waiters |
| File system: `fs/super.cpp`, `inode.cpp`, `bmap.cpp` | super blocks, inode table, bitmaps on disk | readSuper, iget, iput, balloc, bfree, ialloc, ifree, bmap | other tasks between the two writes of an allocation; loss of power; a full disk; limits of the bitmaps |
| Device table: `kernel/device.cpp` | 64 entries | install, find, get, read, write, ioctl | none: sequential, at boot |
| Time of day: `kernel/time.cpp`, `rtc.cpp`, `clock.cpp` | `startupTime`, `jiffies`, the clock chip | timeRead, mktime, getYday, timeInit, sysTime, setAlarm | the chip moves on while it is read; leap years; carries |
| Interrupts, segments, system call table, boot, threads, formatting, ports | tables | | hardware contract, no concurrency of their own |

What makes each correct is what its module states (section 3). Today only the
boot task uses the buffer cache, the file system and `deviceRequest`: at boot,
`superInit` reads the root's super block and the partition tables. The block
I/O model is that of the code as written, for any number of tasks.

## 2. Modules

| Module | What it is |
|---|---|
| `Dispatch` | abstract: one processor, some ready task or the idle task runs next |
| `Scheduler` (`MCScheduler`) | the policy, the sleep list and the clock; implements `Dispatch` |
| `Process` | fork, exit, waitpid; uses `Dispatch` for the choice of the next task and implements it |
| `Lock` | the reentrant lock; composes `Dispatch` |
| `Keymap` | the decoding of scan codes |
| `TypeAhead` | abstract: a bounded queue of keys, the oldest given up when full |
| `Keyboard` (`MCKeyboard`) | handler, ring, readers, user; composes `Lock` and `Keymap`, implements `Lock` and `TypeAhead` |
| `BlockIO` (`MCBlockIO`) | request lists, elevator, partitions, controller, interrupts; composes and implements `Lock` |
| `BlockStore` | abstract: blocks that tasks open in turns, on a disk |
| `Buffer` (`MCBuffer`) | the buffer cache; implements `BlockStore` |
| `Files` (`MCFiles`) | bitmaps, trees of blocks, inodes, the disk and the loss of power |
| `TimeOfDay` | the clock chip, the timer, and the conversions between them |
| `AddressSpace` | abstract: every process has pages of its own |
| `Memory` (`MCMemory`) | frames, counts, tables, faults, fork, brk, exit; implements `AddressSpace`, but for two kinds of step |
| `KernelHeap` (`MCKernelHeap`) | kernel pages and kmalloc |
| `Screen` | abstract: a page of cells and a cursor |
| `Console` | video memory, window, parser; implements `Screen`, but for one operation |
| `MCProcessTime`, `MCLockHeapScreen` | components that share no state, checked in one run |
| `DataLemmas` | lemmas: induction over `0 .. N`, functions defined by recursion, sequences that list a set, quotients and rests |
| `SchedulerProofs`, `LockProofs`, `FilesProofs` | theorems, each about the module of its name |
| `ProcessProofs` | theorems about `Process` and `TimeOfDay` |
| `MemoryProofs` | theorems about `Memory` and `KernelHeap` |
| `DiskProofs` | theorems about `BlockIO` and `Buffer` |
| `TerminalProofs` | theorems about `Keyboard` and `Console` |

Where two modules share a module of proofs, one of them has names of its own
for its initial states, steps and specification: `CacheInit`, `CacheNext`,
`CacheSpec` in `Buffer`, `TimeInit`, `TimeNext`, `TimeSpec` in `TimeOfDay`. This
is also what lets an MC module extend several components that share nothing: its
variable `part` says which of them the behaviour is about, and the others stay in
an initial state.

### How state and actions correspond to the code

A task is the index of its slot in `taskTable`, and so its pid. `current` is
`runningTask()`; the boot stack, which is no task, is `Boot`. `state` is
`task_t.state`, without the states the module does not need.

- **Scheduler.** One action per entry: `Yield`, `Sleep`, `Block`, `Unblock`
  and `ClockTick`, the whole of `clockHandler` with `taskWakeup` and the
  preemption. `Scan` is the loop of `taskSearch`, slot by slot, a recursive
  function. `sleepList` is a sequence, `InsertionPoint` is `listInsertSort`.
- **Process.** `Fork`, `Exit`, `Waitpid` (one round of the loop), `WaitpidAgain`
  (the next round, after the wake-up). A task that was switched to inside
  `taskWaitpid` must go on with it before anything else (`Computing`), as
  interrupts are still off.
- **Lock.** `Acquire` is `lockAcquire` up to its end or to the `schedule()` in
  `taskBlock`; `AcquireAgain` the next turn of the loop; `Release` is
  `lockRelease` up to the `taskYield` of `mutexUnlock`. `depth` counts the
  calls a task has open and is not in the code: it is what `repeat` must equal.
- **Keyboard.** `Handle` is one interrupt, with the decoding in `Keymap`.
  `Call`, `CallAgain`, `Get`, `Wait`, `Return` are `keyboardRead`. `TypeShift`,
  `TypeCaps`, `TypeKey`, `TypeArrow`, `TypeOther` are the user and the
  keyboard: the bytes of a key in `line`, what the user meant in `meant`
  (`Meaning`: caps lock is for `Letters`). The
  user waits until the bytes of one key have been taken; the controller has
  no more than one key's codes for the handler at a time.
- **BlockIO.** `Request` is `deviceRequest` up to the block, `DoRequest` the
  lock, `Command` the choice of drive and sectors, `Sector` one turn of the
  transfer loop up to the wait for the interrupt, `Release` and `Finish` the
  rest; `Polled` is `ideBusyWait`. `Ready` is the controller, `IdeHandler` the
  interrupt, which may be a late one. A request is named by its task, which waits
  until it is done; `Parts` gives the first sectors of the partitions.
- **Buffer.** `Bread` is `bread` with `getblk` and `getFreeBuffer` up to the
  first wait, in its cases: `Hit`, `HitUnread` (the assertion), `TakeNew`,
  `TakeFree`, `AwaitFree`; `BreadAgain` the next turn of the loop of
  `getFreeBuffer`. `ReadTransfer` and `WriteTransfer` are the disk's part of
  `deviceRequest`, `ReadDone` and `WriteDone` what comes after it. `Brelse`
  is `brelse`, with `bwrite` if the buffer is dirty; `Put` is its end. What
  a task does with its buffer is `Modify`.
- **Files.** An action is a call, up to its first wait for the disk, and a
  continuation per wait: `Balloc` and `Got`, `Bfree`, `Ialloc` and `Numbered`,
  `Ifree`, `Iget`, `Iput` and `PutInode`. `Bmap` is one turn of the loop of
  `bmap` (`Level`), in which `balloc` (`Mark`) and `brelse` may wait; `Store`,
  `NextLevel` and `Look` go on. `Write` is `bwrite`, `Transfer` and `Done` the
  disk. `mem` is what tasks see, `disk` what `Crash` leaves. `stale` remembers
  that `bmap` has made an index block of a zone that was not clear. A block is seen as
  what it holds: a set of bits, the zones of the inodes, or an array of zones.
- **TimeOfDay.** `ReadRegister` is one `cmosRead` in the loop of `timeReadBcd`,
  `ReadAgain` its condition, `Finish` the rest of `timeRead` with `mktime`
  or with `setAlarm`; `Pulse` is a tick of the timer and, each `Hz`, of the
  chip. `mktime`, `getYday`, `bcdToBin`, `binToBcd`, `Later` (the sums of
  `setAlarm`) and `sysTime` are operators; beside them the module has a
  calendar of its own to compare with.
- **Memory.** One action per way through `pageFault` (`LinkFault`,
  `OwnFault`, `CopyFault`, `BadFault`), and `Fork`, `Exit`, `Grow`, `Shrink`,
  `Enter`, `Switch`, `OutOfMemory`. `getPage` takes the lowest free frame, the
  model any. `window` is the translation of page 0 that `copyPage` leaves in the
  TLB, or `None` if the processor happens to have lost it; `StoreStatus` is the
  store of `taskWaitpid`, which the write bit does not stop; a copy that goes astray, and a panic, set `halted`.
- **KernelHeap.** `AllocKpage`, `FreeKpage`, `Kmalloc*`, `Kfree`. `Counter`
  and `Scan` are the loop of `bitmapScan`, `Unlinked` is that of `kfree`. Callers free what they have, once.
- **Console.** A step is a character; `con` holds memory, window and cursor,
  `Normal`, `WriteEsc`, `Csi` are the three switch statements, `Once` is one turn
  of the loops in `csiL`, `csiM`, `csiP` and `csiAt`. Addresses
  count cells. Aliases (`FF` of `VT`, `a` of `C`, ...) and characters without
  an effect are not listed separately in the configuration.

## 3. What is checked

| Run | Instance | Properties |
|---|---|---|
| `Scheduler` | idle task and 3 workers, 3 priorities, sleeps of 1, 2 and 3 ticks (one shorter than a tick), 5 clock ticks | `SleepSound`, `SliceBounded`, `WokenOnTime`, implements `Dispatch`, `SleeperWakes` (liveness) |
| `ProcessTime` | `Process`: 5 slots | `NoMissedExit`, `FamilyTree`, implements `Dispatch` |
| | `TimeOfDay`: short hours and days, 2 ticks in a second; the end of each month of 1971, 2000 and 2068; 3 alarms; a product that wraps after 2.3 seconds | `TimeRead`, `AlarmRight`, `SysTimeClose` |
| `LockHeapScreen` | `Lock`: idle task and 4 workers, nesting of 2 | `Exclusive`, `QueueSound`, `NoLostWakeup` |
| | `KernelHeap`: 3 pages, blocks of 2 sizes (3 and 2 to a page), runs up to 3 | `HeapExact`, `FirstFit` |
| | `Console`: 2 x 2 cells, 4 lines of memory, 2 parameters up to 2, all characters | `CursorSound`, implements `Screen` but for `ESC [ M` |
| `Memory` | 3 processes, 5 frames, 3 pages, 2 tables, 2 values | `RefsExact`, `SoleWriter`, `TablesSound`, implements `AddressSpace` but for `CopyAstray` and `StatusShared` |
| `Keyboard` | idle task and 2 readers of 1 or 2 characters, ring of 3 cells; shift, caps lock, a letter, a keypad key, an arrow, an unknown key | `ReadersSound`, `TypedAsMeant`, implements `Lock` and `TypeAhead` |
| `BlockIO` | idle task and 3 tasks, 2 disks, one of them with a partition, 3 and 2 sectors, transfers of 1 or 2 sectors | `ListSound`, `Progress`, `Elevator`, implements `Lock` |
| `Buffer` | 3 tasks, 3 blocks (one used without taking turns), 2 values, memory for 2 buffers | `BuffersSound`, `NoBufferIdle`, implements `BlockStore` |
| `Files` | 2 tasks, 2 files, 5 zones under 2 bitmap blocks, blocks of a file at the first and the last level, one loss of power | `ZonesExact`, `CrashSafe`, `Durable`, `InodesSound` |

Each run also checks a type invariant, by itself or as the first conjunct of
another invariant. Each property has a mutant: a plausible bug in a mapped
definition under which the run finds the property violated.

A component that shares a run with others is checked on the same states as it
would be alone: `part` is chosen once, and with the processes the clock starts in
one of its initial states only.

What some of them say, in a sentence each:

- `Progress` (BlockIO): the controller works only for the holder of its lock, and
  of the tasks with open requests one can always go on. The interrupt that polling
  at boot leaves behind wakes the first waiter early; the poll after every
  wake-up is what keeps the next task from finding the controller at work.
- `BuffersSound`, `NoBufferIdle`, `StoreSpec` (Buffer): counts, free list and hash
  table agree, and nothing that could be reused is unwritten; a free buffer is
  never left while a task sleeps for one; tasks that take turns with a block see a
  plain disk, and what was released is on it.
- `ZonesExact` (Files): each marked zone has exactly one owner, a place in a file,
  a task, or an allocation under way. `CrashSafe`: after a loss of power at any
  moment no zone is in two places and none in use is free. `Durable`: an answer of
  `bmap` stays true, also after that. All three end when `bmap` makes an index
  block of a zone that holds something (`stale`), which neither `balloc` nor `bmap`
  clears: what was in it is then taken for zone numbers. `InodesSound`: one entry
  per inode, with the number of its users; an inode number has one owner.
- `TimeRead` (TimeOfDay): `timeRead` returns the moment of its return, to the
  second: `getYday` counts the days since the first of January, and `mktime` makes
  the seconds since 1970 of it. `AlarmRight`: so is the alarm. `SysTimeClose`: until
  its product of 32 bits wraps (`clock.cpp:64`), `sysTime` is ahead by a tick at
  most, and behind by less than two seconds and the ticks that were lost. The run
  goes on past the wrap.
- `TypedAsMeant` (Keyboard): what is typed is what was meant, also a letter under
  caps lock; excepted are the other keys under caps lock (`LockedSymbol`), which
  the code swaps or loses (section 5).
- `Private` (Memory): each process has pages of its own, but for a copy that goes
  through a translation left in the TLB (`CopyAstray`) and a status stored into a
  page that has other owners (`StatusShared`). All the rest of a behaviour with a
  `StatusShared` step in it is still checked.
- `ScreenSpec` (Console): the window is a page of text. Of the end of `ESC [ M`,
  which `Screen` has as the deletion of lines, it says only that the cursor and
  the lines above its own stay.

Four runs show where the sources say one thing and do another:

| Run | The source says | The code does |
|---|---|---|
| `Memory_CopyLands` | `memory.cpp:406`: copyPage copies a page and returns the copy | the translation of page 0 is not flushed, so that a second copy in the same address space is written over the first |
| `Memory_ReadOnlyHolds` | `memory.h:48`: a write bit of 0 is read-only; `memory.cpp:447`: fork makes the page read-only | `cr0.WP` is clear (`memory.asm:25`), and the status that `taskWaitpid` stores (`task.cpp:424`) changes such a page, for all that share it |
| `TimeOfDay_TmAsDocumented` | `time.h:13`, 14, 16: months from 0, years since 1900, days of the year from 0 | `timeRead` gives months from 1, a year of two digits, and days from 1 (`time.cpp:140`-142) |
| `Console_LinesDeleted` | `console.cpp:315`, 330, 490: `ESC [ M` deletes lines | `deleteLine` adds bytes to a pointer to cells of two (`console.cpp:321`): the cursor's line stays, and every second line below is lost |

### Bounds, and why they are enough

Bounds are constants of the modules or guards named in them.

- *Tasks.* Three tasks beside the idle one let one hold, one wait and one
  arrive; the lock has a fourth, so that there are two waiters while a third
  overtakes. With five slots `Process` has idle, init, a child, a
  grandchild and a slot that is reused, and reaches the full table.
- *MaxJiffies.* Five ticks are longer than the longest sleep (3), so that sleeps
  overlap, end together, and start again. The clock stops there; what
  `SleeperWakes` says is about sleeps that end before.
- *MaxDepth.* Nesting of two tells the inner release from the outer.
- *Frames.* Five frames for three processes: memory runs out in the
  middle of faults, forks and brk. Three pages give one page of heap that is
  shared, its neighbour and the stack, under two tables.
- *Length, MaxCount.* A ring of three cells holds two keys: it is full, overruns
  and wraps; two characters are a read that waits in the middle.
- *Sectors, MaxCount of BlockIO.* Three sectors are below, at and above the
  one being served, and the middle one is reached through disk and partition;
  two sectors mean two interrupts per request.
- *Console.* Two lines and columns: every corner of the page; four lines of
  memory: the window moves once and then returns. Two parameters: the
  longest that is read (`ESC [ r ; c H`), and one too many.
- *Buffer.* Two buffers for three tasks and three blocks: one task waits while
  two hold a buffer, and a released one is given to another block. Two tasks use
  the shared block at once. The memory is small enough to run out, which with the
  sizes of the sources it never does (see below).
- *Files.* `Direct` 1 and `Indexes` 2 make block 1 of a file the first under
  the single and block 4 one under the double indirect array: the path of the
  latter takes three zones. Five zones, two of them in use: the disk is full in
  the middle of a tree. The two maps overlap as those of the sources do, where
  firstdatazone is more than 1. A task has one thing at a time (`Empty`). The
  constraint `MCNotStale` ends a behaviour with its first `stale` state, of which the
  three invariants about zones say nothing; `InodesSound`, which does not depend on
  what a zone holds, is proved for all states.
- *Keyboard.* The keypad's 4 is a key that caps lock is not for, and the arrow
  is the same code behind a prefix.
- *TimeOfDay.* A minute of 11 seconds, so that the tens of the BCD seconds
  change; hours of two minutes and days of two hours, so that every carry
  happens. The years are a common one, the leap year of a century and the last
  leap year that two digits can name. Four ticks are two seconds, enough for
  the seconds to change in any read of the registers. `Word` is small enough for
  the product of `sysTime` to wrap.

Deadlock is checked except where the code stops for good or a bound ends the run:
in `ProcessTime` and `Memory` after a panic, or at the last tick, in `Buffer` and
`Files` after an assertion. In `LockHeapScreen` the panic of the heap is a step
that stays where it is, so that a deadlock of the lock would be found. A cache can also be
deadlocked by its callers: tasks that each hold a buffer and ask for another
when there is none left wait for ever. In `Buffer` a task holds one buffer.
The clock's bound does not deadlock the scheduler, as tasks can still yield.

### Fairness

`FairSpec` in `Scheduler` is the one fair specification: weak fairness of
`ClockTick`. The timer is programmed at boot and comes whatever tasks do,
and interrupts are on in user code and in the idle thread (`sti; hlt`). Nothing
makes a task execute its next call or the scheduler fair: a woken task may
stay ready for ever when others have more ticks (`task.cpp:82`). The other
modules state what must be possible as safety: `NoLostWakeup`,
`NoMissedExit`, `Progress` say that whoever waits is waited upon by someone
who can act.

## 4. What is proved

TLAPS proves, for every value of the constants that satisfies the named
assumption of the module:

| Theorem | Statement |
|---|---|
| `SchedulerProofs!TypeCorrect`, `SoleRunnerCorrect`, `SleepCorrect`, `SliceCorrect`, `WakeCorrect` | `TypeOK`, `SoleRunner` (one task runs, the current one), `SleepSound`, `SliceBounded`, `WokenOnTime` of `Scheduler` |
| `SchedulerProofs!SchedulerImplementsDispatch` | the scheduler implements `Dispatch` |
| `ProcessProofs!TypeCorrect`, `ParentAliveCorrect`, `SoleRunnerCorrect`, `DeadStayDeadCorrect`, `NoMissedExitCorrect`, `FamilyTreeCorrect`, `ProcessImplementsDispatch` | the properties of `Process`; one task runs, a task that is dead runs only after a fork has given its slot anew, and the parent that `taskExit` looks at is there and alive (`ParentAlive`) |
| `LockProofs!TypeCorrect`, `ExclusiveCorrect`, `QueueCorrect`, `WakeupCorrect` | the properties of `Lock` |
| `MemoryProofs!RefsExactCorrect`, `SoleWriterCorrect`, `TablesSoundCorrect` | the invariants of `Memory` |
| `MemoryProofs!MemoryImplementsAddressSpace` | `Private`: copy-on-write cannot be told from separate memories, but in the two kinds of step that `Private` names |
| `MemoryProofs!HeapExactCorrect`, `FirstFitCorrect` | the properties of `KernelHeap` |
| `DiskProofs!TypeCorrect`, `ListSoundCorrect`, `ProgressCorrect`, `ElevatorCorrect`, `BlockIOImplementsLock` | the properties of `BlockIO` |
| `DiskProofs!BuffersSoundCorrect`, `NoBufferIdleCorrect`, `BufferImplementsStore` | the properties of `Buffer` |
| `TerminalProofs!ReadersSoundCorrect`, `TypedAsMeantCorrect`, `KeyboardImplementsLock`, `KeyboardImplementsTypeAhead` | the properties of `Keyboard` |
| `TerminalProofs!CursorSoundCorrect`, `ConsoleImplementsScreen` | `CursorSound` and `ScreenSpec` of `Console` |
| `FilesProofs!InodesAreSound` | `InodesSound` of `Files` |
| `FilesProofs!ZonesAreExact`, `CrashesAreSafe`, `AnswersAreDurable` | `ZonesExact`, `CrashSafe`, `Durable` of `Files` |
| `ProcessProofs!TimeReadCorrect`, `AlarmRightCorrect`, `SysTimeCloseCorrect` | the properties of `TimeOfDay` that hold |

The assumptions are those the modules declare:

- at least one task (three slots for `Process`, those `taskInit` fills), positive
  priorities and tick length;
- `Memory`: processes, frames and tables are finitely many, and a frame is no
  process and no value;
- `BlockIO`: partitions start at natural numbers, a transfer has a sector;
- `Buffer`: finitely many tasks, for their number is counted; block 0 is none; the
  memory set aside holds a buffer (with none, all tasks would wait for ever, and
  `memory.h` sets aside megabytes);
- `Keyboard`: a ring has two cells or more; a shift or caps lock key types
  nothing, and the slash of the keypad is no arrow, as in `keymap`;
- `Console`: the window has a cell, the memory two lines more than the window
  (it has 102 for 25), the tab stops divide the width (8 and 80), and there is room
  for the two parameters that are read;
- `Files`: tasks and files are finitely many, the maps have a bit for every zone and
  every inode number, and the blocks asked for are those that single and double
  indirect arrays reach;
- `TimeOfDay`: minutes, hours and days have at most a hundred parts and a minute at
  least two, as registers of two digits hold them; the rate of the timer divides
  1000 (it is 100); the machine is switched on, in the last second of a day, from
  1970 to 2068 and stays on for at most a year, for two digits end with 2069.

No theorem has a hypothesis of its own. Where the code breaks what a property
says, the property names the exception, at the step (`CopyAstray`, `StatusShared`,
`LineDeleted`, `LockedSymbol`) or from a state on (`stale`, the wrap of `sysTime`),
and a run or section 5 shows what happens there.

The arguments:

- **Scheduler.** The invariants support each other. That a sleeper is not
  overdue needs that the list is sorted, for `taskWakeup` stops at the first
  that is not due; that the list stays sorted when a time slice is charged
  or refilled needs that the tasks on it are exactly the sleeping ones, and that
  the charged task, being the running one, is not among them. `Scan` is a
  recursive function: `DataLemmas` shows, by well-founded induction
  over the slots, that it exists and that the scan ends at a ready task or at
  none. No policy beyond this is needed for the step to be one of `Dispatch`.
- **Process.** The invariant adds that the idle task is ready or running and
  never inside `taskWaitpid`, that idle and init keep their slots and are
  children of idle (both loops over the table start at slot 2), and that the one
  running task is the current one. `FamilyTree` speaks of sets closed under
  "parent of" instead of paths, which keeps it first-order: an exit gives a
  task's children to its parent, and a closed set after that was one before, or
  becomes one with the exiting task. `NoMissedExit` is kept by the order of the
  steps of `taskExit`: children are handed on first, then the parent is woken.
- **Lock.** The invariant is the conjunction of the properties, and that the
  idle task, which never queues, can always run. `NoLostWakeup` is inductive
  only together with `QueueSound`: the one who is woken is one that is inside
  the loop of `mutexLock`, and so on its way to the mutex.

- **Memory.** The invariant is the conjunction of `RefsExact`, `SoleWriter` and
  `TablesSound`; none of them is inductive alone. A count is the number of owners
  only if no process has a frame twice (`TablesSound`), or giving back one page
  would not end the ownership; that the owner of a writable page stays alone needs
  that a free frame has no owner (`RefsExact`). Fork, exit, faults and brk are all
  covered by one lemma about a step that changes the tables of one process and
  counts its frames in and out (`CountStep`), used twice for fork. For the
  refinement, a store changes what others see unless its page is its writer's alone
  (`SoleWriter`), which a status that is stored is not sure to be, and a copy lands where
  it should if the window is closed, as it is after every switch.
- **KernelHeap.** A page of an arena holds only blocks that are free and listed, or
  live, so that the page that goes back with its last block is on no list:
  a count equal to the number of blocks means that all of them are free, which is
  counting of finite sets. That a new run of pages overlaps no other needs
  `FirstFit`; a run that ends up in the wrong hands is excluded by what
  `PagesExact` says of callers' runs and arenas. `FirstFit` itself is about the loop
  of `bitmapScan`: its counter is the number of clear bits just before a bit, and
  it passed through every smaller number on the way, by induction over the bits.
- **BlockIO.** The lock's part of a step is a step of `Lock`, so that the invariant
  of `LockProofs` is kept by citing its theorem for the instance. The rest ties
  how far a task is in `deviceRequest` to what it waits for and what it holds
  (`Phases`), the waiter to the holder of the lock, and the interrupt to the
  waiter (`Driver`): who waits for the interrupt has a sector under way or its
  interrupt still to come. `Queues`: of the open requests on a disk one is not
  waiting for its turn, which is handed on by `requestNextreq`; the list is
  sorted, which makes the neighbours of a request the next in each direction,
  and gives `Elevator`.
- **Buffer.** `Promised` is what keeps wake-ups from getting lost: while tasks
  wait, the cache cannot grow and there are no more free buffers than woken
  tasks on their way to one. That a reused buffer is written needs `Counted` (who
  has none is clean), and this the order of `bwrite` and the count in `brelse`. For
  the refinement, tasks that take turns make a private block have one buffer and
  one user (`Turned`), so that a clean buffer equals the disk (`Clean`).
- **Keyboard.** Again the lock's theorem is cited for the lock's steps. `Sleeping`:
  a reader sleeps with the lock, so that one waiter field is enough, and with an
  empty ring. `Decoding` lists what the bytes that the controller still holds,
  the flags of the handler and what the user meant can be together, and the proof
  of `TypedAsMeant` is that each byte leads from one line of the list to
  another. The queue of `TypeAhead` is the ring from tail to head; the lemmas about
  its cells are those of counting modulo the length.
- **Console.** `CursorSound` is inductive as it stands. All that is used of
  multiplication is in `Geometry` and `RowFits`: lines fit into the page, and a line
  at a multiple of the width before the end of the memory leaves room for a
  whole one. Each operation has a lemma that says what it does to the page and to
  the cursor (`LfEffect`, `WrapEffect`, `InsertLineEffect`, ...), as a relation of
  two consoles that names one action of `Screen`. The copies are followed cell
  by cell, also those to overlapping places; the return of the window in `scrollUp`
  shows the same page, as what it copies is what it showed. Repetitions are a
  recursive function: after `n` turns the page is as after one shift by `n`, by
  induction up to the height, above which the code never counts.
- **Files.** A step of a task is described as what it does to the blocks of memory
  `m` and of the disk `d`, the zones the tasks have `o` and their jobs `j`: a zone
  is marked, given out, filled, recorded in an array, cleared and freed, a block
  is transferred. What holds of such a change is proved once and used by each
  action. Three invariants carry it. `TypeInv` has the shape of a job: what it may
  do next, for whom, and on which block. `InodeInv` counts the users of every entry
  of the inode table and the owners of every inode number. `ZoneInv` is about
  the zones. In its `Core` the disk lags behind memory only by the entry that a task is
  about to write (`Behind`), a zone that is not marked in both places holds the
  same in both (`FreshSame`), and a zone recorded in memory is marked in both (`FiledKept`):
  that is the order of the writes in `balloc` and `bmap`, and it is what makes every
  moment safe for `Crash`. `Mapped`: a task inside `bmap` has come to its array by the
  path of the block it asks for, in memory and on the disk, so that what it
  records is recorded in the right place. `AnswersKept` is `Durable`. None
  is inductive without the others: a crash needs `Behind` to find the recorded
  zones of the disk among those of memory, `Behind` needs that two tasks are never
  in one file, and a new array is
  the same on the disk only by `FreshSame`; that it is empty is `~ stale`. `ZoneInv` is
  shown for the steps that do not set `stale`, which is never cleared; `TypeInv` and
  `InodeInv` hold for all.
- **TimeOfDay.** First the calendar, without a clock: the days before a year are
  counted by induction, the leap years among them being as many as `LeapDays` says
  up to 2069, and `After` adds one second to `Seconds` through all carries
  (`AfterDate`). `bcdToBin` undoes `binToBcd` below 100. Then the invariant.
  `Bounded` keeps the date within the century, by the ticks that are left.
  `Reading`: the registers read so far are those of this second (`SoFarRead`), or
  the second has changed since and the register of the seconds shows it
  (`Outdated`), which needs that a minute has two seconds and that a second ends at
  most once in a reading. `Counting`: each tick since the chip was read is in
  `jiffies`, pending, or lost. `AlarmRight` is the sum of `setAlarm` in hours, minutes and
  seconds, and rests on quotients and rests being unique (`DataLemmas`).

Only model-checked: the liveness of `Scheduler` (`SleeperWakes`), which the
prover does not reach, and the runs that end in a violation.

## 5. Environment and abstraction

- *The disk answers.* Every command is followed by an interrupt, and after an
  error the drive is ready again. The code has no time-out: `ideBusyWait`
  (`ide.cpp:159`) polls for ever.
- *The TLB.* After `copyPage` the processor may have lost the stale translation or
  not; the model does both. A copy that goes through it is the violation of
  `CopyLands`, and ends the behaviour.
- *Callers of the file system.* Tasks take turns with `bmap` on one file, as two at
  once would both find the gap and allocate (`bmap.cpp:182`). This is what the
  callers to come must do; none exists. They need not clear what they free.
- *The power.* It fails between two transfers, a block is written whole, and the
  cache is lost. Nothing in the code repairs a disk, so that a zone that was
  marked and not yet recorded is lost.
- *The clock chip* shows all its registers of one second at once, as under
  the emulators the kernel is made for; real chips raise a flag that the code
  does not read. The timer's ticks are taken for exact: the rounded divisor makes
  them early by some seconds a day.
- *Callers.* `kfree` and `freeKpage` are called with what was allocated;
  locks are released by those who hold them, as the assertions demand.
- *Data.* A page's content is one value, a cell is blank or not, a request is
  its sector number.

Noted while modelling, without a run, as no text in the repository says
otherwise or the case is out of the model:

- `taskSearch` treats the idle task like any other while it is ready; with
  equal ticks it is chosen over a worker that ran later (`task.cpp:82`; the
  comments at 27 and 88 describe it as a last resort).
- A woken task has no ticks and, charged once, has -1: the test for 0 in
  `clockHandler` (`clock.cpp:54`) never fires for it again.
- With caps lock on, all keys are swapped, digits and symbols too: the test of
  `keyboard.cpp:257` (`'a' <= c <= 'z'`) compares a truth value with `'z'`. The
  keys of the keypad, which have no second character, are lost. `TypedAsMeant`
  excepts them; no text says what they should do.
- `keyboardAck` discards scan codes that come while LEDs are set.
- After `ARG_NR` semicolons, and after a lone ESC until the next `[`, the
  console swallows all characters.
- `csiP` and `csiAt` limit the number of characters by the height.
- The data pointer of a new buffer moves up (`buffer.cpp:97`), away from the
  headers: with the sizes of the sources there is always room, buffers are never
  reused, and all but the first have their data beyond the memory set aside.
- `rnode` of a new buffer is not cleared (`buffer.cpp:85-97`), while `brelse`
  asserts that it is null; the memory of a fresh machine happens to be zero.
- A task that changes a buffer while another's `bwrite` waits finds the dirty flag
  cleared after it (`buffer.cpp:175`), and its change is never written.
- Two tasks that wait for a buffer for the same block each get one, as the hash
  table is not searched again (`buffer.cpp:133`, 125): the block is cached twice.
- `mutexUnlock` yields so that the woken task gets the mutex (`mutex.cpp:56`), but
  the scheduler may run another, which takes it; the woken one queues anew.
- `freePages` counts the kernel's own pages (the line that takes them off is
  commented out, `memory.cpp:248`), so that `sysBrk` grants more than there is.
- `bfree` of a zone between `BLOCK_BITS * (i + 1)` and the offset of the next map
  (`bmap.cpp:53`, 62) fails the assertion of `bitmapTest`: `balloc` hands such
  zones out and no one can free them.
- `ialloc` gives its bitmap eight times the length it has (`bmap.cpp:90`): it finds
  a bit in a later map, and writes the first one. With one map nothing happens.
- `balloc`'s EOF on a full disk is stored as a zone number (`bmap.cpp:184`) and
  followed when it is an index block.
- A new index block is not cleared (`bmap.cpp:182`-197): what was in the zone is taken
  for blocks of the file, which then may be other files'. A task that frees a
  zone can leave anything in it. `stale` records the moment.
- `iput` waits in `brelse` with the inode still listed (`inode.cpp:122`), and
  `iget` lists it before its block is read (`inode.cpp:92-97`): another task can
  find it half gone, which an assertion stops, or half made, which none does.
- Two `readSuper` at once take the same entry (`super.cpp:57-64`).
- `localtime`, `isLeapYear` and `elapsedLeapYears` are never called and wrong
  (`time.cpp:71` says so). `sysTime` falls behind by 49.7 days when its product of 32
  bits wraps (`clock.cpp:64`).
- Orphans become children of the idle task, which never waits: their slots stay
  taken (`task.cpp:386`), until the next fork panics.
- `kmalloc` does not clear a block (`arena.cpp:95`), while `listInsertSort`
  asserts that the pointers of a node are null (`list.cpp:129`).

Not modelled: `PROJECT.json` gives a reason for each component. Boot code,
descriptor tables and port I/O are hardware contracts; formatting has no
state; the device table and the system call table are look-ups.

## 6. Plan

In this order, the most important behaviour first:

1. *done* The tasks: `Dispatch`, `Scheduler`, `Process`, `Lock`, with proofs.
2. *done* Memory: `Memory` over `AddressSpace`, `KernelHeap`.
3. *done* The devices: `Keyboard` over `Lock`, `Keymap` and `TypeAhead`;
   `BlockIO` over `Lock`; `Console` over `Screen`.
4. *done* `Buffer` over `BlockStore`; late interrupts and partitions in `BlockIO`.
5. *done* `Files`: bitmaps, trees of blocks, inodes, the loss of power.
6. *done* `TimeOfDay`.
7. *done* Proofs about `Memory`, `KernelHeap`, `BlockIO`, `Buffer`, `Keyboard` and
   `Console`.
8. *done* Proofs about `Files` and `TimeOfDay`.
9. Open: the pointers of `lib/list.cpp`, implementing the sequences used so far;
   `readSuper` for several devices; the dialogue with the keyboard's controller
   that sets the LEDs.
