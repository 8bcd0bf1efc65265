------------------------------- MODULE Memory -------------------------------
(***************************************************************************)
(* The user memory of SoulOS (kernel/memory.cpp): physical frames with a   *)
(* reference count in memoryMap, a page directory with its tables for each *)
(* process, fork by copy-on-write, page faults, brk and exit.              *)
(*                                                                         *)
(* System calls and faults run with interrupts off and never block here,   *)
(* so each is one step of the current process.  getPage takes the lowest   *)
(* free frame; the model takes any.  The pages of the directories and of   *)
(* the bitmaps come out of the kernel's own memory and are left out.       *)
(***************************************************************************)
EXTENDS Integers, FiniteSets

CONSTANTS
    Procs,          \* the tasks that may be user processes
    Frames,         \* the frames of physical memory above the kernel's 16 MB
    NrPages,        \* pages of the user part of an address space
    StackBottom,    \* the first page of the stack (USER_STACK_BOTTOM)
    Tables,         \* entries of a page directory
    TableOf,        \* DIDX: the table that maps a page
    KernelPages,    \* frames mappingInit marks as used but counts as free
    Values,         \* what a page may contain
    None            \* no frame; also the kernel's own address space

Pages == 0 .. NrPages - 1

ASSUME MemoryAssumption ==
    /\ NrPages \in Nat /\ StackBottom \in 1 .. NrPages
    /\ TableOf \in [Pages -> Tables]
    /\ KernelPages \in Nat
    /\ IsFiniteSet(Procs) /\ IsFiniteSet(Frames) /\ IsFiniteSet(Tables)
    /\ None \notin Frames \cup Procs \cup Values

VARIABLES
    current,        \* the process on the processor, None for a kernel thread
    users,          \* the processes that have a page directory of their own
    table,          \* page directory: the frame of each table, or None
    frame,          \* page tables: the frame of each page present, or None
    writable,       \* page tables: the write bit
    vmap,           \* task_t.vmap: the pages linked
    brk,            \* task_t.brk
    refs,           \* memoryMap
    freePages,      \* freePages
    data,           \* the content of each frame
    window,         \* the frame the TLB still has for page 0, or None
    halted          \* the kernel has panicked or overwritten a frame

maps == <<table, frame, writable, vmap, brk>>
phys == <<refs, freePages, data, window>>
vars == <<current, users, maps, phys, halted>>

NoTables == [t \in Tables |-> None]
NoFrames == [v \in Pages |-> None]
ReadOnly == [v \in Pages |-> FALSE]

TypeOK ==
    /\ current \in Procs \cup {None}
    /\ users \in SUBSET Procs
    /\ table \in [Procs -> [Tables -> Frames \cup {None}]]
    /\ frame \in [Procs -> [Pages -> Frames \cup {None}]]
    /\ writable \in [Procs -> [Pages -> BOOLEAN]]
    /\ vmap \in [Procs -> SUBSET Pages]
    /\ brk \in [Procs -> 0 .. StackBottom - 1]
    /\ refs \in [Frames -> Nat]
    /\ freePages \in Nat
    /\ data \in [Frames -> Values]
    /\ window \in Frames \cup {None}
    /\ halted \in BOOLEAN

-----------------------------------------------------------------------------
Free == {f \in Frames : refs[f] = 0}

Mapped(p)    == {v \in Pages : frame[p][v] # None}
Holding(p)   == {t \in Tables : table[p][t] # None}
FramesOf(p)  == {frame[p][v] : v \in Mapped(p)}
TablesOf(p)  == {table[p][t] : t \in Holding(p)}

\* One getPage for each member of S, out of the frames of F.
Allotments(S, F) ==
    {a \in [S -> F] : \A s, t \in S : a[s] = a[t] => s = t}

\* The frames to which S is mapped by m.
Image(m, S) == {m[s] : s \in S}

\* Mutant: putPage keeps the last reference.
RecountLeak(F, G) ==
    /\ refs' = [f \in Frames |-> IF f \in G THEN 1
                                 ELSE IF f \in F /\ refs[f] > 1 THEN refs[f] - 1
                                 ELSE refs[f]]
    /\ freePages' = freePages - Cardinality(G)

\* putPage on every frame of F, then getPage for every frame of G.
Recount(F, G) ==
    /\ refs' = [f \in Frames |-> IF f \in G THEN 1
                                 ELSE IF f \in F THEN refs[f] - 1 ELSE refs[f]]
    /\ freePages' = freePages + Cardinality({f \in F : refs[f] = 1})
                              - Cardinality(G)

\* After copyPage into f the TLB may keep page 0 at f, or may not: copyPage
\* clears the table entry and does not flush it.
CopiedTo(f) == window' \in {f, None}

\* A copyPage goes astray when the TLB still has the frame of the last one.
Astray == window # None

Running == ~ halted /\ current \in users

-----------------------------------------------------------------------------
Init ==
    /\ current = None
    /\ users = {}
    /\ table = [p \in Procs |-> NoTables]
    /\ frame = [p \in Procs |-> NoFrames]
    /\ writable = [p \in Procs |-> ReadOnly]
    /\ vmap = [p \in Procs |-> {}]
    /\ brk = [p \in Procs |-> 0]
    /\ refs = [f \in Frames |-> 0]
    /\ freePages = Cardinality(Frames) + KernelPages
    /\ data \in [Frames -> Values]
    /\ window = None
    /\ halted = FALSE

\* taskToUserMode: a kernel thread gets an empty directory, and the stale
\* translations go with setCr3.
Enter(p) ==
    /\ ~ halted
    /\ current = None /\ p \notin users
    /\ current' = p
    /\ users' = users \cup {p}
    /\ window' = None
    /\ UNCHANGED <<maps, refs, freePages, data, halted>>

\* taskActivate: another directory is loaded, which flushes the TLB.
Switch(p) ==
    /\ ~ halted
    /\ p \in (users \cup {None}) \ {current}
    /\ current' = p
    /\ window' = None
    /\ UNCHANGED <<users, maps, refs, freePages, data, halted>>

\* A store to a page that is present and writable makes no fault.
Store(v) == \E x \in Values :
    /\ Running
    /\ v \in Mapped(current) /\ writable[current][v]
    /\ data' = [data EXCEPT ![frame[current][v]] = x]
    /\ UNCHANGED <<current, users, maps, refs, freePages, window, halted>>

\* The store of taskWaitpid to *status.  It is made in kernel mode, and as
\* enablePage leaves the WP bit of cr0 clear, the write bit does not stop it.
StoreStatus(v) == \E x \in Values :
    /\ Running
    /\ v \in Mapped(current)
    /\ data' = [data EXCEPT ![frame[current][v]] = x]
    /\ UNCHANGED <<current, users, maps, refs, freePages, window, halted>>

-----------------------------------------------------------------------------
\* Mutant: the first page above the heap belongs to it.
MissingAtBrk(v) ==
    v \notin Mapped(current) /\ (v <= brk[current] \/ v >= StackBottom)

\* The page is not there, but it may be: on the heap or on the stack.
Missing(v) == v \notin Mapped(current) /\ (v < brk[current] \/ v >= StackBottom)

\* pageFault, page not present: linkPage, with a table if there is none.
LinkFault(v) == \E f \in Free :
    /\ Running
    /\ Missing(v)
    /\ frame' = [frame EXCEPT ![current][v] = f]
    /\ writable' = [writable EXCEPT ![current][v] = TRUE]
    /\ vmap' = [vmap EXCEPT ![current] = @ \cup {v}]
    /\ IF TableOf[v] \in Holding(current)
       THEN Recount({}, {f}) /\ UNCHANGED table
       ELSE \E g \in Free \ {f} :
                /\ table' = [table EXCEPT ![current][TableOf[v]] = g]
                /\ Recount({}, {f, g})
    /\ UNCHANGED <<current, users, brk, data, window, halted>>

\* A store to a page present and read-only.
Protected(v) == v \in Mapped(current) /\ ~ writable[current][v]

\* Mutant: a page that one other process still has is taken over.
OwnFaultTwo(v) ==
    /\ Running
    /\ Protected(v) /\ refs[frame[current][v]] <= 2
    /\ writable' = [writable EXCEPT ![current][v] = TRUE]
    /\ UNCHANGED <<current, users, table, frame, vmap, brk, phys, halted>>

\* pageFault: no one else has the page any more.
OwnFault(v) ==
    /\ Running
    /\ Protected(v) /\ refs[frame[current][v]] = 1
    /\ writable' = [writable EXCEPT ![current][v] = TRUE]
    /\ UNCHANGED <<current, users, table, frame, vmap, brk, phys, halted>>

\* pageFault: the page is shared and is copied.
CopyFault(v) == \E f \in Free :
    LET shared == frame[current][v] IN
    /\ Running
    /\ Protected(v) /\ refs[shared] # 1
    /\ Recount({shared}, {f})
    /\ data' = IF Astray THEN [data EXCEPT ![window] = data[shared]]
                         ELSE [data EXCEPT ![f] = data[shared]]
    /\ IF Astray THEN UNCHANGED window ELSE CopiedTo(f)
    /\ halted' = Astray
    /\ frame' = [frame EXCEPT ![current][v] = f]
    /\ writable' = [writable EXCEPT ![current][v] = TRUE]
    /\ UNCHANGED <<current, users, table, vmap, brk>>

\* pageFault, neither: the kernel panics.
BadFault(v) ==
    /\ Running
    /\ v \notin Mapped(current) /\ ~ Missing(v)
    /\ halted' = TRUE
    /\ UNCHANGED <<current, users, maps, phys>>

-----------------------------------------------------------------------------
\* taskFork: copyPde takes a frame for every table, makes the pages of both
\* read-only and counts one more reference to each; then it reloads cr3.
\* Each table but the first may be copied through a translation left by the
\* last, over a table.
Fork(child) ==
    /\ Running
    /\ child \notin users
    /\ users' = users \cup {child}
    /\ \E new \in Allotments(Holding(current), Free) :
        /\ table' = [table EXCEPT ![child] =
                        [t \in Tables |-> IF t \in Holding(current) THEN new[t]
                                          ELSE None]]
        /\ refs' = [f \in Frames |->
                       IF f \in Image(new, Holding(current)) THEN 1
                       ELSE IF f \in FramesOf(current) THEN refs[f] + 1
                       ELSE refs[f]]
    /\ freePages' = freePages - Cardinality(Holding(current))
    /\ frame' = [frame EXCEPT ![child] = frame[current]]
    /\ writable' = [writable EXCEPT ![child] = ReadOnly, ![current] = ReadOnly]
    /\ vmap' = [vmap EXCEPT ![child] = vmap[current]]
    /\ brk' = [brk EXCEPT ![child] = brk[current]]
    /\ window' = None
    /\ halted' \in IF Holding(current) = {} THEN {FALSE}
                   ELSE {Astray, Astray \/ Cardinality(Holding(current)) > 1}
    /\ UNCHANGED <<current, data>>

\* taskExit: freePde, and schedule() to another address space.
Exit(next) ==
    /\ Running
    /\ next \in (users \cup {None}) \ {current}
    /\ Recount(FramesOf(current) \cup TablesOf(current), {})
    /\ users' = users \ {current}
    /\ current' = next
    /\ table' = [table EXCEPT ![current] = NoTables]
    /\ frame' = [frame EXCEPT ![current] = NoFrames]
    /\ writable' = [writable EXCEPT ![current] = ReadOnly]
    /\ vmap' = [vmap EXCEPT ![current] = {}]
    /\ brk' = [brk EXCEPT ![current] = 0]
    /\ window' = None
    /\ UNCHANGED <<data, halted>>

\* sysBrk upwards: freePages is compared, and nothing is taken yet.
Grow(b) ==
    /\ Running
    /\ b \in brk[current] .. StackBottom - 1
    /\ b - brk[current] <= freePages
    /\ brk' = [brk EXCEPT ![current] = b]
    /\ UNCHANGED <<current, users, table, frame, writable, vmap, phys, halted>>

\* The tables unlinkPage makes as it looks for pages that were never there.
Lacking(b) == {TableOf[v] : v \in b .. brk[current] - 1} \ Holding(current)

\* The frames no one has once current has unlinked its pages from b upwards.
FreeWithout(F) == {f \in Frames : refs[f] = 0 \/ (f \in F /\ refs[f] = 1)}

\* sysBrk downwards: unlinkPage on every page from b to the old brk.
Shrink(b) ==
    /\ Running
    /\ b \in 0 .. brk[current] - 1
    /\ LET gone == Mapped(current) \cap (b .. brk[current] - 1)
           left == Image(frame[current], gone) IN
       /\ frame' = [frame EXCEPT ![current] =
                        [v \in Pages |-> IF v \in gone THEN None
                                         ELSE frame[current][v]]]
       /\ writable' = [writable EXCEPT ![current] =
                        [v \in Pages |-> v \notin gone /\ writable[current][v]]]
       /\ vmap' = [vmap EXCEPT ![current] = @ \ gone]
       /\ \E new \in Allotments(Lacking(b), FreeWithout(left)) :
            /\ Recount(left, Image(new, Lacking(b)))
            /\ table' = [table EXCEPT ![current] =
                            [t \in Tables |-> IF t \in Lacking(b) THEN new[t]
                                              ELSE table[current][t]]]
    /\ brk' = [brk EXCEPT ![current] = b]
    /\ UNCHANGED <<current, users, data, window, halted>>

\* getPage finds no frame for one of the calls above, and panics.
OutOfMemory ==
    /\ Running
    /\ \/ \E v \in Pages : /\ Missing(v)
                           /\ Cardinality(Free) <
                                 IF TableOf[v] \in Holding(current) THEN 1 ELSE 2
       \/ \E v \in Pages : /\ Protected(v) /\ refs[frame[current][v]] # 1
                           /\ Free = {}
       \/ Cardinality(Free) < Cardinality(Holding(current)) /\ users # Procs
       \/ \E b \in 0 .. brk[current] - 1 :
              Cardinality(Free) < Cardinality(Lacking(b))
    /\ halted' = TRUE
    /\ UNCHANGED <<current, users, maps, phys>>

Next ==
    \/ \E p \in Procs : Enter(p) \/ Fork(p)
    \/ \E p \in Procs \cup {None} : Switch(p) \/ Exit(p)
    \/ \E v \in Pages : Store(v) \/ StoreStatus(v) \/ LinkFault(v)
                          \/ OwnFault(v) \/ CopyFault(v) \/ BadFault(v)
    \/ \E b \in 0 .. StackBottom - 1 : Grow(b) \/ Shrink(b)
    \/ OutOfMemory

Spec == Init /\ [][Next]_vars

-----------------------------------------------------------------------------
Owners(f) == {p \in Procs : f \in FramesOf(p) \cup TablesOf(p)}

(* memoryMap counts the processes that have a frame, neither more, which   *)
(* would leak it, nor fewer, which would give it away while it is used;    *)
(* freePages is wrong by the kernel's own pages, and by nothing else.      *)
RefsExact ==
    /\ TypeOK
    /\ \A f \in Frames : refs[f] = Cardinality(Owners(f))
    /\ freePages = Cardinality(Free) + KernelPages

(* A page can be written without a fault only by a process that shares it  *)
(* with no other one.                                                      *)
SoleWriter == \A p \in Procs : \A v \in Pages :
    writable[p][v] => frame[p][v] # None /\ Owners(frame[p][v]) = {p}

(* No frame serves twice: two pages of a process never share one, pages    *)
(* shared by two processes are at the same address, and a table belongs to *)
(* one process and is nobody's page.                                       *)
Distinct ==
    /\ \A p, q \in Procs : \A v \in Mapped(p), w \in Mapped(q) :
          frame[p][v] = frame[q][w] => v = w
    /\ \A p, q \in Procs : \A s \in Holding(p), t \in Holding(q) :
          table[p][s] = table[q][t] => p = q /\ s = t
    /\ \A p, q \in Procs : FramesOf(p) \cap TablesOf(q) = {}

(* The bitmap of a process agrees with its page tables, as linkPage and    *)
(* unlinkPage assert; a page present has a table, and lies on the stack or *)
(* below brk; a task without a directory has nothing.                      *)
MapsAgree == \A p \in Procs :
    /\ vmap[p] = Mapped(p)
    /\ \A v \in Mapped(p) : /\ TableOf[v] \in Holding(p)
                            /\ v < brk[p] \/ v >= StackBottom
    /\ p \notin users => Holding(p) = {}

(* The page tables of all processes are well formed: the two facts above.  *)
TablesSound == Distinct /\ MapsAgree

View == [p \in Procs |-> [v \in Pages |->
    IF frame[p][v] = None THEN None ELSE data[frame[p][v]]]]

A == INSTANCE AddressSpace WITH view <- View, Unmapped <- None

\* The steps that break it: a copy goes to the frame of the one before
\* (memory.cpp:415), a status into a page that others have as well.
CopyAstray == Astray /\ \E v \in Pages : CopyFault(v)
StatusShared == \E v \in Pages :
    /\ StoreStatus(v)
    /\ Protected(v) /\ refs[frame[current][v]] # 1

(* Copy-on-write is invisible: every process finds in its pages what it    *)
(* stored there, or what its parent had there when it forked.  Every step  *)
(* is one of processes with an address space each, but for the two above:  *)
(* CopyLands and ReadOnlyHolds are what those violate.                     *)
Private == A!Init /\ [][A!Next \/ CopyAstray \/ StatusShared]_<<users, View>>

-----------------------------------------------------------------------------
(* kernel/memory.cpp, line 406: copyPage "copies a page and returns the    *)
(* physical address of the copy".  So a page that moves to another frame   *)
(* in a page fault takes its content with it.                              *)
CopyLands == [][\A p \in users : \A v \in Pages :
    frame[p][v] # None /\ frame'[p][v] \notin {None, frame[p][v]}
        => data'[frame'[p][v]] = data[frame[p][v]]]_vars

(* memory.h:48: a page whose write bit is 0 is read-only, and copyPde sets *)
(* the bit to 0 in both processes to make the page read-only               *)
(* (memory.cpp:447).  So its content stays as long as the bit does.        *)
ReadOnlyHolds == [][\A p \in users : \A v \in Mapped(p) :
    ~ writable[p][v] /\ UNCHANGED <<frame[p][v], writable[p][v]>>
        => View'[p][v] = View[p][v]]_vars
=============================================================================
