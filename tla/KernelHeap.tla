----------------------------- MODULE KernelHeap -----------------------------
(***************************************************************************)
(* The kernel's own memory in SoulOS: pages out of the bitmap kernelMap    *)
(* (allocKpage and freeKpage of kernel/memory.cpp over lib/bitmap.cpp) and *)
(* the blocks of kmalloc and kfree (kernel/arena.cpp), which cut a page    *)
(* into blocks of one size and give the page back with its last block.     *)
(*                                                                         *)
(* Both are called with interrupts off and never block, so every call is   *)
(* one step.  Callers free what they have got, and free it once.           *)
(***************************************************************************)
EXTENDS Integers, SequencesExt

CONSTANTS
    MapPages,    \* pages in kernelMap
    MaxCount,   \* bound: how many pages a caller asks for at once
    Classes,    \* arena descriptors
    TotalBlock  \* arena_descriptor_t.totalBlock: blocks in a page

ASSUME KernelHeapAssumption ==
    /\ MapPages \in Nat /\ MaxCount \in Nat
    /\ TotalBlock \in [Classes -> Nat \ {0}]
    /\ "large" \notin Classes /\ "none" \notin Classes

PageIndices == 0 .. MapPages - 1
EOF         == -1

VARIABLES
    used,       \* kernelMap
    desc,       \* arena_t.desc of an arena at this page, "large", or "none"
    count,      \* arena_t.count: free blocks, or the pages of a large arena
    freeList,   \* arena_descriptor_t.freeList, from head to tail
    live,       \* the blocks kmalloc has returned: page and index
    taken,      \* the runs allocKpage has returned: first page and length
    panicked    \* scanPage found no run

heapVars == <<used, desc, count, freeList, live, taken, panicked>>

Blocks == PageIndices \X Nat

HeapTypeOK ==
    /\ used \in [PageIndices -> BOOLEAN]
    /\ desc \in [PageIndices -> Classes \cup {"large", "none"}]
    /\ count \in [PageIndices -> Nat]
    /\ freeList \in [Classes -> Seq(Blocks)]
    /\ live \subseteq Blocks
    /\ taken \subseteq PageIndices \X (1 .. MaxCount)
    /\ panicked \in BOOLEAN

-----------------------------------------------------------------------------
\* bitmapScan: how many bits in a row are clear just before bit i.
Counter[i \in 0 .. MapPages] ==
    IF i = 0 THEN 0 ELSE IF used[i - 1] THEN 0 ELSE Counter[i - 1] + 1

Ends(n) == {i \in 1 .. MapPages : Counter[i] = n}

\* Mutant: the loop goes on after a run has been found.
ScanOn(n) == IF Ends(n) = {} THEN EOF ELSE Max(Ends(n)) - n

\* bitmapScan: where the first run of n clear bits starts.
Scan(n) == IF Ends(n) = {} THEN EOF ELSE Min(Ends(n)) - n

Span(page, n) == page .. page + n - 1

Marked(pages, value) ==
    [p \in PageIndices |-> IF p \in pages THEN value ELSE used[p]]

HeapInit ==
    /\ used = [p \in PageIndices |-> FALSE]
    /\ desc = [p \in PageIndices |-> "none"]
    /\ count = [p \in PageIndices |-> 0]
    /\ freeList = [c \in Classes |-> <<>>]
    /\ live = {}
    /\ taken = {}
    /\ panicked = FALSE

AllocKpage(n) ==
    /\ ~ panicked
    /\ Scan(n) # EOF
    /\ used' = Marked(Span(Scan(n), n), TRUE)
    /\ taken' = taken \cup {<<Scan(n), n>>}
    /\ UNCHANGED <<desc, count, freeList, live, panicked>>

FreeKpage(run) ==
    /\ ~ panicked
    /\ used' = Marked(Span(run[1], run[2]), FALSE)
    /\ taken' = taken \ {run}
    /\ UNCHANGED <<desc, count, freeList, live, panicked>>

\* scanPage panics.
Panic ==
    /\ ~ panicked
    /\ \/ \E n \in 1 .. MaxCount : Scan(n) = EOF
       \/ \E c \in Classes : freeList[c] = <<>> /\ Scan(1) = EOF
    /\ panicked' = TRUE
    /\ UNCHANGED <<used, desc, count, freeList, live, taken>>

-----------------------------------------------------------------------------
\* The free list of a new arena: every block was pushed to the head in turn.
NewList(page, c) == [i \in 1 .. TotalBlock[c] |-> <<page, TotalBlock[c] - i>>]

\* kmalloc takes the block at the head of the free list.
Kmalloc(c) ==
    /\ ~ panicked
    /\ freeList[c] # <<>>
    /\ LET block == Head(freeList[c]) IN
       /\ live' = live \cup {block}
       /\ count' = [count EXCEPT ![block[1]] = @ - 1]
    /\ freeList' = [freeList EXCEPT ![c] = Tail(@)]
    /\ UNCHANGED <<used, desc, taken, panicked>>

\* kmalloc finds the list empty, and cuts a new page into blocks first.
KmallocNew(c) ==
    /\ ~ panicked
    /\ freeList[c] = <<>> /\ Scan(1) # EOF
    /\ LET page == Scan(1) IN
       /\ used' = Marked({page}, TRUE)
       /\ desc' = [desc EXCEPT ![page] = c]
       /\ count' = [count EXCEPT ![page] = TotalBlock[c] - 1]
       /\ live' = live \cup {Head(NewList(page, c))}
       /\ freeList' = [freeList EXCEPT ![c] = Tail(NewList(page, c))]
    /\ UNCHANGED <<taken, panicked>>

\* kmalloc of more than 1024 bytes: an arena of n pages with a single block.
KmallocLarge(n) ==
    /\ ~ panicked
    /\ Scan(n) # EOF
    /\ LET page == Scan(n) IN
       /\ used' = Marked(Span(page, n), TRUE)
       /\ desc' = [desc EXCEPT ![page] = "large"]
       /\ count' = [count EXCEPT ![page] = n]
       /\ live' = live \cup {<<page, 0>>}
    /\ UNCHANGED <<freeList, taken, panicked>>

\* Mutant: a page goes back to the pool with its blocks still on the list.
KfreeLastListed(block) ==
    LET page == block[1] IN
    /\ count[page] + 1 = TotalBlock[desc[page]]
    /\ freeList' = [freeList EXCEPT ![desc[page]] = <<block>> \o @]
    /\ used' = Marked({page}, FALSE)
    /\ desc' = [desc EXCEPT ![page] = "none"]
    /\ count' = [count EXCEPT ![page] = 0]

\* The loop of kfree that takes the blocks of an arena off the free list.
Unlinked(list, page, n) ==
    LET rest[i \in 0 .. n] ==
            IF i = 0 THEN list ELSE RemoveFirst(rest[i - 1], <<page, i - 1>>)
    IN  rest[n]

\* kfree of the last block in use: the blocks leave the list, the page goes.
KfreeLast(block) ==
    LET page == block[1]
        c    == desc[page] IN
    /\ count[page] + 1 = TotalBlock[c]
    /\ freeList' = [freeList EXCEPT ![c] =
                       Unlinked(<<block>> \o @, page, TotalBlock[c])]
    /\ used' = Marked({page}, FALSE)
    /\ desc' = [desc EXCEPT ![page] = "none"]
    /\ count' = [count EXCEPT ![page] = 0]

KfreeSome(block) ==
    LET page == block[1] IN
    /\ count[page] + 1 # TotalBlock[desc[page]]
    /\ freeList' = [freeList EXCEPT ![desc[page]] = <<block>> \o @]
    /\ count' = [count EXCEPT ![page] = @ + 1]
    /\ UNCHANGED <<used, desc>>

KfreeLarge(block) ==
    LET page == block[1] IN
    /\ used' = Marked(Span(page, count[page]), FALSE)
    /\ desc' = [desc EXCEPT ![page] = "none"]
    /\ count' = [count EXCEPT ![page] = 0]
    /\ UNCHANGED freeList

Kfree(block) ==
    /\ ~ panicked
    /\ live' = live \ {block}
    /\ IF desc[block[1]] = "large" THEN KfreeLarge(block)
                                   ELSE KfreeLast(block) \/ KfreeSome(block)
    /\ UNCHANGED <<taken, panicked>>

HeapNext ==
    \/ \E n \in 1 .. MaxCount : AllocKpage(n) \/ KmallocLarge(n)
    \/ \E run \in taken : FreeKpage(run)
    \/ \E c \in Classes : Kmalloc(c) \/ KmallocNew(c)
    \/ \E block \in live : Kfree(block)
    \/ Panic

HeapSpec == HeapInit /\ [][HeapNext]_heapVars

-----------------------------------------------------------------------------
\* The pages somebody has: runs of pages, and arenas.
Runs == taken
    \cup {<<p, count[p]>> : p \in {q \in PageIndices : desc[q] = "large"}}
    \cup {<<p, 1>> : p \in {q \in PageIndices : desc[q] \in Classes}}

\* Every run of pages is inside the map, no two of them overlap, a run that a
\* caller took is no arena, and a page is marked exactly when it belongs to a
\* run.
PagesExact ==
    /\ \A r, s \in Runs : r # s => Span(r[1], r[2]) \cap Span(s[1], s[2]) = {}
    /\ \A r \in taken : desc[r[1]] = "none"
    /\ \A p \in PageIndices : used[p] <=> \E r \in Runs : p \in Span(r[1], r[2])
    /\ \A r \in Runs : Span(r[1], r[2]) \subseteq PageIndices

BlocksOf(p) ==
    IF desc[p] \in Classes THEN {<<p, i>> : i \in 0 .. TotalBlock[desc[p]] - 1}
    ELSE IF desc[p] = "large" THEN {<<p, 0>>} ELSE {}

ArenaBlocks(c) == UNION {BlocksOf(p) : p \in {q \in PageIndices : desc[q] = c}}

Listed(c) == ToSet(freeList[c])

\* A block of an arena is either in a caller's hands or once on the list of
\* its size; an arena counts its free blocks, and one with none in use is
\* not kept.
BlocksExact ==
    /\ live \subseteq UNION {BlocksOf(p) : p \in PageIndices}
    /\ \A c \in Classes :
          /\ IsInjective(freeList[c])
          /\ Listed(c) = ArenaBlocks(c) \ live
    /\ \A p \in PageIndices : desc[p] \in Classes =>
          /\ count[p] = Cardinality(BlocksOf(p) \ live)
          /\ count[p] < TotalBlock[desc[p]]

(* No page leaks and none is given to two callers, no block is handed out  *)
(* twice, and no free list points into a page that has been given back:    *)
(* bitmap, lists and counts are exact (allocKpage, kmalloc and kfree).     *)
HeapExact == HeapTypeOK /\ PagesExact /\ BlocksExact

(* bitmapScan finds a run if there is one, and the first one: it is clear, *)
(* and none starts before it.                                              *)
FirstFit == \A n \in 1 .. MaxCount :
    LET fits(s) == Span(s, n) \subseteq {p \in PageIndices : ~ used[p]} IN
    IF Scan(n) = EOF THEN ~ \E s \in PageIndices : fits(s)
    ELSE fits(Scan(n)) /\ \A s \in 0 .. Scan(n) - 1 : ~ fits(s)
=============================================================================
