------------------------------- MODULE Buffer -------------------------------
(***************************************************************************)
(* The buffer cache of SoulOS, kernel/buffer.cpp: buffers that are found   *)
(* through a hash table, counted while tasks use them, kept on a free list *)
(* when none does, and given to another block when memory has run out.     *)
(*                                                                         *)
(* A task runs undisturbed until it waits: for the disk, in deviceRequest, *)
(* or for a buffer, on waitList.  deviceRequest is two steps, the transfer *)
(* and the return, as others may run before each (BlockIO.tla has it in    *)
(* full).  One block device is enough, and one chain for the 31 of the     *)
(* hash table, which are searched for the number of a block all the same.  *)
(***************************************************************************)
EXTENDS Integers, SequencesExt, FiniteSets

CONSTANTS
    Tasks,
    Blocks,         \* the numbers of the device's blocks
    Shared,         \* those that tasks use without taking turns
    Values,         \* what a block may contain
    Junk,           \* what a buffer holds before it is filled
    Closed,         \* of BlockStore
    MemSize,        \* KERNEL_BUFFER_SIZE
    HeaderSize,     \* sizeof(buffer_t)
    BlockSize       \* BLOCK_SIZE

ASSUME BufferAssumption ==
    /\ Shared \subseteq Blocks /\ Blocks \subseteq Nat \ {0}
    /\ IsFiniteSet(Tasks)
    /\ Junk \notin Values
    /\ Closed \notin [block : Blocks, data : Values]
    /\ {MemSize, HeaderSize, BlockSize} \subseteq Nat \ {0}
    /\ HeaderSize + BlockSize < MemSize     \* the memory holds a buffer

VARIABLES
    bufs,       \* the headers so far, in the order in which getNewBuffer made them
    hashed,     \* hashTable: the buffers in a chain, from its head
    freeList,   \* the buffers no one uses, from head to tail
    waitList,   \* the tasks that wait for a buffer, from head to tail
    disk,
    at,         \* where each task is
    buf,        \* the buffer a task has, 0 if none
    want,       \* the block for which a task waits on waitList, or 0
    leaving,    \* the task writes on behalf of brelse
    halted      \* an assertion has failed

cacheVars == <<bufs, hashed, freeList, waitList>>
taskVars  == <<at, buf, want, leaving>>
bufferVars == <<cacheVars, disk, taskVars, halted>>

Buffers == DOMAIN bufs

CacheTypeOK ==
    /\ bufs \in Seq([block : Blocks, count : Int, dirty : BOOLEAN,
                     valid : BOOLEAN, data : Values \cup {Junk}])
    /\ hashed \in Seq(Buffers)
    /\ freeList \in Seq(Buffers)
    /\ waitList \in Seq(Tasks)
    /\ disk \in [Blocks -> Values]
    /\ at \in [Tasks -> {"user", "wait", "turn", "read", "filled", "write", "wrote"}]
    /\ buf \in [Tasks -> Buffers \cup {0}]
    /\ want \in [Tasks -> Blocks \cup {0}]
    /\ leaving \in [Tasks -> BOOLEAN]
    /\ halted \in BOOLEAN

-----------------------------------------------------------------------------
CacheInit ==
    /\ bufs = <<>> /\ hashed = <<>> /\ freeList = <<>> /\ waitList = <<>>
    /\ \E v \in Values : disk = [b \in Blocks |-> v]
    /\ at = [t \in Tasks |-> "user"]
    /\ buf = [t \in Tasks |-> 0]
    /\ want = [t \in Tasks |-> 0]
    /\ leaving = [t \in Tasks |-> FALSE]
    /\ halted = FALSE

Free(t) == ~ halted /\ at[t] = "user" /\ buf[t] = 0
Using(t) == ~ halted /\ at[t] = "user" /\ buf[t] # 0

\* A task has the block, or is waiting for it.
Claims(u, b) == want[u] = b \/ (buf[u] # 0 /\ bufs[buf[u]].block = b)

\* Callers: tasks take turns with a block, unless it is one of Shared.
May(t, b) == b \in Shared \/ \A u \in Tasks \ {t} : ~ Claims(u, b)

\* getNewBuffer: headers grow from the start of the memory; the data of the
\* next buffer are at its end, and the pointer to them moves up as well.
BufferPtr  == Len(bufs) * HeaderSize
BufferData == MemSize - BlockSize + Len(bufs) * BlockSize
Room       == BufferPtr + HeaderSize < BufferData

\* getFromHashTable: the first in the chain.
FoundFor(b) == {n \in DOMAIN hashed : bufs[hashed[n]].block = b}
Found(b) == hashed[CHOOSE n \in FoundFor(b) : \A m \in FoundFor(b) : n <= m]

\* Mutant: the buffer stays on the free list.
HitKept(t, b) == LET n == Found(b) IN
    /\ FoundFor(b) # {} /\ bufs[n].valid
    /\ bufs' = [bufs EXCEPT ![n].count = @ + 1]
    /\ buf' = [buf EXCEPT ![t] = n]
    /\ UNCHANGED <<hashed, waitList, disk, at, want, leaving, halted, freeList>>

\* bread finds the block in the cache.
Hit(t, b) == LET n == Found(b) IN
    /\ FoundFor(b) # {} /\ bufs[n].valid
    /\ freeList' = RemoveFirst(freeList, n)
    /\ bufs' = [bufs EXCEPT ![n].count = @ + 1]
    /\ buf' = [buf EXCEPT ![t] = n]
    /\ UNCHANGED <<hashed, waitList, disk, at, want, leaving, halted>>

\* The block is being read by another: getblk's assertion stops the kernel.
HitUnread(b) ==
    /\ FoundFor(b) # {} /\ ~ bufs[Found(b)].valid
    /\ halted' = TRUE
    /\ UNCHANGED <<cacheVars, disk, taskVars>>

\* The end of getblk and the start of bread: buffer n is to be filled with b.
Fill(t, b, n) ==
    /\ at' = [at EXCEPT ![t] = "read"]
    /\ buf' = [buf EXCEPT ![t] = n]
    /\ want' = [want EXCEPT ![t] = 0]
    /\ UNCHANGED <<waitList, disk, leaving, halted>>

Fresh(b) == [block |-> b, count |-> 1, dirty |-> FALSE, valid |-> FALSE, data |-> Junk]

\* getFreeBuffer: memory first, then the buffer that was left longest ago.
TakeNew(t, b) ==
    /\ Room
    /\ bufs' = Append(bufs, Fresh(b))
    /\ hashed' = <<Len(bufs) + 1>> \o hashed
    /\ Fill(t, b, Len(bufs) + 1)
    /\ UNCHANGED freeList

TakeFree(t, b) ==
    /\ ~ Room /\ freeList # <<>>
    /\ bufs' = [bufs EXCEPT ![Last(freeList)] = Fresh(b)]
    /\ hashed' = <<Last(freeList)>> \o RemoveFirst(hashed, Last(freeList))
    /\ freeList' = Front(freeList)
    /\ Fill(t, b, Last(freeList))

\* Neither: taskBlock on waitList.
AwaitFree(t, b) ==
    /\ ~ Room /\ freeList = <<>>
    /\ at' = [at EXCEPT ![t] = "wait"]
    /\ want' = [want EXCEPT ![t] = b]
    /\ waitList' = <<t>> \o waitList
    /\ UNCHANGED <<bufs, hashed, freeList, disk, buf, leaving, halted>>

GetFreeBuffer(t, b) == TakeNew(t, b) \/ TakeFree(t, b) \/ AwaitFree(t, b)

Bread(t, b) ==
    /\ Free(t) /\ May(t, b)
    /\ Hit(t, b) \/ HitUnread(b) \/ (FoundFor(b) = {} /\ GetFreeBuffer(t, b))

\* A waiter that was woken: the loop of getFreeBuffer, which does not look
\* into the hash table again.
BreadAgain(t) ==
    /\ ~ halted /\ at[t] = "turn"
    /\ GetFreeBuffer(t, want[t])

\* deviceRequest moves the block, in one of the two directions.
ReadTransfer(t) ==
    /\ ~ halted /\ at[t] = "read"
    /\ bufs' = [bufs EXCEPT ![buf[t]].data = disk[bufs[buf[t]].block]]
    /\ at' = [at EXCEPT ![t] = "filled"]
    /\ UNCHANGED <<hashed, freeList, waitList, disk, buf, want, leaving, halted>>

WriteTransfer(t) ==
    /\ ~ halted /\ at[t] = "write"
    /\ disk' = [disk EXCEPT ![bufs[buf[t]].block] = bufs[buf[t]].data]
    /\ at' = [at EXCEPT ![t] = "wrote"]
    /\ UNCHANGED <<cacheVars, buf, want, leaving, halted>>

\* The end of bread, after deviceRequest.
ReadDone(t) ==
    /\ ~ halted /\ at[t] = "filled"
    /\ bufs' = [bufs EXCEPT ![buf[t]].dirty = FALSE, ![buf[t]].valid = TRUE]
    /\ at' = [at EXCEPT ![t] = "user"]
    /\ UNCHANGED <<hashed, freeList, waitList, disk, buf, want, leaving, halted>>

\* The holder of a buffer changes what is in it.
Modify(t, v) ==
    /\ Using(t) /\ bufs[buf[t]].data # v
    /\ bufs' = [bufs EXCEPT ![buf[t]].data = v, ![buf[t]].dirty = TRUE]
    /\ UNCHANGED <<hashed, freeList, waitList, disk, taskVars, halted>>

\* bwrite up to deviceRequest, for its caller or for brelse.
StartWrite(t, leave) ==
    /\ Using(t) /\ bufs[buf[t]].dirty
    /\ at' = [at EXCEPT ![t] = "write"]
    /\ leaving' = [leaving EXCEPT ![t] = leave]
    /\ UNCHANGED <<cacheVars, disk, buf, want, halted>>

\* Mutant: no one is woken.
PutMute(t, now) == LET n == buf[t] IN
    /\ bufs' = [now EXCEPT ![n].count = @ - 1]
    /\ freeList' = IF now[n].count = 1 THEN <<n>> \o freeList ELSE freeList
    /\ buf' = [buf EXCEPT ![t] = 0]
    /\ leaving' = [leaving EXCEPT ![t] = FALSE]
    /\ at' = [at EXCEPT ![t] = "user"]
    /\ UNCHANGED <<hashed, waitList, disk, want, halted>>

\* The rest of brelse, with the headers as they are now: the last user puts
\* the buffer on the free list and wakes the task that has waited longest.
Put(t, now) == LET n == buf[t]
                   last == now[n].count = 1
                   woken == IF last /\ waitList # <<>> THEN {Last(waitList)} ELSE {} IN
    /\ bufs' = [now EXCEPT ![n].count = @ - 1]
    /\ freeList' = IF last THEN <<n>> \o freeList ELSE freeList
    /\ waitList' = IF woken = {} THEN waitList ELSE Front(waitList)
    /\ buf' = [buf EXCEPT ![t] = 0]
    /\ leaving' = [leaving EXCEPT ![t] = FALSE]
    /\ at' = [u \in Tasks |-> IF u \in woken THEN "turn"
                              ELSE IF u = t THEN "user" ELSE at[u]]
    /\ UNCHANGED <<hashed, disk, want, halted>>

BwriteDirty(t) == StartWrite(t, FALSE)

\* Mutant: brelse leaves the writing to whoever reuses the buffer.
BrelseLazy(t) == Using(t) /\ Put(t, bufs)

Brelse(t) ==
    \/ StartWrite(t, TRUE)
    \/ Using(t) /\ ~ bufs[buf[t]].dirty /\ Put(t, bufs)

\* The end of bwrite, after deviceRequest, and of brelse if that called it.
WriteDone(t) ==
    /\ ~ halted /\ at[t] = "wrote"
    /\ LET now == [bufs EXCEPT ![buf[t]].dirty = FALSE, ![buf[t]].valid = TRUE] IN
       IF leaving[t] THEN Put(t, now)
       ELSE /\ bufs' = now
            /\ at' = [at EXCEPT ![t] = "user"]
            /\ UNCHANGED <<hashed, freeList, waitList, disk, buf, want, leaving, halted>>

CacheNext == \E t \in Tasks :
    \/ \E b \in Blocks : Bread(t, b)
    \/ BreadAgain(t)
    \/ ReadTransfer(t)
    \/ ReadDone(t)
    \/ \E v \in Values : Modify(t, v)
    \/ BwriteDirty(t)
    \/ Brelse(t)
    \/ WriteTransfer(t)
    \/ WriteDone(t)

CacheSpec == CacheInit /\ [][CacheNext]_bufferVars

-----------------------------------------------------------------------------
(* A buffer counts the tasks that have it, it is on the free list when     *)
(* there is none, and what is there can be given up: nothing in it is      *)
(* unwritten.  (The assertions of getblk and brelse, and more.)            *)
BuffersSound ==
    /\ CacheTypeOK
    /\ \A n \in Buffers : bufs[n].count = Cardinality({t \in Tasks : buf[t] = n})
    /\ ToSet(freeList) = {n \in Buffers : bufs[n].count = 0}
    /\ ToSet(hashed) = Buffers
    /\ Len(freeList) = Cardinality(ToSet(freeList)) /\ Len(hashed) = Len(bufs)
    /\ \A n \in ToSet(freeList) : bufs[n].valid /\ ~ bufs[n].dirty

(* While tasks wait for a buffer, each free one has been promised: there   *)
(* is a woken task for it.  And someone will give one back.                *)
NoBufferIdle == waitList # <<>> =>
    /\ Len(freeList) <= Cardinality({t \in Tasks : at[t] = "turn"})
    /\ \E t \in Tasks : at[t] = "turn" \/ buf[t] # 0

-----------------------------------------------------------------------------
Private == Blocks \ Shared
Holding(t) == buf[t] # 0 /\ at[t] \in {"user", "write", "wrote"}
              /\ bufs[buf[t]].block \in Private
Cached(b) == {n \in Buffers : bufs[n].block = b /\ bufs[n].valid}

Store == [b \in Private |-> IF Cached(b) = {} THEN disk[b]
                            ELSE bufs[CHOOSE n \in Cached(b) : TRUE].data]
Disk == [b \in Private |-> disk[b]]
Opened == [t \in Tasks |-> IF Holding(t)
             THEN [block |-> bufs[buf[t]].block, data |-> bufs[buf[t]].data]
             ELSE Closed]

B == INSTANCE BlockStore WITH
    Blocks <- Private, store <- Store, disk <- Disk, open <- Opened

(* For the tasks that take turns, there is no cache: what they find is     *)
(* what was left, and what was released is on the disk.                    *)
StoreSpec == B!Spec
=============================================================================
