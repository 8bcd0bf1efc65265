-------------------------------- MODULE Files --------------------------------
(***************************************************************************)
(* The MINIX file system of SoulOS below the directories: the bitmaps and  *)
(* the tree of blocks of a file (fs/bmap.cpp), the table of inodes in use  *)
(* (fs/inode.cpp), and what the disk holds if the machine stops.           *)
(*                                                                         *)
(* A task works undisturbed until it waits for the disk.  Every change is  *)
(* written before the caller goes on; a write is two steps, the transfer   *)
(* and the return, and others may run, or the power fail, before each.     *)
(* Buffers are plentiful here (Buffer.tla is about them), and all inodes   *)
(* are in one block, which mountRoot has read and never releases.          *)
(***************************************************************************)
EXTENDS Integers, Sequences, FiniteSetsExt

CONSTANTS
    Tasks,
    Files,          \* the inode numbers in use, bound; 1 is the root
    FileBlocks,     \* the blocks of a file that are asked for, bound
    BlockBits,      \* BLOCK_BITS: bits in a block of a bitmap
    NrImaps,        \* imapBlocks
    NrZmaps,        \* zmapBlocks, here also ZMAP_NR
    Inodes,         \* super_desc_t.inodes
    Zones,          \* super_desc_t.zones
    FirstData,      \* super_desc_t.firstdatazone
    Direct,         \* DIRECT_BLOCK
    Indexes,        \* BLOCK_INDEXES
    InodeNr,        \* INODE_NR: entries of inodeTable
    MaxCrashes      \* bound: how often the power fails

ASSUME FilesAssumption ==
    /\ {BlockBits, NrImaps, NrZmaps, FirstData, Direct, Indexes, InodeNr}
           \subseteq Nat \ {0}
    /\ IsFiniteSet(Tasks) /\ IsFiniteSet(Files)
    /\ Zones \in Nat /\ Zones <= NrZmaps * BlockBits
    /\ Files = 1 .. Cardinality(Files) /\ 1 \in Files /\ Inodes \in Nat
    /\ Cardinality(Files) <= Inodes /\ Inodes < NrImaps * BlockBits
    /\ FirstData + Cardinality(Files) <= Zones
    /\ FileBlocks \subseteq 0 .. Direct + Indexes + Indexes * Indexes - 1
    /\ MaxCrashes \in Nat

Eof == -1
Bits == 0 .. BlockBits - 1

\* The zone of bit b in map block i, as balloc and bfree set up the bitmap.
ZoneOf(i, b) == i * BlockBits + FirstData - 1 + b
DataZones == FirstData .. Zones - 1

\* The blocks of the disk: the bitmaps, the inodes, and the zones, any of
\* which may be an index block.
ZmapBlocks  == {"zmap"} \X (0 .. NrZmaps - 1)
ImapBlocks  == {"imap"} \X (0 .. NrImaps - 1)
NodeBlock   == <<"node", 0>>
IndexBlocks == {"index"} \X DataZones
BlockNames  == ZmapBlocks \cup ImapBlocks \cup {NodeBlock} \cup IndexBlocks

Refs  == DataZones \cup {0, Eof}
Index == [0 .. Indexes - 1 -> Refs]
Clear == [k \in 0 .. Indexes - 1 |-> 0]
Data  == [k \in 0 .. Indexes - 1 |-> FirstData]   \* any data, seen as an index

VARIABLES
    mem,        \* the content of every block: the cache's, or else the disk's
    disk,
    dirty,      \* the blocks whose buffers are marked dirty
    job,        \* where each task is in its call
    own,        \* the zone a task has from balloc, 0 if none
    node,       \* the inode number a task has from ialloc, 0 if none
    handle,     \* the inode a task has from iget, 0 if none
    table,      \* inodeTable: number and count, number 0 where dev is EOF
    told,       \* the zone bmap has answered, 0 where it has not
    crashes,
    halted,     \* an assertion has failed, or a task has left the file system
    stale       \* history: bmap has made an index block of a zone that held
                \* something else, since neither balloc nor bmap clears it

diskVars   == <<mem, disk, dirty>>
clientVars == <<own, node, handle, table, told>>
machine    == <<crashes, halted, stale>>
vars == <<diskVars, job, clientVars, machine>>

Slots == 0 .. InodeNr - 1
Idle  == [at |-> "idle"]

Content(b) ==
    CASE b \in ZmapBlocks \cup ImapBlocks -> SUBSET Bits
      [] b = NodeBlock -> [Files -> [0 .. Direct + 1 -> Refs]]
      [] OTHER -> Index

TypeOK ==
    /\ DOMAIN mem = BlockNames /\ DOMAIN disk = BlockNames
    /\ \A b \in BlockNames : mem[b] \in Content(b) /\ disk[b] \in Content(b)
    /\ dirty \subseteq BlockNames
    /\ \A t \in Tasks : job[t].at \in {"idle", "look", "write", "back"}
    /\ own \in [Tasks -> DataZones \cup {0}]
    /\ node \in [Tasks -> 0 .. Inodes]
    /\ handle \in [Tasks -> Files \cup {0}]
    /\ table \in [Slots -> [nr : Files \cup {0}, count : Nat]]
    /\ told \in [Files -> [FileBlocks -> DataZones \cup {0}]]
    /\ crashes \in 0 .. MaxCrashes
    /\ halted \in BOOLEAN /\ stale \in BOOLEAN

-----------------------------------------------------------------------------
(* A file system as mkfs and the host make it: every file has a first      *)
(* zone, and the bits that stand for no zone or no inode are set.          *)
FirstZones == FirstData .. FirstData + Cardinality(Files) - 1
NewZmap(i) == {b \in Bits : ZoneOf(i, b) \notin DataZones \ FirstZones}
NewImap(i) == {b \in Bits : i * BlockBits + b \notin 1 .. Inodes
                            \/ i * BlockBits + b \in Files}
NewNode(n) == [k \in 0 .. Direct + 1 |-> IF k = 0 THEN FirstData + n - 1 ELSE 0]

NewDisk == [b \in BlockNames |->
    CASE b[1] = "zmap"  -> NewZmap(b[2])
      [] b[1] = "imap"  -> NewImap(b[2])
      [] b[1] = "node"  -> [n \in Files |-> NewNode(n)]
      [] b[1] = "index" -> Clear]

\* superInit and mountRoot: the root is in the table, as iroot and imount.
Mounted == [s \in Slots |-> IF s = 0 THEN [nr |-> 1, count |-> 2]
                            ELSE [nr |-> 0, count |-> 0]]
None == [t \in Tasks |-> 0]

Init ==
    /\ disk = NewDisk /\ mem = disk /\ dirty = {}
    /\ job = [t \in Tasks |-> Idle]
    /\ own = None /\ node = None /\ handle = None
    /\ table = Mounted
    /\ told = [n \in Files |-> [b \in FileBlocks |-> 0]]
    /\ crashes = 0
    /\ halted = FALSE /\ stale = FALSE

\* The power fails: what was not on the disk is gone.
Crash ==
    /\ crashes < MaxCrashes
    /\ crashes' = crashes + 1
    /\ mem' = disk /\ dirty' = {}
    /\ job' = [t \in Tasks |-> Idle]
    /\ own' = None /\ node' = None /\ handle' = None
    /\ table' = Mounted
    /\ halted' = FALSE
    /\ UNCHANGED <<disk, told, stale>>

Halt == halted' = TRUE /\ UNCHANGED <<diskVars, job, clientVars, crashes, stale>>

-----------------------------------------------------------------------------
Free(t) == ~ halted /\ job[t].at = "idle"

\* Bound: a task has one zone, inode number or inode at a time.
Empty(t) == Free(t) /\ own[t] = 0 /\ node[t] = 0 /\ handle[t] = 0

\* bwrite of b, with the buffers' flags as in d: a task that finds the flag
\* set waits for the disk and then does what "then" names.
Write(t, j, b, then, d) ==
    /\ dirty' = d
    /\ job' = [job EXCEPT ![t] = [j EXCEPT !.at = "write", !.block = b, !.then = then]]

Job == [at |-> "idle", block |-> NodeBlock, then |-> "done", zone |-> 0,
        slot |-> 0, file |-> 0, asked |-> 0, make |-> FALSE, buf |-> NodeBlock, path |-> <<>>]

Transfer(t) ==
    /\ ~ halted /\ job[t].at = "write"
    /\ disk' = [disk EXCEPT ![job[t].block] = mem[job[t].block]]
    /\ job' = [job EXCEPT ![t].at = "back"]
    /\ UNCHANGED <<mem, dirty, clientVars, machine>>

\* The task is back from deviceRequest and clears the flag; it goes on in
\* the same step.
Return(t, then) ==
    /\ ~ halted /\ job[t].at = "back" /\ job[t].then = then
    /\ UNCHANGED disk
Cleaned(t) == dirty \ {job[t].block}

Done(t) ==
    /\ Return(t, "done")
    /\ dirty' = Cleaned(t)
    /\ job' = [job EXCEPT ![t] = Idle]
    /\ UNCHANGED <<mem, clientVars, machine>>

-----------------------------------------------------------------------------
(* Zones.  balloc marks the first clear bit of the first map that has one; *)
(* with all of them full, it writes the last map and returns EOF.          *)
ClearBits == {p \in (0 .. NrZmaps - 1) \X Bits : p[2] \notin mem[<<"zmap", p[1]>>]}
FirstClear == CHOOSE p \in ClearBits : \A q \in ClearBits :
                  ZoneOf(p[1], p[2]) <= ZoneOf(q[1], q[2])

\* Mutant: bwrite comes before the flag is set, and does nothing.
MarkLater(t, j, then) == LET p == FirstClear  b == <<"zmap", p[1]>> IN
    /\ mem' = [mem EXCEPT ![b] = @ \cup {p[2]}]
    /\ dirty' = dirty \cup {b}
    /\ job' = [job EXCEPT ![t] = [j EXCEPT !.at = "back", !.block = <<"none", 0>>,
                                           !.zone = ZoneOf(p[1], p[2]), !.then = then]]

Mark(t, j, then) == LET p == FirstClear  b == <<"zmap", p[1]>> IN
    /\ mem' = [mem EXCEPT ![b] = @ \cup {p[2]}]
    /\ Write(t, [j EXCEPT !.zone = ZoneOf(p[1], p[2])], b, then, dirty \cup {b})

LastMap == <<"zmap", NrZmaps - 1>>

Balloc(t) ==
    /\ Empty(t)
    /\ \/ /\ ClearBits # {}
          /\ Mark(t, Job, "got")
       \/ /\ ClearBits = {} /\ LastMap \in dirty
          /\ Write(t, Job, LastMap, "done", dirty)
          /\ UNCHANGED mem
    /\ UNCHANGED <<disk, clientVars, machine>>

Got(t) ==
    /\ Return(t, "got")
    /\ own' = [own EXCEPT ![t] = job[t].zone]
    /\ dirty' = Cleaned(t)
    /\ job' = [job EXCEPT ![t] = Idle]
    /\ UNCHANGED <<mem, node, handle, table, told, machine>>

\* bfree and ifree take the part of the maps whose limit, counted from 0,
\* is the first at or above the number; the bit counts from FirstData - 1.
PartOf(x) == (x - 1) \div BlockBits
BitOf(z) == z - ZoneOf(PartOf(z), 0)

\* Of the zones that a task has, whatever they hold.  A zone that lies
\* before the first of its part fails the assertion of bitmapTest.
Bfree(t) == LET z == own[t]  b == <<"zmap", PartOf(z)>> IN
    /\ Free(t) /\ z # 0
    /\ \/ /\ BitOf(z) \in mem[b]
          /\ mem' = [mem EXCEPT ![b] = @ \ {BitOf(z)}]
          /\ own' = [own EXCEPT ![t] = 0]
          /\ Write(t, Job, b, "done", dirty \cup {b})
          /\ UNCHANGED <<disk, node, handle, table, told, machine>>
       \/ BitOf(z) \notin mem[b] /\ Halt

\* The owner of a zone fills it, as a buffer, and releases it.
Fill(t, c) == LET b == <<"index", own[t]>> IN
    /\ Free(t) /\ own[t] # 0
    /\ mem[b] # c
    /\ mem' = [mem EXCEPT ![b] = c]
    /\ Write(t, Job, b, "done", dirty \cup {b})
    /\ UNCHANGED <<disk, clientVars, machine>>

-----------------------------------------------------------------------------
(* Inode numbers.  The bitmaps of ialloc and ifree are eight blocks long,  *)
(* so that the first finds a bit in any of the maps, which lie one after   *)
(* the other in the cache, and both write the part they started with.      *)
ClearNumbers == {x \in 0 .. NrImaps * BlockBits - 1 :
                     x % BlockBits \notin mem[<<"imap", x \div BlockBits>>]}

Ialloc(t) == LET x == Min(ClearNumbers)  b == <<"imap", 0>> IN
    /\ Empty(t)
    /\ \/ /\ ClearNumbers # {} /\ x < Inodes
          /\ mem' = [mem EXCEPT ![<<"imap", x \div BlockBits>>] = @ \cup {x % BlockBits}]
          /\ Write(t, [Job EXCEPT !.zone = x], b, "inode", dirty \cup {b})
          /\ UNCHANGED <<disk, clientVars, machine>>
       \/ (ClearNumbers = {} \/ x >= Inodes) /\ Halt

Numbered(t) ==
    /\ Return(t, "inode")
    /\ node' = [node EXCEPT ![t] = job[t].zone]
    /\ dirty' = Cleaned(t)
    /\ job' = [job EXCEPT ![t] = Idle]
    /\ UNCHANGED <<mem, own, handle, table, told, machine>>

Ifree(t) == LET x == node[t]  b == <<"imap", PartOf(x)>> IN
    /\ Free(t) /\ x # 0
    /\ mem' = [mem EXCEPT ![<<"imap", x \div BlockBits>>] = @ \ {x % BlockBits}]
    /\ node' = [node EXCEPT ![t] = 0]
    /\ Write(t, Job, b, "done", dirty \cup {b})
    /\ UNCHANGED <<disk, own, handle, table, told, machine>>

-----------------------------------------------------------------------------
(* bmap goes from the inode through the index blocks, as Path says, and    *)
(* fills the gaps in between if it may.                                    *)
Path(b) ==
    IF b < Direct THEN <<b>>
    ELSE IF b - Direct < Indexes THEN <<Direct, b - Direct>>
    ELSE LET c == b - Direct - Indexes IN <<Direct + 1, c \div Indexes, c % Indexes>>

Entry(j) == IF j.buf = NodeBlock THEN mem[NodeBlock][j.file][Head(j.path)]
            ELSE mem[j.buf][Head(j.path)]

\* The new zone is to be an index block, and is not clear.
Reused(j, z) == Len(j.path) > 1 /\ z # Eof /\ mem[<<"index", z>>] # Clear

\* Mutant: the buffer is not marked dirty, and brelse does not write it.
RecordSilently(t, j, z, d) == LET k == Head(j.path) IN
    /\ mem' = IF j.buf = NodeBlock THEN [mem EXCEPT ![NodeBlock][j.file][k] = z]
              ELSE [mem EXCEPT ![j.buf][k] = z]
    /\ dirty' = d
    /\ job' = [job EXCEPT ![t] = [j EXCEPT !.at = "back", !.block = <<"none", 0>>,
                                           !.then = "next"]]
    /\ stale' = (stale \/ Reused(j, z))
    /\ UNCHANGED <<clientVars, crashes, halted>>

\* The new zone enters its array, and brelse writes the array.
Record(t, j, z, d) == LET k == Head(j.path) IN
    /\ mem' = IF j.buf = NodeBlock THEN [mem EXCEPT ![NodeBlock][j.file][k] = z]
              ELSE [mem EXCEPT ![j.buf][k] = z]
    /\ Write(t, j, j.buf, "next", d \cup {j.buf})
    /\ stale' = (stale \/ Reused(j, z))
    /\ UNCHANGED <<clientVars, crashes, halted>>

\* After brelse: an answer, or the next level.  An EOF on the way is taken
\* for a block number.
GoOn(t, j, d) == LET v == Entry(j) IN
    /\ dirty' = d
    /\ UNCHANGED <<mem, own, node, handle, table>>
    /\ \/ /\ Len(j.path) = 1 \/ v = 0
          /\ job' = [job EXCEPT ![t] = Idle]
          /\ told' = IF v \in {0, Eof} THEN told
                     ELSE [told EXCEPT ![j.file][j.asked] = v]
          /\ UNCHANGED machine
       \/ /\ Len(j.path) > 1 /\ v # 0
          /\ job' = [job EXCEPT ![t] = [j EXCEPT !.at = "look", !.buf = <<"index", v>>,
                                                 !.path = Tail(@)]]
          /\ halted' = (v = Eof)
          /\ UNCHANGED <<told, crashes, stale>>

\* Mutant: a zone is taken whether there is one or not.
NeedsAlways(j) == j.make

Needs(j) == Entry(j) = 0 /\ j.make

\* One turn of the loop, up to the next wait.
Level(t, j) ==
    /\ UNCHANGED disk
    /\ \/ /\ Needs(j) /\ ClearBits # {}
          /\ Mark(t, j, "store")
          /\ UNCHANGED <<clientVars, machine>>
       \/ /\ Needs(j) /\ ClearBits = {} /\ LastMap \in dirty
          /\ Write(t, [j EXCEPT !.zone = Eof], LastMap, "store", dirty)
          /\ UNCHANGED <<mem, clientVars, machine>>
       \/ /\ Needs(j) /\ ClearBits = {} /\ LastMap \notin dirty
          /\ Record(t, j, Eof, dirty)
       \/ /\ ~ Needs(j) /\ j.buf \in dirty
          /\ Write(t, j, j.buf, "next", dirty)
          /\ UNCHANGED <<mem, clientVars, machine>>
       \/ ~ Needs(j) /\ j.buf \notin dirty /\ GoOn(t, j, dirty)

\* Callers take turns with bmap on a file.
Mapping(n) == \E t \in Tasks : job[t].at # "idle" /\ job[t].file = n

Bmap(t, b, make) ==
    /\ Free(t) /\ handle[t] # 0 /\ ~ Mapping(handle[t])
    /\ Level(t, [Job EXCEPT !.file = handle[t], !.asked = b, !.make = make,
                            !.path = Path(b)])

\* The block of the next level has been read.
Look(t) == ~ halted /\ job[t].at = "look" /\ Level(t, job[t])

Store(t) == Return(t, "store") /\ Record(t, job[t], job[t].zone, Cleaned(t))

NextLevel(t) == Return(t, "next") /\ GoOn(t, job[t], Cleaned(t))

-----------------------------------------------------------------------------
(* Inodes in use.                                                          *)
InTable(n) == {s \in Slots : table[s].nr = n}

\* Mutant: findInode is not asked.
IgetTwice(t, n) ==
    /\ Empty(t)
    /\ InTable(0) # {}
    /\ table' = [table EXCEPT ![Min(InTable(0))] = [nr |-> n, count |-> 1]]
    /\ handle' = [handle EXCEPT ![t] = n]
    /\ UNCHANGED <<diskVars, job, own, node, told, machine>>

\* The block of all inodes is in the cache, so that iget does not wait.
Iget(t, n) ==
    /\ Empty(t)
    /\ \/ /\ InTable(n) # {}
          /\ table' = [table EXCEPT ![Min(InTable(n))].count = @ + 1]
          /\ handle' = [handle EXCEPT ![t] = n]
          /\ UNCHANGED <<diskVars, job, own, node, told, machine>>
       \/ /\ InTable(n) = {} /\ InTable(0) # {}
          /\ table' = [table EXCEPT ![Min(InTable(0))] = [nr |-> n, count |-> 1]]
          /\ handle' = [handle EXCEPT ![t] = n]
          /\ UNCHANGED <<diskVars, job, own, node, told, machine>>
       \/ InTable(n) = {} /\ InTable(0) = {} /\ Halt

Iput(t) == LET n == handle[t]  s == Min(InTable(n)) IN
    /\ Free(t) /\ n # 0
    /\ handle' = [handle EXCEPT ![t] = 0]
    /\ UNCHANGED <<mem, disk, own, node, told, machine>>
    /\ \/ /\ table[s].count > 1
          /\ table' = [table EXCEPT ![s].count = @ - 1]
          /\ UNCHANGED <<dirty, job>>
       \/ /\ table[s].count = 1 /\ NodeBlock \notin dirty
          /\ table' = [table EXCEPT ![s] = [nr |-> 0, count |-> 0]]
          /\ UNCHANGED <<dirty, job>>
       \/ /\ table[s].count = 1 /\ NodeBlock \in dirty
          /\ table' = [table EXCEPT ![s].count = 0]
          /\ Write(t, [Job EXCEPT !.slot = s], NodeBlock, "put", dirty)

\* The end of iput, if brelse has waited: listRemove and putFreeInode assert
\* that the inode is still in its list and that no one has come to use it.
PutInode(t) == LET s == job[t].slot IN
    /\ Return(t, "put")
    /\ dirty' = Cleaned(t)
    /\ job' = [job EXCEPT ![t] = Idle]
    /\ UNCHANGED <<mem, own, node, handle, told>>
    /\ \/ /\ table[s].nr # 0 /\ table[s].count = 0
          /\ table' = [table EXCEPT ![s].nr = 0]
          /\ UNCHANGED machine
       \/ /\ table[s].nr = 0 \/ table[s].count # 0
          /\ halted' = TRUE
          /\ UNCHANGED <<table, crashes, stale>>

-----------------------------------------------------------------------------
Next == Crash \/ \E t \in Tasks :
    \/ Transfer(t) \/ Done(t)
    \/ Balloc(t) \/ Got(t) \/ Bfree(t)
    \/ \E c \in {Clear, Data} : Fill(t, c)
    \/ Ialloc(t) \/ Numbered(t) \/ Ifree(t)
    \/ \E b \in FileBlocks, make \in BOOLEAN : Bmap(t, b, make)
    \/ Look(t) \/ Store(t) \/ NextLevel(t)
    \/ \E n \in Files : Iget(t, n)
    \/ Iput(t) \/ PutInode(t)

Spec == Init /\ [][Next]_vars

-----------------------------------------------------------------------------
\* The index blocks of the files, and every zone that a file records, with
\* the place where.
Tops(m, k) == {m[NodeBlock][n][k] : n \in Files} \cap DataZones
Arrays(m)  == LET second == Tops(m, Direct + 1) IN
    Tops(m, Direct) \cup second
        \cup ({m[<<"index", z>>][k] : z \in second, k \in 0 .. Indexes - 1} \cap DataZones)
Recorded(m) == {r \in {<<"node", n, k, m[NodeBlock][n][k]>> : n \in Files, k \in 0 .. Direct + 1}
                  \cup {<<"index", z, k, m[<<"index", z>>][k]>> :
                            z \in Arrays(m), k \in 0 .. Indexes - 1} : r[4] \notin {0, Eof}}
Zoned(recs) == {r[4] : r \in recs}
Marked(m)   == {z \in DataZones : \E i \in 0 .. NrZmaps - 1 : z - ZoneOf(i, 0) \in m[<<"zmap", i>>]}

Owned    == {own[t] : t \in Tasks} \ {0}
Underway == {job[t].zone : t \in {u \in Tasks : job[u].at # "idle"
                                     /\ job[u].then \in {"store", "got"}}} \ {Eof}

\* No zone is recorded in two places, and each is marked.
Sound(recs, marked) ==
    /\ Cardinality(Zoned(recs)) = Cardinality(recs)
    /\ Zoned(recs) \subseteq marked

(* Until bmap makes an index block of a zone that was not cleared, a zone   *)
(* has one owner: one place in one file, a task that asked for it, or a    *)
(* bmap that is about to record it.  While the power lasts, these are the  *)
(* zones that are marked.  (balloc, bfree and bmap, bmap.cpp.)             *)
ZonesExact ==
    LET recs == Recorded(mem)  marked == Marked(mem)
        filed == Zoned(recs)   taken == Owned \cup Underway IN
    /\ TypeOK
    /\ ~ stale =>
        /\ Sound(recs, marked)
        /\ Cardinality(Owned) = Cardinality({t \in Tasks : own[t] # 0})
        /\ filed \cap taken = {} /\ Owned \cap Underway = {}
        /\ taken \subseteq marked
        /\ crashes = 0 => marked = filed \cup taken

(* If the power fails now, no zone is in two places, and none that is in   *)
(* use would be handed out again: the order of the writes in balloc and    *)
(* bmap ("strong sync", bmap.cpp:37); as long as bmap has found its new    *)
(* index blocks clear.                                                     *)
CrashSafe == LET marked == Marked(disk) IN
    ~ stale => Sound(Recorded(disk), marked) /\ Owned \subseteq marked

\* The zone at a path of indexes.
Below(m, z, k) == IF z \in DataZones THEN m[<<"index", z>>][k] ELSE 0
RefAt(m, n, p) == LET top == m[NodeBlock][n][p[1]] IN
    IF Len(p) = 1 THEN top
    ELSE IF Len(p) = 2 THEN Below(m, top, p[2])
    ELSE Below(m, Below(m, top, p[2]), p[3])

(* What bmap has answered is so for ever, and on the disk, with the same   *)
(* exception: a file keeps its blocks, whatever was under way when the     *)
(* power failed.                                                           *)
Durable == ~ stale => \A n \in Files, b \in FileBlocks : told[n][b] # 0 =>
    \A m \in {mem, disk} : RefAt(m, n, Path(b)) = told[n][b]

(* An inode is in the table once, counted as often as it is in use, and an *)
(* inode number belongs to one task and to no file.  (iget and iput,       *)
(* inode.cpp, and ialloc.)                                                 *)
InodesSound == ~ halted =>
    /\ \A n \in Files : LET users == {t \in Tasks : handle[t] = n} IN
        /\ Cardinality(InTable(n)) <= 1
        /\ users # {} => InTable(n) # {}
        /\ \A s \in InTable(n) :
               table[s].count = Cardinality(users) + IF n = 1 THEN 2 ELSE 0
    /\ \A t \in Tasks : node[t] # 0 =>
        /\ node[t] \notin Files
        /\ node[t] \notin ClearNumbers
        /\ \A u \in Tasks \ {t} : node[u] # node[t]
=============================================================================
