----------------------------- MODULE FilesProofs -----------------------------
(***************************************************************************)
(* Proofs about the file system's maps, for any number of tasks and files, *)
(* maps and blocks of any size, and however often the power fails.  Blocks *)
(* of memory and of the disk are m and d throughout, the zones that the    *)
(* tasks have are o, and their jobs are j.  A step is first described as   *)
(* what it does to these (a zone is marked, given out, filled, entered at  *)
(* a place, cleared and freed; a block is transferred), and what holds of  *)
(* such a change is then used for each action.  InodeInv is the invariant  *)
(* of the table of inodes; ZoneInv that of the zones, with the ways that   *)
(* the tasks have come through the trees (Mapped), until an index block is *)
(* stale; FilesInv is the two together.                                    *)
(***************************************************************************)
EXTENDS Files, DataLemmas

\* A content of all blocks.
Places == [0 .. Direct + 1 -> Refs]
Blocks(m) ==
    /\ m \in [BlockNames -> (SUBSET Bits) \cup [Files -> Places] \cup Index]
    /\ \A i \in 0 .. NrZmaps - 1 : m[<<"zmap", i>>] \subseteq Bits
    /\ \A i \in 0 .. NrImaps - 1 : m[<<"imap", i>>] \subseteq Bits
    /\ m[NodeBlock] \in [Files -> Places]
    /\ \A z \in DataZones : m[<<"index", z>>] \in Index

\* Where a data zone has its bit.
MapOf(z) == (z - FirstData + 1) \div BlockBits
BitIn(z) == (z - FirstData + 1) % BlockBits
IsMarked(m, z) == BitIn(z) \in m[<<"zmap", MapOf(z)>>]

At(m, z, k)   == m[<<"index", z>>][k]
NodeAt(m, n, k) == m[NodeBlock][n][k]
ClearIn(m, z) == m[<<"index", z>>] = Clear
SameIn(m, d, z) == m[<<"index", z>>] = d[<<"index", z>>]

Thens == {"done", "got", "inode", "store", "next", "put"}
RecsAt(places) ==
    [at : places, block : BlockNames, then : Thens, zone : Int, slot : Nat,
     file : Files \cup {0}, asked : FileBlocks \cup {0}, make : BOOLEAN,
     buf : {NodeBlock} \cup ({"index"} \X (DataZones \cup {Eof})), path : Seq(Nat)]
JobRecs == RecsAt({"look", "write", "back"})

Coming(j) == j.at # "idle" /\ j.then \in {"store", "got"} /\ j.zone # Eof

\* What is left of the path of the block that is asked for.
InNode(j) == j.buf = NodeBlock /\ j.path = Path(j.asked)
OnPath(j) ==
    /\ j.asked \in FileBlocks
    /\ \/ InNode(j)
       \/ /\ j.buf # NodeBlock
          /\ \/ \E k \in 0 .. Indexes - 1 : j.path = <<k>>
             \/ \E k, l \in 0 .. Indexes - 1 : j.path = <<k, l>>

Shape(j) == j # Idle =>
    /\ j \in JobRecs
    /\ j.at = "look" => j.then \in {"done", "next"} /\ j.file # 0
    /\ j.at # "look" /\ j.then = "next" => j.block = j.buf
    /\ j.then \in {"store", "next"} => j.file # 0
    /\ j.then \in {"got", "inode", "put"} => j.file = 0
    /\ j.then = "done" /\ j.file # 0 => j.at = "look"
    /\ j.then = "got" => j.zone # Eof
    /\ j.then = "inode" => j.zone \in 1 .. Inodes
    /\ j.then = "put" => j.slot \in Slots
    /\ Coming(j) => j.zone \in DataZones /\ j.block = <<"zmap", MapOf(j.zone)>>
    /\ j.file # 0 => OnPath(j)

Distinct(j) == \A t, u \in Tasks :
    j[t] # Idle /\ j[u] # Idle /\ j[t].file = j[u].file /\ j[t].file # 0 => t = u

JobsSound ==
    /\ job \in [Tasks -> JobRecs \cup {Idle}]
    /\ \A t \in Tasks : Shape(job[t])
    /\ \A t \in Tasks : job[t] # Idle /\ job[t].then = "got" => own[t] = 0
    /\ \A t \in Tasks : job[t] # Idle /\ job[t].then = "inode" => node[t] = 0
    /\ Distinct(job)
    /\ ~ halted => \A t \in Tasks : job[t] # Idle => job[t].buf # <<"index", Eof>>

\* The bits that stand for no zone are set.
Padded(m) == \A i \in 0 .. NrZmaps - 1, b \in Bits :
    ZoneOf(i, b) \notin DataZones => b \in m[<<"zmap", i>>]

\* Two places do not hold one zone.
Once(m) == \A r, s \in Recorded(m) : r[4] = s[4] => r = s

\* The disk lacks at most what a task is about to write: the entry it has
\* made in the array where it is.
Writing(j, t, b) == j[t].at = "write" /\ j[t].then = "next" /\ j[t].block = b
WritesNode(j, n, k) == \E t \in Tasks :
    Writing(j, t, NodeBlock) /\ j[t].file = n /\ Head(j[t].path) = k
WritesIndex(j, z, k) == \E t \in Tasks : Writing(j, t, <<"index", z>>) /\ Head(j[t].path) = k
Behind(m, d, j) ==
    /\ \A n \in Files, k \in 0 .. Direct + 1 : NodeAt(m, n, k) # NodeAt(d, n, k) =>
           /\ NodeAt(d, n, k) = 0
           /\ WritesNode(j, n, k)
    /\ \A z \in Arrays(m), k \in 0 .. Indexes - 1 : At(m, z, k) # At(d, z, k) =>
           /\ At(d, z, k) = 0
           /\ WritesIndex(j, z, k)

\* A zone that is free, or was until now, is on the disk as it is seen.
Kept(m, d, z) == IsMarked(m, z) /\ IsMarked(d, z)
IsUnderway(j, z) == \E t \in Tasks : Coming(j[t]) /\ j[t].zone = z
FreshSame(m, d, j) == \A z \in DataZones :
    ~ Kept(m, d, z) \/ IsUnderway(j, z) => SameIn(m, d, z)

\* Each zone that is in use has one use, and is marked on the disk, or will
\* be before the task that asked for it goes on.
Filed(m) == Zoned(Recorded(m))
FiledKept(m, d) == \A z \in Filed(m) : Kept(m, d, z)
OwnKept(m, d, o) == \A t \in Tasks : o[t] # 0 =>
    /\ Kept(m, d, o[t]) /\ o[t] \notin Filed(m)
    /\ \A u \in Tasks : o[u] = o[t] => u = t
ComingKept(m, d, o, j) == \A t \in Tasks : Coming(j[t]) =>
    /\ IsMarked(m, j[t].zone) /\ j[t].zone \notin Filed(m)
    /\ j[t].at = "back" => IsMarked(d, j[t].zone)
    /\ \A u \in Tasks : o[u] # j[t].zone
    /\ \A u \in Tasks : Coming(j[u]) /\ j[u].zone = j[t].zone => u = t

\* While the power lasts, what is marked is in use.
NoneLost(m, o, j, c) == c = 0 => \A z \in DataZones : IsMarked(m, z) =>
    z \in Filed(m) \/ (\E t \in Tasks : o[t] = z) \/ IsUnderway(j, z)

\* A task that does not wait has its zone on the disk as it has filled it.
FillsWritten(m, d, o, j) == \A t \in Tasks :
    o[t] # 0 /\ m[<<"index", o[t]>>] # d[<<"index", o[t]>>]
        => j[t].at = "write" /\ j[t].block = <<"index", o[t]>>

Core(m, d, o, j, c) ==
    /\ Padded(m) /\ Padded(d) /\ Once(m)
    /\ Behind(m, d, j) /\ FreshSame(m, d, j)
    /\ FiledKept(m, d) /\ OwnKept(m, d, o) /\ ComingKept(m, d, o, j)
    /\ NoneLost(m, o, j, c) /\ FillsWritten(m, d, o, j)

\* j has come to its array by the path of the block it asks for: it is in
\* the inode, in the index block, in the second or in one of those below.
InFirst(m, j, z, k) ==
    /\ Path(j.asked) = <<Direct, k>> /\ NodeAt(m, j.file, Direct) = z
    /\ j.buf = <<"index", z>> /\ j.path = <<k>>
InSecond(m, j, z, k, l) ==
    /\ Path(j.asked) = <<Direct + 1, k, l>> /\ NodeAt(m, j.file, Direct + 1) = z
    /\ j.buf = <<"index", z>> /\ j.path = <<k, l>>
InThird(m, j, y, z, k, l) ==
    /\ Path(j.asked) = <<Direct + 1, k, l>> /\ NodeAt(m, j.file, Direct + 1) = y
    /\ At(m, y, k) = z
    /\ j.buf = <<"index", z>> /\ j.path = <<l>>
Reached(m, j) ==
    \/ InNode(j)
    \/ \E z \in DataZones, k \in 0 .. Indexes - 1 : InFirst(m, j, z, k)
    \/ \E z \in DataZones, k, l \in 0 .. Indexes - 1 : InSecond(m, j, z, k, l)
    \/ \E y, z \in DataZones, k, l \in 0 .. Indexes - 1 : InThird(m, j, y, z, k, l)
EntryIn(m, j) == IF j.buf = NodeBlock THEN NodeAt(m, j.file, Head(j.path))
                 ELSE m[j.buf][Head(j.path)]

\* A task that is in bmap.
Walker(m, d, g) == g # Idle /\ g.file # 0 =>
    /\ g.asked \in FileBlocks
    /\ Reached(m, g) /\ Reached(d, g)
    /\ g.then = "store" => EntryIn(m, g) = 0
Mapped(m, d, j) == \A t \in Tasks : Walker(m, d, j[t])

AnswersKept(m, d, a) == \A n \in Files, b \in FileBlocks : a[n][b] # 0 =>
    RefAt(m, n, Path(b)) = a[n][b] /\ RefAt(d, n, Path(b)) = a[n][b]

ZoneInv ==
    /\ Core(mem, disk, own, job, crashes)
    /\ ~ halted => Mapped(mem, disk, job)
    /\ AnswersKept(mem, disk, told)

-----------------------------------------------------------------------------
Number(m, x) == x % BlockBits \in m[<<"imap", x \div BlockBits>>]
NumbersSet(m) == \A x \in 0 .. NrImaps * BlockBits - 1 :
    x \notin (1 .. Inodes) \ Files => Number(m, x)
Named(t) == IF node[t] # 0 THEN node[t] ELSE IF job[t] # Idle /\ job[t].then = "inode" THEN job[t].zone ELSE 0
NodesHeld == \A t \in Tasks : Named(t) # 0 =>
    /\ Named(t) \notin Files /\ Number(mem, Named(t))
    /\ \A u \in Tasks : Named(u) = Named(t) => u = t
\* How often n is in use: by the tasks, and as the root of all.
Users(h, n) == {t \in Tasks : h[t] = n}
Uses(h, n) == Cardinality(Users(h, n)) + IF n = 1 THEN 2 ELSE 0
Holds(tb, n) == \E s \in Slots : tb[s].nr = n
Counts(tb, h) ==
    /\ Holds(tb, 1)
    /\ \A r, s \in Slots : tb[r].nr = tb[s].nr /\ tb[r].nr # 0 => r = s
    /\ \A t \in Tasks : h[t] # 0 => Holds(tb, h[t])
    /\ \A s \in Slots : tb[s].nr # 0 => tb[s].count = Uses(h, tb[s].nr)
Counted == ~ halted => Counts(table, handle)
OthersTyped ==
    /\ dirty \subseteq BlockNames
    /\ own \in [Tasks -> DataZones \cup {0}]
    /\ node \in [Tasks -> 0 .. Inodes]
    /\ handle \in [Tasks -> Files \cup {0}]
    /\ table \in [Slots -> [nr : Files \cup {0}, count : Nat]]
    /\ told \in [Files -> [FileBlocks -> DataZones \cup {0}]]
    /\ crashes \in 0 .. MaxCrashes
    /\ halted \in BOOLEAN
TypeInv ==
    /\ Blocks(mem) /\ Blocks(disk) /\ Padded(mem) /\ Padded(disk)
    /\ Number(mem, 0) /\ Number(disk, 0)
    /\ OthersTyped /\ JobsSound
InodeInv == TypeInv /\ NumbersSet(mem) /\ NumbersSet(disk) /\ NodesHeld /\ Counted

-----------------------------------------------------------------------------
(* The sizes, and the blocks by name.                                      *)
LEMMA Numbers ==
    /\ BlockBits \in Nat \ {0} /\ NrImaps \in Nat \ {0} /\ NrZmaps \in Nat \ {0}
    /\ FirstData \in Nat \ {0} /\ Direct \in Nat \ {0} /\ Indexes \in Nat \ {0}
    /\ InodeNr \in Nat \ {0} /\ Zones \in Nat /\ Inodes \in Nat
    /\ Zones <= NrZmaps * BlockBits /\ Inodes < NrImaps * BlockBits
    /\ Cardinality(Files) \in Nat /\ Files = 1 .. Cardinality(Files) /\ 1 \in Files
    /\ Cardinality(Files) <= Inodes /\ FirstData + Cardinality(Files) <= Zones
    /\ DataZones \subseteq Nat /\ 0 \notin DataZones /\ Eof \notin DataZones /\ Eof # 0
    /\ 0 \notin Files /\ Files \subseteq 1 .. Inodes
    /\ IsFiniteSet(Tasks) /\ MaxCrashes \in Nat
<1>1. Cardinality(Files) \in Nat
  BY FilesAssumption, FS_CardinalityType DEF FilesAssumption
<1>2. /\ BlockBits \in Nat \ {0} /\ NrImaps \in Nat \ {0} /\ NrZmaps \in Nat \ {0}
      /\ FirstData \in Nat \ {0} /\ Direct \in Nat \ {0} /\ Indexes \in Nat \ {0}
      /\ InodeNr \in Nat \ {0} /\ Zones \in Nat /\ Inodes \in Nat
      /\ Zones <= NrZmaps * BlockBits /\ Inodes < NrImaps * BlockBits
      /\ Files = 1 .. Cardinality(Files) /\ 1 \in Files
      /\ Cardinality(Files) <= Inodes /\ FirstData + Cardinality(Files) <= Zones
      /\ IsFiniteSet(Tasks) /\ MaxCrashes \in Nat
  BY FilesAssumption DEF FilesAssumption
<1>3. DataZones \subseteq Nat /\ 0 \notin DataZones /\ Eof \notin DataZones /\ Eof # 0
  BY <1>2 DEF DataZones, Eof
<1>4. 0 \notin Files /\ Files \subseteq 1 .. Inodes
  BY <1>1, <1>2
<1>5. QED
  BY <1>1, <1>2, <1>3, <1>4

LEMMA Names ==
    /\ \A i \in 0 .. NrZmaps - 1 : <<"zmap", i>> \in BlockNames
    /\ \A i \in 0 .. NrImaps - 1 : <<"imap", i>> \in BlockNames
    /\ NodeBlock \in BlockNames
    /\ \A z \in DataZones : <<"index", z>> \in BlockNames
    /\ \A i, k : <<"zmap", i>> # <<"imap", k>> /\ <<"zmap", i>> # <<"index", k>>
    /\ \A i, k : <<"imap", i>> # <<"index", k>>
    /\ \A i : <<"zmap", i>> # NodeBlock /\ <<"imap", i>> # NodeBlock /\ <<"index", i>> # NodeBlock
    /\ \A i, k : <<"zmap", i>> = <<"zmap", k>> => i = k
    /\ \A i, k : <<"imap", i>> = <<"imap", k>> => i = k
    /\ \A i, k : <<"index", i>> = <<"index", k>> => i = k
<1>1. /\ \A i \in 0 .. NrZmaps - 1 : <<"zmap", i>> \in BlockNames
      /\ \A i \in 0 .. NrImaps - 1 : <<"imap", i>> \in BlockNames
      /\ NodeBlock \in BlockNames
      /\ \A z \in DataZones : <<"index", z>> \in BlockNames
  BY DEF BlockNames, ZmapBlocks, ImapBlocks, IndexBlocks
<1>2. /\ \A i, k : <<"zmap", i>> # <<"imap", k>> /\ <<"zmap", i>> # <<"index", k>>
      /\ \A i, k : <<"imap", i>> # <<"index", k>>
      /\ \A i : <<"zmap", i>> # NodeBlock /\ <<"imap", i>> # NodeBlock /\ <<"index", i>> # NodeBlock
  BY DEF NodeBlock
<1>3. /\ \A i, k : <<"zmap", i>> = <<"zmap", k>> => i = k
      /\ \A i, k : <<"imap", i>> = <<"imap", k>> => i = k
      /\ \A i, k : <<"index", i>> = <<"index", k>> => i = k
  OBVIOUS
<1>4. QED
  BY <1>1, <1>2, <1>3

LEMMA NameCases ==
  ASSUME NEW b \in BlockNames
  PROVE  \/ \E i \in 0 .. NrZmaps - 1 : b = <<"zmap", i>>
         \/ \E i \in 0 .. NrImaps - 1 : b = <<"imap", i>>
         \/ b = NodeBlock
         \/ \E z \in DataZones : b = <<"index", z>>
BY DEF BlockNames, ZmapBlocks, ImapBlocks, IndexBlocks

(* The zone of each bit.                                                   *)
LEMMA ZoneBits ==
  ASSUME NEW z \in DataZones
  PROVE  /\ MapOf(z) \in 0 .. NrZmaps - 1 /\ BitIn(z) \in Bits
         /\ ZoneOf(MapOf(z), BitIn(z)) = z
         /\ \A i \in 0 .. NrZmaps - 1, b \in Bits :
                ZoneOf(i, b) = z => i = MapOf(z) /\ b = BitIn(z)
<1> DEFINE x == z - FirstData + 1
<1>1. x \in Nat /\ z \in Nat /\ x < NrZmaps * BlockBits /\ z = x + FirstData - 1
  <2>1. z \in Nat /\ z >= FirstData /\ z <= Zones - 1 /\ FirstData >= 1
    BY Numbers DEF DataZones
  <2> DEFINE w == NrZmaps * BlockBits
  <2>2. w \in Nat /\ Zones <= w
    BY Numbers
  <2> HIDE DEF w
  <2>3. x \in Nat /\ x < w /\ z = x + FirstData - 1
    BY <2>1, <2>2, Numbers
  <2>4. QED
    BY <2>1, <2>3 DEF w
<1>2. MapOf(z) = x \div BlockBits /\ BitIn(z) = x % BlockBits
  BY DEF MapOf, BitIn
<1> HIDE DEF x
<1>3. MapOf(z) \in Nat /\ BitIn(z) \in Bits /\ x = MapOf(z) * BlockBits + BitIn(z)
  BY <1>1, <1>2, Divided, Numbers DEF Bits
<1>4. MapOf(z) \in 0 .. NrZmaps - 1
  BY <1>1, <1>2, DividedBelow, Numbers
<1>5. ZoneOf(MapOf(z), BitIn(z)) = z
  <2> DEFINE y == MapOf(z) * BlockBits
  <2>1. y \in Nat /\ BitIn(z) \in Nat /\ x = y + BitIn(z)
    BY <1>3, Numbers DEF Bits
  <2>2. ZoneOf(MapOf(z), BitIn(z)) = y + FirstData - 1 + BitIn(z)
    BY DEF ZoneOf
  <2> HIDE DEF y
  <2>3. QED
    BY <2>1, <2>2, <1>1, Numbers
<1>6. ASSUME NEW i \in 0 .. NrZmaps - 1, NEW b \in Bits, ZoneOf(i, b) = z
      PROVE  i = MapOf(z) /\ b = BitIn(z)
  <2>1. x = i * BlockBits + b
    <3> DEFINE y == i * BlockBits
    <3>1. y \in Nat /\ b \in Nat /\ y + FirstData - 1 + b = z
      BY <1>6, Numbers DEF Bits, ZoneOf
    <3> HIDE DEF y
    <3>2. x = y + b
      BY <3>1, <1>1, Numbers
    <3>3. QED
      BY <3>2 DEF y
  <2>2. i * BlockBits + b = MapOf(z) * BlockBits + BitIn(z)
    BY <2>1, <1>3
  <2>3. i \in Nat /\ MapOf(z) \in Nat /\ b \in 0 .. BlockBits - 1 /\ BitIn(z) \in 0 .. BlockBits - 1
    BY <1>3 DEF Bits
  <2>4. BlockBits \in Nat \ {0}
    BY Numbers
  <2>5. QED
    BY <2>2, <2>3, <2>4, QuotientUnique, Zenon
<1>7. QED
  BY <1>3, <1>4, <1>5, <1>6

LEMMA MarkedIs ==
  ASSUME NEW m, Blocks(m)
  PROVE  Marked(m) = {z \in DataZones : IsMarked(m, z)}
<1>1. ASSUME NEW z \in DataZones, IsMarked(m, z)
      PROVE  z \in Marked(m)
  <2>1. z - ZoneOf(MapOf(z), 0) = BitIn(z)
    <3> DEFINE y == MapOf(z) * BlockBits
    <3>1. y \in Nat /\ BitIn(z) \in Nat /\ y + FirstData - 1 + BitIn(z) = z
      BY ZoneBits, Numbers DEF Bits, ZoneOf
    <3>2. ZoneOf(MapOf(z), 0) = y + FirstData - 1 + 0
      BY DEF ZoneOf
    <3> HIDE DEF y
    <3>3. QED
      BY <3>1, <3>2, Numbers
  <2>2. QED
    BY <2>1, <1>1, ZoneBits DEF Marked, IsMarked
<1>2. ASSUME NEW z \in DataZones, NEW i \in 0 .. NrZmaps - 1,
             z - ZoneOf(i, 0) \in m[<<"zmap", i>>]
      PROVE  IsMarked(m, z)
  <2> DEFINE b == z - ZoneOf(i, 0)
  <2>1. b \in Bits
    BY <1>2 DEF Blocks
  <2>2. ZoneOf(i, b) = z
    <3> DEFINE y == i * BlockBits
    <3>1. y \in Nat /\ z \in Nat
      BY Numbers
    <3>2. ZoneOf(i, 0) = y + FirstData - 1 + 0 /\ ZoneOf(i, b) = y + FirstData - 1 + b
      BY DEF ZoneOf
    <3> HIDE DEF y
    <3>3. QED
      BY <3>1, <3>2, Numbers
  <2>3. i = MapOf(z) /\ b = BitIn(z)
    BY <2>1, <2>2, ZoneBits
  <2>4. QED
    BY <2>3, <1>2 DEF IsMarked
<1>3. QED
  BY <1>1, <1>2 DEF Marked

(* What balloc finds.                                                      *)
LEMMA FirstClearBit ==
  ASSUME Blocks(mem), ClearBits # {}
  PROVE  FirstClear \in ClearBits
<1> DEFINE S == {ZoneOf(p[1], p[2]) : p \in ClearBits}
<1>1. \A p \in ClearBits : ZoneOf(p[1], p[2]) \in Nat
  <2> TAKE p \in ClearBits
  <2>1. p[1] \in Nat /\ p[2] \in Nat
    BY DEF ClearBits, Bits
  <2> DEFINE y == p[1] * BlockBits
  <2>2. y \in Nat
    BY <2>1, Numbers
  <2>3. ZoneOf(p[1], p[2]) = y + FirstData - 1 + p[2]
    BY DEF ZoneOf
  <2> HIDE DEF y
  <2>4. QED
    BY <2>1, <2>2, <2>3, Numbers
<1>2. S \in SUBSET Nat /\ S # {}
  BY <1>1
<1>3. PICK z \in S : \A x \in S : z <= x
  <2> HIDE DEF S
  <2>1. QED
    BY <1>2, LeastNat
<1>4. PICK p \in ClearBits : z = ZoneOf(p[1], p[2])
  OBVIOUS
<1>5. \A q \in ClearBits : ZoneOf(p[1], p[2]) <= ZoneOf(q[1], q[2])
  BY <1>3, <1>4
<1>6. QED
  BY <1>5 DEF FirstClear

LEMMA FreshZone ==
  ASSUME Blocks(mem), Padded(mem), ClearBits # {}
  PROVE  LET p == FirstClear  z == ZoneOf(p[1], p[2]) IN
         /\ p[1] \in 0 .. NrZmaps - 1 /\ p[2] \in Bits
         /\ z \in DataZones /\ MapOf(z) = p[1] /\ BitIn(z) = p[2] /\ ~ IsMarked(mem, z)
<1> DEFINE p == FirstClear  z == ZoneOf(p[1], p[2])
<1>1. p \in ClearBits
  BY FirstClearBit
<1>2. p[1] \in 0 .. NrZmaps - 1 /\ p[2] \in Bits /\ p[2] \notin mem[<<"zmap", p[1]>>]
  BY <1>1 DEF ClearBits
<1>3. z \in DataZones
  BY <1>2 DEF Padded
<1>4. MapOf(z) = p[1] /\ BitIn(z) = p[2]
  BY <1>2, <1>3, ZoneBits
<1>5. QED
  BY <1>2, <1>3, <1>4 DEF IsMarked

-----------------------------------------------------------------------------
(* What a store into a block leaves.                                       *)
OfKind(b, c) ==
    /\ b \in BlockNames
    /\ \A i \in 0 .. NrZmaps - 1 : b = <<"zmap", i>> => c \subseteq Bits
    /\ \A i \in 0 .. NrImaps - 1 : b = <<"imap", i>> => c \subseteq Bits
    /\ b = NodeBlock => c \in [Files -> Places]
    /\ \A z \in DataZones : b = <<"index", z>> => c \in Index

\* w is m but for the block b, which holds c.
Stores(w, m, b, c) == w[b] = c /\ \A d \in BlockNames : d # b => w[d] = m[d]

LEMMA StoreOne ==
  ASSUME NEW m, Blocks(m), NEW b, NEW c, OfKind(b, c)
  PROVE  Blocks([m EXCEPT ![b] = c]) /\ Stores([m EXCEPT ![b] = c], m, b, c)
<1> DEFINE w == [m EXCEPT ![b] = c]
<1>1. m \in [BlockNames -> (SUBSET Bits) \cup [Files -> Places] \cup Index] /\ b \in BlockNames
  BY DEF Blocks, OfKind
<1>2. c \in (SUBSET Bits) \cup [Files -> Places] \cup Index
  <2>1. b \in BlockNames
    BY DEF OfKind
  <2>2. ASSUME NEW i \in 0 .. NrZmaps - 1, b = <<"zmap", i>> PROVE c \in SUBSET Bits
    BY <2>2 DEF OfKind
  <2>3. ASSUME NEW i \in 0 .. NrImaps - 1, b = <<"imap", i>> PROVE c \in SUBSET Bits
    BY <2>3 DEF OfKind
  <2>4. b = NodeBlock => c \in [Files -> Places]
    BY DEF OfKind
  <2>5. ASSUME NEW z \in DataZones, b = <<"index", z>> PROVE c \in Index
    BY <2>5 DEF OfKind
  <2>6. \/ c \in SUBSET Bits \/ c \in [Files -> Places] \/ c \in Index
    BY <2>1, <2>2, <2>3, <2>4, <2>5, NameCases, Zenon
  <2>7. QED
    BY <2>6
<1>3. w \in [BlockNames -> (SUBSET Bits) \cup [Files -> Places] \cup Index]
  BY <1>1, <1>2
<1>4. \A d \in BlockNames : w[d] = IF d = b THEN c ELSE m[d]
  BY <1>1
<1> HIDE DEF w
<1>5. /\ \A i \in 0 .. NrZmaps - 1 : w[<<"zmap", i>>] \subseteq Bits
      /\ \A i \in 0 .. NrImaps - 1 : w[<<"imap", i>>] \subseteq Bits
  BY <1>4, Names DEF Blocks, OfKind
<1>6. w[NodeBlock] \in [Files -> Places]
  BY <1>4, Names DEF Blocks, OfKind
<1>7. \A z \in DataZones : w[<<"index", z>>] \in Index
  <2> SUFFICES ASSUME NEW z \in DataZones PROVE w[<<"index", z>>] \in Index
    OBVIOUS
  <2>1. w[<<"index", z>>] = IF b = <<"index", z>> THEN c ELSE m[<<"index", z>>]
    BY <1>4, Names
  <2>2. (b = <<"index", z>> => c \in Index) /\ m[<<"index", z>>] \in Index
    BY DEF Blocks, OfKind
  <2>3. QED
    BY <2>1, <2>2
<1>8. Blocks(w)
  BY <1>3, <1>5, <1>6, <1>7 DEF Blocks
<1>9. Stores(w, m, b, c)
  BY <1>1, <1>4 DEF Stores
<1>10. QED
  BY <1>8, <1>9 DEF w

LEMMA KindOf ==
  ASSUME NEW m, Blocks(m), NEW b \in BlockNames
  PROVE  OfKind(b, m[b])
BY DEF Blocks, OfKind

LEMMA ContentOf ==
  ASSUME NEW m, Blocks(m)
  PROVE  DOMAIN m = BlockNames /\ \A b \in BlockNames : m[b] \in Content(b)
<1>1. DOMAIN m = BlockNames
  BY DEF Blocks
<1>2. ASSUME NEW b \in BlockNames PROVE m[b] \in Content(b)
  <2>1. ASSUME NEW i \in 0 .. NrZmaps - 1, b = <<"zmap", i>> PROVE m[b] \in Content(b)
    <3>1. b \in ZmapBlocks \cup ImapBlocks /\ m[b] \in SUBSET Bits /\ b # NodeBlock
      BY <2>1, Names DEF ZmapBlocks, Blocks
    <3>2. Content(b) = SUBSET Bits
      BY <3>1 DEF Content
    <3>3. QED
      BY <3>1, <3>2, Zenon
  <2>2. ASSUME NEW i \in 0 .. NrImaps - 1, b = <<"imap", i>> PROVE m[b] \in Content(b)
    <3>1. b \in ZmapBlocks \cup ImapBlocks /\ m[b] \in SUBSET Bits /\ b # NodeBlock
      BY <2>2, Names DEF ImapBlocks, Blocks
    <3>2. Content(b) = SUBSET Bits
      BY <3>1 DEF Content
    <3>3. QED
      BY <3>1, <3>2, Zenon
  <2>3. CASE b = NodeBlock
    <3>1. b \notin ZmapBlocks \cup ImapBlocks
      BY <2>3 DEF ZmapBlocks, ImapBlocks, NodeBlock
    <3>2. QED
      BY <2>3, <3>1 DEF Content, Blocks, Places
  <2>4. ASSUME NEW z \in DataZones, b = <<"index", z>> PROVE m[b] \in Content(b)
    <3>1. b \notin ZmapBlocks \cup ImapBlocks /\ b # NodeBlock
      BY <2>4 DEF ZmapBlocks, ImapBlocks, NodeBlock
    <3>2. QED
      BY <2>4, <3>1 DEF Content, Blocks
  <2>5. QED
    BY <2>1, <2>2, <2>3, <2>4, NameCases
<1>3. QED
  BY <1>1, <1>2

SameTrees(w, m) == w[NodeBlock] = m[NodeBlock]
    /\ \A z \in DataZones : w[<<"index", z>>] = m[<<"index", z>>]
SameZmaps(w, m) == \A i \in 0 .. NrZmaps - 1 : w[<<"zmap", i>>] = m[<<"zmap", i>>]
SameImaps(w, m) == \A i \in 0 .. NrImaps - 1 : w[<<"imap", i>>] = m[<<"imap", i>>]

(* A store into a bitmap.                                                  *)
ZmapStored(w, m, z, c) ==
    /\ c \in {m[<<"zmap", MapOf(z)>>] \cup {BitIn(z)}, m[<<"zmap", MapOf(z)>>] \ {BitIn(z)}}
    /\ w = [m EXCEPT ![<<"zmap", MapOf(z)>>] = c]
ZmapAfter(w, m, z, c) ==
    /\ Blocks(w) /\ Padded(w) /\ SameTrees(w, m) /\ SameImaps(w, m)
    /\ \A x \in DataZones : IsMarked(w, x) <=> IF x = z THEN BitIn(z) \in c ELSE IsMarked(m, x)

LEMMA StoreZmap ==
  ASSUME NEW m, Blocks(m), Padded(m), NEW z \in DataZones, NEW w, NEW c, ZmapStored(w, m, z, c)
  PROVE  ZmapAfter(w, m, z, c)
<1>0. /\ c \in {m[<<"zmap", MapOf(z)>>] \cup {BitIn(z)}, m[<<"zmap", MapOf(z)>>] \ {BitIn(z)}}
      /\ w = [m EXCEPT ![<<"zmap", MapOf(z)>>] = c]
  BY DEF ZmapStored
<1> DEFINE b == <<"zmap", MapOf(z)>>
<1>1. MapOf(z) \in 0 .. NrZmaps - 1 /\ BitIn(z) \in Bits /\ ZoneOf(MapOf(z), BitIn(z)) = z
  BY ZoneBits
<1>2. b \in BlockNames /\ m[b] \subseteq Bits /\ c \subseteq Bits
  BY <1>0, <1>1, Names DEF Blocks
<1>3. OfKind(b, c)
  BY <1>2, Names DEF OfKind
<1>4. Blocks(w) /\ Stores(w, m, b, c)
  BY <1>0, <1>3, StoreOne
<1>5. SameTrees(w, m) /\ SameImaps(w, m)
  BY <1>4, Names DEF Stores, SameTrees, SameImaps
<1>6. \A i \in 0 .. NrZmaps - 1 : w[<<"zmap", i>>] = IF i = MapOf(z) THEN c ELSE m[<<"zmap", i>>]
  <2>1. w[b] = c
    BY <1>4 DEF Stores
  <2>2. ASSUME NEW i \in 0 .. NrZmaps - 1, i # MapOf(z)
        PROVE  w[<<"zmap", i>>] = m[<<"zmap", i>>]
    <3>1. <<"zmap", i>> # b /\ <<"zmap", i>> \in BlockNames
      BY <2>2, Names
    <3>2. QED
      BY <3>1, <1>4 DEF Stores
  <2>3. QED
    BY <2>1, <2>2
<1>7. ASSUME NEW x \in DataZones
      PROVE  IsMarked(w, x) <=> IF x = z THEN BitIn(z) \in c ELSE IsMarked(m, x)
  <2>1. MapOf(x) \in 0 .. NrZmaps - 1 /\ ZoneOf(MapOf(x), BitIn(x)) = x
    BY ZoneBits
  <2>2. CASE MapOf(x) # MapOf(z)
    BY <2>1, <2>2, <1>6 DEF IsMarked
  <2>3. CASE MapOf(x) = MapOf(z)
    <3>1. BitIn(x) = BitIn(z) => x = z
      BY <2>1, <2>3, <1>1
    <3>2. x # z => (BitIn(x) \in c <=> BitIn(x) \in m[b])
      BY <3>1, <1>0
    <3>3. w[<<"zmap", MapOf(x)>>] = c
      BY <2>3, <1>6, <1>1
    <3>4. QED
      BY <2>3, <3>2, <3>3 DEF IsMarked
  <2>4. QED
    BY <2>2, <2>3
<1>8. Padded(w)
  <2> SUFFICES ASSUME NEW i \in 0 .. NrZmaps - 1, NEW e \in Bits, ZoneOf(i, e) \notin DataZones
               PROVE  e \in w[<<"zmap", i>>]
    BY DEF Padded
  <2>1. e \in m[<<"zmap", i>>]
    BY DEF Padded
  <2>2. i = MapOf(z) => e # BitIn(z)
    BY <1>1
  <2>3. QED
    BY <2>1, <2>2, <1>6, <1>0
<1>9. QED
  BY <1>4, <1>5, <1>7, <1>8 DEF ZmapAfter

Replaces(w, m, b, c) == w = [m EXCEPT ![b] = c]
ImapAfter(w, m, i, c) ==
    /\ Blocks(w) /\ SameTrees(w, m) /\ SameZmaps(w, m)
    /\ \A k \in 0 .. NrImaps - 1 : w[<<"imap", k>>] = IF k = i THEN c ELSE m[<<"imap", k>>]
IndexAfter(w, m, z, c) ==
    /\ Blocks(w) /\ SameImaps(w, m) /\ SameZmaps(w, m) /\ w[NodeBlock] = m[NodeBlock]
    /\ \A x \in DataZones : w[<<"index", x>>] = IF x = z THEN c ELSE m[<<"index", x>>]
NodeAfter(w, m, c) ==
    /\ Blocks(w) /\ SameImaps(w, m) /\ SameZmaps(w, m) /\ w[NodeBlock] = c
    /\ \A x \in DataZones : w[<<"index", x>>] = m[<<"index", x>>]

LEMMA StoreImap ==
  ASSUME NEW m, Blocks(m), NEW i \in 0 .. NrImaps - 1, NEW c \in SUBSET Bits, NEW w,
         Replaces(w, m, <<"imap", i>>, c)
  PROVE  ImapAfter(w, m, i, c)
<1>0. w = [m EXCEPT ![<<"imap", i>>] = c]
  BY DEF Replaces
<1>1. OfKind(<<"imap", i>>, c)
  BY Names DEF OfKind
<1>2. Blocks(w) /\ Stores(w, m, <<"imap", i>>, c)
  BY <1>0, <1>1, StoreOne
<1>3. SameTrees(w, m) /\ SameZmaps(w, m)
  BY <1>2, Names DEF Stores, SameTrees, SameZmaps
<1>4. \A k \in 0 .. NrImaps - 1 : w[<<"imap", k>>] = IF k = i THEN c ELSE m[<<"imap", k>>]
  BY <1>2, Names DEF Stores
<1>5. QED
  BY <1>2, <1>3, <1>4 DEF ImapAfter

LEMMA StoreIndex ==
  ASSUME NEW m, Blocks(m), NEW z \in DataZones, NEW c \in Index, NEW w,
         Replaces(w, m, <<"index", z>>, c)
  PROVE  IndexAfter(w, m, z, c)
<1>0. w = [m EXCEPT ![<<"index", z>>] = c]
  BY DEF Replaces
<1>1. OfKind(<<"index", z>>, c)
  BY Names DEF OfKind
<1>2. Blocks(w) /\ Stores(w, m, <<"index", z>>, c)
  BY <1>0, <1>1, StoreOne
<1>3. SameImaps(w, m) /\ SameZmaps(w, m) /\ w[NodeBlock] = m[NodeBlock]
  BY <1>2, Names DEF Stores, SameImaps, SameZmaps
<1>4. \A x \in DataZones : w[<<"index", x>>] = IF x = z THEN c ELSE m[<<"index", x>>]
  BY <1>2, Names DEF Stores
<1>5. QED
  BY <1>2, <1>3, <1>4 DEF IndexAfter

LEMMA StoreNode ==
  ASSUME NEW m, Blocks(m), NEW c \in [Files -> Places], NEW w,
         Replaces(w, m, NodeBlock, c)
  PROVE  NodeAfter(w, m, c)
<1>0. w = [m EXCEPT ![NodeBlock] = c]
  BY DEF Replaces
<1>1. OfKind(NodeBlock, c)
  BY Names DEF OfKind
<1>2. Blocks(w) /\ Stores(w, m, NodeBlock, c)
  BY <1>0, <1>1, StoreOne
<1>3. SameImaps(w, m) /\ SameZmaps(w, m) /\ w[NodeBlock] = c
  BY <1>2, Names DEF Stores, SameImaps, SameZmaps
<1>4. \A x \in DataZones : w[<<"index", x>>] = m[<<"index", x>>]
  BY <1>2, Names DEF Stores
<1>5. QED
  BY <1>2, <1>3, <1>4 DEF NodeAfter

\* An inode number has its bit in a map.
NumberSpace == 0 .. NrImaps * BlockBits - 1

LEMMA NumberMaps ==
  ASSUME NEW x \in NumberSpace
  PROVE  x \in Nat /\ x \div BlockBits \in 0 .. NrImaps - 1 /\ x % BlockBits \in Bits
<1>1. x \in Nat /\ x < NrImaps * BlockBits
  <2> DEFINE w == NrImaps * BlockBits
  <2>1. w \in Nat /\ x \in 0 .. w - 1
    BY Numbers DEF NumberSpace
  <2> HIDE DEF w
  <2>2. x \in Nat /\ x < w
    BY <2>1
  <2>3. QED
    BY <2>2 DEF w
<1>2. x \div BlockBits \in 0 .. NrImaps - 1
  BY <1>1, DividedBelow, Numbers
<1>3. x % BlockBits \in Bits
  BY <1>1, Divided, Numbers DEF Bits
<1>4. QED
  BY <1>1, <1>2, <1>3

LEMMA NumberUnique ==
  ASSUME NEW x \in NumberSpace, NEW y \in NumberSpace,
         x \div BlockBits = y \div BlockBits, x % BlockBits = y % BlockBits
  PROVE  x = y
<1>1. x = (x \div BlockBits) * BlockBits + (x % BlockBits)
  BY NumberMaps, Divided, Numbers
<1>2. y = (y \div BlockBits) * BlockBits + (y % BlockBits)
  BY NumberMaps, Divided, Numbers
<1>3. QED
  BY <1>1, <1>2, Zenon

LEMMA SmallNumbers ==
  0 \in NumberSpace /\ 1 .. Inodes \subseteq NumberSpace
<1> DEFINE w == NrImaps * BlockBits
<1>1. w \in Nat /\ Inodes \in Nat /\ Inodes < w
  BY Numbers
<1> HIDE DEF w
<1>2. 0 \in 0 .. w - 1 /\ 1 .. Inodes \subseteq 0 .. w - 1
  BY <1>1
<1>3. QED
  BY <1>2 DEF w, NumberSpace

LEMMA SameNumbers ==
  ASSUME NEW w, NEW m, SameImaps(w, m)
  PROVE  \A x \in NumberSpace : Number(w, x) <=> Number(m, x)
<1> SUFFICES ASSUME NEW x \in NumberSpace PROVE Number(w, x) <=> Number(m, x)
  OBVIOUS
<1>1. x \div BlockBits \in 0 .. NrImaps - 1
  BY NumberMaps
<1> DEFINE q == x \div BlockBits
<1> HIDE DEF q
<1>2. w[<<"imap", q>>] = m[<<"imap", q>>]
  BY <1>1 DEF SameImaps, q
<1>3. QED
  BY <1>2 DEF Number, q

NumberAfter(w, m, x, set) ==
    /\ Blocks(w) /\ SameTrees(w, m) /\ SameZmaps(w, m)
    /\ \A y \in NumberSpace : y # x => (Number(w, y) <=> Number(m, y))
    /\ Number(w, x) <=> set

LEMMA SetNumber ==
  ASSUME NEW m, Blocks(m), NEW x \in NumberSpace, NEW c, NEW w,
         c \in {m[<<"imap", x \div BlockBits>>] \cup {x % BlockBits},
                m[<<"imap", x \div BlockBits>>] \ {x % BlockBits}},
         Replaces(w, m, <<"imap", x \div BlockBits>>, c)
  PROVE  NumberAfter(w, m, x, x % BlockBits \in c)
<1> DEFINE q == x \div BlockBits  b == x % BlockBits
<1>1. q \in 0 .. NrImaps - 1 /\ b \in Bits
  BY NumberMaps
<1> HIDE DEF q, b
<1>2. m[<<"imap", q>>] \subseteq Bits
  BY <1>1 DEF Blocks
<1>3. c \in SUBSET Bits /\ c \in {m[<<"imap", q>>] \cup {b}, m[<<"imap", q>>] \ {b}}
  BY <1>1, <1>2 DEF q, b
<1>4. Replaces(w, m, <<"imap", q>>, c)
  BY DEF q
<1>5. ImapAfter(w, m, q, c)
  BY <1>1, <1>3, <1>4, StoreImap
<1>6. ASSUME NEW y \in NumberSpace, y # x
      PROVE  Number(w, y) <=> Number(m, y)
  <2> DEFINE p == y \div BlockBits  a == y % BlockBits
  <2>1. p \in 0 .. NrImaps - 1
    BY NumberMaps
  <2>2. p = q => a # b
    BY <1>6, NumberUnique DEF q, b
  <2> HIDE DEF p, a
  <2>3. w[<<"imap", p>>] = IF p = q THEN c ELSE m[<<"imap", p>>]
    BY <2>1, <1>5 DEF ImapAfter
  <2>4. a \in w[<<"imap", p>>] <=> a \in m[<<"imap", p>>]
    BY <2>2, <2>3, <1>3
  <2>5. QED
    BY <2>4 DEF Number, p, a
<1>7. w[<<"imap", q>>] = c
  BY <1>1, <1>5 DEF ImapAfter
<1>8. Number(w, x) <=> x % BlockBits \in c
  BY <1>7 DEF Number, q
<1>9. QED
  BY <1>5, <1>6, <1>8 DEF ImapAfter, NumberAfter

LEMMA SameMarks ==
  ASSUME NEW w, NEW m, SameZmaps(w, m)
  PROVE  /\ \A z \in DataZones : IsMarked(w, z) <=> IsMarked(m, z)
         /\ Padded(m) => Padded(w)
<1>1. \A z \in DataZones : IsMarked(w, z) <=> IsMarked(m, z)
  BY ZoneBits DEF IsMarked, SameZmaps
<1>2. Padded(m) => Padded(w)
  BY DEF Padded, SameZmaps
<1>3. QED
  BY <1>1, <1>2

-----------------------------------------------------------------------------
(* The trees of blocks: what is an index block, and what is recorded.      *)
Tree(m) ==
    /\ \A n \in Files, k \in 0 .. Direct + 1 : NodeAt(m, n, k) \in Refs
    /\ \A z \in DataZones, k \in 0 .. Indexes - 1 : At(m, z, k) \in Refs

LEMMA Entries ==
  ASSUME NEW m, Blocks(m)
  PROVE  Tree(m)
<1>1. \A n \in Files, k \in 0 .. Direct + 1 : NodeAt(m, n, k) \in Refs
  BY DEF Blocks, NodeAt, Places
<1>2. \A z \in DataZones, k \in 0 .. Indexes - 1 : At(m, z, k) \in Refs
  <2> TAKE z \in DataZones, k \in 0 .. Indexes - 1
  <2>1. m[<<"index", z>>] \in Index
    BY DEF Blocks
  <2>2. QED
    BY <2>1 DEF At, Index
<1>3. QED
  BY <1>1, <1>2 DEF Tree

LEMMA InTops ==
  ASSUME NEW m, NEW k, NEW x
  PROVE  x \in Tops(m, k) <=> x \in DataZones /\ \E n \in Files : NodeAt(m, n, k) = x
BY DEF Tops, NodeAt

LEMMA InArrays ==
  ASSUME NEW m, NEW x
  PROVE  x \in Arrays(m) <=>
            \/ x \in Tops(m, Direct) \/ x \in Tops(m, Direct + 1)
            \/ /\ x \in DataZones
               /\ \E y \in Tops(m, Direct + 1), k \in 0 .. Indexes - 1 : At(m, y, k) = x
<1> DEFINE second == Tops(m, Direct + 1)
           lower == {At(m, z, k) : z \in second, k \in 0 .. Indexes - 1}
<1>1. Arrays(m) = Tops(m, Direct) \cup second \cup (lower \cap DataZones)
  BY DEF Arrays, At
<1>2. x \in lower <=> \E y \in second, k \in 0 .. Indexes - 1 : At(m, y, k) = x
  OBVIOUS
<1> HIDE DEF lower, second
<1>3. QED
  BY <1>1, <1>2 DEF second

LEMMA ArraysZones ==
  ASSUME NEW m
  PROVE  Arrays(m) \subseteq DataZones /\ \A k : Tops(m, k) \subseteq DataZones
BY InArrays, InTops

\* The places of m, with what they hold.
NodePlace(m, r) == \E n \in Files, k \in 0 .. Direct + 1 : r = <<"node", n, k, NodeAt(m, n, k)>>
IndexPlace(m, r) == \E z \in Arrays(m), k \in 0 .. Indexes - 1 : r = <<"index", z, k, At(m, z, k)>>

LEMMA InRecorded ==
  ASSUME NEW m, NEW r
  PROVE  r \in Recorded(m) <=> (NodePlace(m, r) \/ IndexPlace(m, r)) /\ r[4] # 0 /\ r[4] # Eof
<1> DEFINE nodes == {<<"node", n, k, NodeAt(m, n, k)>> : n \in Files, k \in 0 .. Direct + 1}
           indexes == {<<"index", z, k, At(m, z, k)>> : z \in Arrays(m), k \in 0 .. Indexes - 1}
<1>1. Recorded(m) = {q \in nodes \cup indexes : q[4] \notin {0, Eof}}
  BY DEF Recorded, NodeAt, At
<1>2. (r \in nodes <=> NodePlace(m, r)) /\ (r \in indexes <=> IndexPlace(m, r))
  BY DEF NodePlace, IndexPlace
<1> HIDE DEF nodes, indexes
<1>3. QED
  BY <1>1, <1>2

LEMMA RecordedNode ==
  ASSUME NEW m, NEW n \in Files, NEW k \in 0 .. Direct + 1, NEW v,
         NodeAt(m, n, k) = v, v # 0, v # Eof
  PROVE  <<"node", n, k, v>> \in Recorded(m)
BY InRecorded DEF NodePlace

LEMMA RecordedIndex ==
  ASSUME NEW m, NEW z \in Arrays(m), NEW k \in 0 .. Indexes - 1, NEW v,
         At(m, z, k) = v, v # 0, v # Eof
  PROVE  <<"index", z, k, v>> \in Recorded(m)
BY InRecorded DEF IndexPlace

LEMMA ArraysFiled ==
  ASSUME NEW m, NEW x \in Arrays(m)
  PROVE  x \in Zoned(Recorded(m)) /\ x \in DataZones
<1>1. x \in DataZones /\ x # 0 /\ x # Eof
  BY ArraysZones, Numbers
<1>2. ASSUME NEW k \in 0 .. Direct + 1, x \in Tops(m, k) PROVE x \in Zoned(Recorded(m))
  <2>1. PICK n \in Files : NodeAt(m, n, k) = x
    BY <1>2, InTops
  <2>2. <<"node", n, k, x>> \in Recorded(m)
    BY <2>1, <1>1, RecordedNode
  <2>3. QED
    BY <2>2 DEF Zoned
<1>3. ASSUME NEW y \in Tops(m, Direct + 1), NEW k \in 0 .. Indexes - 1, At(m, y, k) = x
      PROVE  x \in Zoned(Recorded(m))
  <2>1. y \in Arrays(m)
    BY InArrays
  <2>2. <<"index", y, k, x>> \in Recorded(m)
    BY <2>1, <1>1, <1>3, RecordedIndex
  <2>3. QED
    BY <2>2 DEF Zoned
<1>4. Direct \in 0 .. Direct + 1 /\ Direct + 1 \in 0 .. Direct + 1
  BY Numbers
<1>5. QED
  BY <1>1, <1>2, <1>3, <1>4, InArrays

LEMMA RecordedZones ==
  ASSUME NEW m, Tree(m)
  PROVE  Zoned(Recorded(m)) \subseteq DataZones
<1> SUFFICES ASSUME NEW r \in Recorded(m) PROVE r[4] \in DataZones
  BY DEF Zoned
<1>1. r[4] # 0 /\ r[4] # Eof /\ (NodePlace(m, r) \/ IndexPlace(m, r))
  BY InRecorded
<1>2. r[4] \in Refs
  BY <1>1, ArraysZones DEF NodePlace, IndexPlace, Tree
<1>3. QED
  BY <1>1, <1>2 DEF Refs

(* A zone is in one place.                                                 *)
OneNode(m) == \A n, i \in Files, k, l \in 0 .. Direct + 1 :
    NodeAt(m, n, k) = NodeAt(m, i, l) /\ NodeAt(m, n, k) \in DataZones => n = i /\ k = l
OneIndex(m) == \A y, z \in Arrays(m), k, l \in 0 .. Indexes - 1 :
    At(m, y, k) = At(m, z, l) /\ At(m, y, k) \in DataZones => y = z /\ k = l
Apart(m) == \A n \in Files, k \in 0 .. Direct + 1, z \in Arrays(m), l \in 0 .. Indexes - 1 :
    NodeAt(m, n, k) \in DataZones => NodeAt(m, n, k) # At(m, z, l)

LEMMA OncePlaces ==
  ASSUME NEW m, Once(m)
  PROVE  OneNode(m) /\ OneIndex(m) /\ Apart(m)
<1>1. OneNode(m)
  <2> SUFFICES ASSUME NEW n \in Files, NEW i \in Files, NEW k \in 0 .. Direct + 1,
                      NEW l \in 0 .. Direct + 1, NodeAt(m, n, k) = NodeAt(m, i, l),
                      NodeAt(m, n, k) \in DataZones
               PROVE  n = i /\ k = l
    BY DEF OneNode
  <2> DEFINE v == NodeAt(m, n, k)
  <2>1. v # 0 /\ v # Eof
    BY Numbers
  <2> HIDE DEF v
  <2>2. <<"node", n, k, v>> \in Recorded(m) /\ <<"node", i, l, v>> \in Recorded(m)
    BY <2>1, RecordedNode DEF v
  <2>3. <<"node", n, k, v>> = <<"node", i, l, v>>
    BY <2>2 DEF Once
  <2>4. QED
    BY <2>3
<1>2. OneIndex(m)
  <2> SUFFICES ASSUME NEW y \in Arrays(m), NEW z \in Arrays(m), NEW k \in 0 .. Indexes - 1,
                      NEW l \in 0 .. Indexes - 1, At(m, y, k) = At(m, z, l),
                      At(m, y, k) \in DataZones
               PROVE  y = z /\ k = l
    BY DEF OneIndex
  <2> DEFINE v == At(m, y, k)
  <2>1. v # 0 /\ v # Eof
    BY Numbers
  <2> HIDE DEF v
  <2>2. <<"index", y, k, v>> \in Recorded(m) /\ <<"index", z, l, v>> \in Recorded(m)
    BY <2>1, RecordedIndex DEF v
  <2>3. <<"index", y, k, v>> = <<"index", z, l, v>>
    BY <2>2 DEF Once
  <2>4. QED
    BY <2>3
<1>3. Apart(m)
  <2> SUFFICES ASSUME NEW n \in Files, NEW k \in 0 .. Direct + 1, NEW z \in Arrays(m),
                      NEW l \in 0 .. Indexes - 1,
                      NodeAt(m, n, k) \in DataZones, NodeAt(m, n, k) = At(m, z, l)
               PROVE  FALSE
    BY DEF Apart
  <2> DEFINE v == NodeAt(m, n, k)
  <2>1. v # 0 /\ v # Eof
    BY Numbers
  <2> HIDE DEF v
  <2>2. <<"node", n, k, v>> \in Recorded(m) /\ <<"index", z, l, v>> \in Recorded(m)
    BY <2>1, RecordedNode, RecordedIndex DEF v
  <2>3. <<"node", n, k, v>> = <<"index", z, l, v>>
    BY <2>2 DEF Once
  <2>4. QED
    BY <2>3
<1>4. QED
  BY <1>1, <1>2, <1>3

(* w has what the trees of m hold, and may have more.                      *)
Extends(w, m) ==
    /\ \A n \in Files, k \in 0 .. Direct + 1 :
           NodeAt(m, n, k) # 0 => NodeAt(w, n, k) = NodeAt(m, n, k)
    /\ \A z \in Arrays(w), k \in 0 .. Indexes - 1 :
           At(m, z, k) # 0 => At(w, z, k) = At(m, z, k)

LEMMA ExtendsTops ==
  ASSUME NEW w, NEW m, Extends(w, m), NEW k \in 0 .. Direct + 1
  PROVE  Tops(m, k) \subseteq Tops(w, k)
<1> SUFFICES ASSUME NEW x \in Tops(m, k) PROVE x \in Tops(w, k)
  OBVIOUS
<1>1. PICK n \in Files : NodeAt(m, n, k) = x
  BY InTops
<1>2. x # 0 /\ x \in DataZones
  BY ArraysZones, Numbers
<1>3. NodeAt(w, n, k) = x
  BY <1>1, <1>2 DEF Extends
<1>4. QED
  BY <1>2, <1>3, InTops

LEMMA ExtendsArrays ==
  ASSUME NEW w, NEW m, Extends(w, m)
  PROVE  Arrays(m) \subseteq Arrays(w) /\ Recorded(m) \subseteq Recorded(w)
<1>0. Direct \in 0 .. Direct + 1 /\ Direct + 1 \in 0 .. Direct + 1
  BY Numbers
<1>1. Tops(m, Direct) \subseteq Tops(w, Direct) /\ Tops(m, Direct + 1) \subseteq Tops(w, Direct + 1)
  BY <1>0, ExtendsTops
<1>2. ASSUME NEW y \in Tops(m, Direct + 1), NEW k \in 0 .. Indexes - 1, At(m, y, k) \in DataZones
      PROVE  At(m, y, k) \in Arrays(w)
  <2>1. y \in Tops(w, Direct + 1) /\ y \in Arrays(w)
    BY <1>1, InArrays
  <2>2. At(w, y, k) = At(m, y, k)
    BY <2>1, <1>2, Numbers DEF Extends
  <2>3. QED
    BY <2>1, <2>2, <1>2, InArrays
<1>3. Arrays(m) \subseteq Arrays(w)
  BY <1>1, <1>2, InArrays
<1>4. ASSUME NEW r \in Recorded(m) PROVE r \in Recorded(w)
  <2>1. r[4] # 0 /\ r[4] # Eof /\ (NodePlace(m, r) \/ IndexPlace(m, r))
    BY InRecorded
  <2>2. CASE NodePlace(m, r)
    <3>1. PICK n \in Files, k \in 0 .. Direct + 1 : r = <<"node", n, k, NodeAt(m, n, k)>>
      BY <2>2 DEF NodePlace
    <3>2. NodeAt(w, n, k) = NodeAt(m, n, k)
      BY <3>1, <2>1 DEF Extends
    <3>3. NodePlace(w, r)
      BY <3>1, <3>2 DEF NodePlace
    <3>4. QED
      BY <2>1, <3>3, InRecorded
  <2>3. CASE IndexPlace(m, r)
    <3>1. PICK z \in Arrays(m), k \in 0 .. Indexes - 1 : r = <<"index", z, k, At(m, z, k)>>
      BY <2>3 DEF IndexPlace
    <3>2. z \in Arrays(w) /\ At(w, z, k) = At(m, z, k)
      BY <3>1, <2>1, <1>3 DEF Extends
    <3>3. IndexPlace(w, r)
      BY <3>1, <3>2 DEF IndexPlace
    <3>4. QED
      BY <2>1, <3>3, InRecorded
  <2>4. QED
    BY <2>1, <2>2, <2>3
<1>5. QED
  BY <1>3, <1>4

(* w is m with v entered at a place that was empty.                        *)
Puts(w, m, r) ==
    /\ \A n \in Files, k \in 0 .. Direct + 1 :
           NodeAt(w, n, k) = IF r[1] = "node" /\ r[2] = n /\ r[3] = k THEN r[4] ELSE NodeAt(m, n, k)
    /\ \A z \in DataZones, k \in 0 .. Indexes - 1 :
           At(w, z, k) = IF r[1] = "index" /\ r[2] = z /\ r[3] = k THEN r[4] ELSE At(m, z, k)
    /\ \/ r[1] = "node" /\ r[2] \in Files /\ r[3] \in 0 .. Direct + 1 /\ NodeAt(m, r[2], r[3]) = 0
       \/ r[1] = "index" /\ r[2] \in Arrays(m) /\ r[3] \in 0 .. Indexes - 1 /\ At(m, r[2], r[3]) = 0
    /\ \E x, k, v : r = <<r[1], x, k, v>>
    /\ r[4] \in Refs \ {0}

LEMMA PutsExtends ==
  ASSUME NEW w, NEW m, NEW r, Puts(w, m, r)
  PROVE  Extends(w, m)
<1>1. \A n \in Files, k \in 0 .. Direct + 1 : NodeAt(m, n, k) # 0 => NodeAt(w, n, k) = NodeAt(m, n, k)
  BY DEF Puts
<1>2. \A z \in DataZones, k \in 0 .. Indexes - 1 : At(m, z, k) # 0 => At(w, z, k) = At(m, z, k)
  BY ArraysZones DEF Puts
<1>3. QED
  BY <1>1, <1>2, ArraysZones DEF Extends

(* Only that place is new: nothing holds the zone that is entered, and it  *)
(* is clear if it is to be an array.                                       *)
LEMMA PutsRecords ==
  ASSUME NEW w, NEW m, Tree(m), NEW r, Puts(w, m, r),
         r[4] # Eof => /\ r[4] \notin Zoned(Recorded(m))
                       /\ r[4] \in Arrays(w) => ClearIn(m, r[4])
  PROVE  /\ Arrays(w) \subseteq Arrays(m) \cup ({r[4]} \ {Eof})
         /\ Recorded(w) = Recorded(m) \cup (IF r[4] = Eof THEN {} ELSE {r})
<1> DEFINE v == r[4]
<1>1. \A n \in Files, k \in 0 .. Direct + 1 :
         NodeAt(w, n, k) = IF r[1] = "node" /\ r[2] = n /\ r[3] = k THEN v ELSE NodeAt(m, n, k)
  BY DEF Puts
<1>2. \A z \in DataZones, k \in 0 .. Indexes - 1 :
         At(w, z, k) = IF r[1] = "index" /\ r[2] = z /\ r[3] = k THEN v ELSE At(m, z, k)
  BY DEF Puts
<1>3. v \in Refs \ {0} /\ (v = Eof \/ v \in DataZones) /\ v # 0
  BY DEF Puts, Refs
<1>4. Direct \in 0 .. Direct + 1 /\ Direct + 1 \in 0 .. Direct + 1
  BY Numbers
<1>5. ASSUME NEW k \in 0 .. Direct + 1, NEW x \in Tops(w, k)
      PROVE  x \in Tops(m, k) \/ x = v
  <2>1. PICK n \in Files : NodeAt(w, n, k) = x
    BY <1>5, InTops
  <2>2. x = v \/ NodeAt(m, n, k) = x
    BY <2>1, <1>1
  <2>3. QED
    BY <2>2, <1>5, InTops, ArraysZones
<1>6. ASSUME v \in Arrays(w), NEW k \in 0 .. Indexes - 1 PROVE At(w, v, k) = 0
  <2>0. v \in DataZones
    BY <1>6, ArraysZones
  <2>1. v \notin Arrays(m) /\ v # Eof
    BY <2>0, ArraysFiled, Numbers
  <2>2. r[1] = "index" => r[2] # v
    BY <2>1 DEF Puts
  <2>3. At(m, v, k) = 0
    BY <2>1, <1>6 DEF At, ClearIn, Clear
  <2>4. QED
    BY <1>2, <2>0, <2>2, <2>3
<1>7. ASSUME NEW x \in Arrays(w) PROVE x \in Arrays(m) \/ (x = v /\ v # Eof)
  <2>0. x \in DataZones /\ x # Eof
    BY ArraysZones, Numbers
  <2>1. CASE x \in Tops(w, Direct) \/ x \in Tops(w, Direct + 1)
    BY <2>0, <2>1, <1>4, <1>5, InArrays
  <2>2. ASSUME NEW y \in Tops(w, Direct + 1), NEW k \in 0 .. Indexes - 1, At(w, y, k) = x
        PROVE  x \in Arrays(m) \/ (x = v /\ v # Eof)
    <3>1. y \in DataZones /\ y \in Arrays(w)
      BY ArraysZones, InArrays
    <3>2. y # v
      BY <3>1, <2>2, <2>0, <1>6, Numbers
    <3>3. y \in Tops(m, Direct + 1)
      BY <3>2, <1>4, <1>5
    <3>4. x = v \/ At(m, y, k) = x
      BY <2>2, <3>1, <1>2
    <3>5. QED
      BY <3>3, <3>4, <2>0, InArrays
  <2>3. QED
    BY <2>1, <2>2, InArrays
<1>8. Recorded(m) \subseteq Recorded(w)
  BY PutsExtends, ExtendsArrays
<1>9. v # Eof => r \in Recorded(w)
  <2> SUFFICES ASSUME v # Eof PROVE r \in Recorded(w)
    OBVIOUS
  <2>0. r = <<r[1], r[2], r[3], v>>
    BY DEF Puts
  <2>1. CASE r[1] = "node"
    <3>1. r[2] \in Files /\ r[3] \in 0 .. Direct + 1
      BY <2>1 DEF Puts
    <3>2. NodeAt(w, r[2], r[3]) = v
      BY <3>1, <2>1, <1>1
    <3>3. <<"node", r[2], r[3], v>> \in Recorded(w)
      BY <3>1, <3>2, <1>3, RecordedNode
    <3>4. QED
      BY <3>3, <2>0, <2>1
  <2>2. CASE r[1] = "index"
    <3>1. r[2] \in Arrays(m) /\ r[3] \in 0 .. Indexes - 1
      BY <2>2 DEF Puts
    <3>2. r[2] \in Arrays(w) /\ r[2] \in DataZones
      BY <3>1, PutsExtends, ExtendsArrays, ArraysZones
    <3>3. At(w, r[2], r[3]) = v
      BY <3>1, <3>2, <2>2, <1>2
    <3>4. <<"index", r[2], r[3], v>> \in Recorded(w)
      BY <3>1, <3>2, <3>3, <1>3, RecordedIndex
    <3>5. QED
      BY <3>4, <2>0, <2>2
  <2>3. QED
    BY <2>1, <2>2 DEF Puts
<1>10. ASSUME NEW q \in Recorded(w) PROVE q \in Recorded(m) \/ (q = r /\ v # Eof)
  <2>0. q[4] # 0 /\ q[4] # Eof /\ (NodePlace(w, q) \/ IndexPlace(w, q))
    BY InRecorded
  <2>r. r = <<r[1], r[2], r[3], v>>
    BY DEF Puts
  <2>1. CASE NodePlace(w, q)
    <3>1. PICK n \in Files, k \in 0 .. Direct + 1 : q = <<"node", n, k, NodeAt(w, n, k)>>
      BY <2>1 DEF NodePlace
    <3>2. CASE r[1] = "node" /\ r[2] = n /\ r[3] = k
      <4>1. q = <<"node", n, k, v>>
        BY <3>1, <3>2, <1>1
      <4>2. q = r /\ v = q[4]
        BY <4>1, <3>2, <2>r
      <4>3. QED
        BY <4>2, <2>0
    <3>3. CASE ~ (r[1] = "node" /\ r[2] = n /\ r[3] = k)
      <4>1. q = <<"node", n, k, NodeAt(m, n, k)>>
        BY <3>1, <3>3, <1>1
      <4>2. NodePlace(m, q)
        BY <4>1 DEF NodePlace
      <4>3. QED
        BY <4>2, <2>0, InRecorded
    <3>4. QED
      BY <3>2, <3>3
  <2>2. CASE IndexPlace(w, q)
    <3>1. PICK z \in Arrays(w), k \in 0 .. Indexes - 1 : q = <<"index", z, k, At(w, z, k)>>
      BY <2>2 DEF IndexPlace
    <3>2. z \in DataZones /\ q[4] = At(w, z, k)
      BY <3>1, ArraysZones
    <3>3. z # v
      BY <3>2, <2>0, <1>6
    <3>4. z \in Arrays(m)
      BY <3>3, <1>7
    <3>5. CASE r[1] = "index" /\ r[2] = z /\ r[3] = k
      <4>1. q = <<"index", z, k, v>>
        BY <3>1, <3>2, <3>5, <1>2
      <4>2. q = r /\ v = q[4]
        BY <4>1, <3>5, <2>r
      <4>3. QED
        BY <4>2, <2>0
    <3>6. CASE ~ (r[1] = "index" /\ r[2] = z /\ r[3] = k)
      <4>1. q = <<"index", z, k, At(m, z, k)>>
        BY <3>1, <3>2, <3>6, <1>2
      <4>2. IndexPlace(m, q)
        BY <4>1, <3>4 DEF IndexPlace
      <4>3. QED
        BY <4>2, <2>0, InRecorded
    <3>7. QED
      BY <3>5, <3>6
  <2>3. QED
    BY <2>0, <2>1, <2>2
<1>11. Arrays(w) \subseteq Arrays(m) \cup ({v} \ {Eof})
  BY <1>7
<1>12. Recorded(w) = Recorded(m) \cup (IF v = Eof THEN {} ELSE {r})
  BY <1>8, <1>9, <1>10
<1>13. QED
  BY <1>11, <1>12

LEMMA PutsOnce ==
  ASSUME NEW w, NEW m, Tree(m), NEW r, Puts(w, m, r), Once(m),
         r[4] # Eof => /\ r[4] \notin Zoned(Recorded(m))
                       /\ r[4] \in Arrays(w) => ClearIn(m, r[4])
  PROVE  Once(w) /\ Zoned(Recorded(w)) = Zoned(Recorded(m)) \cup ({r[4]} \ {Eof})
<1>1. Recorded(w) = Recorded(m) \cup (IF r[4] = Eof THEN {} ELSE {r})
  BY PutsRecords
<1>2. \A q \in Recorded(m) : q[4] \in Zoned(Recorded(m))
  BY DEF Zoned
<1>3. Once(w)
  BY <1>1, <1>2 DEF Once
<1>4. Zoned(Recorded(w)) = Zoned(Recorded(m)) \cup ({r[4]} \ {Eof})
  BY <1>1 DEF Zoned
<1>5. QED
  BY <1>3, <1>4

(* What is not in the trees does not matter to them.                       *)
LEMMA SameRecords ==
  ASSUME NEW w, NEW m, w[NodeBlock] = m[NodeBlock],
         \A z \in Arrays(m) : w[<<"index", z>>] = m[<<"index", z>>]
  PROVE  Arrays(w) = Arrays(m) /\ Recorded(w) = Recorded(m)
<1>1. \A k : Tops(w, k) = Tops(m, k)
  BY DEF Tops
<1>2. \A n, k : NodeAt(w, n, k) = NodeAt(m, n, k)
  BY DEF NodeAt
<1>3. \A z \in Arrays(m) : \A k : At(w, z, k) = At(m, z, k)
  BY DEF At
<1>4. Tops(m, Direct + 1) \subseteq Arrays(m)
  BY InArrays
<1>5. Arrays(w) = Arrays(m)
  <2> SUFFICES ASSUME NEW x PROVE x \in Arrays(w) <=> x \in Arrays(m)
    OBVIOUS
  <2>1. \A y \in Tops(m, Direct + 1) : \A k : At(w, y, k) = At(m, y, k)
    BY <1>3, <1>4
  <2>2. Tops(w, Direct) = Tops(m, Direct) /\ Tops(w, Direct + 1) = Tops(m, Direct + 1)
    BY <1>1
  <2>3. x \in Arrays(w) <=>
            \/ x \in Tops(w, Direct) \/ x \in Tops(w, Direct + 1)
            \/ /\ x \in DataZones
               /\ \E y \in Tops(w, Direct + 1), k \in 0 .. Indexes - 1 : At(w, y, k) = x
    BY InArrays
  <2>4. x \in Arrays(m) <=>
            \/ x \in Tops(m, Direct) \/ x \in Tops(m, Direct + 1)
            \/ /\ x \in DataZones
               /\ \E y \in Tops(m, Direct + 1), k \in 0 .. Indexes - 1 : At(m, y, k) = x
    BY InArrays
  <2>5. QED
    BY <2>1, <2>2, <2>3, <2>4
<1>6. \A r : NodePlace(w, r) <=> NodePlace(m, r)
  BY <1>2 DEF NodePlace
<1>7. \A r : IndexPlace(w, r) <=> IndexPlace(m, r)
  BY <1>3, <1>5 DEF IndexPlace
<1>8. Recorded(w) = Recorded(m)
  BY <1>6, <1>7, InRecorded
<1>9. QED
  BY <1>5, <1>8

-----------------------------------------------------------------------------
(* The way to a block of a file.                                           *)
Steps(p) ==
    \/ \E k \in 0 .. Direct - 1 : p = <<k>>
    \/ \E k \in 0 .. Indexes - 1 : p = <<Direct, k>>
    \/ \E k, l \in 0 .. Indexes - 1 : p = <<Direct + 1, k, l>>

LEMMA PathShape ==
  ASSUME NEW b \in FileBlocks
  PROVE  Steps(Path(b))
<1> DEFINE sq == Indexes * Indexes   c == b - Direct - Indexes
<1>1. sq \in Nat /\ b \in Nat /\ b <= Direct + Indexes + sq - 1
  <2>1. b \in 0 .. Direct + Indexes + Indexes * Indexes - 1
    BY FilesAssumption DEF FilesAssumption
  <2>2. sq \in Nat
    BY Numbers
  <2>3. b \in 0 .. Direct + Indexes + sq - 1
    BY <2>1
  <2> HIDE DEF sq
  <2>4. QED
    BY <2>2, <2>3, Numbers
<1>2. CASE b < Direct
  <2>1. Path(b) = <<b>> /\ b \in 0 .. Direct - 1
    BY <1>1, <1>2, Numbers DEF Path
  <2>2. QED
    BY <2>1 DEF Steps
<1>3. CASE ~ (b < Direct) /\ b - Direct < Indexes
  <2>1. Path(b) = <<Direct, b - Direct>> /\ b - Direct \in 0 .. Indexes - 1
    BY <1>1, <1>3, Numbers DEF Path
  <2>2. QED
    BY <2>1 DEF Steps
<1>4. CASE ~ (b < Direct) /\ ~ (b - Direct < Indexes)
  <2>1. Path(b) = <<Direct + 1, c \div Indexes, c % Indexes>>
    BY <1>4 DEF Path
  <2>2. c \in Nat /\ c < sq
    <3> HIDE DEF sq
    <3>1. QED
      BY <1>1, <1>4, Numbers
  <2> HIDE DEF c
  <2>3. c \div Indexes \in 0 .. Indexes - 1
    BY <2>2, DividedBelow, Numbers
  <2>4. c % Indexes \in 0 .. Indexes - 1
    BY <2>2, Divided, Numbers
  <2>5. QED
    BY <2>1, <2>3, <2>4 DEF Steps
<1>5. QED
  BY <1>2, <1>3, <1>4

(* A place on the way to a block.                                          *)
Located(m, j) ==
    /\ j.path \in Seq(Nat) /\ j.path # <<>>
    /\ \/ j.buf = NodeBlock /\ Head(j.path) \in 0 .. Direct + 1
       \/ \E z \in Arrays(m) : j.buf = <<"index", z>> /\ Head(j.path) \in 0 .. Indexes - 1

LEMMA ReachedPlace ==
  ASSUME NEW m, NEW j, Reached(m, j), j.asked \in FileBlocks, j.file \in Files
  PROVE  Located(m, j)
<1>1. CASE InNode(j)
  <2>1. Steps(j.path) /\ j.buf = NodeBlock
    BY <1>1, PathShape DEF InNode
  <2>2. j.path \in Seq(Nat) /\ j.path # <<>> /\ Head(j.path) \in 0 .. Direct + 1
    <3> DEFINE Good(p) == p \in Seq(Nat) /\ p # <<>> /\ Head(p) \in 0 .. Direct + 1
    <3>1. \A k \in 0 .. Direct - 1 : Good(<<k>>)
      BY Numbers
    <3>2. \A k \in 0 .. Indexes - 1 : Good(<<Direct, k>>)
      BY Numbers
    <3>3. \A k, l \in 0 .. Indexes - 1 : Good(<<Direct + 1, k, l>>)
      BY Numbers
    <3> HIDE DEF Good
    <3>4. Good(j.path)
      BY <2>1, <3>1, <3>2, <3>3 DEF Steps
    <3>5. QED
      BY <3>4 DEF Good
  <2>3. QED
    BY <2>1, <2>2 DEF Located
<1>2. ASSUME NEW z \in DataZones, NEW k \in 0 .. Indexes - 1, InFirst(m, j, z, k)
      PROVE  Located(m, j)
  <2>1. j.path = <<k>> /\ j.buf = <<"index", z>> /\ NodeAt(m, j.file, Direct) = z
    BY <1>2 DEF InFirst
  <2>2. z \in Arrays(m)
    BY <2>1, InArrays, InTops
  <2>3. j.path \in Seq(Nat) /\ j.path # <<>> /\ Head(j.path) = k
    BY <2>1
  <2>4. QED
    BY <2>1, <2>2, <2>3 DEF Located
<1>3. ASSUME NEW z \in DataZones, NEW k \in 0 .. Indexes - 1, NEW l \in 0 .. Indexes - 1,
             InSecond(m, j, z, k, l)
      PROVE  Located(m, j)
  <2>1. j.path = <<k, l>> /\ j.buf = <<"index", z>> /\ NodeAt(m, j.file, Direct + 1) = z
    BY <1>3 DEF InSecond
  <2>2. z \in Arrays(m)
    BY <2>1, InArrays, InTops
  <2>3. j.path \in Seq(Nat) /\ j.path # <<>> /\ Head(j.path) = k
    BY <2>1
  <2>4. QED
    BY <2>1, <2>2, <2>3 DEF Located
<1>4. ASSUME NEW y \in DataZones, NEW z \in DataZones, NEW k \in 0 .. Indexes - 1,
             NEW l \in 0 .. Indexes - 1, InThird(m, j, y, z, k, l)
      PROVE  Located(m, j)
  <2>1. /\ j.path = <<l>> /\ j.buf = <<"index", z>> /\ NodeAt(m, j.file, Direct + 1) = y
        /\ At(m, y, k) = z
    BY <1>4 DEF InThird
  <2>2. y \in Tops(m, Direct + 1)
    BY <2>1, InTops
  <2>3. z \in Arrays(m)
    BY <2>1, <2>2, InArrays
  <2>4. j.path \in Seq(Nat) /\ j.path # <<>> /\ Head(j.path) = l
    BY <2>1
  <2>5. QED
    BY <2>1, <2>3, <2>4 DEF Located
<1>5. QED
  BY <1>1, <1>2, <1>3, <1>4 DEF Reached

LEMMA ReachedKept ==
  ASSUME NEW w, NEW m, Extends(w, m), NEW j, Reached(m, j), j.file \in Files
  PROVE  Reached(w, j)
<1>0. Direct \in 0 .. Direct + 1 /\ Direct + 1 \in 0 .. Direct + 1 /\ 0 \notin DataZones
  BY Numbers
<1>1. \A k \in 0 .. Direct + 1 : NodeAt(m, j.file, k) \in DataZones =>
         NodeAt(w, j.file, k) = NodeAt(m, j.file, k)
  BY <1>0 DEF Extends
<1>2. ASSUME NEW z \in DataZones, NEW k \in 0 .. Indexes - 1, InFirst(m, j, z, k)
      PROVE  InFirst(w, j, z, k)
  BY <1>0, <1>1, <1>2 DEF InFirst
<1>3. ASSUME NEW z \in DataZones, NEW k \in 0 .. Indexes - 1, NEW l \in 0 .. Indexes - 1,
             InSecond(m, j, z, k, l)
      PROVE  InSecond(w, j, z, k, l)
  BY <1>0, <1>1, <1>3 DEF InSecond
<1>4. ASSUME NEW y \in DataZones, NEW z \in DataZones, NEW k \in 0 .. Indexes - 1,
             NEW l \in 0 .. Indexes - 1, InThird(m, j, y, z, k, l)
      PROVE  InThird(w, j, y, z, k, l)
  <2>1. NodeAt(m, j.file, Direct + 1) = y /\ At(m, y, k) = z
    BY <1>4 DEF InThird
  <2>2. NodeAt(w, j.file, Direct + 1) = y
    BY <2>1, <1>0, <1>1
  <2>3. y \in Arrays(w)
    BY <2>2, InTops, InArrays
  <2>4. At(w, y, k) = z
    BY <2>1, <2>3, <1>0 DEF Extends
  <2>5. QED
    BY <2>2, <2>4, <1>4 DEF InThird
<1>5. QED
  BY <1>2, <1>3, <1>4 DEF Reached

LEMMA ReachedOne ==
  ASSUME NEW m, Once(m), NEW i, NEW j, Reached(m, i), Reached(m, j), NEW x \in DataZones,
         i.file \in Files, j.file \in Files, i.buf = <<"index", x>>, j.buf = <<"index", x>>
  PROVE  i.file = j.file
<1> DEFINE Via(f) == \/ \E k \in 0 .. Direct + 1 : NodeAt(m, f, k) = x
                     \/ \E y \in DataZones, k \in 0 .. Indexes - 1 :
                            NodeAt(m, f, Direct + 1) = y /\ At(m, y, k) = x
<1>0. Direct \in 0 .. Direct + 1 /\ Direct + 1 \in 0 .. Direct + 1
  BY Numbers
<1>1. ASSUME NEW g, Reached(m, g), g.buf = <<"index", x>>
      PROVE  Via(g.file)
  <2>1. ~ InNode(g)
    BY <1>1, Names DEF InNode
  <2>2. ASSUME NEW z \in DataZones, NEW k \in 0 .. Indexes - 1, InFirst(m, g, z, k)
        PROVE  Via(g.file)
    BY <1>0, <1>1, <2>2 DEF InFirst
  <2>3. ASSUME NEW z \in DataZones, NEW k \in 0 .. Indexes - 1, NEW l \in 0 .. Indexes - 1,
               InSecond(m, g, z, k, l)
        PROVE  Via(g.file)
    BY <1>0, <1>1, <2>3 DEF InSecond
  <2>4. ASSUME NEW y \in DataZones, NEW z \in DataZones, NEW k \in 0 .. Indexes - 1,
               NEW l \in 0 .. Indexes - 1, InThird(m, g, y, z, k, l)
        PROVE  Via(g.file)
    <3>1. z = x
      BY <1>1, <2>4 DEF InThird
    <3>2. QED
      BY <3>1, <2>4 DEF InThird
  <2> HIDE DEF Via
  <2>5. QED
    BY <1>1, <2>1, <2>2, <2>3, <2>4 DEF Reached
<1>2. Via(i.file) /\ Via(j.file)
  <2> HIDE DEF Via
  <2>1. QED
    BY <1>1
<1>3. \A f \in Files, y \in DataZones : NodeAt(m, f, Direct + 1) = y => y \in Arrays(m)
  BY InArrays, InTops
<1>4. OneNode(m) /\ OneIndex(m) /\ Apart(m)
  BY OncePlaces
<1>5. \A f, g \in Files, k, l \in 0 .. Direct + 1 :
         NodeAt(m, f, k) = x /\ NodeAt(m, g, l) = x => f = g
  BY <1>4 DEF OneNode
<1>6. \A f, g \in Files, k \in 0 .. Direct + 1, y \in DataZones, l \in 0 .. Indexes - 1 :
         ~ (NodeAt(m, f, k) = x /\ NodeAt(m, g, Direct + 1) = y /\ At(m, y, l) = x)
  BY <1>3, <1>4 DEF Apart
<1>7. \A f, g \in Files, y, z \in DataZones, k, l \in 0 .. Indexes - 1 :
         /\ NodeAt(m, f, Direct + 1) = y /\ At(m, y, k) = x
         /\ NodeAt(m, g, Direct + 1) = z /\ At(m, z, l) = x
         => f = g
  <2> SUFFICES ASSUME NEW f \in Files, NEW g \in Files, NEW y \in DataZones, NEW z \in DataZones,
                      NEW k \in 0 .. Indexes - 1, NEW l \in 0 .. Indexes - 1,
                      NodeAt(m, f, Direct + 1) = y, At(m, y, k) = x,
                      NodeAt(m, g, Direct + 1) = z, At(m, z, l) = x
               PROVE  f = g
    OBVIOUS
  <2>1. y \in Arrays(m) /\ z \in Arrays(m)
    BY <1>3
  <2>2. y = z
    BY <2>1, <1>4 DEF OneIndex
  <2>3. QED
    BY <2>2, <1>0, <1>4 DEF OneNode
<1>8. QED
  BY <1>2, <1>5, <1>6, <1>7

LEMMA Tails ==
    /\ \A a : Len(<<a>>) = 1 /\ Head(<<a>>) = a
    /\ \A a, b : Len(<<a, b>>) = 2 /\ Head(<<a, b>>) = a /\ Tail(<<a, b>>) = <<b>>
    /\ \A a, b, c : Len(<<a, b, c>>) = 3 /\ Head(<<a, b, c>>) = a /\ Tail(<<a, b, c>>) = <<b, c>>
<1>1. \A a : Len(<<a>>) = 1 /\ Head(<<a>>) = a
  OBVIOUS
<1>2. ASSUME NEW a, NEW b
      PROVE  Len(<<a, b>>) = 2 /\ Head(<<a, b>>) = a /\ Tail(<<a, b>>) = <<b>>
  OBVIOUS
<1>3. ASSUME NEW a, NEW b, NEW c
      PROVE  /\ Len(<<a, b, c>>) = 3 /\ Head(<<a, b, c>>) = a
             /\ Tail(<<a, b, c>>) = <<b, c>>
  OBVIOUS
<1>4. QED
  BY <1>1, <1>2, <1>3

\* What GoOn takes to the next level.
Onward(i, j, v) ==
    /\ i.asked = j.asked /\ i.file = j.file
    /\ i.buf = <<"index", v>> /\ i.path = Tail(j.path)

LEMMA ReachedNext ==
  ASSUME NEW m, NEW j, Reached(m, j), j.asked \in FileBlocks, j.file \in Files,
         Len(j.path) > 1, NEW v \in DataZones, EntryIn(m, j) = v, NEW i, Onward(i, j, v)
  PROVE  Reached(m, i)
<1>0. Indexes \in Nat /\ 1 + 1 = 2 /\ ~ (1 > 1)
  BY Numbers
<1>i. i.asked = j.asked /\ i.file = j.file /\ i.buf = <<"index", v>> /\ i.path = Tail(j.path)
  BY DEF Onward
<1>1. CASE InNode(j)
  <2>1. j.path = Path(j.asked) /\ Steps(j.path) /\ NodeAt(m, j.file, Head(j.path)) = v
    BY <1>1, PathShape DEF InNode, EntryIn
  <2>2. ~ \E k \in 0 .. Direct - 1 : j.path = <<k>>
    BY Tails, <1>0
  <2>3. ASSUME NEW k \in 0 .. Indexes - 1, j.path = <<Direct, k>>
        PROVE  InFirst(m, i, v, k)
    BY <1>i, <2>1, <2>3, Tails DEF InFirst
  <2>4. ASSUME NEW k \in 0 .. Indexes - 1, NEW l \in 0 .. Indexes - 1, j.path = <<Direct + 1, k, l>>
        PROVE  InSecond(m, i, v, k, l)
    BY <1>i, <2>1, <2>4, Tails DEF InSecond
  <2>5. QED
    BY <2>1, <2>2, <2>3, <2>4 DEF Steps, Reached
<1>2. ASSUME NEW z \in DataZones, NEW k \in 0 .. Indexes - 1, InFirst(m, j, z, k)
      PROVE  Reached(m, i)
  <2>1. Len(j.path) = 1
    BY <1>2, Tails DEF InFirst
  <2>2. QED
    BY <2>1, <1>0
<1>3. ASSUME NEW z \in DataZones, NEW k \in 0 .. Indexes - 1, NEW l \in 0 .. Indexes - 1,
             InSecond(m, j, z, k, l)
      PROVE  Reached(m, i)
  <2>1. /\ Path(j.asked) = <<Direct + 1, k, l>> /\ NodeAt(m, j.file, Direct + 1) = z
        /\ j.buf = <<"index", z>> /\ j.path = <<k, l>>
    BY <1>3 DEF InSecond
  <2>2. At(m, z, k) = v
    BY <2>1, Tails, Names DEF EntryIn, At
  <2>3. InThird(m, i, z, v, k, l)
    BY <1>i, <2>1, <2>2, Tails DEF InThird
  <2>4. QED
    BY <2>3 DEF Reached
<1>4. ASSUME NEW y \in DataZones, NEW z \in DataZones, NEW k \in 0 .. Indexes - 1,
             NEW l \in 0 .. Indexes - 1, InThird(m, j, y, z, k, l)
      PROVE  Reached(m, i)
  <2>1. Len(j.path) = 1
    BY <1>4, Tails DEF InThird
  <2>2. QED
    BY <2>1, <1>0
<1>5. QED
  BY <1>1, <1>2, <1>3, <1>4 DEF Reached

LEMMA RefBy ==
  ASSUME NEW m, NEW n
  PROVE  /\ \A k : RefAt(m, n, <<k>>) = NodeAt(m, n, k)
         /\ \A k : RefAt(m, n, <<Direct, k>>) = Below(m, NodeAt(m, n, Direct), k)
         /\ \A k, l : RefAt(m, n, <<Direct + 1, k, l>>)
                          = Below(m, Below(m, NodeAt(m, n, Direct + 1), k), l)
<1>1. \A k : RefAt(m, n, <<k>>) = NodeAt(m, n, k)
  BY DEF RefAt, NodeAt
<1>2. \A k : RefAt(m, n, <<Direct, k>>) = Below(m, NodeAt(m, n, Direct), k)
  BY DEF RefAt, NodeAt
<1>3. \A k, l : RefAt(m, n, <<Direct + 1, k, l>>)
                    = Below(m, Below(m, NodeAt(m, n, Direct + 1), k), l)
  BY DEF RefAt, NodeAt
<1>4. QED
  BY <1>1, <1>2, <1>3

LEMMA ReachedEnd ==
  ASSUME NEW m, NEW j, Reached(m, j), j.asked \in FileBlocks, j.file \in Files,
         Len(j.path) = 1
  PROVE  RefAt(m, j.file, Path(j.asked)) = EntryIn(m, j)
<1>0. Direct \in Nat /\ 1 # 2 /\ 1 # 3
  BY Numbers
<1>1. CASE InNode(j)
  <2>1. j.path = Path(j.asked) /\ Steps(j.path) /\ EntryIn(m, j) = NodeAt(m, j.file, Head(j.path))
    BY <1>1, PathShape DEF InNode, EntryIn
  <2>2. PICK k \in 0 .. Direct - 1 : j.path = <<k>>
    BY <2>1, <1>0, Tails DEF Steps
  <2>3. Path(j.asked) = <<k>> /\ EntryIn(m, j) = NodeAt(m, j.file, k)
    BY <2>1, <2>2, Tails
  <2>4. RefAt(m, j.file, <<k>>) = NodeAt(m, j.file, k)
    BY RefBy
  <2>5. QED
    BY <2>3, <2>4
<1>2. ASSUME NEW z \in DataZones, NEW k \in 0 .. Indexes - 1, InFirst(m, j, z, k)
      PROVE  RefAt(m, j.file, Path(j.asked)) = EntryIn(m, j)
  <2>1. /\ Path(j.asked) = <<Direct, k>> /\ NodeAt(m, j.file, Direct) = z
        /\ j.buf = <<"index", z>> /\ j.path = <<k>>
    BY <1>2 DEF InFirst
  <2>2. EntryIn(m, j) = At(m, z, k)
    BY <2>1, Tails, Names DEF EntryIn, At
  <2>3. RefAt(m, j.file, Path(j.asked)) = Below(m, z, k)
    BY <2>1, RefBy
  <2>4. QED
    BY <2>2, <2>3 DEF Below, At
<1>3. ASSUME NEW z \in DataZones, NEW k \in 0 .. Indexes - 1, NEW l \in 0 .. Indexes - 1,
             InSecond(m, j, z, k, l)
      PROVE  FALSE
  <2>1. Len(j.path) = 2
    BY <1>3, Tails DEF InSecond
  <2>2. QED
    BY <2>1, <1>0
<1>4. ASSUME NEW y \in DataZones, NEW z \in DataZones, NEW k \in 0 .. Indexes - 1,
             NEW l \in 0 .. Indexes - 1, InThird(m, j, y, z, k, l)
      PROVE  RefAt(m, j.file, Path(j.asked)) = EntryIn(m, j)
  <2>1. /\ Path(j.asked) = <<Direct + 1, k, l>> /\ NodeAt(m, j.file, Direct + 1) = y
        /\ At(m, y, k) = z /\ j.buf = <<"index", z>> /\ j.path = <<l>>
    BY <1>4 DEF InThird
  <2>2. EntryIn(m, j) = At(m, z, l)
    BY <2>1, Tails, Names DEF EntryIn, At
  <2>3. RefAt(m, j.file, Path(j.asked)) = Below(m, Below(m, y, k), l)
    BY <2>1, RefBy
  <2>4. Below(m, y, k) = z
    BY <2>1 DEF Below, At
  <2>5. QED
    BY <2>2, <2>3, <2>4 DEF Below, At
<1>5. QED
  BY <1>1, <1>2, <1>3, <1>4 DEF Reached

LEMMA RefKept ==
  ASSUME NEW w, NEW m, Extends(w, m), NEW n \in Files, NEW b \in FileBlocks,
         RefAt(m, n, Path(b)) # 0
  PROVE  RefAt(w, n, Path(b)) = RefAt(m, n, Path(b))
<1>0. /\ Direct \in 0 .. Direct + 1 /\ Direct + 1 \in 0 .. Direct + 1 /\ 0 \notin DataZones
      /\ 0 .. Direct - 1 \subseteq 0 .. Direct + 1
  BY Numbers
<1>1. \A k \in 0 .. Direct + 1 : NodeAt(m, n, k) # 0 => NodeAt(w, n, k) = NodeAt(m, n, k)
  BY DEF Extends
<1>2. ASSUME NEW z \in Arrays(w), NEW k \in 0 .. Indexes - 1, Below(m, z, k) # 0
      PROVE  Below(w, z, k) = Below(m, z, k)
  <2>1. z \in DataZones
    BY ArraysZones
  <2>2. QED
    BY <2>1, <1>2 DEF Below, Extends, At
<1>3. \A z, k : Below(m, z, k) # 0 => z \in DataZones
  BY DEF Below
<1>4. Steps(Path(b))
  BY PathShape
<1>5. ASSUME NEW k \in 0 .. Direct - 1, Path(b) = <<k>>
      PROVE  RefAt(w, n, Path(b)) = RefAt(m, n, Path(b))
  BY <1>0, <1>1, <1>5, RefBy
<1>6. ASSUME NEW k \in 0 .. Indexes - 1, Path(b) = <<Direct, k>>
      PROVE  RefAt(w, n, Path(b)) = RefAt(m, n, Path(b))
  <2> DEFINE z == NodeAt(m, n, Direct)
  <2>1. RefAt(m, n, Path(b)) = Below(m, z, k) /\ Below(m, z, k) # 0
    BY <1>6, RefBy
  <2>a. z \in DataZones
    BY <2>1, <1>3
  <2>2. NodeAt(w, n, Direct) = z
    BY <2>a, <1>0, <1>1
  <2>3. z \in Arrays(w)
    BY <2>a, <2>2, InArrays, InTops
  <2>4. Below(w, z, k) = Below(m, z, k)
    BY <2>1, <2>3, <1>2
  <2>5. QED
    BY <2>1, <2>2, <2>4, <1>6, RefBy
<1>7. ASSUME NEW k \in 0 .. Indexes - 1, NEW l \in 0 .. Indexes - 1,
             Path(b) = <<Direct + 1, k, l>>
      PROVE  RefAt(w, n, Path(b)) = RefAt(m, n, Path(b))
  <2> DEFINE y == NodeAt(m, n, Direct + 1)  z == Below(m, y, k)
  <2>a. RefAt(m, n, Path(b)) = Below(m, z, l) /\ Below(m, z, l) # 0
    BY <1>7, RefBy
  <2>b. z \in DataZones
    BY <2>a, <1>3
  <2>c. y \in DataZones
    BY <2>b, <1>0, <1>3
  <2>1. /\ RefAt(m, n, Path(b)) = Below(m, z, l) /\ Below(m, z, l) # 0 /\ z \in DataZones
        /\ y \in DataZones
    BY <2>a, <2>b, <2>c
  <2>2. NodeAt(w, n, Direct + 1) = y
    BY <2>1, <1>0, <1>1
  <2>3. y \in Tops(w, Direct + 1) /\ y \in Arrays(w)
    BY <2>1, <2>2, InArrays, InTops
  <2>4. Below(w, y, k) = z
    BY <2>1, <2>3, <1>0, <1>2
  <2>5. z \in Arrays(w)
    BY <2>1, <2>3, <2>4, InArrays DEF Below, At
  <2>6. Below(w, z, l) = Below(m, z, l)
    BY <2>1, <2>5, <1>2
  <2>7. RefAt(w, n, Path(b)) = Below(w, Below(w, NodeAt(w, n, Direct + 1), k), l)
    BY <1>7, RefBy
  <2>8. QED
    BY <2>1, <2>2, <2>4, <2>6, <2>7
<1>8. QED
  BY <1>4, <1>5, <1>6, <1>7 DEF Steps

-----------------------------------------------------------------------------
(* The steps, as they change the blocks m that the tasks see, the disk d,  *)
(* the zones o that tasks have and their jobs j: what holds of all of them *)
(* holds of w, e, p and i after the step of a task t.                      *)
Typed(m, d, o, j) ==
    /\ Blocks(m) /\ Blocks(d)
    /\ o \in [Tasks -> DataZones \cup {0}]
    /\ \A t \in Tasks : Shape(j[t])

Others(i, j, t) == \A u \in Tasks : u # t => i[u] = j[u]

LEMMA ComingZone ==
  ASSUME NEW g, Shape(g), Coming(g)
  PROVE  g.zone \in DataZones /\ g.block = <<"zmap", MapOf(g.zone)>>
<1>1. g # Idle
  BY DEF Coming, Idle
<1>2. QED
  BY <1>1 DEF Shape

LEMMA SameUnderway ==
  ASSUME NEW j, NEW i, NEW t, Others(i, j, t), ~ Coming(j[t]), ~ Coming(i[t])
  PROVE  \A z : IsUnderway(i, z) <=> IsUnderway(j, z)
BY DEF Others, IsUnderway

LEMMA MoreWriting ==
  ASSUME NEW j, NEW i, NEW t, Others(i, j, t), j[t].at # "write"
  PROVE  /\ \A n, k : WritesNode(j, n, k) => WritesNode(i, n, k)
         /\ \A z, k : WritesIndex(j, z, k) => WritesIndex(i, z, k)
<1>1. ASSUME NEW n, NEW k, WritesNode(j, n, k) PROVE WritesNode(i, n, k)
  <2>1. PICK u \in Tasks : Writing(j, u, NodeBlock) /\ j[u].file = n /\ Head(j[u].path) = k
    BY <1>1 DEF WritesNode
  <2>2. i[u] = j[u]
    BY <2>1 DEF Writing, Others
  <2>3. QED
    BY <2>1, <2>2 DEF Writing, WritesNode
<1>2. ASSUME NEW z, NEW k, WritesIndex(j, z, k) PROVE WritesIndex(i, z, k)
  <2>1. PICK u \in Tasks : Writing(j, u, <<"index", z>>) /\ Head(j[u].path) = k
    BY <1>2 DEF WritesIndex
  <2>2. i[u] = j[u]
    BY <2>1 DEF Writing, Others
  <2>3. QED
    BY <2>1, <2>2 DEF Writing, WritesIndex
<1>3. QED
  BY <1>1, <1>2

LEMMA TreeSame ==
  ASSUME NEW w, NEW m, SameTrees(w, m)
  PROVE  /\ Arrays(w) = Arrays(m) /\ Recorded(w) = Recorded(m) /\ Filed(w) = Filed(m)
         /\ \A n, k : NodeAt(w, n, k) = NodeAt(m, n, k)
         /\ \A z \in DataZones : w[<<"index", z>>] = m[<<"index", z>>]
         /\ \A z \in DataZones : \A k : At(w, z, k) = At(m, z, k)
<1>1. Arrays(w) = Arrays(m) /\ Recorded(w) = Recorded(m)
  BY SameRecords, ArraysZones DEF SameTrees
<1>2. QED
  BY <1>1 DEF SameTrees, NodeAt, At, Filed

(* Behind, when the trees stay and more is written.                        *)
LEMMA BehindSame ==
  ASSUME NEW m, NEW w, NEW d, NEW j, NEW i, Behind(m, d, j), SameTrees(w, m),
         \A n, k : WritesNode(j, n, k) => WritesNode(i, n, k),
         \A z, k : WritesIndex(j, z, k) => WritesIndex(i, z, k)
  PROVE  Behind(w, d, i)
<1>1. /\ Arrays(w) = Arrays(m) /\ \A n, k : NodeAt(w, n, k) = NodeAt(m, n, k)
      /\ \A z \in DataZones : \A k : At(w, z, k) = At(m, z, k)
  BY TreeSame
<1>2. ASSUME NEW n \in Files, NEW k \in 0 .. Direct + 1, NodeAt(w, n, k) # NodeAt(d, n, k)
      PROVE  NodeAt(d, n, k) = 0 /\ WritesNode(i, n, k)
  BY <1>1, <1>2 DEF Behind
<1>3. ASSUME NEW z \in Arrays(w), NEW k \in 0 .. Indexes - 1, At(w, z, k) # At(d, z, k)
      PROVE  At(d, z, k) = 0 /\ WritesIndex(i, z, k)
  BY <1>1, <1>3, ArraysZones DEF Behind
<1>4. QED
  BY <1>2, <1>3 DEF Behind

(* A step that leaves the trees and the bitmaps of zones alone.            *)
LEMMA CoreQuiet ==
  ASSUME NEW m, NEW d, NEW o, NEW j, NEW c, Typed(m, d, o, j), Core(m, d, o, j, c),
         NEW t \in Tasks, NEW w, NEW i, SameTrees(w, m), SameZmaps(w, m), Others(i, j, t),
         j[t].at # "write", ~ Coming(j[t]), ~ Coming(i[t])
  PROVE  Core(w, d, o, i, c)
<1>1. /\ Arrays(w) = Arrays(m) /\ Recorded(w) = Recorded(m) /\ Filed(w) = Filed(m)
      /\ \A z \in DataZones : w[<<"index", z>>] = m[<<"index", z>>]
  BY TreeSame
<1>2. (\A z \in DataZones : IsMarked(w, z) <=> IsMarked(m, z)) /\ Padded(w)
  BY SameMarks DEF Core
<1>3. \A z : IsUnderway(i, z) <=> IsUnderway(j, z)
  BY SameUnderway
<1>4. Behind(w, d, i)
  BY MoreWriting, BehindSame DEF Core
<1>5. FreshSame(w, d, i)
  BY <1>1, <1>2, <1>3 DEF Core, FreshSame, SameIn, Kept
<1>6. Filed(m) \subseteq DataZones
  BY Entries, RecordedZones DEF Typed, Filed
<1>7. FiledKept(w, d)
  BY <1>1, <1>2, <1>6 DEF Core, FiledKept, Kept
<1>8. \A u \in Tasks : o[u] # 0 => o[u] \in DataZones
  BY DEF Typed
<1>9. OwnKept(w, d, o)
  BY <1>1, <1>2, <1>8 DEF Core, OwnKept, Kept
<1>10. \A u \in Tasks : Coming(i[u]) => u # t /\ i[u] = j[u] /\ Coming(j[u]) /\ j[u].zone \in DataZones
  BY ComingZone DEF Others, Typed
<1>11. ComingKept(w, d, o, i)
  BY <1>1, <1>2, <1>10 DEF Core, ComingKept
<1>12. NoneLost(w, o, i, c)
  BY <1>1, <1>2, <1>3 DEF Core, NoneLost
<1>13. FillsWritten(w, d, o, i)
  <2> SUFFICES ASSUME NEW u \in Tasks, o[u] # 0, w[<<"index", o[u]>>] # d[<<"index", o[u]>>]
               PROVE  i[u].at = "write" /\ i[u].block = <<"index", o[u]>>
    BY DEF FillsWritten
  <2>1. m[<<"index", o[u]>>] # d[<<"index", o[u]>>]
    BY <1>8 DEF SameTrees
  <2>2. j[u].at = "write" /\ j[u].block = <<"index", o[u]>>
    BY <2>1 DEF Core, FillsWritten
  <2>3. QED
    BY <2>2 DEF Others
<1>14. QED
  BY <1>1, <1>2, <1>4, <1>5, <1>7, <1>9, <1>11, <1>12, <1>13 DEF Core, Once

LEMMA TypedZones ==
  ASSUME NEW m, NEW d, NEW o, NEW j, Typed(m, d, o, j)
  PROVE  /\ Filed(m) \subseteq DataZones /\ Arrays(m) \subseteq Filed(m)
         /\ \A u \in Tasks : o[u] # 0 => o[u] \in DataZones
         /\ \A u \in Tasks : Coming(j[u]) => j[u].zone \in DataZones
<1>1. Filed(m) \subseteq DataZones
  BY Entries, RecordedZones DEF Typed, Filed
<1>2. Arrays(m) \subseteq Filed(m)
  BY ArraysFiled DEF Filed
<1>3. \A u \in Tasks : o[u] # 0 => o[u] \in DataZones
  BY DEF Typed
<1>4. \A u \in Tasks : Coming(j[u]) => j[u].zone \in DataZones
  BY ComingZone DEF Typed
<1>5. QED
  BY <1>1, <1>2, <1>3, <1>4

LEMMA NowUnderway ==
  ASSUME NEW j, NEW i, NEW t \in Tasks, Others(i, j, t), ~ Coming(j[t]), Coming(i[t])
  PROVE  \A z : IsUnderway(i, z) <=> IsUnderway(j, z) \/ z = i[t].zone
BY DEF Others, IsUnderway

LEMMA NoMoreUnderway ==
  ASSUME NEW m, NEW d, NEW o, NEW j, ComingKept(m, d, o, j),
         NEW i, NEW t \in Tasks, Others(i, j, t), Coming(j[t]), ~ Coming(i[t])
  PROVE  \A z : IsUnderway(i, z) <=> IsUnderway(j, z) /\ z # j[t].zone
<1>1. \A u \in Tasks : Coming(j[u]) /\ j[u].zone = j[t].zone => u = t
  BY DEF ComingKept
<1>2. ASSUME NEW z, IsUnderway(i, z) PROVE IsUnderway(j, z) /\ z # j[t].zone
  <2>1. PICK u \in Tasks : Coming(i[u]) /\ i[u].zone = z
    BY <1>2 DEF IsUnderway
  <2>2. u # t /\ i[u] = j[u]
    BY <2>1 DEF Others
  <2>3. QED
    BY <1>1, <2>1, <2>2 DEF IsUnderway
<1>3. ASSUME NEW z, IsUnderway(j, z), z # j[t].zone PROVE IsUnderway(i, z)
  BY <1>3 DEF IsUnderway, Others
<1>4. QED
  BY <1>2, <1>3

(* balloc marks a zone that was free.                                      *)
LEMMA CoreMark ==
  ASSUME NEW m, NEW d, NEW o, NEW j, NEW c, Typed(m, d, o, j), Core(m, d, o, j, c),
         NEW t \in Tasks, NEW w, NEW i, NEW z \in DataZones, ~ IsMarked(m, z),
         SameTrees(w, m), Padded(w),
         \A x \in DataZones : IsMarked(w, x) <=> x = z \/ IsMarked(m, x),
         Others(i, j, t), j[t].at # "write", ~ Coming(j[t]),
         Coming(i[t]), i[t].zone = z, i[t].at = "write"
  PROVE  Core(w, d, o, i, c)
<1>1. /\ Arrays(w) = Arrays(m) /\ Recorded(w) = Recorded(m) /\ Filed(w) = Filed(m)
      /\ \A x \in DataZones : w[<<"index", x>>] = m[<<"index", x>>]
  BY TreeSame
<1>2. \A x \in DataZones : Kept(m, d, x) => Kept(w, d, x)
  BY DEF Kept
<1>3. \A x : IsUnderway(i, x) <=> IsUnderway(j, x) \/ x = z
  BY NowUnderway
<1>4. Behind(w, d, i)
  BY MoreWriting, BehindSame DEF Core
<1>5. FreshSame(w, d, i)
  <2>1. ~ Kept(m, d, z)
    BY DEF Kept
  <2>2. \A x \in DataZones : ~ Kept(w, d, x) => ~ Kept(m, d, x)
    BY <1>2
  <2>3. QED
    BY <1>1, <1>3, <2>1, <2>2 DEF Core, FreshSame, SameIn
<1>6. /\ Filed(m) \subseteq DataZones
      /\ \A u \in Tasks : o[u] # 0 => o[u] \in DataZones
      /\ \A u \in Tasks : Coming(j[u]) => j[u].zone \in DataZones
  BY TypedZones
<1>7. FiledKept(w, d)
  BY <1>1, <1>2, <1>6 DEF Core, FiledKept
<1>8. OwnKept(w, d, o)
  BY <1>1, <1>2, <1>6 DEF Core, OwnKept
<1>9. /\ z \notin Filed(m) /\ \A u \in Tasks : o[u] # z
      /\ \A u \in Tasks : ~ (Coming(j[u]) /\ j[u].zone = z)
  <2>1. z \notin Filed(m)
    BY DEF Core, FiledKept, Kept
  <2>2. \A u \in Tasks : o[u] # z
    BY Numbers DEF Core, OwnKept, Kept
  <2>3. \A u \in Tasks : ~ (Coming(j[u]) /\ j[u].zone = z)
    BY DEF Core, ComingKept
  <2>4. QED
    BY <2>1, <2>2, <2>3
<1>10. ComingKept(w, d, o, i)
  <2> SUFFICES ASSUME NEW u \in Tasks, Coming(i[u])
               PROVE  /\ IsMarked(w, i[u].zone) /\ i[u].zone \notin Filed(w)
                      /\ i[u].at = "back" => IsMarked(d, i[u].zone)
                      /\ \A v \in Tasks : o[v] # i[u].zone
                      /\ \A v \in Tasks : Coming(i[v]) /\ i[v].zone = i[u].zone => v = u
    BY DEF ComingKept
  <2>1. CASE u = t
    <3>1. \A v \in Tasks : Coming(i[v]) /\ i[v].zone = z => v = t
      BY <1>9 DEF Others
    <3>2. QED
      BY <2>1, <3>1, <1>1, <1>9
  <2>2. CASE u # t
    <3>1. i[u] = j[u] /\ Coming(j[u]) /\ j[u].zone \in DataZones
      BY <2>2, <1>6 DEF Others
    <3>2. /\ IsMarked(m, j[u].zone) /\ j[u].zone \notin Filed(m)
          /\ j[u].at = "back" => IsMarked(d, j[u].zone)
          /\ \A v \in Tasks : o[v] # j[u].zone
          /\ \A v \in Tasks : Coming(j[v]) /\ j[v].zone = j[u].zone => v = u
      BY <3>1 DEF Core, ComingKept
    <3>3. \A v \in Tasks : Coming(i[v]) /\ i[v].zone = j[u].zone => v = u
      <4> TAKE v \in Tasks
      <4>1. CASE v = t
        BY <4>1, <3>1, <1>9
      <4>2. CASE v # t
        BY <4>2, <3>2 DEF Others
      <4>3. QED
        BY <4>1, <4>2
    <3>4. QED
      BY <3>1, <3>2, <3>3, <1>1
  <2>3. QED
    BY <2>1, <2>2
<1>11. NoneLost(w, o, i, c)
  BY <1>1, <1>3 DEF Core, NoneLost
<1>12. FillsWritten(w, d, o, i)
  <2> SUFFICES ASSUME NEW u \in Tasks, o[u] # 0, w[<<"index", o[u]>>] # d[<<"index", o[u]>>]
               PROVE  i[u].at = "write" /\ i[u].block = <<"index", o[u]>>
    BY DEF FillsWritten
  <2>1. m[<<"index", o[u]>>] # d[<<"index", o[u]>>]
    BY <1>6 DEF SameTrees
  <2>2. j[u].at = "write" /\ j[u].block = <<"index", o[u]>>
    BY <2>1 DEF Core, FillsWritten
  <2>3. QED
    BY <2>2 DEF Others
<1>13. QED
  BY <1>1, <1>4, <1>5, <1>7, <1>8, <1>10, <1>11, <1>12 DEF Core, Once

(* The caller of balloc gets the zone.                                     *)
LEMMA CoreGot ==
  ASSUME NEW m, NEW d, NEW o, NEW j, NEW c, Typed(m, d, o, j), Core(m, d, o, j, c),
         NEW t \in Tasks, NEW p, NEW i, Others(i, j, t),
         p = [o EXCEPT ![t] = j[t].zone], o[t] = 0,
         Coming(j[t]), j[t].at = "back", ~ Coming(i[t])
  PROVE  Core(m, d, p, i, c)
<1> DEFINE z == j[t].zone
<1>1. /\ Filed(m) \subseteq DataZones
      /\ \A u \in Tasks : o[u] # 0 => o[u] \in DataZones
      /\ \A u \in Tasks : Coming(j[u]) => j[u].zone \in DataZones
  BY TypedZones
<1>2. z \in DataZones /\ z # 0
  BY <1>1, Numbers
<1>3. /\ Kept(m, d, z) /\ z \notin Filed(m) /\ \A u \in Tasks : o[u] # z
      /\ \A u \in Tasks : Coming(j[u]) /\ j[u].zone = z => u = t
  BY DEF Core, ComingKept, Kept
<1>4. \A u \in Tasks : p[u] = IF u = t THEN z ELSE o[u]
  BY DEF Typed
<1>5. \A x : IsUnderway(i, x) <=> IsUnderway(j, x) /\ x # z
  BY NoMoreUnderway DEF Core
<1>z. SameIn(m, d, z)
  <2>1. IsUnderway(j, z)
    BY DEF IsUnderway
  <2>2. QED
    BY <2>1, <1>2 DEF Core, FreshSame
<1>6. Behind(m, d, i)
  BY MoreWriting, BehindSame DEF Core, SameTrees
<1>7. FreshSame(m, d, i)
  BY <1>5 DEF Core, FreshSame
<1>8. OwnKept(m, d, p)
  <2> SUFFICES ASSUME NEW u \in Tasks, p[u] # 0
               PROVE  /\ Kept(m, d, p[u]) /\ p[u] \notin Filed(m)
                      /\ \A v \in Tasks : p[v] = p[u] => v = u
    BY DEF OwnKept
  <2>1. CASE u = t
    BY <2>1, <1>3, <1>4
  <2>2. CASE u # t
    <3>1. p[u] = o[u]
      BY <2>2, <1>4
    <3>2. /\ Kept(m, d, o[u]) /\ o[u] \notin Filed(m)
          /\ \A v \in Tasks : o[v] = o[u] => v = u
      BY <3>1 DEF Core, OwnKept
    <3>3. QED
      BY <3>1, <3>2, <1>3, <1>4
  <2>3. QED
    BY <2>1, <2>2
<1>9. ComingKept(m, d, p, i)
  <2> SUFFICES ASSUME NEW u \in Tasks, Coming(i[u])
               PROVE  /\ IsMarked(m, i[u].zone) /\ i[u].zone \notin Filed(m)
                      /\ i[u].at = "back" => IsMarked(d, i[u].zone)
                      /\ \A v \in Tasks : p[v] # i[u].zone
                      /\ \A v \in Tasks : Coming(i[v]) /\ i[v].zone = i[u].zone => v = u
    BY DEF ComingKept
  <2>1. u # t /\ i[u] = j[u] /\ Coming(j[u])
    BY DEF Others
  <2>2. /\ IsMarked(m, j[u].zone) /\ j[u].zone \notin Filed(m)
        /\ j[u].at = "back" => IsMarked(d, j[u].zone)
        /\ \A v \in Tasks : o[v] # j[u].zone
        /\ \A v \in Tasks : Coming(j[v]) /\ j[v].zone = j[u].zone => v = u
    BY <2>1 DEF Core, ComingKept
  <2>3. j[u].zone # z
    BY <2>1, <1>3
  <2>4. \A v \in Tasks : p[v] # j[u].zone
    BY <2>2, <2>3, <1>4
  <2>5. \A v \in Tasks : Coming(i[v]) => i[v] = j[v]
    BY DEF Others
  <2>6. QED
    BY <2>1, <2>2, <2>4, <2>5
<1>10. NoneLost(m, p, i, c)
  <2> SUFFICES ASSUME c = 0, NEW x \in DataZones, IsMarked(m, x)
               PROVE  x \in Filed(m) \/ (\E u \in Tasks : p[u] = x) \/ IsUnderway(i, x)
    BY DEF NoneLost
  <2>1. x \in Filed(m) \/ (\E u \in Tasks : o[u] = x) \/ IsUnderway(j, x)
    BY DEF Core, NoneLost
  <2>2. ASSUME NEW u \in Tasks, o[u] = x PROVE p[u] = x
    BY <2>2, <1>4, Numbers
  <2>3. p[t] = z
    BY <1>4
  <2> HIDE DEF z
  <2>4. QED
    BY <2>1, <2>2, <2>3, <1>5
<1>11. FillsWritten(m, d, p, i)
  <2> SUFFICES ASSUME NEW u \in Tasks, p[u] # 0, m[<<"index", p[u]>>] # d[<<"index", p[u]>>]
               PROVE  i[u].at = "write" /\ i[u].block = <<"index", p[u]>>
    BY DEF FillsWritten
  <2>1. u # t
    BY <1>4, <1>z DEF SameIn
  <2>2. p[u] = o[u] /\ i[u] = j[u]
    BY <2>1, <1>4 DEF Others
  <2>3. QED
    BY <2>2 DEF Core, FillsWritten
<1>12. QED
  BY <1>6, <1>7, <1>8, <1>9, <1>10, <1>11 DEF Core

(* bfree clears the bit of a zone that a task has.                         *)
LEMMA CoreFree ==
  ASSUME NEW m, NEW d, NEW o, NEW j, NEW c, Typed(m, d, o, j), Core(m, d, o, j, c),
         NEW t \in Tasks, NEW w, NEW p, NEW i, o[t] # 0,
         SameTrees(w, m), Padded(w),
         \A x \in DataZones : IsMarked(w, x) <=> x # o[t] /\ IsMarked(m, x),
         p = [o EXCEPT ![t] = 0], Others(i, j, t),
         j[t].at # "write", ~ Coming(j[t]), ~ Coming(i[t])
  PROVE  Core(w, d, p, i, c)
<1> DEFINE z == o[t]
<1>1. /\ Arrays(w) = Arrays(m) /\ Recorded(w) = Recorded(m) /\ Filed(w) = Filed(m)
      /\ \A x \in DataZones : w[<<"index", x>>] = m[<<"index", x>>]
  BY TreeSame
<1>2. /\ Filed(m) \subseteq DataZones
      /\ \A u \in Tasks : o[u] # 0 => o[u] \in DataZones
      /\ \A u \in Tasks : Coming(j[u]) => j[u].zone \in DataZones
  BY TypedZones
<1>3. /\ z \in DataZones /\ Kept(m, d, z) /\ z \notin Filed(m)
      /\ \A u \in Tasks : o[u] = z => u = t
      /\ \A u \in Tasks : Coming(j[u]) => j[u].zone # z
  BY <1>2 DEF Core, OwnKept, ComingKept
<1>4. \A u \in Tasks : p[u] = IF u = t THEN 0 ELSE o[u]
  BY DEF Typed
<1>5. \A x \in DataZones : x # z => (Kept(w, d, x) <=> Kept(m, d, x))
  BY DEF Kept
<1>6. \A x : IsUnderway(i, x) <=> IsUnderway(j, x)
  BY SameUnderway
<1>7. Behind(w, d, i)
  BY MoreWriting, BehindSame DEF Core
<1>8. SameIn(m, d, z)
  BY DEF Core, FillsWritten, SameIn
<1>9. FreshSame(w, d, i)
  <2> SUFFICES ASSUME NEW x \in DataZones, ~ Kept(w, d, x) \/ IsUnderway(i, x)
               PROVE  SameIn(w, d, x)
    BY DEF FreshSame
  <2>1. CASE x = z
    BY <2>1, <1>1, <1>3, <1>8 DEF SameIn
  <2>2. CASE x # z
    BY <2>2, <1>1, <1>5, <1>6 DEF Core, FreshSame, SameIn
  <2>3. QED
    BY <2>1, <2>2
<1>10. FiledKept(w, d)
  <2> HIDE DEF z
  <2>1. QED
    BY <1>1, <1>2, <1>3, <1>5 DEF Core, FiledKept
<1>11. OwnKept(w, d, p)
  <2> SUFFICES ASSUME NEW u \in Tasks, p[u] # 0
               PROVE  /\ Kept(w, d, p[u]) /\ p[u] \notin Filed(w)
                      /\ \A v \in Tasks : p[v] = p[u] => v = u
    BY DEF OwnKept
  <2>1. u # t /\ p[u] = o[u] /\ o[u] # z /\ o[u] \in DataZones
    BY <1>2, <1>3, <1>4
  <2>2. /\ Kept(m, d, o[u]) /\ o[u] \notin Filed(m)
        /\ \A v \in Tasks : o[v] = o[u] => v = u
    BY <2>1 DEF Core, OwnKept
  <2>3. Kept(w, d, o[u])
    BY <2>1, <2>2, <1>5
  <2>4. QED
    BY <2>1, <2>2, <2>3, <1>1, <1>4
<1>12. ComingKept(w, d, p, i)
  <2> SUFFICES ASSUME NEW u \in Tasks, Coming(i[u])
               PROVE  /\ IsMarked(w, i[u].zone) /\ i[u].zone \notin Filed(w)
                      /\ i[u].at = "back" => IsMarked(d, i[u].zone)
                      /\ \A v \in Tasks : p[v] # i[u].zone
                      /\ \A v \in Tasks : Coming(i[v]) /\ i[v].zone = i[u].zone => v = u
    BY DEF ComingKept
  <2>1. u # t /\ i[u] = j[u] /\ Coming(j[u]) /\ j[u].zone \in DataZones /\ j[u].zone # z
    BY <1>2, <1>3 DEF Others
  <2>2. /\ IsMarked(m, j[u].zone) /\ j[u].zone \notin Filed(m)
        /\ j[u].at = "back" => IsMarked(d, j[u].zone)
        /\ \A v \in Tasks : o[v] # j[u].zone
        /\ \A v \in Tasks : Coming(j[v]) /\ j[v].zone = j[u].zone => v = u
    BY <2>1 DEF Core, ComingKept
  <2>3. \A v \in Tasks : p[v] # j[u].zone
    BY <2>1, <2>2, <1>4, Numbers
  <2>4. \A v \in Tasks : Coming(i[v]) => i[v] = j[v]
    BY DEF Others
  <2>5. QED
    BY <2>1, <2>2, <2>3, <2>4, <1>1
<1>13. NoneLost(w, p, i, c)
  <2> SUFFICES ASSUME c = 0, NEW x \in DataZones, IsMarked(w, x)
               PROVE  x \in Filed(w) \/ (\E u \in Tasks : p[u] = x) \/ IsUnderway(i, x)
    BY DEF NoneLost
  <2>1. x # z /\ IsMarked(m, x)
    OBVIOUS
  <2>2. x \in Filed(m) \/ (\E u \in Tasks : o[u] = x) \/ IsUnderway(j, x)
    BY <2>1 DEF Core, NoneLost
  <2>3. ASSUME NEW u \in Tasks, o[u] = x PROVE p[u] = x
    BY <2>1, <2>3, <1>4
  <2>4. QED
    BY <2>2, <2>3, <1>1, <1>6
<1>14. FillsWritten(w, d, p, i)
  <2> SUFFICES ASSUME NEW u \in Tasks, p[u] # 0, w[<<"index", p[u]>>] # d[<<"index", p[u]>>]
               PROVE  i[u].at = "write" /\ i[u].block = <<"index", p[u]>>
    BY DEF FillsWritten
  <2>1. u # t /\ p[u] = o[u] /\ i[u] = j[u] /\ o[u] \in DataZones
    BY <1>2, <1>4 DEF Others
  <2>2. w[<<"index", o[u]>>] = m[<<"index", o[u]>>]
    BY <2>1 DEF SameTrees
  <2>3. QED
    BY <2>1, <2>2 DEF Core, FillsWritten
<1>15. QED
  BY <1>1, <1>7, <1>9, <1>10, <1>11, <1>12, <1>13, <1>14 DEF Core, Once

(* The owner of a zone fills it.                                           *)
LEMMA CoreFill ==
  ASSUME NEW m, NEW d, NEW o, NEW j, NEW c, Typed(m, d, o, j), Core(m, d, o, j, c),
         NEW t \in Tasks, NEW w, NEW i, o[t] # 0,
         w[NodeBlock] = m[NodeBlock], SameZmaps(w, m),
         \A x \in DataZones : x # o[t] => w[<<"index", x>>] = m[<<"index", x>>],
         Others(i, j, t), j[t].at # "write", ~ Coming(j[t]), ~ Coming(i[t]),
         i[t].at = "write", i[t].block = <<"index", o[t]>>
  PROVE  Core(w, d, o, i, c) /\ Extends(w, m)
<1> DEFINE z == o[t]
<1>1. /\ Filed(m) \subseteq DataZones /\ Arrays(m) \subseteq Filed(m)
      /\ \A u \in Tasks : o[u] # 0 => o[u] \in DataZones
      /\ \A u \in Tasks : Coming(j[u]) => j[u].zone \in DataZones
  BY TypedZones
<1>2. /\ z \in DataZones /\ Kept(m, d, z) /\ z \notin Filed(m)
      /\ \A u \in Tasks : o[u] = z => u = t
      /\ \A u \in Tasks : Coming(j[u]) => j[u].zone # z
  BY <1>1 DEF Core, OwnKept, ComingKept
<1>3. \A x \in Arrays(m) : w[<<"index", x>>] = m[<<"index", x>>]
  BY <1>1, <1>2
<1>4. Arrays(w) = Arrays(m) /\ Recorded(w) = Recorded(m) /\ Filed(w) = Filed(m)
  BY <1>3, SameRecords DEF Filed
<1>5. (\A x \in DataZones : IsMarked(w, x) <=> IsMarked(m, x)) /\ Padded(w)
  BY SameMarks DEF Core
<1>6. \A x \in DataZones : Kept(w, d, x) <=> Kept(m, d, x)
  BY <1>5 DEF Kept
<1>7. \A x : IsUnderway(i, x) <=> IsUnderway(j, x)
  BY SameUnderway
<1>8. /\ \A n, k : NodeAt(w, n, k) = NodeAt(m, n, k)
      /\ \A x \in Arrays(m) : \A k : At(w, x, k) = At(m, x, k)
  BY <1>3 DEF NodeAt, At
<1>9. Behind(w, d, i)
  <2>1. /\ \A n, k : WritesNode(j, n, k) => WritesNode(i, n, k)
        /\ \A x, k : WritesIndex(j, x, k) => WritesIndex(i, x, k)
    BY MoreWriting
  <2>2. ASSUME NEW n \in Files, NEW k \in 0 .. Direct + 1, NodeAt(w, n, k) # NodeAt(d, n, k)
        PROVE  NodeAt(d, n, k) = 0 /\ WritesNode(i, n, k)
    BY <1>8, <2>1, <2>2 DEF Core, Behind
  <2>3. ASSUME NEW x \in Arrays(w), NEW k \in 0 .. Indexes - 1, At(w, x, k) # At(d, x, k)
        PROVE  At(d, x, k) = 0 /\ WritesIndex(i, x, k)
    BY <1>4, <1>8, <2>1, <2>3 DEF Core, Behind
  <2>4. QED
    BY <2>2, <2>3 DEF Behind
<1>10. FreshSame(w, d, i)
  <2> SUFFICES ASSUME NEW x \in DataZones, ~ Kept(w, d, x) \/ IsUnderway(i, x)
               PROVE  SameIn(w, d, x)
    BY DEF FreshSame
  <2>1. ~ Kept(m, d, x) \/ IsUnderway(j, x)
    BY <1>6, <1>7
  <2>2. x # z
    BY <2>1, <1>2 DEF IsUnderway
  <2>3. SameIn(m, d, x)
    BY <2>1 DEF Core, FreshSame
  <2>4. QED
    BY <2>2, <2>3 DEF SameIn
<1>11. FiledKept(w, d)
  BY <1>1, <1>4, <1>6 DEF Core, FiledKept
<1>12. OwnKept(w, d, o)
  BY <1>1, <1>4, <1>6 DEF Core, OwnKept
<1>13. \A u \in Tasks : Coming(i[u]) => i[u] = j[u] /\ Coming(j[u]) /\ j[u].zone \in DataZones
  BY <1>1 DEF Others
<1>14. ComingKept(w, d, o, i)
  BY <1>4, <1>5, <1>13 DEF Core, ComingKept
<1>15. NoneLost(w, o, i, c)
  BY <1>4, <1>5, <1>7 DEF Core, NoneLost
<1>16. FillsWritten(w, d, o, i)
  <2> SUFFICES ASSUME NEW u \in Tasks, o[u] # 0, w[<<"index", o[u]>>] # d[<<"index", o[u]>>]
               PROVE  i[u].at = "write" /\ i[u].block = <<"index", o[u]>>
    BY DEF FillsWritten
  <2>1. CASE u = t
    BY <2>1
  <2>2. CASE u # t
    <3>1. o[u] # z /\ o[u] \in DataZones /\ i[u] = j[u]
      BY <2>2, <1>1, <1>2 DEF Others
    <3>2. w[<<"index", o[u]>>] = m[<<"index", o[u]>>]
      BY <3>1
    <3>3. QED
      BY <3>1, <3>2 DEF Core, FillsWritten
  <2>3. QED
    BY <2>1, <2>2
<1>17. Extends(w, m)
  BY <1>4, <1>8 DEF Extends
<1>18. QED
  BY <1>4, <1>5, <1>9, <1>10, <1>11, <1>12, <1>14, <1>15, <1>16, <1>17 DEF Core, Once

LEMMA ExtendsSame ==
  ASSUME NEW w, NEW m, SameTrees(w, m)
  PROVE  Extends(w, m)
BY TreeSame, ArraysZones DEF Extends

LEMMA DiskBehind ==
  ASSUME NEW m, NEW d, NEW j, Behind(m, d, j)
  PROVE  Extends(m, d)
BY DEF Behind, Extends

\* Where r says, t is about to write what it has entered.
Enters(i, t, r) ==
    /\ r[1] = "node" => Writing(i, t, NodeBlock) /\ i[t].file = r[2] /\ Head(i[t].path) = r[3]
    /\ r[1] = "index" => Writing(i, t, <<"index", r[2]>>) /\ Head(i[t].path) = r[3]

(* bmap enters a zone, or EOF, at an empty place.                          *)
LEMMA CorePut ==
  ASSUME NEW m, NEW d, NEW o, NEW j, NEW c, Typed(m, d, o, j), Core(m, d, o, j, c),
         NEW t \in Tasks, NEW w, NEW i, NEW r, Blocks(w), Puts(w, m, r), SameZmaps(w, m),
         Others(i, j, t), j[t].at # "write", ~ Coming(i[t]), Enters(i, t, r),
         r[4] # Eof /\ r[4] \in Arrays(w) => ClearIn(m, r[4]),
         r[1] = "node" => NodeAt(d, r[2], r[3]) = 0,
         r[1] = "index" => At(d, r[2], r[3]) = 0,
         IF r[4] = Eof THEN ~ Coming(j[t])
         ELSE Coming(j[t]) /\ j[t].zone = r[4] /\ j[t].at = "back"
  PROVE  Core(w, d, o, i, c)
<1> DEFINE v == r[4]
<1>1. /\ Filed(m) \subseteq DataZones /\ Arrays(m) \subseteq Filed(m)
      /\ \A u \in Tasks : o[u] # 0 => o[u] \in DataZones
      /\ \A u \in Tasks : Coming(j[u]) => j[u].zone \in DataZones
  BY TypedZones
<1>2. v # Eof => /\ v \in DataZones /\ Kept(m, d, v) /\ v \notin Filed(m)
                 /\ \A u \in Tasks : o[u] # v
                 /\ \A u \in Tasks : Coming(j[u]) /\ j[u].zone = v => u = t
                 /\ IsUnderway(j, v) /\ SameIn(m, d, v)
  <2> SUFFICES ASSUME v # Eof
               PROVE /\ v \in DataZones /\ Kept(m, d, v) /\ v \notin Filed(m)
                     /\ \A u \in Tasks : o[u] # v
                     /\ \A u \in Tasks : Coming(j[u]) /\ j[u].zone = v => u = t
                     /\ IsUnderway(j, v) /\ SameIn(m, d, v)
    OBVIOUS
  <2>1. Coming(j[t]) /\ j[t].zone = v /\ j[t].at = "back" /\ v \in DataZones
    BY <1>1
  <2>2. /\ Kept(m, d, v) /\ v \notin Filed(m) /\ \A u \in Tasks : o[u] # v
        /\ \A u \in Tasks : Coming(j[u]) /\ j[u].zone = v => u = t
    BY <2>1 DEF Core, ComingKept, Kept
  <2>3. IsUnderway(j, v)
    BY <2>1 DEF IsUnderway
  <2>4. SameIn(m, d, v)
    BY <2>1, <2>3 DEF Core, FreshSame
  <2>5. QED
    BY <2>1, <2>2, <2>3, <2>4
<1>3. Tree(m) /\ Once(m)
  BY Entries DEF Typed, Core
<1>4. /\ Arrays(w) \subseteq Arrays(m) \cup ({v} \ {Eof}) /\ Arrays(m) \subseteq Arrays(w)
      /\ Once(w) /\ Filed(w) = Filed(m) \cup ({v} \ {Eof})
  <2>1. v # Eof => v \notin Zoned(Recorded(m)) /\ (v \in Arrays(w) => ClearIn(m, v))
    BY <1>2 DEF Filed
  <2>2. Once(w) /\ Filed(w) = Filed(m) \cup ({v} \ {Eof})
    BY <1>3, <2>1, PutsOnce DEF Filed
  <2>3. Arrays(w) \subseteq Arrays(m) \cup ({v} \ {Eof})
    BY <1>3, <2>1, PutsRecords
  <2>4. Arrays(m) \subseteq Arrays(w)
    BY PutsExtends, ExtendsArrays
  <2>5. QED
    BY <2>2, <2>3, <2>4
<1>5. (\A x \in DataZones : IsMarked(w, x) <=> IsMarked(m, x)) /\ Padded(w)
  BY SameMarks DEF Core
<1>6. \A x \in DataZones : Kept(w, d, x) <=> Kept(m, d, x)
  BY <1>5 DEF Kept
<1>7. \A x : IsUnderway(i, x) <=> IsUnderway(j, x) /\ x # v
  <2>1. CASE v = Eof
    <3>1. \A x : IsUnderway(i, x) <=> IsUnderway(j, x)
      BY <2>1, SameUnderway
    <3>2. ~ IsUnderway(j, Eof)
      BY DEF IsUnderway, Coming
    <3>3. QED
      BY <2>1, <3>1, <3>2
  <2>2. CASE v # Eof
    BY <2>2, NoMoreUnderway DEF Core
  <2>3. QED
    BY <2>1, <2>2
<1>8. /\ \A n, k : WritesNode(j, n, k) => WritesNode(i, n, k)
      /\ \A x, k : WritesIndex(j, x, k) => WritesIndex(i, x, k)
  BY MoreWriting
<1>9. /\ r[1] = "node" => WritesNode(i, r[2], r[3])
      /\ r[1] = "index" => WritesIndex(i, r[2], r[3])
  BY DEF Enters, WritesNode, WritesIndex
<1>10. Behind(w, d, i)
  <2>1. ASSUME NEW n \in Files, NEW k \in 0 .. Direct + 1, NodeAt(w, n, k) # NodeAt(d, n, k)
        PROVE  NodeAt(d, n, k) = 0 /\ WritesNode(i, n, k)
    <3>1. CASE r[1] = "node" /\ r[2] = n /\ r[3] = k
      BY <3>1, <1>9
    <3>2. CASE ~ (r[1] = "node" /\ r[2] = n /\ r[3] = k)
      <4>1. NodeAt(w, n, k) = NodeAt(m, n, k)
        BY <3>2 DEF Puts
      <4>2. QED
        BY <4>1, <2>1, <1>8 DEF Core, Behind
    <3>3. QED
      BY <3>1, <3>2
  <2>2. ASSUME NEW x \in Arrays(w), NEW k \in 0 .. Indexes - 1, At(w, x, k) # At(d, x, k)
        PROVE  At(d, x, k) = 0 /\ WritesIndex(i, x, k)
    <3>0. x \in DataZones
      BY ArraysZones
    <3>1. CASE r[1] = "index" /\ r[2] = x /\ r[3] = k
      BY <3>1, <1>9
    <3>2. CASE ~ (r[1] = "index" /\ r[2] = x /\ r[3] = k)
      <4>1. At(w, x, k) = At(m, x, k)
        BY <3>0, <3>2 DEF Puts
      <4>2. CASE x \in Arrays(m)
        BY <4>1, <4>2, <2>2, <1>8 DEF Core, Behind
      <4>3. CASE x \notin Arrays(m)
        <5>1. SameIn(m, d, x)
          BY <4>3, <1>2, <1>4
        <5>2. At(m, x, k) = At(d, x, k)
          BY <5>1 DEF SameIn, At
        <5>3. QED
          BY <5>2, <4>1, <2>2
      <4>4. QED
        BY <4>2, <4>3
    <3>3. QED
      BY <3>1, <3>2
  <2>3. QED
    BY <2>1, <2>2 DEF Behind
<1>11. \A x \in DataZones : x \notin Arrays(m) => w[<<"index", x>>] = m[<<"index", x>>]
  <2> SUFFICES ASSUME NEW x \in DataZones, x \notin Arrays(m)
               PROVE  w[<<"index", x>>] = m[<<"index", x>>]
    OBVIOUS
  <2>1. r[1] = "index" => r[2] # x
    BY DEF Puts
  <2>2. \A k \in 0 .. Indexes - 1 : At(w, x, k) = At(m, x, k)
    BY <2>1 DEF Puts
  <2>3. w[<<"index", x>>] \in Index /\ m[<<"index", x>>] \in Index
    <3>1. Blocks(m)
      BY DEF Typed
    <3>2. QED
      BY <3>1 DEF Blocks
  <2> DEFINE f == w[<<"index", x>>]   g == m[<<"index", x>>]
  <2>4. \A k \in 0 .. Indexes - 1 : f[k] = g[k]
    BY <2>2 DEF At
  <2>5. f \in [0 .. Indexes - 1 -> Refs] /\ g \in [0 .. Indexes - 1 -> Refs]
    BY <2>3 DEF Index
  <2> HIDE DEF f, g
  <2>6. f = g
    <3> DEFINE K == 0 .. Indexes - 1
    <3>1. /\ \A k \in K : f[k] = g[k]
          /\ f = [k \in K |-> f[k]] /\ g = [k \in K |-> g[k]]
      BY <2>4, <2>5
    <3> HIDE DEF K
    <3>2. [k \in K |-> f[k]] = [k \in K |-> g[k]]
      BY <3>1
    <3>3. QED
      BY <3>1, <3>2
  <2>7. QED
    BY <2>6 DEF f, g
<1>12. FreshSame(w, d, i)
  <2> SUFFICES ASSUME NEW x \in DataZones, ~ Kept(w, d, x) \/ IsUnderway(i, x)
               PROVE  SameIn(w, d, x)
    BY DEF FreshSame
  <2>1. ~ Kept(m, d, x) \/ IsUnderway(j, x)
    BY <1>6, <1>7
  <2>2. x \notin Filed(m)
    BY <2>1 DEF Core, FiledKept, ComingKept, IsUnderway
  <2>3. x \notin Arrays(m)
    BY <2>2, <1>1
  <2>4. SameIn(m, d, x)
    BY <2>1 DEF Core, FreshSame
  <2>5. QED
    BY <2>3, <2>4, <1>11 DEF SameIn
<1>13. FiledKept(w, d)
  <2> SUFFICES ASSUME NEW x \in Filed(w) PROVE Kept(w, d, x)
    BY DEF FiledKept
  <2>1. CASE x \in Filed(m)
    BY <2>1, <1>1, <1>6 DEF Core, FiledKept
  <2>2. CASE x = v /\ v # Eof
    BY <2>2, <1>2, <1>6
  <2>3. QED
    BY <2>1, <2>2, <1>4
<1>14. OwnKept(w, d, o)
  <2> SUFFICES ASSUME NEW u \in Tasks, o[u] # 0
               PROVE  /\ Kept(w, d, o[u]) /\ o[u] \notin Filed(w)
                      /\ \A x \in Tasks : o[x] = o[u] => x = u
    BY DEF OwnKept
  <2>1. /\ Kept(m, d, o[u]) /\ o[u] \notin Filed(m) /\ o[u] \in DataZones
        /\ \A x \in Tasks : o[x] = o[u] => x = u
    BY <1>1 DEF Core, OwnKept
  <2>2. v # Eof => o[u] # v
    BY <1>2
  <2>3. QED
    BY <2>1, <2>2, <1>4, <1>6
<1>15. ComingKept(w, d, o, i)
  <2> SUFFICES ASSUME NEW u \in Tasks, Coming(i[u])
               PROVE  /\ IsMarked(w, i[u].zone) /\ i[u].zone \notin Filed(w)
                      /\ i[u].at = "back" => IsMarked(d, i[u].zone)
                      /\ \A x \in Tasks : o[x] # i[u].zone
                      /\ \A x \in Tasks : Coming(i[x]) /\ i[x].zone = i[u].zone => x = u
    BY DEF ComingKept
  <2>1. u # t /\ i[u] = j[u] /\ Coming(j[u]) /\ j[u].zone \in DataZones
    BY <1>1 DEF Others
  <2>2. /\ IsMarked(m, j[u].zone) /\ j[u].zone \notin Filed(m)
        /\ j[u].at = "back" => IsMarked(d, j[u].zone)
        /\ \A x \in Tasks : o[x] # j[u].zone
        /\ \A x \in Tasks : Coming(j[x]) /\ j[x].zone = j[u].zone => x = u
    BY <2>1 DEF Core, ComingKept
  <2>3. v # Eof => j[u].zone # v
    BY <2>1, <1>2
  <2>4. \A x \in Tasks : Coming(i[x]) => i[x] = j[x]
    BY DEF Others
  <2>5. QED
    BY <2>1, <2>2, <2>3, <2>4, <1>4, <1>5
<1>16. NoneLost(w, o, i, c)
  BY <1>4, <1>5, <1>7, Numbers DEF Core, NoneLost
<1>17. FillsWritten(w, d, o, i)
  <2> SUFFICES ASSUME NEW u \in Tasks, o[u] # 0, w[<<"index", o[u]>>] # d[<<"index", o[u]>>]
               PROVE  i[u].at = "write" /\ i[u].block = <<"index", o[u]>>
    BY DEF FillsWritten
  <2>0. o[u] \in DataZones /\ o[u] \notin Filed(m)
    BY <1>1 DEF Core, OwnKept
  <2>1. o[u] \in DataZones /\ o[u] \notin Arrays(m)
    BY <2>0, <1>1
  <2>a. m[<<"index", o[u]>>] # d[<<"index", o[u]>>]
    BY <2>1, <1>11
  <2>2. j[u].at = "write" /\ j[u].block = <<"index", o[u]>>
    BY <2>a DEF Core, FillsWritten
  <2>3. QED
    BY <2>2 DEF Others
<1>18. QED
  BY <1>4, <1>5, <1>10, <1>12, <1>13, <1>14, <1>15, <1>16, <1>17 DEF Core

\* e is d but for the block b, which is as in m.
Copies(e, d, m, b) == \A x \in BlockNames : e[x] = IF x = b THEN m[x] ELSE d[x]

LEMMA CopyBlock ==
  ASSUME NEW m, NEW d, Blocks(m), Blocks(d), NEW b \in BlockNames
  PROVE  Blocks([d EXCEPT ![b] = m[b]]) /\ Copies([d EXCEPT ![b] = m[b]], d, m, b)
<1>1. OfKind(b, m[b])
  BY KindOf
<1>2. Blocks([d EXCEPT ![b] = m[b]]) /\ Stores([d EXCEPT ![b] = m[b]], d, b, m[b])
  BY <1>1, StoreOne
<1>3. Copies([d EXCEPT ![b] = m[b]], d, m, b)
  BY <1>2 DEF Stores, Copies
<1>4. QED
  BY <1>2, <1>3

(* A transfer: the disk gets a block as the tasks see it.                  *)
LEMMA CoreCopy ==
  ASSUME NEW m, NEW d, NEW o, NEW j, NEW c, Typed(m, d, o, j), Core(m, d, o, j, c),
         NEW t \in Tasks, NEW e, NEW i, NEW b \in BlockNames, Copies(e, d, m, b),
         Others(i, j, t), j[t].at = "write", j[t].block = b, i[t].at = "back",
         Coming(i[t]) <=> Coming(j[t]), i[t].zone = j[t].zone
  PROVE  Core(m, e, o, i, c) /\ Extends(e, d)
<1>1. /\ Filed(m) \subseteq DataZones /\ Arrays(m) \subseteq Filed(m)
      /\ \A u \in Tasks : o[u] # 0 => o[u] \in DataZones
      /\ \A u \in Tasks : Coming(j[u]) => j[u].zone \in DataZones
  BY TypedZones
<1>2. \A x \in BlockNames : e[x] = IF x = b THEN m[x] ELSE d[x]
  BY DEF Copies
<1>3. \A x \in DataZones : IsMarked(e, x) <=> IF b = <<"zmap", MapOf(x)>> THEN IsMarked(m, x)
                                              ELSE IsMarked(d, x)
  BY <1>2, Names, ZoneBits DEF IsMarked
<1>4. Padded(e)
  BY <1>2, Names DEF Core, Padded
<1>5. \A x \in DataZones : Kept(m, d, x) => Kept(m, e, x)
  BY <1>3 DEF Kept
<1>6. \A x \in DataZones : IsUnderway(i, x) <=> IsUnderway(j, x)
  BY DEF Others, IsUnderway
<1>7. /\ \A n, k : NodeAt(e, n, k) = IF b = NodeBlock THEN NodeAt(m, n, k) ELSE NodeAt(d, n, k)
      /\ \A x \in DataZones : \A k : At(e, x, k) = IF b = <<"index", x>> THEN At(m, x, k) ELSE At(d, x, k)
  BY <1>2, Names DEF NodeAt, At
<1>8. Behind(m, e, i)
  <2>1. ASSUME NEW n \in Files, NEW k \in 0 .. Direct + 1, NodeAt(m, n, k) # NodeAt(e, n, k)
        PROVE  NodeAt(e, n, k) = 0 /\ WritesNode(i, n, k)
    <3>1. b # NodeBlock /\ NodeAt(e, n, k) = NodeAt(d, n, k)
      BY <2>1, <1>7
    <3>2. NodeAt(d, n, k) = 0 /\ WritesNode(j, n, k)
      BY <2>1, <3>1 DEF Core, Behind
    <3>3. PICK u \in Tasks : Writing(j, u, NodeBlock) /\ j[u].file = n /\ Head(j[u].path) = k
      BY <3>2 DEF WritesNode
    <3>4. i[u] = j[u]
      BY <3>1, <3>3 DEF Writing, Others
    <3>5. WritesNode(i, n, k)
      BY <3>3, <3>4 DEF WritesNode, Writing
    <3>6. QED
      BY <3>1, <3>2, <3>5
  <2>2. ASSUME NEW x \in Arrays(m), NEW k \in 0 .. Indexes - 1, At(m, x, k) # At(e, x, k)
        PROVE  At(e, x, k) = 0 /\ WritesIndex(i, x, k)
    <3>0. x \in DataZones
      BY ArraysZones
    <3>1. b # <<"index", x>> /\ At(e, x, k) = At(d, x, k)
      BY <2>2, <3>0, <1>7
    <3>2. At(d, x, k) = 0 /\ WritesIndex(j, x, k)
      BY <2>2, <3>1 DEF Core, Behind
    <3>3. PICK u \in Tasks : Writing(j, u, <<"index", x>>) /\ Head(j[u].path) = k
      BY <3>2 DEF WritesIndex
    <3>4. i[u] = j[u]
      BY <3>1, <3>3 DEF Writing, Others
    <3>5. WritesIndex(i, x, k)
      BY <3>3, <3>4 DEF WritesIndex, Writing
    <3>6. QED
      BY <3>1, <3>2, <3>5
  <2>3. QED
    BY <2>1, <2>2 DEF Behind
<1>9. FreshSame(m, e, i)
  <2> SUFFICES ASSUME NEW x \in DataZones, ~ Kept(m, e, x) \/ IsUnderway(i, x)
               PROVE  SameIn(m, e, x)
    BY DEF FreshSame
  <2>1. ~ Kept(m, d, x) \/ IsUnderway(j, x)
    BY <1>5, <1>6
  <2>2. SameIn(m, d, x)
    BY <2>1 DEF Core, FreshSame
  <2>3. QED
    BY <2>2, <1>2, Names DEF SameIn
<1>10. FiledKept(m, e)
  BY <1>1, <1>5 DEF Core, FiledKept
<1>11. OwnKept(m, e, o)
  BY <1>1, <1>5 DEF Core, OwnKept
<1>12. ComingKept(m, e, o, i)
  <2> SUFFICES ASSUME NEW u \in Tasks, Coming(i[u])
               PROVE  /\ IsMarked(m, i[u].zone) /\ i[u].zone \notin Filed(m)
                      /\ i[u].at = "back" => IsMarked(e, i[u].zone)
                      /\ \A v \in Tasks : o[v] # i[u].zone
                      /\ \A v \in Tasks : Coming(i[v]) /\ i[v].zone = i[u].zone => v = u
    BY DEF ComingKept
  <2>1. \A v \in Tasks : (Coming(i[v]) <=> Coming(j[v])) /\ (Coming(i[v]) => i[v].zone = j[v].zone)
    BY DEF Others
  <2>2. Coming(j[u]) /\ i[u].zone = j[u].zone /\ j[u].zone \in DataZones
    BY <2>1, <1>1
  <2>3. /\ IsMarked(m, j[u].zone) /\ j[u].zone \notin Filed(m)
        /\ j[u].at = "back" => IsMarked(d, j[u].zone)
        /\ \A v \in Tasks : o[v] # j[u].zone
        /\ \A v \in Tasks : Coming(j[v]) /\ j[v].zone = j[u].zone => v = u
    BY <2>2 DEF Core, ComingKept
  <2>4. i[u].at = "back" => IsMarked(e, j[u].zone)
    <3>1. CASE u = t
      <4>1. Shape(j[t])
        BY DEF Typed
      <4>2. b = <<"zmap", MapOf(j[t].zone)>>
        BY <3>1, <2>2, <4>1, ComingZone
      <4>3. QED
        BY <3>1, <2>2, <2>3, <4>2, <1>3
    <3>2. CASE u # t
      <4>1. i[u] = j[u]
        BY <3>2 DEF Others
      <4>2. QED
        BY <4>1, <2>2, <2>3, <1>3
    <3>3. QED
      BY <3>1, <3>2
  <2>5. QED
    BY <2>1, <2>2, <2>3, <2>4
<1>13. NoneLost(m, o, i, c)
  BY <1>6 DEF Core, NoneLost
<1>14. FillsWritten(m, e, o, i)
  <2> SUFFICES ASSUME NEW u \in Tasks, o[u] # 0, m[<<"index", o[u]>>] # e[<<"index", o[u]>>]
               PROVE  i[u].at = "write" /\ i[u].block = <<"index", o[u]>>
    BY DEF FillsWritten
  <2>1. <<"index", o[u]>> \in BlockNames
    BY <1>1, Names
  <2>2. b # <<"index", o[u]>> /\ m[<<"index", o[u]>>] # d[<<"index", o[u]>>]
    BY <2>1, <1>2
  <2>3. j[u].at = "write" /\ j[u].block = <<"index", o[u]>>
    BY <2>2 DEF Core, FillsWritten
  <2>4. u # t
    BY <2>2, <2>3
  <2>5. QED
    BY <2>3, <2>4 DEF Others
<1>15. Extends(e, d)
  <2>1. Extends(m, e)
    BY <1>8, DiskBehind
  <2>2. Extends(m, d)
    BY DiskBehind DEF Core
  <2>3. Arrays(e) \subseteq Arrays(m)
    BY <2>1, ExtendsArrays
  <2>4. \A n \in Files, k \in 0 .. Direct + 1 :
           NodeAt(d, n, k) # 0 => NodeAt(e, n, k) = NodeAt(d, n, k)
    BY <2>2, <1>7 DEF Extends
  <2>5. \A z \in Arrays(e), k \in 0 .. Indexes - 1 : At(d, z, k) # 0 => At(e, z, k) = At(d, z, k)
    BY <2>2, <2>3, <1>7, ArraysZones DEF Extends
  <2>6. QED
    BY <2>4, <2>5 DEF Extends
<1>16. QED
  BY <1>4, <1>8, <1>9, <1>10, <1>11, <1>12, <1>13, <1>14, <1>15 DEF Core

(* The power fails: the tasks and their zones are gone, and what is seen   *)
(* is what the disk has.                                                   *)
LEMMA CoreCrash ==
  ASSUME NEW m, NEW d, NEW o, NEW j, NEW c, Typed(m, d, o, j), Core(m, d, o, j, c),
         NEW p, NEW i, NEW k, k # 0,
         \A u \in Tasks : p[u] = 0, \A u \in Tasks : i[u].at = "idle"
  PROVE  Core(d, d, p, i, k)
<1>1. Filed(m) \subseteq DataZones
  BY TypedZones
<1>2. Recorded(d) \subseteq Recorded(m)
  BY DiskBehind, ExtendsArrays DEF Core
<1>3. Filed(d) \subseteq Filed(m)
  BY <1>2 DEF Filed, Zoned
<1>4. \A z : ~ IsUnderway(i, z)
  BY DEF IsUnderway, Coming
<1>5. Once(d)
  BY <1>2 DEF Core, Once
<1>6. Behind(d, d, i)
  BY DEF Behind
<1>7. FreshSame(d, d, i)
  BY DEF FreshSame, SameIn
<1>8. FiledKept(d, d)
  BY <1>3 DEF Core, FiledKept, Kept
<1>9. OwnKept(d, d, p) /\ NoneLost(d, p, i, k) /\ FillsWritten(d, d, p, i)
  BY DEF OwnKept, NoneLost, FillsWritten
<1>10. ComingKept(d, d, p, i)
  BY DEF ComingKept, Coming
<1>11. QED
  BY <1>5, <1>6, <1>7, <1>8, <1>9, <1>10 DEF Core

-----------------------------------------------------------------------------
(* Records of jobs, field by field.                                        *)
AnyRecs == RecsAt({"idle", "look", "write", "back"})

\* h is g but for the fields at, block and then; but for at, buf and path.
WritesAs(h, g, b, x) ==
    /\ h.at = "write" /\ h.block = b /\ h.then = x
    /\ h.zone = g.zone /\ h.slot = g.slot /\ h.file = g.file /\ h.asked = g.asked
    /\ h.make = g.make /\ h.buf = g.buf /\ h.path = g.path
LooksAs(h, g, b) ==
    /\ h.at = "look" /\ h.buf = b /\ h.path = Tail(g.path)
    /\ h.block = g.block /\ h.then = g.then /\ h.zone = g.zone /\ h.slot = g.slot
    /\ h.file = g.file /\ h.asked = g.asked /\ h.make = g.make
ZonedAs(h, g, z) ==
    /\ h.zone = z
    /\ h.at = g.at /\ h.block = g.block /\ h.then = g.then /\ h.slot = g.slot
    /\ h.file = g.file /\ h.asked = g.asked /\ h.make = g.make
    /\ h.buf = g.buf /\ h.path = g.path
BackAs(h, g) ==
    /\ h.at = "back"
    /\ h.block = g.block /\ h.then = g.then /\ h.zone = g.zone /\ h.slot = g.slot
    /\ h.file = g.file /\ h.asked = g.asked /\ h.make = g.make
    /\ h.buf = g.buf /\ h.path = g.path

LEMMA WriteFields ==
  ASSUME NEW g \in AnyRecs, NEW b \in BlockNames, NEW x \in Thens
  PROVE  LET h == [g EXCEPT !.at = "write", !.block = b, !.then = x] IN
         h \in JobRecs /\ WritesAs(h, g, b, x)
<1> DEFINE h1 == [g EXCEPT !.at = "write"]
           h2 == [h1 EXCEPT !.block = b]
           h3 == [h2 EXCEPT !.then = x]
<1>1. /\ h1 \in JobRecs /\ h1.at = "write"
      /\ h1.block = g.block /\ h1.then = g.then /\ h1.zone = g.zone /\ h1.slot = g.slot
      /\ h1.file = g.file /\ h1.asked = g.asked /\ h1.make = g.make
      /\ h1.buf = g.buf /\ h1.path = g.path
  BY DEF AnyRecs, JobRecs, RecsAt
<1> HIDE DEF h1
<1>2. /\ h2 \in JobRecs /\ h2.block = b
      /\ h2.at = h1.at /\ h2.then = h1.then /\ h2.zone = h1.zone /\ h2.slot = h1.slot
      /\ h2.file = h1.file /\ h2.asked = h1.asked /\ h2.make = h1.make
      /\ h2.buf = h1.buf /\ h2.path = h1.path
  BY <1>1 DEF JobRecs, RecsAt
<1> HIDE DEF h2
<1>3. /\ h3 \in JobRecs /\ h3.then = x
      /\ h3.at = h2.at /\ h3.block = h2.block /\ h3.zone = h2.zone /\ h3.slot = h2.slot
      /\ h3.file = h2.file /\ h3.asked = h2.asked /\ h3.make = h2.make
      /\ h3.buf = h2.buf /\ h3.path = h2.path
  BY <1>2 DEF JobRecs, RecsAt
<1>4. h3 = [g EXCEPT !.at = "write", !.block = b, !.then = x]
  BY DEF h1, h2, h3
<1> HIDE DEF h3
<1>5. h3 \in JobRecs /\ WritesAs(h3, g, b, x)
  BY <1>1, <1>2, <1>3 DEF WritesAs
<1>6. QED
  BY <1>4, <1>5

LooksFrom(h, g, b) == h = [g EXCEPT !.at = "look", !.buf = b, !.path = Tail(@)]

LEMMA LookFields ==
  ASSUME NEW g \in AnyRecs, g.path # <<>>, NEW b \in {"index"} \X (DataZones \cup {Eof}),
         NEW h, LooksFrom(h, g, b)
  PROVE  h \in JobRecs /\ LooksAs(h, g, b)
<1> DEFINE h1 == [g EXCEPT !.at = "look"]
           h2 == [h1 EXCEPT !.buf = b]
           h3 == [h2 EXCEPT !.path = Tail(g.path)]
<1>1. /\ h1 \in JobRecs /\ h1.at = "look"
      /\ h1.block = g.block /\ h1.then = g.then /\ h1.zone = g.zone /\ h1.slot = g.slot
      /\ h1.file = g.file /\ h1.asked = g.asked /\ h1.make = g.make
      /\ h1.buf = g.buf /\ h1.path = g.path
  BY DEF AnyRecs, JobRecs, RecsAt
<1> HIDE DEF h1
<1>2. /\ h2 \in JobRecs /\ h2.buf = b
      /\ h2.at = h1.at /\ h2.then = h1.then /\ h2.zone = h1.zone /\ h2.slot = h1.slot
      /\ h2.file = h1.file /\ h2.asked = h1.asked /\ h2.make = h1.make
      /\ h2.block = h1.block /\ h2.path = h1.path
  BY <1>1 DEF JobRecs, RecsAt
<1> HIDE DEF h2
<1>0. g.path \in Seq(Nat)
  BY DEF AnyRecs, RecsAt
<1>p. Tail(g.path) \in Seq(Nat)
  BY <1>0
<1>3. /\ h3 \in JobRecs /\ h3.path = Tail(g.path)
      /\ h3.at = h2.at /\ h3.block = h2.block /\ h3.zone = h2.zone /\ h3.slot = h2.slot
      /\ h3.file = h2.file /\ h3.asked = h2.asked /\ h3.make = h2.make
      /\ h3.buf = h2.buf /\ h3.then = h2.then
  BY <1>2, <1>p DEF JobRecs, RecsAt
<1>4. h3 = h
  BY DEF h1, h2, h3, AnyRecs, RecsAt, LooksFrom
<1> HIDE DEF h3
<1>5. h3 \in JobRecs /\ LooksAs(h3, g, b)
  BY <1>1, <1>2, <1>3 DEF LooksAs
<1>6. QED
  BY <1>4, <1>5

LEMMA ZoneFields ==
  ASSUME NEW g \in AnyRecs, NEW z \in Int
  PROVE  LET h == [g EXCEPT !.zone = z] IN h \in AnyRecs /\ ZonedAs(h, g, z)
BY DEF AnyRecs, RecsAt, ZonedAs

LEMMA BackFields ==
  ASSUME NEW g \in JobRecs
  PROVE  LET h == [g EXCEPT !.at = "back"] IN h \in JobRecs /\ BackAs(h, g)
BY DEF JobRecs, RecsAt, BackAs

LEMMA JobFields ==
    /\ Job \in AnyRecs
    /\ Job.at = "idle" /\ Job.block = NodeBlock /\ Job.then = "done" /\ Job.zone = 0
    /\ Job.slot = 0 /\ Job.file = 0 /\ Job.asked = 0 /\ Job.make = FALSE
    /\ Job.buf = NodeBlock /\ Job.path = <<>>
BY Names DEF Job, AnyRecs, RecsAt, Thens

LEMMA NotIdle ==
  ASSUME NEW h \in JobRecs
  PROVE  /\ h # Idle /\ h \in AnyRecs
         /\ h.at \in {"look", "write", "back"} /\ h.block \in BlockNames /\ h.then \in Thens
         /\ h.zone \in Int /\ h.slot \in Nat /\ h.file \in Files \cup {0} /\ h.make \in BOOLEAN
         /\ h.asked \in FileBlocks \cup {0} /\ h.path \in Seq(Nat)
         /\ h.buf \in {NodeBlock} \cup ({"index"} \X (DataZones \cup {Eof}))
<1>1. h.at \in {"look", "write", "back"}
  BY DEF JobRecs, RecsAt
<1>2. Idle.at = "idle"
  BY DEF Idle
<1>3. h # Idle
  BY <1>1, <1>2
<1>4. QED
  BY <1>1, <1>3 DEF JobRecs, AnyRecs, RecsAt

-----------------------------------------------------------------------------
(* What the invariants imply of the types.                                 *)
LEMMA TypeImplied ==
  ASSUME TypeInv, stale \in BOOLEAN
  PROVE  TypeOK
<1>1. /\ DOMAIN mem = BlockNames /\ DOMAIN disk = BlockNames
      /\ \A b \in BlockNames : mem[b] \in Content(b) /\ disk[b] \in Content(b)
  BY ContentOf DEF TypeInv
<1>2. \A t \in Tasks : job[t].at \in {"idle", "look", "write", "back"}
  BY NotIdle DEF TypeInv, JobsSound, Idle
<1>3. QED
  BY <1>1, <1>2 DEF TypeInv, OthersTyped, TypeOK

LEMMA TypesTyped ==
  ASSUME TypeInv
  PROVE  Typed(mem, disk, own, job)
BY DEF TypeInv, OthersTyped, JobsSound, Typed

-----------------------------------------------------------------------------
(* Where a task is on its way.                                             *)
AtEntry(g) ==
    /\ g.path \in Seq(Nat) /\ g.path # <<>> /\ Len(g.path) \in 1 .. 3
    /\ IF g.buf = NodeBlock THEN Head(g.path) \in 0 .. Direct + 1
       ELSE Head(g.path) \in 0 .. Indexes - 1

LEMMA PathEntry ==
  ASSUME NEW g, OnPath(g)
  PROVE  AtEntry(g)
<1>0. Direct \in Nat /\ Indexes \in Nat
  BY Numbers
<1>1. CASE InNode(g)
  <2>1. Steps(g.path)
    BY <1>1, PathShape DEF OnPath, InNode
  <2>2. CASE \E k \in 0 .. Direct - 1 : g.path = <<k>>
    BY <2>2, <1>1, <1>0 DEF AtEntry, InNode
  <2>3. CASE \E k \in 0 .. Indexes - 1 : g.path = <<Direct, k>>
    BY <2>3, <1>1, <1>0 DEF AtEntry, InNode
  <2>4. CASE \E k, l \in 0 .. Indexes - 1 : g.path = <<Direct + 1, k, l>>
    BY <2>4, <1>1, <1>0 DEF AtEntry, InNode
  <2>5. QED
    BY <2>1, <2>2, <2>3, <2>4 DEF Steps
<1>2. CASE g.buf # NodeBlock
  <2>1. CASE \E k \in 0 .. Indexes - 1 : g.path = <<k>>
    BY <2>1, <1>2, <1>0 DEF AtEntry
  <2>2. CASE \E k, l \in 0 .. Indexes - 1 : g.path = <<k, l>>
    BY <2>2, <1>2, <1>0 DEF AtEntry
  <2>3. QED
    BY <1>2, <2>1, <2>2 DEF OnPath, InNode
<1>3. QED
  BY <1>1, <1>2 DEF OnPath, InNode

LEMMA PathOnward ==
  ASSUME NEW g, OnPath(g), Len(g.path) > 1, NEW h, NEW v, Onward(h, g, v)
  PROVE  OnPath(h)
<1>0. Direct \in Nat /\ Indexes \in Nat /\ h.buf # NodeBlock /\ h.asked \in FileBlocks
  BY Numbers, Names DEF Onward, OnPath
<1>1. CASE InNode(g)
  <2>1. Steps(g.path)
    BY <1>1, PathShape DEF OnPath, InNode
  <2>2. CASE \E k \in 0 .. Direct - 1 : g.path = <<k>>
    BY <2>2, Tails
  <2>3. CASE \E k \in 0 .. Indexes - 1 : g.path = <<Direct, k>>
    BY <2>3, <1>0, Tails DEF OnPath, Onward
  <2>4. CASE \E k, l \in 0 .. Indexes - 1 : g.path = <<Direct + 1, k, l>>
    BY <2>4, <1>0, Tails DEF OnPath, Onward
  <2>5. QED
    BY <2>1, <2>2, <2>3, <2>4 DEF Steps
<1>2. CASE g.buf # NodeBlock
  <2>1. CASE \E k \in 0 .. Indexes - 1 : g.path = <<k>>
    BY <2>1, Tails
  <2>2. CASE \E k, l \in 0 .. Indexes - 1 : g.path = <<k, l>>
    BY <2>2, <1>0, Tails DEF OnPath, Onward
  <2>3. QED
    BY <1>2, <2>1, <2>2 DEF OnPath, InNode
<1>3. QED
  BY <1>1, <1>2 DEF OnPath, InNode

(* The answers, and the other tasks' ways, when blocks gain entries.       *)
LEMMA AnswersStep ==
  ASSUME NEW m, NEW d, NEW a, AnswersKept(m, d, a),
         NEW w, NEW e, Extends(w, m), Extends(e, d)
  PROVE  AnswersKept(w, e, a)
<1> SUFFICES ASSUME NEW n \in Files, NEW b \in FileBlocks, a[n][b] # 0
             PROVE  RefAt(w, n, Path(b)) = a[n][b] /\ RefAt(e, n, Path(b)) = a[n][b]
  BY DEF AnswersKept
<1>1. RefAt(m, n, Path(b)) = a[n][b] /\ RefAt(d, n, Path(b)) = a[n][b]
  BY DEF AnswersKept
<1>2. QED
  BY <1>1, RefKept

Filled(j) == \A t \in Tasks : j[t] # Idle => j[t].file \in Files \cup {0}
SameEntries(w, m, j, t) == \A u \in Tasks \ {t} :
    j[u] # Idle /\ j[u].file # 0 /\ j[u].then = "store" => EntryIn(w, j[u]) = EntryIn(m, j[u])

LEMMA MappedStep ==
  ASSUME NEW m, NEW d, NEW j, Mapped(m, d, j), Filled(j),
         NEW w, NEW e, Extends(w, m), Extends(e, d), NEW t, NEW i, Others(i, j, t),
         SameEntries(w, m, j, t), Walker(w, e, i[t])
  PROVE  Mapped(w, e, i)
<1> SUFFICES ASSUME NEW u \in Tasks PROVE Walker(w, e, i[u])
  BY DEF Mapped
<1>1. CASE u = t
  BY <1>1
<1>2. CASE u # t
  <2>1. i[u] = j[u]
    BY <1>2 DEF Others
  <2> SUFFICES ASSUME j[u] # Idle, j[u].file # 0
               PROVE  /\ j[u].asked \in FileBlocks /\ Reached(w, j[u]) /\ Reached(e, j[u])
                      /\ j[u].then = "store" => EntryIn(w, j[u]) = 0
    BY <2>1 DEF Walker
  <2>2. /\ j[u].asked \in FileBlocks /\ Reached(m, j[u]) /\ Reached(d, j[u])
        /\ j[u].then = "store" => EntryIn(m, j[u]) = 0
    BY DEF Mapped, Walker
  <2>3. j[u].file \in Files
    BY DEF Filled
  <2>4. Reached(w, j[u]) /\ Reached(e, j[u])
    BY <2>2, <2>3, ReachedKept
  <2>5. QED
    BY <2>2, <2>4, <1>2 DEF SameEntries
<1>3. QED
  BY <1>1, <1>2

LEMMA EntriesSame ==
  ASSUME NEW m, NEW d, NEW j, Mapped(m, d, j), Filled(j), NEW w, NEW t,
         w[NodeBlock] = m[NodeBlock],
         \A z \in Arrays(m) : w[<<"index", z>>] = m[<<"index", z>>]
  PROVE  SameEntries(w, m, j, t)
<1> SUFFICES ASSUME NEW u \in Tasks \ {t}, j[u] # Idle, j[u].file # 0
             PROVE  EntryIn(w, j[u]) = EntryIn(m, j[u])
  BY DEF SameEntries
<1>1. Reached(m, j[u]) /\ j[u].asked \in FileBlocks /\ j[u].file \in Files
  BY DEF Mapped, Walker, Filled
<1>2. Located(m, j[u])
  BY <1>1, ReachedPlace
<1>3. QED
  BY <1>2, Names DEF Located, EntryIn, NodeAt

(* No one is about to write the array that g has come to.                  *)
NoneWrites(j, g) == \A u \in Tasks : j[u] # Idle /\ j[u].file = g.file => j[u].at # "write"

LEMMA Settled ==
  ASSUME NEW m, NEW d, NEW j, Mapped(m, d, j), Behind(m, d, j), Once(m),
         \A u \in Tasks : Shape(j[u]), Filled(j),
         NEW g, Reached(m, g), g.asked \in FileBlocks, g.file \in Files, NoneWrites(j, g)
  PROVE  EntryIn(d, g) = EntryIn(m, g)
<1>1. Located(m, g)
  BY ReachedPlace
<1>2. CASE g.buf = NodeBlock /\ Head(g.path) \in 0 .. Direct + 1
  <2> SUFFICES ASSUME NodeAt(m, g.file, Head(g.path)) # NodeAt(d, g.file, Head(g.path)) PROVE FALSE
    BY <1>2 DEF EntryIn
  <2>1. WritesNode(j, g.file, Head(g.path))
    BY <1>2 DEF Behind
  <2>2. PICK u \in Tasks : Writing(j, u, NodeBlock) /\ j[u].file = g.file
    BY <2>1 DEF WritesNode
  <2>3. j[u].at = "write"
    BY <2>2 DEF Writing
  <2>4. j[u] # Idle
    BY <2>3 DEF Idle
  <2>5. QED
    BY <2>2, <2>3, <2>4 DEF NoneWrites
<1>3. ASSUME NEW z \in Arrays(m), g.buf = <<"index", z>>, Head(g.path) \in 0 .. Indexes - 1
      PROVE  EntryIn(d, g) = EntryIn(m, g)
  <2>0. g.buf # NodeBlock /\ z \in DataZones
    BY <1>3, Names, ArraysZones
  <2> SUFFICES ASSUME At(m, z, Head(g.path)) # At(d, z, Head(g.path)) PROVE FALSE
    BY <1>3, <2>0 DEF EntryIn, At
  <2>1. WritesIndex(j, z, Head(g.path))
    BY <1>3 DEF Behind
  <2>2. PICK u \in Tasks : Writing(j, u, <<"index", z>>)
    BY <2>1 DEF WritesIndex
  <2>3. j[u].at = "write" /\ j[u].then = "next" /\ j[u].block = <<"index", z>>
    BY <2>2 DEF Writing
  <2>4. j[u] # Idle
    BY <2>3 DEF Idle
  <2>5. j[u].buf = <<"index", z>> /\ j[u].file # 0
    BY <2>3, <2>4 DEF Shape
  <2>6. j[u].file \in Files /\ Reached(m, j[u])
    BY <2>4, <2>5 DEF Filled, Mapped, Walker
  <2>7. j[u].file = g.file
    BY <2>5, <2>6, <2>0, <1>3, ReachedOne
  <2>8. QED
    BY <2>7, <2>3, <2>4 DEF NoneWrites
<1>4. QED
  BY <1>1, <1>2, <1>3 DEF Located

-----------------------------------------------------------------------------
(* What a step does to the tasks' jobs.                                    *)
LEMMA JobsStep ==
  ASSUME TypeInv, NEW t \in Tasks, NEW h \in JobRecs \cup {Idle}, Shape(h),
         job' = [job EXCEPT ![t] = h],
         \A u \in Tasks \ {t} : own'[u] = own[u] /\ node'[u] = node[u],
         h # Idle /\ h.then = "got" => own'[t] = 0,
         h # Idle /\ h.then = "inode" => node'[t] = 0,
         h # Idle /\ h.file # 0 => \A u \in Tasks \ {t} : job[u] # Idle => job[u].file # h.file,
         ~ halted' => ~ halted /\ (h # Idle => h.buf # <<"index", Eof>>)
  PROVE  JobsSound' /\ Others(job', job, t) /\ job'[t] = h
<1>1. job \in [Tasks -> JobRecs \cup {Idle}]
  BY DEF TypeInv, JobsSound
<1>2. /\ job' \in [Tasks -> JobRecs \cup {Idle}] /\ job'[t] = h
      /\ \A u \in Tasks \ {t} : job'[u] = job[u]
  BY <1>1
<1>3. Others(job', job, t)
  BY <1>1 DEF Others
<1>4. \A u \in Tasks : Shape(job'[u])
  BY <1>2 DEF TypeInv, JobsSound
<1>5. /\ \A u \in Tasks : job'[u] # Idle /\ job'[u].then = "got" => own'[u] = 0
      /\ \A u \in Tasks : job'[u] # Idle /\ job'[u].then = "inode" => node'[u] = 0
  BY <1>2 DEF TypeInv, JobsSound
<1>6. Distinct(job')
  BY <1>2 DEF TypeInv, JobsSound, Distinct
<1>7. ~ halted' => \A u \in Tasks : job'[u] # Idle => job'[u].buf # <<"index", Eof>>
  BY <1>2 DEF TypeInv, JobsSound
<1>8. QED
  BY <1>2, <1>3, <1>4, <1>5, <1>6, <1>7 DEF JobsSound

LEMMA JobsKept ==
  ASSUME TypeInv, job' = job, ~ halted' => ~ halted,
         \A u \in Tasks : job[u] # Idle => own'[u] = own[u] /\ node'[u] = node[u]
  PROVE  JobsSound'
<1>1. /\ job \in [Tasks -> JobRecs \cup {Idle}]
      /\ \A t \in Tasks : Shape(job[t])
      /\ \A t \in Tasks : job[t] # Idle /\ job[t].then = "got" => own[t] = 0
      /\ \A t \in Tasks : job[t] # Idle /\ job[t].then = "inode" => node[t] = 0
      /\ Distinct(job)
      /\ ~ halted => \A t \in Tasks : job[t] # Idle => job[t].buf # <<"index", Eof>>
  BY DEF TypeInv, JobsSound
<1>2. QED
  BY <1>1 DEF JobsSound

(* h is g, writing b; x is to follow, and z is its zone.                   *)
Became(h, g, x, z, b) ==
    /\ h \in JobRecs
    /\ h.at = "write" /\ h.block = b /\ h.then = x /\ h.zone = z
    /\ h.slot = g.slot /\ h.file = g.file /\ h.asked = g.asked
    /\ h.make = g.make /\ h.buf = g.buf /\ h.path = g.path

ZonedFrom(k, g, z) == k = [g EXCEPT !.zone = z]

LEMMA WriteJob ==
  ASSUME NEW t, NEW g \in AnyRecs, NEW z \in Int, NEW b \in BlockNames, NEW x \in Thens,
         NEW d, NEW k, ZonedFrom(k, g, z), Write(t, k, b, x, d)
  PROVE  \E h : Became(h, g, x, z, b) /\ job' = [job EXCEPT ![t] = h] /\ dirty' = d
<1> DEFINE g1 == [g EXCEPT !.zone = z]
           h  == [g1 EXCEPT !.at = "write", !.block = b, !.then = x]
<1>1. g1 \in AnyRecs /\ ZonedAs(g1, g, z)
  BY ZoneFields
<1>2. job' = [job EXCEPT ![t] = h] /\ dirty' = d
  BY DEF Write, ZonedFrom
<1> HIDE DEF g1
<1>3. h \in JobRecs /\ WritesAs(h, g1, b, x)
  BY <1>1, WriteFields, Zenon
<1> HIDE DEF h
<1>4. Became(h, g, x, z, b)
  BY <1>1, <1>3 DEF Became, ZonedAs, WritesAs
<1>5. QED
  BY <1>2, <1>4

LEMMA WriteJobPlain ==
  ASSUME NEW t, NEW g \in AnyRecs, NEW b \in BlockNames, NEW x \in Thens,
         NEW d, Write(t, g, b, x, d)
  PROVE  \E h : Became(h, g, x, g.zone, b) /\ job' = [job EXCEPT ![t] = h] /\ dirty' = d
<1> DEFINE h  == [g EXCEPT !.at = "write", !.block = b, !.then = x]
<1>1. job' = [job EXCEPT ![t] = h] /\ dirty' = d
  BY DEF Write
<1>2. h \in JobRecs /\ WritesAs(h, g, b, x)
  BY WriteFields, Zenon
<1> HIDE DEF h
<1>3. Became(h, g, x, g.zone, b)
  BY <1>2 DEF Became, WritesAs
<1>4. QED
  BY <1>1, <1>3

(* balloc takes a zone that is free.                                       *)
Marks(w, m, z) ==
    /\ z \in DataZones /\ ~ IsMarked(m, z)
    /\ Blocks(w) /\ Padded(w) /\ SameTrees(w, m) /\ SameImaps(w, m)
    /\ \A x \in DataZones : IsMarked(w, x) <=> x = z \/ IsMarked(m, x)

LEMMA MarkEffect ==
  ASSUME TypeInv, NEW t \in Tasks, NEW g \in AnyRecs, NEW x \in {"got", "store"},
         ClearBits # {}, Mark(t, g, x)
  PROVE  \E z, h : /\ Marks(mem', mem, z)
                   /\ Became(h, g, x, z, <<"zmap", MapOf(z)>>)
                   /\ job' = [job EXCEPT ![t] = h]
                   /\ dirty' \subseteq BlockNames
<1> DEFINE p == FirstClear  z == ZoneOf(p[1], p[2])  b == <<"zmap", MapOf(z)>>
           c == mem[b] \cup {BitIn(z)}
<1>1. Blocks(mem) /\ Padded(mem) /\ dirty \subseteq BlockNames
  BY DEF TypeInv, OthersTyped
<1>2. /\ z \in DataZones /\ MapOf(z) = p[1] /\ BitIn(z) = p[2] /\ ~ IsMarked(mem, z)
  BY <1>1, FreshZone
<1>3. mem' = [mem EXCEPT ![<<"zmap", p[1]>>] = @ \cup {p[2]}]
  BY DEF Mark
<1> DEFINE k == [g EXCEPT !.zone = z]
<1>4. /\ Write(t, k, <<"zmap", p[1]>>, x, dirty \cup {<<"zmap", p[1]>>})
      /\ ZonedFrom(k, g, z)
  BY DEF Mark, ZonedFrom
<1> HIDE DEF z, p, k
<1>5. mem' = [mem EXCEPT ![b] = c]
  BY <1>2, <1>3
<1>6. c \in {mem[b] \cup {BitIn(z)}, mem[b] \ {BitIn(z)}}
  OBVIOUS
<1> HIDE DEF c
<1>z. z \in DataZones
  BY <1>2
<1>e. ZmapStored(mem', mem, z, c)
  BY <1>5, <1>6 DEF ZmapStored
<1>7. ZmapAfter(mem', mem, z, c)
  BY <1>1, <1>z, <1>e, StoreZmap
<1>8. Marks(mem', mem, z)
  BY <1>7, <1>2 DEF Marks, c, ZmapAfter
<1>9. b \in BlockNames /\ z \in Int /\ x \in Thens
  BY <1>2, ZoneBits, Names, Numbers DEF Thens
<1>10. PICK h : Became(h, g, x, z, b) /\ job' = [job EXCEPT ![t] = h] /\ dirty' = dirty \cup {b}
  <2>1. Write(t, k, b, x, dirty \cup {b})
    BY <1>4, <1>2
  <2> DEFINE d == dirty \cup {b}
  <2> HIDE DEF b, d
  <2>2. \E h : Became(h, g, x, z, b) /\ job' = [job EXCEPT ![t] = h] /\ dirty' = d
    BY <2>1, <1>4, <1>9, WriteJob DEF d
  <2>3. QED
    BY <2>2 DEF d
<1>11. QED
  BY <1>8, <1>9, <1>10, <1>1

(* bfree gives one up: the bit that it clears is the zone's.               *)
Unmarks(w, m, z) ==
    /\ Blocks(w) /\ Padded(w) /\ SameTrees(w, m) /\ SameImaps(w, m)
    /\ \A x \in DataZones : IsMarked(w, x) <=> x # z /\ IsMarked(m, x)

LEMMA UnmarkEffect ==
  ASSUME TypeInv, NEW z \in DataZones, BitOf(z) \in mem[<<"zmap", PartOf(z)>>],
         mem' = [mem EXCEPT ![<<"zmap", PartOf(z)>>] = @ \ {BitOf(z)}]
  PROVE  Unmarks(mem', mem, z) /\ <<"zmap", PartOf(z)>> \in BlockNames
<1> DEFINE q == PartOf(z)  b == <<"zmap", MapOf(z)>>  c == mem[b] \ {BitIn(z)}
<1>0. Blocks(mem) /\ Padded(mem)
  BY DEF TypeInv
<1>1. q \in 0 .. NrZmaps - 1
  <2>1. z - 1 \in Nat /\ z - 1 < NrZmaps * BlockBits
    <3>1. z \in Nat /\ z >= FirstData /\ z <= Zones - 1 /\ FirstData >= 1
      BY Numbers DEF DataZones
    <3> DEFINE w == NrZmaps * BlockBits
    <3>2. w \in Nat /\ Zones <= w
      BY Numbers
    <3> HIDE DEF w
    <3>3. z - 1 \in Nat /\ z - 1 < w
      BY <3>1, <3>2, Numbers
    <3>4. QED
      BY <3>3 DEF w
  <2>2. QED
    BY <2>1, DividedBelow, Numbers DEF PartOf
<1> HIDE DEF q
<1>2. <<"zmap", q>> \in BlockNames /\ mem[<<"zmap", q>>] \subseteq Bits
  BY <1>0, <1>1, Names DEF Blocks
<1>3. BitOf(z) \in Bits
  BY <1>2 DEF q
<1>4. ZoneOf(q, BitOf(z)) = z
  <2> DEFINE y == q * BlockBits
  <2>1. y \in Nat /\ z \in Nat
    BY <1>1, Numbers
  <2>2. /\ ZoneOf(q, 0) = y + FirstData - 1 + 0
        /\ \A x : ZoneOf(q, x) = y + FirstData - 1 + x
    BY DEF ZoneOf
  <2> HIDE DEF y
  <2>3. BitOf(z) = z - ZoneOf(q, 0)
    BY DEF BitOf, q
  <2>4. QED
    BY <2>1, <2>2, <2>3, Numbers
<1>5. q = MapOf(z) /\ BitOf(z) = BitIn(z)
  BY <1>1, <1>3, <1>4, ZoneBits
<1>6. mem' = [mem EXCEPT ![b] = c]
  BY <1>5 DEF q
<1>7. ZmapStored(mem', mem, z, c)
  BY <1>6 DEF ZmapStored
<1>8. ZmapAfter(mem', mem, z, c)
  BY <1>0, <1>7, StoreZmap
<1>9. QED
  BY <1>8, <1>2 DEF ZmapAfter, Unmarks, q

-----------------------------------------------------------------------------
(* A task that goes on in bmap: g says where it is.                        *)
Ready(t, g) ==
    /\ g \in AnyRecs /\ g.file \in Files /\ OnPath(g) /\ g.buf # <<"index", Eof>>
    /\ ~ halted
    /\ \A u \in Tasks \ {t} : job[u] # Idle => job[u].file # g.file
    /\ job[t] = Idle \/ job[t] = g
    /\ g.at # "write"

\* Its array and its place there.
ArrayOf(g) == g.buf = NodeBlock \/ \E z \in DataZones : g.buf = <<"index", z>>

LEMMA EntryTyped ==
  ASSUME TypeInv, NEW t, NEW g, Ready(t, g)
  PROVE  /\ AtEntry(g) /\ ArrayOf(g) /\ g.buf \in BlockNames
         /\ Entry(g) = EntryIn(mem, g) /\ Entry(g) \in Refs
         /\ g.buf \in {NodeBlock} \cup ({"index"} \X (DataZones \cup {Eof}))
<1>1. /\ g.buf \in {NodeBlock} \cup ({"index"} \X (DataZones \cup {Eof}))
      /\ g.file \in Files /\ Blocks(mem) /\ OnPath(g)
  BY DEF Ready, AnyRecs, RecsAt, TypeInv
<1>2. AtEntry(g)
  BY <1>1, PathEntry
<1>3. ArrayOf(g)
  BY <1>1 DEF ArrayOf, Ready
<1>4. g.buf \in BlockNames
  BY <1>3, Names DEF ArrayOf
<1>5. Entry(g) = EntryIn(mem, g)
  BY DEF Entry, EntryIn, NodeAt
<1>6. Tree(mem)
  BY <1>1, Entries
<1>7. ASSUME g.buf = NodeBlock PROVE Entry(g) \in Refs
  BY <1>1, <1>2, <1>5, <1>6, <1>7 DEF AtEntry, EntryIn, Tree
<1>8. ASSUME NEW z \in DataZones, g.buf = <<"index", z>>
      PROVE  Entry(g) \in Refs
  <2>1. g.buf # NodeBlock
    BY <1>8, Names
  <2>2. Head(g.path) \in 0 .. Indexes - 1
    BY <2>1, <1>2 DEF AtEntry
  <2>3. Entry(g) = At(mem, z, Head(g.path))
    BY <2>1, <1>5, <1>8 DEF EntryIn, At
  <2>4. QED
    BY <2>2, <2>3, <1>6 DEF Tree
<1>9. QED
  <2>1. Entry(g) \in Refs
    BY <1>3, <1>7, <1>8 DEF ArrayOf
  <2>2. QED
    BY <2>1, <1>1, <1>2, <1>3, <1>4, <1>5

\* w is m with z in the place where g is.
PutAt(w, m, g, z) ==
    /\ \A n \in Files, k \in 0 .. Direct + 1 :
           NodeAt(w, n, k) = IF g.buf = NodeBlock /\ g.file = n /\ Head(g.path) = k
                             THEN z ELSE NodeAt(m, n, k)
    /\ \A x \in DataZones, k \in 0 .. Indexes - 1 :
           At(w, x, k) = IF g.buf = <<"index", x>> /\ Head(g.path) = k THEN z ELSE At(m, x, k)

LEMMA RecordEffect ==
  ASSUME TypeInv, NEW t \in Tasks, NEW g, Ready(t, g), NEW z \in Refs,
         NEW d \in SUBSET BlockNames, Record(t, g, z, d)
  PROVE  /\ Blocks(mem') /\ SameZmaps(mem', mem) /\ SameImaps(mem', mem) /\ PutAt(mem', mem, g, z)
         /\ \E h : Became(h, g, "next", g.zone, g.buf) /\ job' = [job EXCEPT ![t] = h]
         /\ dirty' \subseteq BlockNames
<1> DEFINE k == Head(g.path)
<1>1. /\ AtEntry(g) /\ ArrayOf(g) /\ g.buf \in BlockNames /\ g.file \in Files /\ Blocks(mem)
      /\ g \in AnyRecs /\ "next" \in Thens
  BY EntryTyped DEF Ready, TypeInv, Thens
<1>2. Write(t, g, g.buf, "next", d \cup {g.buf})
  BY DEF Record
<1>3. \E h : Became(h, g, "next", g.zone, g.buf) /\ job' = [job EXCEPT ![t] = h]
              /\ dirty' = d \cup {g.buf}
  BY <1>1, <1>2, WriteJobPlain
<1>4. CASE g.buf = NodeBlock
  <2> DEFINE c == [mem[NodeBlock] EXCEPT ![g.file] = [@ EXCEPT ![k] = z]]
  <2>1. mem' = [mem EXCEPT ![NodeBlock] = c]
    BY <1>4 DEF Record
  <2>2. k \in 0 .. Direct + 1
    BY <1>1, <1>4 DEF AtEntry
  <2>3. mem[NodeBlock] \in [Files -> Places]
    BY <1>1 DEF Blocks
  <2>4. /\ c \in [Files -> Places]
        /\ \A n \in Files, l \in 0 .. Direct + 1 :
               c[n][l] = IF g.file = n /\ k = l THEN z ELSE mem[NodeBlock][n][l]
    BY <1>1, <2>2, <2>3 DEF Places
  <2> HIDE DEF c
  <2>r. Replaces(mem', mem, NodeBlock, c)
    BY <2>1 DEF Replaces
  <2>5. /\ Blocks(mem') /\ SameImaps(mem', mem) /\ SameZmaps(mem', mem) /\ mem'[NodeBlock] = c
        /\ \A x \in DataZones : mem'[<<"index", x>>] = mem[<<"index", x>>]
    BY <1>1, <2>r, <2>4, StoreNode DEF NodeAfter
  <2>6. \A x \in DataZones : g.buf # <<"index", x>>
    BY <1>4, Names
  <2>7. PutAt(mem', mem, g, z)
    BY <2>4, <2>5, <2>6, <1>4 DEF PutAt, NodeAt, At
  <2>8. QED
    BY <2>5, <2>7, <1>3, <1>1
<1>5. ASSUME NEW y \in DataZones, g.buf = <<"index", y>>
      PROVE  /\ Blocks(mem') /\ SameImaps(mem', mem) /\ SameZmaps(mem', mem)
             /\ PutAt(mem', mem, g, z)
  <2>0. g.buf # NodeBlock
    BY <1>5, Names
  <2> DEFINE c == [mem[<<"index", y>>] EXCEPT ![k] = z]
  <2>1. mem' = [mem EXCEPT ![<<"index", y>>] = c]
    BY <1>5, <2>0 DEF Record
  <2>2. k \in 0 .. Indexes - 1
    BY <1>1, <2>0 DEF AtEntry
  <2>3. mem[<<"index", y>>] \in Index
    BY <1>1 DEF Blocks
  <2>4. /\ c \in Index
        /\ \A l \in 0 .. Indexes - 1 : c[l] = IF k = l THEN z ELSE mem[<<"index", y>>][l]
    BY <2>2, <2>3 DEF Index
  <2> HIDE DEF c
  <2>r. Replaces(mem', mem, <<"index", y>>, c)
    BY <2>1 DEF Replaces
  <2>5. /\ Blocks(mem') /\ SameImaps(mem', mem) /\ SameZmaps(mem', mem)
        /\ mem'[NodeBlock] = mem[NodeBlock]
        /\ \A x \in DataZones : mem'[<<"index", x>>] = IF x = y THEN c ELSE mem[<<"index", x>>]
    BY <1>1, <2>r, <2>4, StoreIndex DEF IndexAfter
  <2>6. \A x \in DataZones : g.buf = <<"index", x>> <=> x = y
    BY <1>5, Names
  <2>7. PutAt(mem', mem, g, z)
    BY <2>4, <2>5, <2>6, <2>0 DEF PutAt, NodeAt, At
  <2>8. QED
    BY <2>5, <2>7
<1>6. QED
  BY <1>1, <1>3, <1>4, <1>5 DEF ArrayOf

-----------------------------------------------------------------------------
(* The types, step by step.                                                *)
LEMMA SamePath ==
  ASSUME NEW g, NEW h, OnPath(g), h.asked = g.asked, h.buf = g.buf, h.path = g.path
  PROVE  OnPath(h)
<1>1. h.asked \in FileBlocks
  BY DEF OnPath
<1>2. CASE InNode(g)
  BY <1>1, <1>2 DEF OnPath, InNode
<1>3. ASSUME g.buf # NodeBlock,
             \/ \E k \in 0 .. Indexes - 1 : g.path = <<k>>
             \/ \E k, l \in 0 .. Indexes - 1 : g.path = <<k, l>>
      PROVE  OnPath(h)
  BY <1>1, <1>3 DEF OnPath
<1>4. QED
  BY <1>2, <1>3 DEF OnPath

WritesFor(g, x, z, b) ==
    /\ x \in Thens
    /\ g.file # 0 => OnPath(g)
    /\ x \in {"store", "next"} => g.file # 0
    /\ x \in {"done", "got", "inode", "put"} => g.file = 0
    /\ x = "next" => b = g.buf
    /\ x = "got" => z # Eof
    /\ x = "inode" => z \in 1 .. Inodes
    /\ x = "put" => g.slot \in Slots
    /\ x \in {"store", "got"} /\ z # Eof => z \in DataZones /\ b = <<"zmap", MapOf(z)>>

LEMMA BecameShape ==
  ASSUME NEW h, NEW g, NEW x, NEW z, NEW b, Became(h, g, x, z, b), WritesFor(g, x, z, b)
  PROVE  Shape(h) /\ h \in JobRecs /\ h # Idle
<1>1. /\ h \in JobRecs /\ h.at = "write" /\ h.block = b /\ h.then = x /\ h.zone = z
      /\ h.slot = g.slot /\ h.file = g.file /\ h.asked = g.asked
      /\ h.buf = g.buf /\ h.path = g.path
  BY DEF Became
<1>2. h # Idle
  BY <1>1, NotIdle
<1>3. h.file # 0 => OnPath(h)
  BY <1>1, SamePath DEF WritesFor
<1>4. Coming(h) => h.zone \in DataZones /\ h.block = <<"zmap", MapOf(h.zone)>>
  BY <1>1 DEF Coming, WritesFor
<1>5. QED
  BY <1>1, <1>2, <1>3, <1>4 DEF WritesFor, Shape

LEMMA IdleShape ==
  Shape(Idle)
BY DEF Shape

(* A task starts to write.                                                 *)
LEMMA JobsWrite ==
  ASSUME TypeInv, NEW t \in Tasks, NEW g, NEW h, NEW x, NEW z, NEW b,
         Became(h, g, x, z, b), WritesFor(g, x, z, b), job' = [job EXCEPT ![t] = h],
         \A u \in Tasks \ {t} : own'[u] = own[u] /\ node'[u] = node[u],
         x = "got" => own'[t] = 0, x = "inode" => node'[t] = 0,
         g.file # 0 => \A u \in Tasks \ {t} : job[u] # Idle => job[u].file # g.file,
         ~ halted' => ~ halted /\ g.buf # <<"index", Eof>>
  PROVE  JobsSound' /\ Others(job', job, t) /\ job'[t] = h
<1>1. Shape(h) /\ h \in JobRecs /\ h # Idle
  BY BecameShape
<1>2. h.then = x /\ h.file = g.file /\ h.buf = g.buf
  BY DEF Became
<1>3. /\ h # Idle /\ h.then = "got" => own'[t] = 0
      /\ h # Idle /\ h.then = "inode" => node'[t] = 0
      /\ h # Idle /\ h.file # 0 => \A u \in Tasks \ {t} : job[u] # Idle => job[u].file # h.file
      /\ ~ halted' => ~ halted /\ (h # Idle => h.buf # <<"index", Eof>>)
  BY <1>2
<1>4. h \in JobRecs \cup {Idle}
  BY <1>1
<1>5. QED
  BY <1>1, <1>3, <1>4, JobsStep

(* A task has come to the end of its call.                                 *)
LEMMA JobsEnd ==
  ASSUME TypeInv, NEW t \in Tasks, job' = [job EXCEPT ![t] = Idle],
         \A u \in Tasks \ {t} : own'[u] = own[u] /\ node'[u] = node[u],
         ~ halted' => ~ halted
  PROVE  JobsSound' /\ Others(job', job, t) /\ job'[t] = Idle
<1>1. Idle \in JobRecs \cup {Idle}
  OBVIOUS
<1>2. QED
  BY <1>1, IdleShape, JobsStep

(* bmap goes on after brelse.                                              *)
Answers(t, g) == LET v == Entry(g) IN
    /\ job' = [job EXCEPT ![t] = Idle]
    /\ \/ told' = told
       \/ /\ v \in DataZones /\ Len(g.path) = 1
          /\ told' = [told EXCEPT ![g.file] = [@ EXCEPT ![g.asked] = v]]
    /\ halted' = halted
Descends(t, g, h) == LET v == Entry(g) IN
    /\ Len(g.path) > 1 /\ v # 0 /\ v \in DataZones \cup {Eof}
    /\ h \in JobRecs /\ LooksAs(h, g, <<"index", v>>) /\ Onward(h, g, v) /\ OnPath(h)
    /\ job' = [job EXCEPT ![t] = h]
    /\ halted' = (v = Eof) /\ told' = told

LEMMA GoOnEffect ==
  ASSUME TypeInv, NEW t \in Tasks, NEW g, Ready(t, g), NEW d \in SUBSET BlockNames, GoOn(t, g, d)
  PROVE  /\ dirty' = d /\ mem' = mem /\ own' = own /\ node' = node /\ handle' = handle
         /\ table' = table /\ crashes' = crashes
         /\ Answers(t, g) \/ \E h : Descends(t, g, h)
<1> DEFINE v == Entry(g)
<1>1. /\ AtEntry(g) /\ v \in Refs /\ OnPath(g) /\ g \in AnyRecs /\ halted = FALSE
  BY EntryTyped DEF Ready, TypeInv, OthersTyped
<1>2. v \in DataZones \cup {0, Eof} /\ Len(g.path) \in 1 .. 3
  BY <1>1 DEF Refs, AtEntry
<1>3. /\ dirty' = d /\ mem' = mem /\ own' = own /\ node' = node /\ handle' = handle
      /\ table' = table
  BY DEF GoOn
<1>x. ~ ((Len(g.path) = 1 \/ v = 0) /\ (Len(g.path) > 1 /\ v # 0))
  <2>1. \A x \in 1 .. 3 : ~ (x = 1 /\ x > 1)
    OBVIOUS
  <2>2. ~ (Len(g.path) = 1 /\ Len(g.path) > 1)
    BY <2>1, <1>2
  <2>3. QED
    BY <2>2, Zenon
<1>4. CASE Len(g.path) = 1 \/ v = 0
  <2>1. /\ job' = [job EXCEPT ![t] = Idle]
        /\ told' = IF v \in {0, Eof} THEN told ELSE [told EXCEPT ![g.file][g.asked] = v]
        /\ halted' = halted /\ crashes' = crashes
    BY <1>4, <1>x, Zenon DEF GoOn, machine
  <2>2. told' = told \/ (v \in DataZones /\ Len(g.path) = 1
           /\ told' = [told EXCEPT ![g.file] = [@ EXCEPT ![g.asked] = v]])
    BY <2>1, <1>2, <1>4
  <2>3. QED
    BY <1>3, <2>1, <2>2 DEF Answers
<1>5. CASE Len(g.path) > 1 /\ v # 0
  <2> DEFINE h == [g EXCEPT !.at = "look", !.buf = <<"index", v>>, !.path = Tail(@)]
  <2>1. /\ job' = [job EXCEPT ![t] = h] /\ halted' = (v = Eof) /\ told' = told /\ crashes' = crashes
    BY <1>5, <1>x, Zenon DEF GoOn
  <2>2. g.path # <<>> /\ <<"index", v>> \in {"index"} \X (DataZones \cup {Eof})
    BY <1>1, <1>2, <1>5 DEF AtEntry
  <2>l. LooksFrom(h, g, <<"index", v>>)
    BY DEF LooksFrom
  <2> HIDE DEF h
  <2>3. h \in JobRecs /\ LooksAs(h, g, <<"index", v>>)
    BY <2>2, <2>l, <1>1, LookFields
  <2>4. Onward(h, g, v)
    BY <2>3 DEF LooksAs, Onward
  <2>5. OnPath(h)
    BY <2>4, <1>1, <1>5, PathOnward
  <2>6. Descends(t, g, h)
    BY <2>1, <2>3, <2>4, <2>5, <1>2, <1>5, Zenon DEF Descends
  <2>7. QED
    BY <1>3, <2>1, <2>6
<1>6. (Len(g.path) = 1 \/ v = 0) \/ (Len(g.path) > 1 /\ v # 0)
  <2>1. \A x \in 1 .. 3 : x = 1 \/ x > 1
    OBVIOUS
  <2>2. QED
    BY <2>1, <1>2, Zenon
<1>7. QED
  BY <1>4, <1>5, <1>6, Zenon

LEMMA GoOnTypes ==
  ASSUME TypeInv, NEW t \in Tasks, NEW g, Ready(t, g), g.then \in {"done", "next"},
         NEW d \in SUBSET BlockNames, disk' = disk, GoOn(t, g, d)
  PROVE  TypeInv' /\ Others(job', job, t)
<1>1. /\ dirty' = d /\ mem' = mem /\ own' = own /\ node' = node /\ handle' = handle
      /\ table' = table /\ crashes' = crashes
  BY GoOnEffect
<1>2. Answers(t, g) \/ \E h : Descends(t, g, h)
  BY GoOnEffect
<1>3. ~ halted /\ halted \in BOOLEAN /\ g.file \in Files /\ g.asked \in FileBlocks
      /\ told \in [Files -> [FileBlocks -> DataZones \cup {0}]]
      /\ \A u \in Tasks \ {t} : job[u] # Idle => job[u].file # g.file
  BY DEF Ready, TypeInv, OthersTyped, OnPath
<1>4. CASE Answers(t, g)
  <2>1. job' = [job EXCEPT ![t] = Idle] /\ halted' = halted
    BY <1>4 DEF Answers
  <2>2. JobsSound' /\ Others(job', job, t)
    BY <2>1, <1>1, JobsEnd
  <2>3. told' \in [Files -> [FileBlocks -> DataZones \cup {0}]]
    <3>1. \A v \in DataZones : [told EXCEPT ![g.file] = [@ EXCEPT ![g.asked] = v]]
                                   \in [Files -> [FileBlocks -> DataZones \cup {0}]]
      BY <1>3
    <3>2. QED
      BY <3>1, <1>3, <1>4 DEF Answers
  <2>4. QED
    BY <2>1, <2>2, <2>3, <1>1, <1>3 DEF TypeInv, OthersTyped
<1>5. ASSUME NEW h, Descends(t, g, h)
      PROVE  TypeInv' /\ Others(job', job, t)
  <2> DEFINE v == Entry(g)
  <2>1. /\ h \in JobRecs /\ LooksAs(h, g, <<"index", v>>) /\ OnPath(h)
        /\ job' = [job EXCEPT ![t] = h] /\ halted' = (v = Eof) /\ told' = told
    BY <1>5 DEF Descends
  <2> HIDE DEF v
  <2>2. h.at = "look" /\ h.then = g.then /\ h.file = g.file /\ h.buf = <<"index", v>>
    BY <2>1 DEF LooksAs
  <2>3. h # Idle /\ h.file # 0
    BY <2>1, <2>2, <1>3, NotIdle, Numbers
  <2>4. Shape(h)
    BY <2>1, <2>2, <2>3 DEF Shape, Coming
  <2>n. v # Eof => <<"index", v>> # <<"index", Eof>>
    BY Names
  <2>5. ~ halted' => h.buf # <<"index", Eof>>
    BY <2>1, <2>2, <2>n, Zenon
  <2>6. JobsSound' /\ Others(job', job, t)
    BY <2>1, <2>2, <2>3, <2>4, <2>5, <1>1, <1>3, JobsStep
  <2>7. halted' \in BOOLEAN
    BY <2>1
  <2>8. QED
    BY <2>1, <2>6, <2>7, <1>1, <1>3 DEF TypeInv, OthersTyped
<1>6. QED
  BY <1>2, <1>4, <1>5

LEMMA RecordTypes ==
  ASSUME TypeInv, NEW t \in Tasks, NEW g, Ready(t, g), NEW z \in Refs,
         NEW d \in SUBSET BlockNames, disk' = disk, Record(t, g, z, d)
  PROVE  TypeInv' /\ Others(job', job, t)
<1>1. /\ Blocks(mem') /\ SameZmaps(mem', mem) /\ SameImaps(mem', mem) /\ dirty' \subseteq BlockNames
      /\ \E h : Became(h, g, "next", g.zone, g.buf) /\ job' = [job EXCEPT ![t] = h]
  BY RecordEffect
<1>2. /\ own' = own /\ node' = node /\ handle' = handle /\ table' = table /\ told' = told
      /\ crashes' = crashes /\ halted' = halted
  BY DEF Record, clientVars, machine
<1>3. PICK h : Became(h, g, "next", g.zone, g.buf) /\ job' = [job EXCEPT ![t] = h]
  BY <1>1
<1>4. /\ g.file \in Files /\ OnPath(g) /\ g.buf # <<"index", Eof>>
      /\ \A u \in Tasks \ {t} : job[u] # Idle => job[u].file # g.file
      /\ g.file # 0
  BY Numbers DEF Ready
<1>5. WritesFor(g, "next", g.zone, g.buf)
  BY <1>4 DEF WritesFor, Thens
<1>6. JobsSound' /\ Others(job', job, t)
  BY <1>2, <1>3, <1>4, <1>5, JobsWrite
<1>7. Padded(mem') /\ Number(mem', 0)
  BY <1>1, SameMarks, SameNumbers, SmallNumbers DEF TypeInv
<1>8. QED
  BY <1>1, <1>2, <1>6, <1>7 DEF TypeInv, OthersTyped

LEMMA LastMapName ==
  LastMap \in BlockNames
BY Names, Numbers DEF LastMap

\* The ways on: a zone, none, an entry that says so, a write, an answer.
TakesZone(t, g) ==
    Needs(g) /\ ClearBits # {} /\ Mark(t, g, "store") /\ UNCHANGED <<clientVars, machine>>
TakesNone(t, g) ==
    /\ Needs(g) /\ ClearBits = {} /\ Write(t, [g EXCEPT !.zone = Eof], LastMap, "store", dirty)
    /\ UNCHANGED <<mem, clientVars, machine>>
RecordsNone(t, g) == Needs(g) /\ Record(t, g, Eof, dirty)
WritesFirst(t, g) ==
    /\ ~ Needs(g) /\ Write(t, g, g.buf, "next", dirty)
    /\ UNCHANGED <<mem, clientVars, machine>>
PassesOn(t, g) == ~ Needs(g) /\ GoOn(t, g, dirty)

LEMMA LevelCases ==
  ASSUME NEW t, NEW g, Level(t, g)
  PROVE  /\ disk' = disk
         /\ \/ TakesZone(t, g) \/ TakesNone(t, g) \/ RecordsNone(t, g)
            \/ WritesFirst(t, g) \/ PassesOn(t, g)
BY DEF Level, TakesZone, TakesNone, RecordsNone, WritesFirst, PassesOn

LEMMA LevelTypes ==
  ASSUME TypeInv, NEW t \in Tasks, NEW g, Ready(t, g), g.then \in {"done", "next"}, Level(t, g)
  PROVE  TypeInv' /\ Others(job', job, t)
<1>0. /\ disk' = disk
      /\ \/ TakesZone(t, g) \/ TakesNone(t, g) \/ RecordsNone(t, g)
         \/ WritesFirst(t, g) \/ PassesOn(t, g)
  BY LevelCases
<1>1. /\ g \in AnyRecs /\ g.file \in Files /\ OnPath(g) /\ g.buf # <<"index", Eof>>
      /\ \A u \in Tasks \ {t} : job[u] # Idle => job[u].file # g.file
      /\ g.file # 0 /\ dirty \in SUBSET BlockNames /\ g.zone \in Int
  BY Numbers DEF Ready, TypeInv, OthersTyped, AnyRecs, RecsAt
<1>2. g.buf \in BlockNames
  BY EntryTyped
<1>3. "store" \in Thens /\ "next" \in Thens /\ Eof \in Int /\ Eof \in Refs
  BY DEF Thens, Eof, Refs
<1>4. CASE TakesZone(t, g)
  <2>1. /\ ClearBits # {} /\ Mark(t, g, "store") /\ own' = own /\ node' = node /\ handle' = handle
        /\ table' = table /\ told' = told /\ crashes' = crashes /\ halted' = halted
    BY <1>4 DEF TakesZone, clientVars, machine
  <2>2. "store" \in {"got", "store"}
    OBVIOUS
  <2>3. PICK z, h : /\ Marks(mem', mem, z) /\ Became(h, g, "store", z, <<"zmap", MapOf(z)>>)
                    /\ job' = [job EXCEPT ![t] = h] /\ dirty' \subseteq BlockNames
    BY <2>1, <2>2, <1>1, MarkEffect
  <2>4. WritesFor(g, "store", z, <<"zmap", MapOf(z)>>)
    BY <2>3, <1>1, <1>3 DEF WritesFor, Marks
  <2>5. JobsSound' /\ Others(job', job, t)
    BY <2>1, <2>3, <2>4, <1>1, JobsWrite
  <2>6. Blocks(mem') /\ Padded(mem') /\ Number(mem', 0)
    BY <2>3, SameNumbers, SmallNumbers DEF Marks, TypeInv
  <2>7. QED
    BY <2>1, <2>3, <2>5, <2>6, <1>0 DEF TypeInv, OthersTyped
<1>5. CASE TakesNone(t, g)
  <2>1. /\ Write(t, [g EXCEPT !.zone = Eof], LastMap, "store", dirty) /\ mem' = mem
        /\ own' = own /\ node' = node /\ handle' = handle
        /\ table' = table /\ told' = told /\ crashes' = crashes /\ halted' = halted
    BY <1>5 DEF TakesNone, clientVars, machine
  <2>2. PICK h : Became(h, g, "store", Eof, LastMap) /\ job' = [job EXCEPT ![t] = h] /\ dirty' = dirty
    <3> DEFINE k == [g EXCEPT !.zone = Eof]
    <3>1. Write(t, k, LastMap, "store", dirty) /\ ZonedFrom(k, g, Eof)
      BY <2>1 DEF ZonedFrom
    <3> HIDE DEF k
    <3>2. g \in AnyRecs /\ Eof \in Int /\ LastMap \in BlockNames /\ "store" \in Thens
      BY <1>1, <1>3, LastMapName
    <3>3. QED
      BY <3>1, <3>2, WriteJob
  <2>4. WritesFor(g, "store", Eof, LastMap)
    BY <1>1, <1>3 DEF WritesFor
  <2>5. JobsSound' /\ Others(job', job, t)
    BY <2>1, <2>2, <2>4, <1>1, JobsWrite
  <2>7. QED
    BY <2>1, <2>2, <2>5, <1>0 DEF TypeInv, OthersTyped
<1>6. CASE RecordsNone(t, g)
  <2>1. Record(t, g, Eof, dirty)
    BY <1>6 DEF RecordsNone
  <2>2. QED
    BY <2>1, <1>0, <1>1, <1>3, RecordTypes
<1>7. CASE WritesFirst(t, g)
  <2>1. /\ Write(t, g, g.buf, "next", dirty) /\ mem' = mem
        /\ own' = own /\ node' = node /\ handle' = handle
        /\ table' = table /\ told' = told /\ crashes' = crashes /\ halted' = halted
    BY <1>7 DEF WritesFirst, clientVars, machine
  <2>2. PICK h : Became(h, g, "next", g.zone, g.buf) /\ job' = [job EXCEPT ![t] = h] /\ dirty' = dirty
    BY <2>1, <1>1, <1>2, <1>3, WriteJobPlain
  <2>4. WritesFor(g, "next", g.zone, g.buf)
    BY <1>1, <1>3 DEF WritesFor
  <2>5. JobsSound' /\ Others(job', job, t)
    BY <2>1, <2>2, <2>4, <1>1, JobsWrite
  <2>7. QED
    BY <2>1, <2>2, <2>5, <1>0 DEF TypeInv, OthersTyped
<1>8. CASE PassesOn(t, g)
  BY <1>8, <1>0, <1>1, GoOnTypes DEF PassesOn
<1>9. QED
  BY <1>0, <1>4, <1>5, <1>6, <1>7, <1>8

BmapFrom(g, n, b, make) ==
    g = [Job EXCEPT !.file = n, !.asked = b, !.make = make, !.path = Path(b)]

LEMMA BmapFields ==
  ASSUME NEW n \in Files, NEW b \in FileBlocks, NEW make \in BOOLEAN, NEW g, BmapFrom(g, n, b, make)
  PROVE  /\ g \in AnyRecs /\ g.at = "idle" /\ g.then = "done" /\ g.zone = 0 /\ g.file = n
         /\ g.asked = b /\ g.make = make /\ g.buf = NodeBlock /\ g.path = Path(b)
<1>1. Path(b) \in Seq(Nat)
  <2>1. Steps(Path(b)) /\ Direct \in Nat
    BY PathShape, Numbers
  <2>2. CASE \E k \in 0 .. Direct - 1 : Path(b) = <<k>>
    BY <2>2
  <2>3. CASE \E k \in 0 .. Indexes - 1 : Path(b) = <<Direct, k>>
    BY <2>3, <2>1
  <2>4. CASE \E k, l \in 0 .. Indexes - 1 : Path(b) = <<Direct + 1, k, l>>
    BY <2>4, <2>1
  <2>5. QED
    BY <2>1, <2>2, <2>3, <2>4 DEF Steps
<1> DEFINE p == Path(b)
<1> HIDE DEF p
<1>2. g = [at |-> "idle", block |-> NodeBlock, then |-> "done", zone |-> 0,
           slot |-> 0, file |-> n, asked |-> b, make |-> make, buf |-> NodeBlock, path |-> p]
  BY DEF BmapFrom, Job, p
<1>3. p \in Seq(Nat) /\ NodeBlock \in BlockNames
  BY <1>1, Names DEF p
<1>4. g \in AnyRecs
  BY <1>2, <1>3 DEF AnyRecs, RecsAt, Thens
<1>5. QED
  BY <1>2, <1>4 DEF p

LEMMA ReadyBmap ==
  ASSUME TypeInv, NEW t \in Tasks, NEW b \in FileBlocks, NEW make \in BOOLEAN, Bmap(t, b, make)
  PROVE  \E g : /\ Ready(t, g) /\ Level(t, g) /\ g.then = "done" /\ InNode(g)
                /\ NoneWrites(job, g) /\ g.file = handle[t] /\ job[t] = Idle
<1> DEFINE g == [Job EXCEPT !.file = handle[t], !.asked = b, !.make = make, !.path = Path(b)]
<1>0. handle[t] \in Files
  BY DEF Bmap, TypeInv, OthersTyped
<1>1. BmapFrom(g, handle[t], b, make) /\ Level(t, g)
  BY DEF BmapFrom, Bmap
<1> HIDE DEF g
<1>2. /\ g \in AnyRecs /\ g.at = "idle" /\ g.then = "done" /\ g.zone = 0 /\ g.file = handle[t]
      /\ g.asked = b /\ g.buf = NodeBlock /\ g.path = Path(b)
  BY <1>0, <1>1, BmapFields
<1>3. InNode(g) /\ OnPath(g) /\ g.buf # <<"index", Eof>>
  BY <1>2, Names DEF InNode, OnPath
<1>4. ~ halted /\ job[t].at = "idle" /\ ~ Mapping(handle[t])
  BY DEF Bmap, Free
<1>5. \A u \in Tasks : job[u] # Idle => job[u].file # g.file
  <2> SUFFICES ASSUME NEW u \in Tasks, job[u] # Idle, job[u].file = g.file PROVE FALSE
    OBVIOUS
  <2>1. job[u] \in JobRecs
    BY DEF TypeInv, JobsSound
  <2>2. job[u].at # "idle"
    BY <2>1, NotIdle
  <2>3. QED
    BY <2>2, <1>2, <1>4 DEF Mapping
<1>6. job[t] = Idle
  BY <1>4, NotIdle DEF TypeInv, JobsSound
<1>7. Ready(t, g)
  BY <1>0, <1>2, <1>3, <1>4, <1>5, <1>6 DEF Ready
<1>8. NoneWrites(job, g)
  BY <1>5 DEF NoneWrites
<1>9. QED
  BY <1>1, <1>2, <1>3, <1>6, <1>7, <1>8

\* A task that is not waiting for a write in bmap: it looks, or is back.
LEMMA ReadyHere ==
  ASSUME TypeInv, NEW t \in Tasks, ~ halted, job[t].at \in {"look", "back"},
         job[t].at = "look" \/ job[t].then \in {"store", "next"}
  PROVE  /\ Ready(t, job[t]) /\ job[t] # Idle /\ NoneWrites(job, job[t])
         /\ job[t].at = "look" => job[t].then \in {"done", "next"}
<1>1. job[t] # Idle
  BY DEF Idle
<1>2. job[t] \in JobRecs /\ Shape(job[t]) /\ job[t].buf # <<"index", Eof>>
  BY <1>1 DEF TypeInv, JobsSound
<1>3. /\ job[t].file # 0 /\ OnPath(job[t])
      /\ job[t].at = "look" => job[t].then \in {"done", "next"}
  BY <1>1, <1>2 DEF Shape
<1>4. job[t] \in AnyRecs /\ job[t].file \in Files
  BY <1>2, <1>3, NotIdle
<1>5. \A u \in Tasks : job[u] # Idle /\ job[u].file = job[t].file => u = t
  BY <1>1, <1>3 DEF TypeInv, JobsSound, Distinct
<1>6. NoneWrites(job, job[t])
  BY <1>5 DEF NoneWrites
<1>7. Ready(t, job[t])
  BY <1>2, <1>3, <1>4, <1>5 DEF Ready
<1>8. QED
  BY <1>1, <1>3, <1>6, <1>7

LEMMA BmapTypes ==
  ASSUME TypeInv, NEW t \in Tasks, NEW b \in FileBlocks, NEW make \in BOOLEAN, Bmap(t, b, make)
  PROVE  TypeInv'
BY ReadyBmap, LevelTypes

LEMMA LookTypes ==
  ASSUME TypeInv, NEW t \in Tasks, Look(t)
  PROVE  TypeInv'
<1>1. ~ halted /\ job[t].at = "look" /\ Level(t, job[t])
  BY DEF Look
<1>2. Ready(t, job[t]) /\ job[t].then \in {"done", "next"}
  BY <1>1, ReadyHere
<1>3. QED
  BY <1>1, <1>2, LevelTypes

LEMMA CleanedBlocks ==
  ASSUME TypeInv, NEW t
  PROVE  Cleaned(t) \in SUBSET BlockNames
BY DEF TypeInv, OthersTyped, Cleaned

LEMMA StoreReady ==
  ASSUME TypeInv, NEW t \in Tasks, Store(t)
  PROVE  /\ Ready(t, job[t]) /\ job[t] # Idle /\ job[t].zone \in Refs /\ NoneWrites(job, job[t])
         /\ job[t].then = "store" /\ job[t].at = "back" /\ disk' = disk
         /\ Record(t, job[t], job[t].zone, Cleaned(t))
<1>1. /\ ~ halted /\ job[t].at = "back" /\ job[t].then = "store" /\ disk' = disk
      /\ Record(t, job[t], job[t].zone, Cleaned(t))
  BY DEF Store, Return
<1>2. Ready(t, job[t]) /\ job[t] # Idle /\ NoneWrites(job, job[t])
  BY <1>1, ReadyHere
<1>3. Shape(job[t])
  BY DEF TypeInv, JobsSound
<1>4. job[t].zone \in Refs
  <2>1. CASE job[t].zone = Eof
    BY <2>1 DEF Refs
  <2>2. CASE job[t].zone # Eof
    BY <2>2, <1>1, <1>2, <1>3 DEF Refs, Shape, Coming
  <2>3. QED
    BY <2>1, <2>2
<1>5. QED
  BY <1>1, <1>2, <1>4

LEMMA StoreTypes ==
  ASSUME TypeInv, NEW t \in Tasks, Store(t)
  PROVE  TypeInv'
BY StoreReady, CleanedBlocks, RecordTypes

LEMMA NextReady ==
  ASSUME TypeInv, NEW t \in Tasks, NextLevel(t)
  PROVE  /\ Ready(t, job[t]) /\ job[t] # Idle /\ NoneWrites(job, job[t])
         /\ job[t].then = "next" /\ job[t].at = "back" /\ disk' = disk
         /\ GoOn(t, job[t], Cleaned(t))
<1>1. /\ ~ halted /\ job[t].at = "back" /\ job[t].then = "next" /\ disk' = disk
      /\ GoOn(t, job[t], Cleaned(t))
  BY DEF NextLevel, Return
<1>2. QED
  BY <1>1, ReadyHere

LEMMA NextTypes ==
  ASSUME TypeInv, NEW t \in Tasks, NextLevel(t)
  PROVE  TypeInv'
BY NextReady, CleanedBlocks, GoOnTypes

LEMMA FreeIdle ==
  ASSUME TypeInv, NEW t \in Tasks, Free(t)
  PROVE  job[t] = Idle /\ ~ halted
BY NotIdle DEF Free, TypeInv, JobsSound

\* A call that ends with a write.
Writes(t, h, b) ==
    /\ job' = [job EXCEPT ![t] = h] /\ h # Idle
    /\ h.at = "write" /\ h.block = b /\ h.then = "done" /\ h.file = 0 /\ ~ Coming(h)

LEMMA WriteDone ==
  ASSUME TypeInv, NEW t \in Tasks, NEW b \in BlockNames, NEW d, Write(t, Job, b, "done", d),
         \A u \in Tasks \ {t} : own'[u] = own[u] /\ node'[u] = node[u],
         ~ halted' => ~ halted
  PROVE  JobsSound' /\ Others(job', job, t) /\ dirty' = d /\ \E h : Writes(t, h, b) /\ job'[t] = h
<1>1. "done" \in Thens /\ Job \in AnyRecs /\ Job.zone = 0 /\ Job.file = 0 /\ Job.buf = NodeBlock
  BY JobFields DEF Thens
<1>2. PICK h : Became(h, Job, "done", 0, b) /\ job' = [job EXCEPT ![t] = h] /\ dirty' = d
  <2>1. \E h : Became(h, Job, "done", Job.zone, b) /\ job' = [job EXCEPT ![t] = h] /\ dirty' = d
    BY <1>1, WriteJobPlain, Zenon
  <2>2. QED
    BY <2>1, <1>1
<1>3. WritesFor(Job, "done", 0, b)
  BY <1>1 DEF WritesFor
<1>n. /\ "done" # "got" /\ "done" # "inode" /\ Job.buf # <<"index", Eof>>
      /\ ~ halted' => ~ halted
  BY <1>1, Names
<1>4. JobsSound' /\ Others(job', job, t) /\ job'[t] = h
  <2>1. Shape(h) /\ h \in JobRecs \cup {Idle}
    BY <1>2, <1>3, BecameShape
  <2>2. h.then = "done" /\ h.file = 0 /\ h.buf = Job.buf
    BY <1>1, <1>2 DEF Became
  <2>3. /\ h # Idle /\ h.then = "got" => own'[t] = 0
        /\ h # Idle /\ h.then = "inode" => node'[t] = 0
        /\ h # Idle /\ h.file # 0 => \A u \in Tasks \ {t} : job[u] # Idle => job[u].file # h.file
        /\ ~ halted' => ~ halted /\ (h # Idle => h.buf # <<"index", Eof>>)
    BY <2>2, <1>n
  <2>4. job' = [job EXCEPT ![t] = h]
    BY <1>2
  <2>5. QED
    BY <2>1, <2>3, <2>4, JobsStep
<1>5. h # Idle
  BY <1>2, <1>3, BecameShape
<1>6. Writes(t, h, b)
  BY <1>1, <1>2, <1>5 DEF Writes, Became, Coming
<1>7. QED
  BY <1>2, <1>4, <1>6

LEMMA HaltTypes ==
  ASSUME TypeInv, Halt
  PROVE  TypeInv'
<1>1. /\ mem' = mem /\ disk' = disk /\ dirty' = dirty /\ job' = job /\ own' = own /\ node' = node
      /\ handle' = handle /\ table' = table /\ told' = told /\ crashes' = crashes /\ halted' = TRUE
  BY DEF Halt, diskVars, clientVars
<1>2. JobsSound'
  BY <1>1, JobsKept
<1>3. QED
  BY <1>1, <1>2 DEF TypeInv, OthersTyped

BackFrom(h, g) == h = [g EXCEPT !.at = "back"]

LEMMA BackJob ==
  ASSUME NEW g \in JobRecs, NEW h, BackFrom(h, g)
  PROVE  h \in JobRecs /\ BackAs(h, g)
BY BackFields DEF BackFrom

Copied(e, d, m) == \A i \in 0 .. NrImaps - 1 :
    e[<<"imap", i>>] = m[<<"imap", i>>] \/ e[<<"imap", i>>] = d[<<"imap", i>>]

LEMMA CopiedNumbers ==
  ASSUME NEW e, NEW d, NEW m, Copied(e, d, m), NEW x \in NumberSpace, Number(m, x), Number(d, x)
  PROVE  Number(e, x)
<1> DEFINE q == x \div BlockBits
<1>1. q \in 0 .. NrImaps - 1
  BY NumberMaps
<1> HIDE DEF q
<1>2. e[<<"imap", q>>] = m[<<"imap", q>>] \/ e[<<"imap", q>>] = d[<<"imap", q>>]
  BY <1>1 DEF Copied
<1>3. QED
  BY <1>2 DEF Number, q

LEMMA TransferEffect ==
  ASSUME TypeInv, NEW t \in Tasks, Transfer(t)
  PROVE  /\ TypeInv' /\ Others(job', job, t) /\ Copies(disk', disk, mem, job[t].block)
         /\ BackAs(job'[t], job[t]) /\ job[t].at = "write" /\ job[t].block \in BlockNames
         /\ (Coming(job'[t]) <=> Coming(job[t])) /\ ~ halted
         /\ UNCHANGED <<mem, own, node, handle, table, told, crashes, halted>>
<1> DEFINE g == job[t]  h == [job[t] EXCEPT !.at = "back"]
<1>1. /\ ~ halted /\ g.at = "write" /\ job' = [job EXCEPT ![t] = h]
      /\ disk' = [disk EXCEPT ![g.block] = mem[g.block]]
      /\ mem' = mem /\ dirty' = dirty /\ own' = own /\ node' = node
      /\ handle' = handle /\ table' = table /\ told' = told /\ crashes' = crashes /\ halted' = halted
  BY DEF Transfer, clientVars, machine
<1>2. BackFrom(h, g)
  BY DEF BackFrom
<1> HIDE DEF h
<1>3. g # Idle
  BY <1>1 DEF Idle
<1>4. g \in JobRecs /\ Shape(g)
  BY <1>3 DEF TypeInv, JobsSound
<1>5. h \in JobRecs /\ BackAs(h, g)
  BY <1>2, <1>4, BackJob
<1>6. h # Idle
  BY <1>5, NotIdle
<1>7. /\ h.at = "back" /\ h.block = g.block /\ h.then = g.then /\ h.zone = g.zone /\ h.slot = g.slot
      /\ h.file = g.file /\ h.asked = g.asked /\ h.buf = g.buf /\ h.path = g.path
  BY <1>5 DEF BackAs
<1>8. Coming(h) <=> Coming(g)
  BY <1>1, <1>7 DEF Coming
<1>9. h.file # 0 => OnPath(h)
  BY <1>3, <1>4, <1>7, SamePath DEF Shape
<1>10. Shape(h)
  BY <1>1, <1>3, <1>4, <1>5, <1>7, <1>8, <1>9 DEF Shape
<1>11. /\ h # Idle /\ h.then = "got" => own'[t] = 0
       /\ h # Idle /\ h.then = "inode" => node'[t] = 0
       /\ h # Idle /\ h.file # 0 => \A u \in Tasks \ {t} : job[u] # Idle => job[u].file # h.file
       /\ ~ halted' => ~ halted /\ (h # Idle => h.buf # <<"index", Eof>>)
  BY <1>1, <1>3, <1>7 DEF TypeInv, JobsSound, Distinct
<1>12. h \in JobRecs \cup {Idle}
  BY <1>5
<1>13. JobsSound' /\ Others(job', job, t) /\ job'[t] = h
  BY <1>1, <1>10, <1>11, <1>12, JobsStep
<1>14. g.block \in BlockNames
  BY <1>4, NotIdle
<1>15. Blocks(disk') /\ Copies(disk', disk, mem, g.block)
  BY <1>1, <1>14, CopyBlock DEF TypeInv
<1>16. Padded(disk')
  <2>1. \A i \in 0 .. NrZmaps - 1 : \/ disk'[<<"zmap", i>>] = mem[<<"zmap", i>>]
                                    \/ disk'[<<"zmap", i>>] = disk[<<"zmap", i>>]
    BY <1>15, Names DEF Copies
  <2>2. QED
    BY <2>1 DEF TypeInv, Padded
<1>n. Number(disk', 0)
  <2>1. Copied(disk', disk, mem)
    BY <1>15, Names DEF Copies, Copied
  <2>2. QED
    BY <2>1, CopiedNumbers, SmallNumbers DEF TypeInv
<1>17. TypeInv'
  BY <1>1, <1>13, <1>15, <1>16, <1>n DEF TypeInv, OthersTyped
<1>18. QED
  BY <1>1, <1>5, <1>8, <1>13, <1>14, <1>15, <1>17

LEMMA DoneTypes ==
  ASSUME TypeInv, NEW t \in Tasks, Done(t)
  PROVE  TypeInv' /\ Others(job', job, t) /\ job'[t] = Idle
<1>1. /\ dirty' = Cleaned(t) /\ job' = [job EXCEPT ![t] = Idle] /\ disk' = disk
      /\ mem' = mem /\ own' = own /\ node' = node
      /\ handle' = handle /\ table' = table /\ told' = told /\ crashes' = crashes /\ halted' = halted
  BY DEF Done, Return, clientVars, machine
<1>2. JobsSound' /\ Others(job', job, t) /\ job'[t] = Idle
  BY <1>1, JobsEnd
<1>3. QED
  BY <1>1, <1>2, CleanedBlocks DEF TypeInv, OthersTyped

\* balloc, by its cases.
BallocTakes(t, z, h) ==
    /\ Marks(mem', mem, z) /\ Became(h, Job, "got", z, <<"zmap", MapOf(z)>>)
    /\ job'[t] = h /\ Coming(h) /\ h.zone = z /\ h.at = "write" /\ h.file = 0
BallocFails(t, h) == mem' = mem /\ Writes(t, h, LastMap) /\ job'[t] = h

LEMMA BallocEffect ==
  ASSUME TypeInv, NEW t \in Tasks, Balloc(t)
  PROVE  /\ TypeInv' /\ Others(job', job, t) /\ job[t] = Idle
         /\ (\E z, h : BallocTakes(t, z, h)) \/ \E h : BallocFails(t, h)
         /\ UNCHANGED <<disk, own, node, handle, table, told, crashes, halted>>
<1>1. /\ disk' = disk /\ own' = own /\ node' = node /\ handle' = handle /\ table' = table
      /\ told' = told /\ crashes' = crashes /\ halted' = halted
      /\ own[t] = 0 /\ Free(t)
  BY DEF Balloc, Empty, clientVars, machine
<1>2. job[t] = Idle /\ ~ halted
  BY <1>1, FreeIdle
<1>3. /\ Job \in AnyRecs /\ Job.file = 0 /\ Job.buf = NodeBlock /\ "got" \in Thens
      /\ "got" \in {"got", "store"} /\ Job.buf # <<"index", Eof>>
  BY JobFields, Names DEF Thens
<1>4. CASE ClearBits # {} /\ Mark(t, Job, "got")
  <2>1. PICK z, h : /\ Marks(mem', mem, z) /\ Became(h, Job, "got", z, <<"zmap", MapOf(z)>>)
                    /\ job' = [job EXCEPT ![t] = h] /\ dirty' \subseteq BlockNames
    BY <1>3, <1>4, MarkEffect
  <2>2. z \in DataZones /\ z # Eof /\ Blocks(mem') /\ Padded(mem') /\ Number(mem', 0)
    BY <2>1, Numbers, SameNumbers, SmallNumbers DEF Marks, TypeInv
  <2>3. WritesFor(Job, "got", z, <<"zmap", MapOf(z)>>)
    BY <2>2, <1>3 DEF WritesFor
  <2>4. JobsSound' /\ Others(job', job, t) /\ job'[t] = h
    BY <2>1, <2>3, <1>1, <1>2, <1>3, JobsWrite
  <2>5. TypeInv'
    BY <2>1, <2>2, <2>4, <1>1 DEF TypeInv, OthersTyped
  <2>6. BallocTakes(t, z, h)
    BY <2>1, <2>2, <2>4, <1>3 DEF BallocTakes, Became, Coming
  <2>7. QED
    BY <2>4, <2>5, <2>6, <1>1, <1>2
<1>5. CASE Write(t, Job, LastMap, "done", dirty) /\ mem' = mem
  <2>1. /\ JobsSound' /\ Others(job', job, t) /\ dirty' = dirty
        /\ \E h : Writes(t, h, LastMap) /\ job'[t] = h
    BY <1>1, <1>5, LastMapName, WriteDone
  <2>2. TypeInv'
    BY <2>1, <1>1, <1>5 DEF TypeInv, OthersTyped
  <2>3. \E h : BallocFails(t, h)
    BY <2>1, <1>5 DEF BallocFails
  <2>4. QED
    BY <2>1, <2>2, <2>3, <1>1, <1>2
<1>6. QED
  BY <1>4, <1>5 DEF Balloc

LEMMA GotEffect ==
  ASSUME TypeInv, NEW t \in Tasks, Got(t)
  PROVE  /\ TypeInv' /\ Others(job', job, t) /\ job'[t] = Idle
         /\ own' = [own EXCEPT ![t] = job[t].zone] /\ own[t] = 0
         /\ Coming(job[t]) /\ job[t].at = "back" /\ job[t].then = "got" /\ ~ halted
         /\ UNCHANGED <<mem, disk, node, handle, table, told, crashes, halted>>
<1> DEFINE z == job[t].zone
<1>1. /\ ~ halted /\ job[t].at = "back" /\ job[t].then = "got" /\ disk' = disk
      /\ own' = [own EXCEPT ![t] = z]
      /\ dirty' = Cleaned(t) /\ job' = [job EXCEPT ![t] = Idle]
      /\ mem' = mem /\ node' = node /\ handle' = handle /\ table' = table
      /\ told' = told /\ crashes' = crashes /\ halted' = halted
  BY DEF Got, Return, machine
<1>2. job[t] # Idle
  BY <1>1 DEF Idle
<1>3. Shape(job[t]) /\ own[t] = 0
  BY <1>1, <1>2 DEF TypeInv, JobsSound
<1>4. Coming(job[t])
  BY <1>1, <1>2, <1>3 DEF Shape, Coming
<1>5. z \in DataZones
  BY <1>3, <1>4, ComingZone
<1> HIDE DEF z
<1>6. /\ own' \in [Tasks -> DataZones \cup {0}]
      /\ \A u \in Tasks \ {t} : own'[u] = own[u] /\ node'[u] = node[u]
  BY <1>1, <1>5 DEF TypeInv, OthersTyped
<1>7. JobsSound' /\ Others(job', job, t) /\ job'[t] = Idle
  BY <1>1, <1>6, JobsEnd
<1>8. TypeInv'
  BY <1>1, <1>6, <1>7, CleanedBlocks DEF TypeInv, OthersTyped
<1>9. QED
  BY <1>1, <1>3, <1>4, <1>7, <1>8 DEF z

\* bfree of the zone that the task has.
Frees(t, h) ==
    /\ Unmarks(mem', mem, own[t]) /\ own' = [own EXCEPT ![t] = 0]
    /\ \E b : Writes(t, h, b)
    /\ job'[t] = h /\ Others(job', job, t)
    /\ UNCHANGED <<disk, node, handle, table, told, crashes, halted>>

LEMMA BfreeEffect ==
  ASSUME TypeInv, NEW t \in Tasks, Bfree(t)
  PROVE  /\ TypeInv' /\ job[t] = Idle /\ own[t] \in DataZones
         /\ (\E h : Frees(t, h)) \/ Halt
<1> DEFINE z == own[t]  b == <<"zmap", PartOf(z)>>
<1>1. /\ Free(t) /\ z # 0
      /\ \/ /\ BitOf(z) \in mem[b]
            /\ mem' = [mem EXCEPT ![b] = @ \ {BitOf(z)}]
            /\ own' = [own EXCEPT ![t] = 0]
            /\ Write(t, Job, b, "done", dirty \cup {b})
            /\ UNCHANGED <<disk, node, handle, table, told, machine>>
         \/ Halt
  BY DEF Bfree
<1>2. job[t] = Idle /\ ~ halted /\ z \in DataZones
  BY <1>1, FreeIdle DEF TypeInv, OthersTyped
<1> HIDE DEF z
<1>3. ASSUME BitOf(z) \in mem[b], mem' = [mem EXCEPT ![b] = @ \ {BitOf(z)}],
             own' = [own EXCEPT ![t] = 0], Write(t, Job, b, "done", dirty \cup {b}),
             UNCHANGED <<disk, node, handle, table, told, machine>>
      PROVE  TypeInv' /\ \E h : Frees(t, h)
  <2>1. Unmarks(mem', mem, z) /\ b \in BlockNames
    BY <1>2, <1>3, UnmarkEffect
  <2>2. /\ disk' = disk /\ node' = node /\ handle' = handle /\ table' = table
        /\ told' = told /\ crashes' = crashes /\ halted' = halted
    BY <1>3 DEF machine
  <2>3. /\ own' \in [Tasks -> DataZones \cup {0}]
        /\ \A u \in Tasks \ {t} : own'[u] = own[u] /\ node'[u] = node[u]
    BY <1>3, <2>2 DEF TypeInv, OthersTyped
  <2> HIDE DEF b
  <2>4. /\ JobsSound' /\ Others(job', job, t) /\ dirty' = dirty \cup {b}
        /\ \E h : Writes(t, h, b) /\ job'[t] = h
    BY <1>3, <2>1, <2>2, <2>3, WriteDone
  <2>5. Blocks(mem') /\ Padded(mem') /\ Number(mem', 0)
    BY <2>1, SameNumbers, SmallNumbers DEF Unmarks, TypeInv
  <2>6. dirty' \subseteq BlockNames
    BY <2>1, <2>4 DEF TypeInv, OthersTyped
  <2>7. TypeInv'
    BY <2>2, <2>3, <2>4, <2>5, <2>6 DEF TypeInv, OthersTyped
  <2>8. \E h : Frees(t, h)
    BY <1>3, <2>1, <2>2, <2>4 DEF Frees, z
  <2>9. QED
    BY <2>7, <2>8
<1>4. ASSUME Halt PROVE TypeInv'
  BY <1>4, HaltTypes
<1>5. TypeInv' /\ ((\E h : Frees(t, h)) \/ Halt)
  BY <1>1, <1>3, <1>4
<1>6. QED
  BY <1>1, <1>2, <1>5 DEF z

LEMMA FirstExists ==
  FirstZones \subseteq DataZones /\ FirstData \in DataZones
<1> DEFINE f == Cardinality(Files)
<1>1. f \in Nat /\ f >= 1 /\ FirstData \in Nat \ {0} /\ Zones \in Nat /\ FirstData + f <= Zones
  BY Numbers
<1> HIDE DEF f
<1>2. FirstData .. FirstData + f - 1 \subseteq DataZones /\ FirstData \in DataZones
  BY <1>1 DEF DataZones
<1>3. QED
  BY <1>2 DEF FirstZones, f

LEMMA FillEffect ==
  ASSUME TypeInv, NEW t \in Tasks, NEW c \in {Clear, Data}, Fill(t, c)
  PROVE  /\ TypeInv' /\ job[t] = Idle /\ ~ halted /\ own[t] \in DataZones /\ Others(job', job, t)
         /\ IndexAfter(mem', mem, own[t], c)
         /\ \E h : Writes(t, h, <<"index", own[t]>>) /\ job'[t] = h
         /\ UNCHANGED <<disk, own, node, handle, table, told, crashes, halted>>
<1> DEFINE z == own[t]  b == <<"index", z>>
<1>1. /\ Free(t) /\ z # 0 /\ mem' = [mem EXCEPT ![b] = c]
      /\ Write(t, Job, b, "done", dirty \cup {b})
      /\ disk' = disk /\ own' = own /\ node' = node /\ handle' = handle /\ table' = table
      /\ told' = told /\ crashes' = crashes /\ halted' = halted
  BY DEF Fill, clientVars, machine
<1>2. job[t] = Idle /\ ~ halted /\ z \in DataZones
  BY <1>1, FreeIdle DEF TypeInv, OthersTyped
<1> HIDE DEF z
<1>3. c \in Index
  <2>1. FirstData \in DataZones
    BY Numbers, FirstExists
  <2>2. QED
    BY <2>1 DEF Clear, Data, Index, Refs
<1>4. Replaces(mem', mem, <<"index", z>>, c)
  BY <1>1 DEF Replaces
<1>5. IndexAfter(mem', mem, z, c)
  BY <1>2, <1>3, <1>4, StoreIndex DEF TypeInv
<1>6. b \in BlockNames
  BY <1>2, Names
<1> HIDE DEF b
<1>7. /\ JobsSound' /\ Others(job', job, t) /\ dirty' = dirty \cup {b}
      /\ \E h : Writes(t, h, b) /\ job'[t] = h
  BY <1>1, <1>6, WriteDone
<1>8. Blocks(mem') /\ Padded(mem') /\ Number(mem', 0)
  BY <1>5, SameMarks, SameNumbers, SmallNumbers DEF IndexAfter, TypeInv
<1>9. TypeInv'
  BY <1>1, <1>6, <1>7, <1>8 DEF TypeInv, OthersTyped
<1>10. QED
  BY <1>1, <1>2, <1>5, <1>7, <1>9 DEF z, b

LEMMA MinIn ==
  ASSUME NEW S \in SUBSET Nat, S # {}
  PROVE  Min(S) \in S
BY LeastNat DEF Min

\* ialloc marks a number that is free; ifree clears it.
NumberTaken(t, x, h) ==
    /\ x \in 1 .. Inodes /\ ~ Number(mem, x) /\ NumberAfter(mem', mem, x, TRUE)
    /\ job' = [job EXCEPT ![t] = h] /\ job'[t] = h /\ h # Idle
    /\ h.at = "write" /\ h.then = "inode" /\ h.zone = x /\ h.file = 0 /\ ~ Coming(h)
    /\ Others(job', job, t)
    /\ UNCHANGED <<disk, own, node, handle, table, told, crashes, halted>>

LEMMA SetsNumber ==
  ASSUME NEW m, NEW w, Blocks(m), NEW x \in NumberSpace,
         w = [m EXCEPT ![<<"imap", x \div BlockBits>>] = @ \cup {x % BlockBits}]
  PROVE  NumberAfter(w, m, x, TRUE)
<1> DEFINE b == <<"imap", x \div BlockBits>>  c == m[b] \cup {x % BlockBits}
<1>1. Replaces(w, m, b, c)
  BY DEF Replaces
<1>2. c \in {m[b] \cup {x % BlockBits}, m[b] \ {x % BlockBits}} /\ x % BlockBits \in c
  OBVIOUS
<1> HIDE DEF c
<1>3. NumberAfter(w, m, x, x % BlockBits \in c)
  BY <1>1, <1>2, SetNumber
<1>4. QED
  BY <1>2, <1>3 DEF NumberAfter

LEMMA ClearsNumber ==
  ASSUME NEW m, NEW w, Blocks(m), NEW x \in NumberSpace,
         w = [m EXCEPT ![<<"imap", x \div BlockBits>>] = @ \ {x % BlockBits}]
  PROVE  NumberAfter(w, m, x, FALSE)
<1> DEFINE b == <<"imap", x \div BlockBits>>  c == m[b] \ {x % BlockBits}
<1>1. Replaces(w, m, b, c)
  BY DEF Replaces
<1>2. c \in {m[b] \cup {x % BlockBits}, m[b] \ {x % BlockBits}} /\ x % BlockBits \notin c
  OBVIOUS
<1> HIDE DEF c
<1>3. NumberAfter(w, m, x, x % BlockBits \in c)
  BY <1>1, <1>2, SetNumber
<1>4. QED
  BY <1>2, <1>3 DEF NumberAfter

LEMMA ClearNumbersAre ==
  ClearNumbers = {x \in NumberSpace : ~ Number(mem, x)}
BY DEF ClearNumbers, NumberSpace, Number

LEMMA IallocEffect ==
  ASSUME TypeInv, NEW t \in Tasks, Ialloc(t)
  PROVE  /\ TypeInv' /\ job[t] = Idle /\ own[t] = 0 /\ node[t] = 0
         /\ (\E x, h : NumberTaken(t, x, h)) \/ Halt
<1> DEFINE x == Min(ClearNumbers)  b == <<"imap", 0>>
<1>1. /\ Free(t) /\ own[t] = 0 /\ node[t] = 0
      /\ \/ /\ ClearNumbers # {} /\ x < Inodes
            /\ mem' = [mem EXCEPT ![<<"imap", x \div BlockBits>>] = @ \cup {x % BlockBits}]
            /\ Write(t, [Job EXCEPT !.zone = x], b, "inode", dirty \cup {b})
            /\ UNCHANGED <<disk, clientVars, machine>>
         \/ Halt
  BY DEF Ialloc, Empty
<1>2. job[t] = Idle /\ ~ halted
  BY <1>1, FreeIdle
<1>3. ASSUME ClearNumbers # {}, x < Inodes,
             mem' = [mem EXCEPT ![<<"imap", x \div BlockBits>>] = @ \cup {x % BlockBits}],
             Write(t, [Job EXCEPT !.zone = x], b, "inode", dirty \cup {b}),
             UNCHANGED <<disk, clientVars, machine>>
      PROVE  TypeInv' /\ \E n, h : NumberTaken(t, n, h)
  <2>1. ClearNumbers \in SUBSET Nat
    BY NumberMaps, ClearNumbersAre
  <2>2. x \in ClearNumbers
    BY <2>1, <1>3, MinIn
  <2> DEFINE k == [Job EXCEPT !.zone = x]
  <2>3. ZonedFrom(k, Job, x) /\ Write(t, k, b, "inode", dirty \cup {b})
    BY <1>3 DEF ZonedFrom
  <2> HIDE DEF x, k
  <2>4. x \in NumberSpace /\ ~ Number(mem, x) /\ x \in Nat /\ x # 0
    BY <2>2, ClearNumbersAre, NumberMaps DEF TypeInv
  <2>5. x \in 1 .. Inodes /\ x \in Int
    BY <2>4, <1>3, Numbers
  <2>6. NumberAfter(mem', mem, x, TRUE)
    BY <2>4, <1>3, SetsNumber DEF TypeInv
  <2>7. /\ disk' = disk /\ own' = own /\ node' = node /\ handle' = handle /\ table' = table
        /\ told' = told /\ crashes' = crashes /\ halted' = halted
    BY <1>3 DEF clientVars, machine
  <2>8. b \in BlockNames /\ "inode" \in Thens /\ Job \in AnyRecs
    BY Names, Numbers, JobFields DEF Thens
  <2> DEFINE d == dirty \cup {b}
  <2>9. Write(t, k, b, "inode", d)
    BY <2>3
  <2>10. d \subseteq BlockNames
    BY <2>8 DEF TypeInv, OthersTyped
  <2> HIDE DEF b, d
  <2>11. PICK h : Became(h, Job, "inode", x, b) /\ job' = [job EXCEPT ![t] = h] /\ dirty' = d
    BY <2>3, <2>5, <2>8, <2>9, WriteJob
  <2>12. Job.file = 0 /\ Job.buf = NodeBlock
    BY JobFields
  <2>13. WritesFor(Job, "inode", x, b)
    BY <2>5, <2>12 DEF WritesFor, Thens
  <2>14. Shape(h) /\ h \in JobRecs \cup {Idle} /\ h # Idle
    BY <2>11, <2>13, BecameShape
  <2>15. h.at = "write" /\ h.then = "inode" /\ h.zone = x /\ h.file = 0 /\ h.buf = NodeBlock
    BY <2>11, <2>12 DEF Became
  <2>16. /\ h # Idle /\ h.then = "got" => own'[t] = 0
         /\ h # Idle /\ h.then = "inode" => node'[t] = 0
         /\ h # Idle /\ h.file # 0 => \A u \in Tasks \ {t} : job[u] # Idle => job[u].file # h.file
         /\ ~ halted' => ~ halted /\ (h # Idle => h.buf # <<"index", Eof>>)
    BY <2>15, <2>7, <1>1, Names
  <2>17. job' = [job EXCEPT ![t] = h] /\ \A u \in Tasks \ {t} : own'[u] = own[u] /\ node'[u] = node[u]
    BY <2>11, <2>7
  <2>18. JobsSound' /\ Others(job', job, t) /\ job'[t] = h
    BY <2>14, <2>16, <2>17, JobsStep
  <2>19. Blocks(mem') /\ Padded(mem') /\ Number(mem', 0)
    BY <2>4, <2>6, SameMarks, SmallNumbers DEF NumberAfter, TypeInv
  <2>20. TypeInv'
    BY <2>7, <2>10, <2>11, <2>18, <2>19 DEF TypeInv, OthersTyped
  <2>21. NumberTaken(t, x, h)
    BY <2>4, <2>5, <2>6, <2>7, <2>14, <2>15, <2>17, <2>18 DEF NumberTaken, Coming
  <2>22. QED
    BY <2>20, <2>21
<1>4. ASSUME Halt PROVE TypeInv'
  BY <1>4, HaltTypes
<1>5. QED
  BY <1>1, <1>2, <1>3, <1>4

LEMMA NumberedEffect ==
  ASSUME TypeInv, NEW t \in Tasks, Numbered(t)
  PROVE  /\ TypeInv' /\ Others(job', job, t) /\ job'[t] = Idle
         /\ node' = [node EXCEPT ![t] = job[t].zone] /\ node[t] = 0
         /\ job[t] # Idle /\ job[t].then = "inode" /\ job[t].zone \in 1 .. Inodes
         /\ job[t].at = "back" /\ ~ halted
         /\ UNCHANGED <<mem, disk, own, handle, table, told, crashes, halted>>
<1> DEFINE x == job[t].zone
<1>1. /\ ~ halted /\ job[t].at = "back" /\ job[t].then = "inode" /\ disk' = disk
      /\ node' = [node EXCEPT ![t] = x]
      /\ dirty' = Cleaned(t) /\ job' = [job EXCEPT ![t] = Idle]
      /\ mem' = mem /\ own' = own /\ handle' = handle /\ table' = table
      /\ told' = told /\ crashes' = crashes /\ halted' = halted
  BY DEF Numbered, Return, machine
<1>2. job[t] # Idle
  BY <1>1 DEF Idle
<1>3. x \in 1 .. Inodes /\ node[t] = 0
  BY <1>1, <1>2 DEF TypeInv, JobsSound, Shape
<1> HIDE DEF x
<1>4. x \in 0 .. Inodes
  BY <1>3, Numbers
<1>5. node' \in [Tasks -> 0 .. Inodes] /\ \A u \in Tasks \ {t} : own'[u] = own[u] /\ node'[u] = node[u]
  BY <1>1, <1>4 DEF TypeInv, OthersTyped
<1>6. JobsSound' /\ Others(job', job, t) /\ job'[t] = Idle
  BY <1>1, <1>5, JobsEnd
<1>7. TypeInv'
  BY <1>1, <1>5, <1>6, CleanedBlocks DEF TypeInv, OthersTyped
<1>8. QED
  BY <1>1, <1>2, <1>3, <1>6, <1>7 DEF x

LEMMA IfreeEffect ==
  ASSUME TypeInv, NEW t \in Tasks, Ifree(t)
  PROVE  /\ TypeInv' /\ Others(job', job, t) /\ job[t] = Idle /\ ~ halted
         /\ node[t] \in 1 .. Inodes /\ NumberAfter(mem', mem, node[t], FALSE)
         /\ node' = [node EXCEPT ![t] = 0]
         /\ \E b, h : Writes(t, h, b) /\ job'[t] = h
         /\ UNCHANGED <<disk, own, handle, table, told, crashes, halted>>
<1> DEFINE x == node[t]  b == <<"imap", PartOf(x)>>
<1>1. /\ Free(t) /\ x # 0 /\ node' = [node EXCEPT ![t] = 0]
      /\ mem' = [mem EXCEPT ![<<"imap", x \div BlockBits>>] = @ \ {x % BlockBits}]
      /\ Write(t, Job, b, "done", dirty \cup {b})
      /\ disk' = disk /\ own' = own /\ handle' = handle /\ table' = table
      /\ told' = told /\ crashes' = crashes /\ halted' = halted
  BY DEF Ifree, machine
<1>2. job[t] = Idle /\ ~ halted /\ x \in 0 .. Inodes
  BY <1>1, FreeIdle DEF TypeInv, OthersTyped
<1> HIDE DEF x
<1>3. x \in 1 .. Inodes /\ x \in NumberSpace /\ x \in Nat /\ x # 0
  BY <1>1, <1>2, SmallNumbers, Numbers
<1>4. NumberAfter(mem', mem, x, FALSE)
  BY <1>1, <1>3, ClearsNumber DEF TypeInv
<1>5. PartOf(x) \in 0 .. NrImaps - 1
  <2> DEFINE w == NrImaps * BlockBits
  <2>1. x \in 0 .. w - 1 /\ w \in Nat
    BY <1>3, Numbers DEF NumberSpace
  <2> HIDE DEF w
  <2>2. x - 1 \in Nat /\ x - 1 < w
    BY <2>1, <1>3
  <2>3. QED
    BY <2>2, DividedBelow, Numbers DEF PartOf, w
<1>6. b \in BlockNames
  BY <1>5, Names
<1>7. \A u \in Tasks \ {t} : own'[u] = own[u] /\ node'[u] = node[u]
  BY <1>1 DEF TypeInv, OthersTyped
<1> HIDE DEF b
<1>8. /\ JobsSound' /\ Others(job', job, t) /\ dirty' = dirty \cup {b}
      /\ \E h : Writes(t, h, b) /\ job'[t] = h
  BY <1>1, <1>6, <1>7, WriteDone
<1>9. Blocks(mem') /\ Padded(mem') /\ Number(mem', 0)
  BY <1>3, <1>4, SameMarks, SmallNumbers DEF NumberAfter, TypeInv
<1>10. node' \in [Tasks -> 0 .. Inodes] /\ dirty' \subseteq BlockNames
  BY <1>1, <1>6, <1>8, Numbers DEF TypeInv, OthersTyped
<1>11. TypeInv'
  BY <1>1, <1>8, <1>9, <1>10 DEF TypeInv, OthersTyped
<1>12. QED
  BY <1>1, <1>2, <1>3, <1>4, <1>8, <1>11 DEF x

-----------------------------------------------------------------------------
(* The table of inodes: the entries but s stay as they are.                *)
SlotIs(s, nr, count) ==
    /\ s \in Slots /\ table' \in [Slots -> [nr : Files \cup {0}, count : Nat]]
    /\ table'[s].nr = nr /\ table'[s].count = count
    /\ \A r \in Slots \ {s} : table'[r] = table[r]

LEMMA SlotWhole ==
  ASSUME TypeInv, NEW s \in Slots, NEW n \in Files \cup {0}, NEW c \in Nat,
         table' = [table EXCEPT ![s] = [nr |-> n, count |-> c]]
  PROVE  SlotIs(s, n, c)
BY DEF TypeInv, OthersTyped, SlotIs

LEMMA SlotCount ==
  ASSUME TypeInv, NEW s \in Slots, NEW c \in Nat,
         table' = [table EXCEPT ![s] = [@ EXCEPT !.count = c]]
  PROVE  SlotIs(s, table[s].nr, c)
<1>1. table \in [Slots -> [nr : Files \cup {0}, count : Nat]]
  BY DEF TypeInv, OthersTyped
<1> DEFINE e == [table[s] EXCEPT !.count = c]
<1>2. e \in [nr : Files \cup {0}, count : Nat] /\ e.nr = table[s].nr /\ e.count = c
  BY <1>1
<1>3. table' = [table EXCEPT ![s] = e]
  BY <1>1
<1> HIDE DEF e
<1>4. QED
  BY <1>1, <1>2, <1>3 DEF SlotIs

LEMMA SlotNr ==
  ASSUME TypeInv, NEW s \in Slots,
         table' = [table EXCEPT ![s] = [@ EXCEPT !.nr = 0]]
  PROVE  SlotIs(s, 0, table[s].count)
<1>1. table \in [Slots -> [nr : Files \cup {0}, count : Nat]]
  BY DEF TypeInv, OthersTyped
<1> DEFINE e == [table[s] EXCEPT !.nr = 0]
<1>2. e \in [nr : Files \cup {0}, count : Nat] /\ e.nr = 0 /\ e.count = table[s].count
  BY <1>1
<1>3. table' = [table EXCEPT ![s] = e]
  BY <1>1
<1> HIDE DEF e
<1>4. QED
  BY <1>1, <1>2, <1>3 DEF SlotIs

LEMMA FirstSlot ==
  ASSUME NEW n, InTable(n) # {}
  PROVE  Min(InTable(n)) \in Slots /\ table[Min(InTable(n))].nr = n
<1>1. InTable(n) \in SUBSET Nat
  BY DEF InTable, Slots
<1>2. Min(InTable(n)) \in InTable(n)
  BY <1>1, MinIn
<1>3. QED
  BY <1>2 DEF InTable

\* iget finds the inode, or takes an entry for it.
Joins(t, n, s) ==
    /\ handle' = [handle EXCEPT ![t] = n]
    /\ \/ table[s].nr = n /\ SlotIs(s, n, table[s].count + 1)
       \/ InTable(n) = {} /\ table[s].nr = 0 /\ SlotIs(s, n, 1)
    /\ UNCHANGED <<mem, disk, dirty, job, own, node, told, crashes, halted>>

LEMMA IgetEffect ==
  ASSUME TypeInv, NEW t \in Tasks, NEW n \in Files, Iget(t, n)
  PROVE  /\ TypeInv' /\ job' = job /\ handle[t] = 0 /\ ~ halted
         /\ (\E s : Joins(t, n, s)) \/ Halt
<1>1. Free(t) /\ own[t] = 0 /\ node[t] = 0 /\ handle[t] = 0
  BY DEF Iget, Empty
<1>2. job[t] = Idle /\ ~ halted
  BY <1>1, FreeIdle
<1>3. ASSUME NEW s, Joins(t, n, s) PROVE TypeInv'
  <2>1. /\ handle' = [handle EXCEPT ![t] = n] /\ mem' = mem /\ disk' = disk /\ dirty' = dirty
        /\ job' = job /\ own' = own /\ node' = node /\ told' = told /\ crashes' = crashes
        /\ halted' = halted /\ table' \in [Slots -> [nr : Files \cup {0}, count : Nat]]
    BY <1>3 DEF Joins, SlotIs
  <2>2. handle' \in [Tasks -> Files \cup {0}]
    BY <2>1 DEF TypeInv, OthersTyped
  <2>3. JobsSound'
    BY <2>1, JobsKept
  <2>4. QED
    BY <2>1, <2>2, <2>3 DEF TypeInv, OthersTyped
<1>4. CASE /\ InTable(n) # {}
           /\ table' = [table EXCEPT ![Min(InTable(n))].count = @ + 1]
           /\ handle' = [handle EXCEPT ![t] = n]
           /\ UNCHANGED <<diskVars, job, own, node, told, machine>>
  <2> DEFINE s == Min(InTable(n))  c == table[s].count + 1
  <2>1. s \in Slots /\ table[s].nr = n
    BY <1>4, FirstSlot
  <2>2. table' = [table EXCEPT ![s] = [@ EXCEPT !.count = c]]
    BY <1>4
  <2> HIDE DEF s
  <2>3. c \in Nat
    BY <2>1 DEF TypeInv, OthersTyped
  <2> HIDE DEF c
  <2>4. SlotIs(s, table[s].nr, c)
    BY <2>1, <2>2, <2>3, SlotCount
  <2>5. Joins(t, n, s)
    BY <2>1, <2>4, <1>4 DEF Joins, c, diskVars, machine
  <2>6. job' = job
    BY <2>5 DEF Joins
  <2>7. QED
    BY <2>5, <2>6, <1>1, <1>2, <1>3
<1>5. CASE /\ InTable(n) = {} /\ InTable(0) # {}
           /\ table' = [table EXCEPT ![Min(InTable(0))] = [nr |-> n, count |-> 1]]
           /\ handle' = [handle EXCEPT ![t] = n]
           /\ UNCHANGED <<diskVars, job, own, node, told, machine>>
  <2> DEFINE s == Min(InTable(0))
  <2>1. s \in Slots /\ table[s].nr = 0
    BY <1>5, FirstSlot
  <2>2. table' = [table EXCEPT ![s] = [nr |-> n, count |-> 1]]
    BY <1>5
  <2> HIDE DEF s
  <2>3. SlotIs(s, n, 1)
    BY <2>1, <2>2, SlotWhole
  <2>5. Joins(t, n, s)
    BY <2>1, <2>3, <1>5 DEF Joins, diskVars, machine
  <2>6. job' = job
    BY <2>5 DEF Joins
  <2>7. QED
    BY <2>5, <2>6, <1>1, <1>2, <1>3
<1>6. CASE Halt
  <2>1. job' = job
    BY <1>6 DEF Halt
  <2>2. QED
    BY <2>1, <1>1, <1>2, <1>6, HaltTypes
<1>7. QED
  BY <1>4, <1>5, <1>6 DEF Iget

\* iput gives an inode back; the last that has it may have to write it first.
Leaves(t, n, s) ==
    /\ s \in Slots /\ table[s].nr = n /\ handle' = [handle EXCEPT ![t] = 0]
    /\ \/ table[s].count > 1 /\ SlotIs(s, n, table[s].count - 1)
       \/ table[s].count = 1 /\ SlotIs(s, 0, 0)
       \/ table[s].count = 1 /\ SlotIs(s, n, 0)
    /\ Others(job', job, t)
    /\ job'[t] = Idle \/ (job'[t] # Idle /\ job'[t].then = "put" /\ job'[t].file = 0)
    /\ UNCHANGED <<mem, disk, own, node, told, crashes, halted>>

LEMMA IputEffect ==
  ASSUME TypeInv, Counted, NEW t \in Tasks, Iput(t)
  PROVE  /\ TypeInv' /\ job[t] = Idle /\ handle[t] \in Files /\ ~ halted
         /\ \E s : Leaves(t, handle[t], s)
<1> DEFINE n == handle[t]  s == Min(InTable(n))
<1>1. /\ Free(t) /\ n # 0 /\ handle' = [handle EXCEPT ![t] = 0]
      /\ mem' = mem /\ disk' = disk /\ own' = own /\ node' = node /\ told' = told
      /\ crashes' = crashes /\ halted' = halted
  BY DEF Iput, machine
<1>2. job[t] = Idle /\ ~ halted /\ n \in Files
  BY <1>1, FreeIdle DEF TypeInv, OthersTyped
<1>3. s \in Slots /\ table[s].nr = n
  BY <1>1, <1>2, FirstSlot DEF Counted, Counts, Holds, InTable
<1>c. \/ /\ table[s].count > 1
         /\ table' = [table EXCEPT ![s].count = @ - 1]
         /\ UNCHANGED <<dirty, job>>
      \/ /\ table[s].count = 1
         /\ table' = [table EXCEPT ![s] = [nr |-> 0, count |-> 0]]
         /\ UNCHANGED <<dirty, job>>
      \/ /\ table[s].count = 1
         /\ table' = [table EXCEPT ![s].count = 0]
         /\ Write(t, [Job EXCEPT !.slot = s], NodeBlock, "put", dirty)
  BY DEF Iput
<1> HIDE DEF n, s
<1>4. handle' \in [Tasks -> Files \cup {0}] /\ table[s].count \in Nat
  BY <1>1, <1>3 DEF TypeInv, OthersTyped
<1>5. ASSUME table' \in [Slots -> [nr : Files \cup {0}, count : Nat]], JobsSound', dirty' \subseteq BlockNames
      PROVE  TypeInv'
  BY <1>1, <1>4, <1>5 DEF TypeInv, OthersTyped
<1>6. ASSUME job' = job, dirty' = dirty PROVE JobsSound' /\ dirty' \subseteq BlockNames /\ Others(job', job, t) /\ job'[t] = Idle
  BY <1>1, <1>2, <1>6, JobsKept DEF Others, TypeInv, OthersTyped
<1>7. CASE /\ table[s].count > 1
           /\ table' = [table EXCEPT ![s].count = @ - 1]
           /\ UNCHANGED <<dirty, job>>
  <2> DEFINE c == table[s].count - 1
  <2>1. c \in Nat
    BY <1>4, <1>7
  <2>2. table' = [table EXCEPT ![s] = [@ EXCEPT !.count = c]]
    BY <1>7
  <2> HIDE DEF c
  <2>3. SlotIs(s, n, c)
    BY <1>3, <2>1, <2>2, SlotCount
  <2>o. JobsSound' /\ dirty' \subseteq BlockNames /\ Others(job', job, t) /\ job'[t] = Idle
    BY <1>6, <1>7
  <2>t. table[s].count > 1 /\ SlotIs(s, n, table[s].count - 1)
    BY <2>3, <1>7 DEF c
  <2>4. Leaves(t, n, s)
    BY <2>t, <2>o, <1>1, <1>3, Zenon DEF Leaves
  <2>5. TypeInv'
    BY <2>3, <1>5, <1>6, <1>7 DEF SlotIs
  <2>6. QED
    BY <2>4, <2>5, <1>2 DEF n
<1>8. CASE /\ table[s].count = 1
           /\ table' = [table EXCEPT ![s] = [nr |-> 0, count |-> 0]]
           /\ UNCHANGED <<dirty, job>>
  <2>3. SlotIs(s, 0, 0)
    BY <1>3, <1>8, SlotWhole
  <2>o. JobsSound' /\ dirty' \subseteq BlockNames /\ Others(job', job, t) /\ job'[t] = Idle
    BY <1>6, <1>8
  <2>4. Leaves(t, n, s)
    BY <2>3, <2>o, <1>1, <1>3, <1>8, Zenon DEF Leaves
  <2>5. TypeInv'
    BY <2>3, <1>5, <1>6, <1>8 DEF SlotIs
  <2>6. QED
    BY <2>4, <2>5, <1>2 DEF n
<1>9. CASE /\ table[s].count = 1
           /\ table' = [table EXCEPT ![s].count = 0]
           /\ Write(t, [Job EXCEPT !.slot = s], NodeBlock, "put", dirty)
  <2>2. table' = [table EXCEPT ![s] = [@ EXCEPT !.count = 0]] /\ 0 \in Nat
    BY <1>9
  <2>3. SlotIs(s, n, 0)
    BY <1>3, <2>2, SlotCount
  <2> DEFINE k == [Job EXCEPT !.slot = s]
  <2>4. /\ k \in AnyRecs /\ k.slot = s /\ k.file = 0 /\ k.buf = NodeBlock
        /\ NodeBlock \in BlockNames /\ "put" \in Thens
    <3>1. s \in Nat
      BY <1>3 DEF Slots
    <3>2. Job.file = 0 /\ Job.buf = NodeBlock /\ Job \in AnyRecs /\ NodeBlock \in BlockNames
      BY JobFields, Names
    <3>3. QED
      BY <3>1, <3>2 DEF AnyRecs, RecsAt, Thens
  <2>5. Write(t, k, NodeBlock, "put", dirty)
    BY <1>9
  <2> HIDE DEF k
  <2> DEFINE d == dirty
  <2>d. Write(t, k, NodeBlock, "put", d)
    BY <2>5
  <2> HIDE DEF d
  <2>w. \E h : Became(h, k, "put", k.zone, NodeBlock) /\ job' = [job EXCEPT ![t] = h] /\ dirty' = d
    <3>1. k \in AnyRecs /\ NodeBlock \in BlockNames /\ "put" \in Thens
      BY <2>4
    <3>2. QED
      BY <3>1, <2>d, WriteJobPlain, Zenon
  <2>6. PICK h : Became(h, k, "put", k.zone, NodeBlock) /\ job' = [job EXCEPT ![t] = h] /\ dirty' = dirty
    BY <2>w DEF d
  <2>7. WritesFor(k, "put", k.zone, NodeBlock)
    BY <2>4, <1>3 DEF WritesFor
  <2>8. Shape(h) /\ h \in JobRecs \cup {Idle} /\ h # Idle
    BY <2>6, <2>7, BecameShape
  <2>9. h.then = "put" /\ h.file = 0 /\ h.buf = NodeBlock
    BY <2>4, <2>6 DEF Became
  <2>10. /\ h # Idle /\ h.then = "got" => own'[t] = 0
         /\ h # Idle /\ h.then = "inode" => node'[t] = 0
         /\ h # Idle /\ h.file # 0 => \A u \in Tasks \ {t} : job[u] # Idle => job[u].file # h.file
         /\ ~ halted' => ~ halted /\ (h # Idle => h.buf # <<"index", Eof>>)
    BY <2>9, <1>1, Names
  <2>11. job' = [job EXCEPT ![t] = h] /\ \A u \in Tasks \ {t} : own'[u] = own[u] /\ node'[u] = node[u]
    BY <2>6, <1>1
  <2>12. JobsSound' /\ Others(job', job, t) /\ job'[t] = h
    BY <2>8, <2>10, <2>11, JobsStep
  <2>13. Leaves(t, n, s)
    BY <2>3, <2>8, <2>9, <2>12, <1>1, <1>3, <1>9 DEF Leaves
  <2>14. dirty' \subseteq BlockNames
    BY <2>6 DEF TypeInv, OthersTyped
  <2>15. TypeInv'
    BY <2>3, <2>12, <2>14, <1>5 DEF SlotIs
  <2>16. QED
    BY <2>13, <2>15, <1>2 DEF n
<1>10. QED
  BY <1>c, <1>7, <1>8, <1>9

LEMMA PutInodeEffect ==
  ASSUME TypeInv, NEW t \in Tasks, PutInode(t)
  PROVE  /\ TypeInv' /\ Others(job', job, t) /\ job'[t] = Idle /\ job[t] # Idle /\ job[t].then = "put"
         /\ job[t].at = "back"
         /\ UNCHANGED <<mem, disk, own, node, handle, told, crashes>>
         /\ halted' \/ (~ halted /\ halted' = halted /\ \E s : /\ table[s].nr # 0 /\ table[s].count = 0
                                                  /\ SlotIs(s, 0, 0))
<1> DEFINE s == job[t].slot
<1>1. /\ ~ halted /\ job[t].at = "back" /\ job[t].then = "put" /\ disk' = disk
      /\ dirty' = Cleaned(t) /\ job' = [job EXCEPT ![t] = Idle]
      /\ mem' = mem /\ own' = own /\ node' = node /\ handle' = handle
      /\ told' = told
  BY DEF PutInode, Return
<1>2. job[t] # Idle
  BY <1>1 DEF Idle
<1>3. s \in Slots
  BY <1>1, <1>2 DEF TypeInv, JobsSound, Shape
<1>4. /\ JobsSound' /\ Others(job', job, t) /\ job'[t] = Idle
  BY <1>1, JobsEnd
<1>5. \/ /\ table[s].nr # 0 /\ table[s].count = 0
         /\ table' = [table EXCEPT ![s].nr = 0]
         /\ halted' = halted /\ crashes' = crashes
      \/ halted' = TRUE /\ table' = table /\ crashes' = crashes
  BY DEF PutInode, machine
<1> HIDE DEF s
<1>6. CASE /\ table[s].nr # 0 /\ table[s].count = 0
           /\ table' = [table EXCEPT ![s].nr = 0]
           /\ halted' = halted /\ crashes' = crashes
  <2>1. table' = [table EXCEPT ![s] = [@ EXCEPT !.nr = 0]]
    BY <1>6
  <2>2. SlotIs(s, 0, table[s].count)
    BY <1>3, <2>1, SlotNr
  <2>3. SlotIs(s, 0, 0)
    BY <2>2, <1>6
  <2>4. TypeInv'
    BY <2>3, <1>1, <1>4, <1>6, CleanedBlocks DEF TypeInv, OthersTyped, SlotIs
  <2>5. QED
    BY <2>3, <2>4, <1>1, <1>2, <1>4, <1>6
<1>7. CASE halted' = TRUE /\ table' = table /\ crashes' = crashes
  <2>1. TypeInv'
    BY <1>1, <1>4, <1>7, CleanedBlocks DEF TypeInv, OthersTyped
  <2>2. QED
    BY <2>1, <1>1, <1>2, <1>4, <1>7
<1>8. QED
  BY <1>5, <1>6, <1>7

LEMMA MountedTyped ==
  /\ Mounted \in [Slots -> [nr : Files \cup {0}, count : Nat]]
  /\ 0 \in Slots /\ Mounted[0].nr = 1 /\ Mounted[0].count = 2
  /\ \A s \in Slots \ {0} : Mounted[s].nr = 0
BY Numbers DEF Mounted, Slots

LEMMA CrashTypes ==
  ASSUME TypeInv, Crash
  PROVE  TypeInv'
<1>1. /\ crashes < MaxCrashes /\ crashes' = crashes + 1 /\ mem' = disk /\ dirty' = {}
      /\ job' = [t \in Tasks |-> Idle] /\ own' = None /\ node' = None /\ handle' = None
      /\ table' = Mounted /\ halted' = FALSE /\ disk' = disk /\ told' = told
  BY DEF Crash
<1>2. JobsSound'
  BY <1>1, IdleShape DEF JobsSound, Distinct
<1>3. crashes' \in 0 .. MaxCrashes
  BY <1>1, Numbers DEF TypeInv, OthersTyped
<1>4. /\ own' \in [Tasks -> DataZones \cup {0}] /\ node' \in [Tasks -> 0 .. Inodes]
      /\ handle' \in [Tasks -> Files \cup {0}]
  BY <1>1, Numbers DEF None
<1>5. QED
  BY <1>1, <1>2, <1>3, <1>4, MountedTyped DEF TypeInv, OthersTyped

-----------------------------------------------------------------------------
(* The zones, step by step.                                                *)
LEMMA JobsFilled ==
  ASSUME TypeInv
  PROVE  Filled(job) /\ \A u \in Tasks : Shape(job[u])
BY NotIdle DEF TypeInv, JobsSound, Filled

LEMMA SelfExtends ==
  ASSUME NEW m
  PROVE  Extends(m, m)
BY DEF Extends

LEMMA FreeWalker ==
  ASSUME NEW m, NEW d, NEW h, h = Idle \/ h.file = 0
  PROVE  Walker(m, d, h)
BY DEF Walker

LEMMA ZoneStep ==
  ASSUME TypeInv, ZoneInv, NEW t, Core(mem', disk', own', job', crashes'),
         Extends(mem', mem), Extends(disk', disk), told' = told, Others(job', job, t),
         ~ halted' => /\ ~ halted /\ SameEntries(mem', mem, job, t)
                      /\ Walker(mem', disk', job'[t])
  PROVE  ZoneInv'
<1>1. AnswersKept(mem, disk, told)
  BY DEF ZoneInv
<1>2. AnswersKept(mem', disk', told)
  BY <1>1, AnswersStep
<1>3. ~ halted' => Mapped(mem', disk', job')
  <2> SUFFICES ASSUME ~ halted' PROVE Mapped(mem', disk', job')
    OBVIOUS
  <2>1. Mapped(mem, disk, job) /\ Filled(job)
    BY JobsFilled DEF ZoneInv
  <2>2. QED
    BY <2>1, MappedStep
<1>4. AnswersKept(mem', disk', told')
  BY <1>2
<1>5. QED
  BY <1>3, <1>4 DEF ZoneInv

LEMMA TreesEntries ==
  ASSUME TypeInv, ZoneInv, ~ halted, NEW t, NEW w, SameTrees(w, mem)
  PROVE  SameEntries(w, mem, job, t)
<1>1. Mapped(mem, disk, job) /\ Filled(job)
  BY JobsFilled DEF ZoneInv
<1>2. w[NodeBlock] = mem[NodeBlock]
  BY DEF SameTrees
<1>3. \A z \in Arrays(mem) : w[<<"index", z>>] = mem[<<"index", z>>]
  BY ArraysZones DEF SameTrees
<1>4. QED
  BY <1>1, <1>2, <1>3, EntriesSame

LEMMA QuietStep ==
  ASSUME TypeInv, ZoneInv, NEW t \in Tasks, SameTrees(mem', mem), SameZmaps(mem', mem),
         disk' = disk, own' = own, told' = told, crashes' = crashes,
         ~ halted' => ~ halted, Others(job', job, t),
         job[t].at # "write", ~ Coming(job[t]), ~ Coming(job'[t]),
         ~ halted' => Walker(mem', disk, job'[t])
  PROVE  ZoneInv'
<1>1. Typed(mem, disk, own, job) /\ Core(mem, disk, own, job, crashes)
  BY TypesTyped DEF ZoneInv
<1>2. Core(mem', disk, own, job', crashes)
  BY <1>1, CoreQuiet
<1>3. Core(mem', disk', own', job', crashes')
  BY <1>2
<1>4. Extends(mem', mem) /\ Extends(disk', disk)
  BY ExtendsSame, SelfExtends
<1>5. ~ halted' => SameEntries(mem', mem, job, t)
  BY TreesEntries
<1>6. QED
  BY <1>3, <1>4, <1>5, ZoneStep

LEMMA SameAll ==
  ASSUME NEW m
  PROVE  SameTrees(m, m) /\ SameZmaps(m, m) /\ SameImaps(m, m)
BY DEF SameTrees, SameZmaps, SameImaps

LEMMA IdleComing ==
  Idle.at = "idle" /\ ~ Coming(Idle)
BY DEF Idle, Coming

LEMMA HaltZone ==
  ASSUME ZoneInv, Halt
  PROVE  ZoneInv'
<1>1. /\ mem' = mem /\ disk' = disk /\ job' = job /\ own' = own
      /\ told' = told /\ crashes' = crashes /\ halted' = TRUE
  BY DEF Halt, diskVars, clientVars
<1>2. QED
  BY <1>1 DEF ZoneInv

LEMMA ReachedLike ==
  ASSUME NEW m, NEW g, NEW h, Reached(m, g),
         h.file = g.file, h.asked = g.asked, h.buf = g.buf, h.path = g.path
  PROVE  Reached(m, h)
BY DEF Reached, InNode, InFirst, InSecond, InThird

LEMMA TransferZone ==
  ASSUME TypeInv, ZoneInv, NEW t \in Tasks, Transfer(t)
  PROVE  ZoneInv'
<1> DEFINE g == job[t]  h == job'[t]  b == job[t].block
<1>1. /\ Others(job', job, t) /\ Copies(disk', disk, mem, b)
      /\ BackAs(h, g) /\ g.at = "write" /\ b \in BlockNames
      /\ (Coming(h) <=> Coming(g)) /\ ~ halted
      /\ mem' = mem /\ own' = own /\ told' = told /\ crashes' = crashes /\ halted' = halted
  BY TransferEffect
<1> HIDE DEF h
<1>2. h.at = "back" /\ h.zone = g.zone /\ h.file = g.file /\ h.asked = g.asked /\ h.then = g.then
      /\ h.buf = g.buf /\ h.path = g.path
  BY <1>1 DEF BackAs
<1>3. Typed(mem, disk, own, job) /\ Core(mem, disk, own, job, crashes)
  BY TypesTyped DEF ZoneInv
<1>4. Core(mem, disk', own, job', crashes) /\ Extends(disk', disk)
  BY <1>1, <1>2, <1>3, CoreCopy DEF h
<1>5. g # Idle
  BY <1>1, IdleComing
<1>6. Walker(mem, disk, g) /\ (g.file # 0 => g.file \in Files)
  BY <1>1, <1>5, JobsFilled DEF ZoneInv, Mapped, Filled
<1>7. Walker(mem, disk', h)
  <2> SUFFICES ASSUME g.file # 0
               PROVE  /\ g.asked \in FileBlocks /\ Reached(mem, h) /\ Reached(disk', h)
                      /\ g.then = "store" => EntryIn(mem, h) = 0
    BY <1>2 DEF Walker
  <2>1. /\ g.asked \in FileBlocks /\ Reached(mem, g) /\ Reached(disk, g)
        /\ g.then = "store" => EntryIn(mem, g) = 0
    BY <1>5, <1>6 DEF Walker
  <2>2. Reached(disk', g)
    BY <2>1, <1>4, <1>6, ReachedKept
  <2>3. Reached(mem, h) /\ Reached(disk', h)
    BY <2>1, <2>2, <1>2, ReachedLike
  <2>4. EntryIn(mem, h) = EntryIn(mem, g)
    BY <1>2 DEF EntryIn
  <2>5. QED
    BY <2>1, <2>3, <2>4
<1>8. SameEntries(mem', mem, job, t)
  BY <1>1 DEF SameEntries
<1>9. Extends(mem', mem) /\ Extends(disk', disk)
  BY <1>1, <1>4, SelfExtends
<1>10. Core(mem', disk', own', job', crashes')
  BY <1>1, <1>4
<1>11. Walker(mem', disk', job'[t])
  BY <1>1, <1>7 DEF h
<1>12. told' = told /\ Others(job', job, t) /\ ~ halted
  BY <1>1
<1>13. QED
  BY <1>8, <1>9, <1>10, <1>11, <1>12, ZoneStep

LEMMA DoneZone ==
  ASSUME TypeInv, ZoneInv, NEW t \in Tasks, Done(t)
  PROVE  ZoneInv'
<1>1. Others(job', job, t) /\ job'[t] = Idle
  BY DoneTypes
<1>2. /\ job[t].at = "back" /\ job[t].then = "done" /\ ~ halted
      /\ mem' = mem /\ disk' = disk /\ own' = own /\ told' = told /\ crashes' = crashes /\ halted' = halted
  BY DEF Done, Return, clientVars, machine
<1>3. job[t].at # "write" /\ ~ Coming(job[t]) /\ ~ Coming(job'[t])
  BY <1>1, <1>2, IdleComing DEF Coming
<1>4. SameTrees(mem', mem) /\ SameZmaps(mem', mem)
  BY <1>2, SameAll
<1>5. Walker(mem', disk, job'[t])
  BY <1>1, FreeWalker
<1>6. QED
  BY <1>1, <1>2, <1>3, <1>4, <1>5, QuietStep

LEMMA BallocZone ==
  ASSUME TypeInv, ZoneInv, NEW t \in Tasks, Balloc(t)
  PROVE  ZoneInv'
<1>1. /\ Others(job', job, t) /\ job[t] = Idle
      /\ (\E z, h : BallocTakes(t, z, h)) \/ \E h : BallocFails(t, h)
      /\ disk' = disk /\ own' = own /\ told' = told /\ crashes' = crashes /\ halted' = halted
  BY BallocEffect
<1>2. Typed(mem, disk, own, job) /\ Core(mem, disk, own, job, crashes)
  BY TypesTyped DEF ZoneInv
<1>3. job[t].at # "write" /\ ~ Coming(job[t])
  BY <1>1, IdleComing
<1>4. ~ halted
  BY DEF Balloc, Empty, Free
<1>5. ASSUME NEW z, NEW h, BallocTakes(t, z, h) PROVE ZoneInv'
  <2>1. /\ z \in DataZones /\ ~ IsMarked(mem, z) /\ Padded(mem') /\ SameTrees(mem', mem)
        /\ \A x \in DataZones : IsMarked(mem', x) <=> x = z \/ IsMarked(mem, x)
        /\ job'[t] = h /\ Coming(h) /\ h.zone = z /\ h.at = "write" /\ h.file = 0
    BY <1>5 DEF BallocTakes, Marks
  <2>2. Core(mem', disk, own, job', crashes)
    BY <1>1, <1>2, <1>3, <2>1, CoreMark
  <2>3. Core(mem', disk', own', job', crashes')
    BY <2>2, <1>1
  <2>4. Extends(mem', mem) /\ Extends(disk', disk)
    BY <1>1, <2>1, ExtendsSame, SelfExtends
  <2>5. SameEntries(mem', mem, job, t) /\ Walker(mem', disk', job'[t])
    BY <1>4, <2>1, TreesEntries, FreeWalker
  <2>6. QED
    BY <1>1, <1>4, <2>3, <2>4, <2>5, ZoneStep
<1>6. ASSUME NEW h, BallocFails(t, h) PROVE ZoneInv'
  <2>1. mem' = mem /\ job'[t] = h /\ h.file = 0 /\ ~ Coming(h)
    BY <1>6 DEF BallocFails, Writes
  <2>2. SameTrees(mem', mem) /\ SameZmaps(mem', mem) /\ Walker(mem', disk, job'[t])
    BY <2>1, SameAll, FreeWalker
  <2>3. QED
    BY <1>1, <1>3, <1>4, <2>1, <2>2, QuietStep
<1>7. QED
  BY <1>1, <1>5, <1>6

LEMMA GotZone ==
  ASSUME TypeInv, ZoneInv, NEW t \in Tasks, Got(t)
  PROVE  ZoneInv'
<1>1. /\ Others(job', job, t) /\ job'[t] = Idle
      /\ own' = [own EXCEPT ![t] = job[t].zone] /\ own[t] = 0
      /\ Coming(job[t]) /\ job[t].at = "back" /\ ~ halted
      /\ mem' = mem /\ disk' = disk /\ told' = told /\ crashes' = crashes /\ halted' = halted
  BY GotEffect
<1>2. Typed(mem, disk, own, job) /\ Core(mem, disk, own, job, crashes)
  BY TypesTyped DEF ZoneInv
<1>3. ~ Coming(job'[t])
  BY <1>1, IdleComing
<1>4. Core(mem, disk, own', job', crashes)
  BY <1>1, <1>2, <1>3, CoreGot
<1>5. Core(mem', disk', own', job', crashes')
  BY <1>1, <1>4
<1>6. Extends(mem', mem) /\ Extends(disk', disk)
  BY <1>1, SelfExtends
<1>7. SameEntries(mem', mem, job, t) /\ Walker(mem', disk', job'[t])
  <2>1. SameTrees(mem', mem)
    BY <1>1, SameAll
  <2>2. QED
    BY <1>1, <2>1, TreesEntries, FreeWalker
<1>8. QED
  BY <1>1, <1>5, <1>6, <1>7, ZoneStep

LEMMA BfreeZone ==
  ASSUME TypeInv, ZoneInv, NEW t \in Tasks, Bfree(t)
  PROVE  ZoneInv'
<1>1. /\ job[t] = Idle /\ own[t] \in DataZones
      /\ (\E h : Frees(t, h)) \/ Halt
  BY BfreeEffect
<1>2. Typed(mem, disk, own, job) /\ Core(mem, disk, own, job, crashes)
  BY TypesTyped DEF ZoneInv
<1>3. job[t].at # "write" /\ ~ Coming(job[t]) /\ own[t] # 0 /\ ~ halted
  BY <1>1, IdleComing, Numbers DEF Bfree, Free
<1>4. ASSUME NEW h, Frees(t, h) PROVE ZoneInv'
  <2>1. /\ Padded(mem') /\ SameTrees(mem', mem)
        /\ \A x \in DataZones : IsMarked(mem', x) <=> x # own[t] /\ IsMarked(mem, x)
        /\ own' = [own EXCEPT ![t] = 0] /\ job'[t] = h /\ h.file = 0 /\ ~ Coming(h)
        /\ Others(job', job, t)
        /\ disk' = disk /\ told' = told /\ crashes' = crashes /\ halted' = halted
    BY <1>4 DEF Frees, Unmarks, Writes
  <2>2. Core(mem', disk, own', job', crashes)
    BY <1>1, <1>2, <1>3, <2>1, CoreFree
  <2>3. Core(mem', disk', own', job', crashes')
    BY <2>2, <2>1
  <2>4. Extends(mem', mem) /\ Extends(disk', disk)
    BY <2>1, ExtendsSame, SelfExtends
  <2>5. SameEntries(mem', mem, job, t) /\ Walker(mem', disk', job'[t])
    BY <1>3, <2>1, TreesEntries, FreeWalker
  <2>6. QED
    BY <1>3, <2>1, <2>3, <2>4, <2>5, ZoneStep
<1>5. QED
  BY <1>1, <1>4, HaltZone

LEMMA FillZone ==
  ASSUME TypeInv, ZoneInv, NEW t \in Tasks, NEW c \in {Clear, Data}, Fill(t, c)
  PROVE  ZoneInv'
<1>1. /\ job[t] = Idle /\ ~ halted /\ own[t] \in DataZones /\ Others(job', job, t)
      /\ IndexAfter(mem', mem, own[t], c)
      /\ \E h : Writes(t, h, <<"index", own[t]>>) /\ job'[t] = h
      /\ disk' = disk /\ own' = own /\ told' = told /\ crashes' = crashes /\ halted' = halted
  BY FillEffect
<1>2. Typed(mem, disk, own, job) /\ Core(mem, disk, own, job, crashes)
  BY TypesTyped DEF ZoneInv
<1>3. job[t].at # "write" /\ ~ Coming(job[t]) /\ own[t] # 0
  BY <1>1, IdleComing, Numbers
<1>4. /\ job'[t].at = "write" /\ job'[t].block = <<"index", own[t]>> /\ job'[t].file = 0
      /\ ~ Coming(job'[t])
  BY <1>1 DEF Writes
<1>5. /\ mem'[NodeBlock] = mem[NodeBlock] /\ SameZmaps(mem', mem)
      /\ \A x \in DataZones : x # own[t] => mem'[<<"index", x>>] = mem[<<"index", x>>]
  BY <1>1 DEF IndexAfter
<1>6. Core(mem', disk, own, job', crashes) /\ Extends(mem', mem)
  BY <1>1, <1>2, <1>3, <1>4, <1>5, CoreFill
<1>7. Core(mem', disk', own', job', crashes')
  BY <1>1, <1>6
<1>8. Extends(mem', mem) /\ Extends(disk', disk)
  BY <1>1, <1>6, SelfExtends
<1>9. SameEntries(mem', mem, job, t)
  <2>1. own[t] \notin Arrays(mem)
    BY <1>2, <1>3, TypedZones DEF Core, OwnKept
  <2>2. \A z \in Arrays(mem) : mem'[<<"index", z>>] = mem[<<"index", z>>]
    BY <2>1, <1>5, ArraysZones
  <2>3. Mapped(mem, disk, job) /\ Filled(job)
    BY <1>1, JobsFilled DEF ZoneInv
  <2>4. QED
    BY <2>2, <2>3, <1>5, EntriesSame
<1>10. Walker(mem', disk', job'[t])
  BY <1>4, FreeWalker
<1>11. QED
  BY <1>1, <1>7, <1>8, <1>9, <1>10, ZoneStep

LEMMA IallocZone ==
  ASSUME TypeInv, ZoneInv, NEW t \in Tasks, Ialloc(t)
  PROVE  ZoneInv'
<1>1. job[t] = Idle /\ ((\E x, h : NumberTaken(t, x, h)) \/ Halt) /\ ~ halted
  BY IallocEffect DEF Ialloc, Empty, Free
<1>2. ASSUME NEW x, NEW h, NumberTaken(t, x, h) PROVE ZoneInv'
  <2>1. /\ SameTrees(mem', mem) /\ SameZmaps(mem', mem) /\ Others(job', job, t)
        /\ job'[t] = h /\ h.file = 0 /\ ~ Coming(h)
        /\ disk' = disk /\ own' = own /\ told' = told /\ crashes' = crashes /\ halted' = halted
    BY <1>2 DEF NumberTaken, NumberAfter
  <2>2. job[t].at # "write" /\ ~ Coming(job[t]) /\ Walker(mem', disk, job'[t])
    BY <1>1, <2>1, IdleComing, FreeWalker
  <2>3. QED
    BY <2>1, <2>2, QuietStep
<1>3. QED
  BY <1>1, <1>2, HaltZone

LEMMA NumberedZone ==
  ASSUME TypeInv, ZoneInv, NEW t \in Tasks, Numbered(t)
  PROVE  ZoneInv'
<1>1. /\ Others(job', job, t) /\ job'[t] = Idle /\ job[t].then = "inode" /\ job[t].at = "back"
      /\ mem' = mem /\ disk' = disk /\ own' = own /\ told' = told /\ crashes' = crashes
      /\ halted' = halted
  BY NumberedEffect
<1>2. /\ job[t].at # "write" /\ ~ Coming(job[t]) /\ ~ Coming(job'[t])
      /\ Walker(mem', disk, job'[t])
  BY <1>1, IdleComing, FreeWalker DEF Coming
<1>3. SameTrees(mem', mem) /\ SameZmaps(mem', mem)
  BY <1>1, SameAll
<1>4. QED
  BY <1>1, <1>2, <1>3, QuietStep

LEMMA IfreeZone ==
  ASSUME TypeInv, ZoneInv, NEW t \in Tasks, Ifree(t)
  PROVE  ZoneInv'
<1>1. /\ Others(job', job, t) /\ job[t] = Idle /\ NumberAfter(mem', mem, node[t], FALSE)
      /\ \E b, h : Writes(t, h, b) /\ job'[t] = h
      /\ disk' = disk /\ own' = own /\ told' = told /\ crashes' = crashes /\ halted' = halted
  BY IfreeEffect
<1>2. job'[t].file = 0 /\ ~ Coming(job'[t])
  BY <1>1 DEF Writes
<1>3. job[t].at # "write" /\ ~ Coming(job[t]) /\ Walker(mem', disk, job'[t])
  BY <1>1, <1>2, IdleComing, FreeWalker
<1>4. SameTrees(mem', mem) /\ SameZmaps(mem', mem)
  BY <1>1 DEF NumberAfter
<1>5. QED
  BY <1>1, <1>2, <1>3, <1>4, QuietStep

LEMMA IgetZone ==
  ASSUME TypeInv, ZoneInv, NEW t \in Tasks, NEW n \in Files, Iget(t, n)
  PROVE  ZoneInv'
<1>1. (\E s : Joins(t, n, s)) \/ Halt
  BY IgetEffect
<1>2. ASSUME NEW s, Joins(t, n, s) PROVE ZoneInv'
  <2>1. /\ mem' = mem /\ disk' = disk /\ job' = job /\ own' = own /\ told' = told
        /\ crashes' = crashes /\ halted' = halted
    BY <1>2 DEF Joins
  <2>2. QED
    BY <2>1 DEF ZoneInv
<1>3. QED
  BY <1>1, <1>2, HaltZone

LEMMA IputZone ==
  ASSUME TypeInv, ZoneInv, Counted, NEW t \in Tasks, Iput(t)
  PROVE  ZoneInv'
<1>1. job[t] = Idle /\ ~ halted
  BY IputEffect
<1>2. PICK s : Leaves(t, handle[t], s)
  BY IputEffect
<1>3. /\ Others(job', job, t)
      /\ job'[t] = Idle \/ (job'[t].then = "put" /\ job'[t].file = 0)
      /\ mem' = mem /\ disk' = disk /\ own' = own /\ told' = told /\ crashes' = crashes
      /\ halted' = halted
  BY <1>2 DEF Leaves
<1>4. ~ Coming(job'[t]) /\ Walker(mem', disk, job'[t])
  BY <1>3, IdleComing, FreeWalker DEF Coming
<1>5. job[t].at # "write" /\ ~ Coming(job[t])
  BY <1>1, IdleComing
<1>6. SameTrees(mem', mem) /\ SameZmaps(mem', mem)
  BY <1>3, SameAll
<1>7. QED
  BY <1>3, <1>4, <1>5, <1>6, QuietStep

LEMMA PutInodeZone ==
  ASSUME TypeInv, ZoneInv, NEW t \in Tasks, PutInode(t)
  PROVE  ZoneInv'
<1>1. /\ Others(job', job, t) /\ job'[t] = Idle /\ job[t].then = "put" /\ job[t].at = "back"
      /\ mem' = mem /\ disk' = disk /\ own' = own /\ told' = told /\ crashes' = crashes
      /\ halted' \/ (~ halted /\ halted' = halted)
  BY PutInodeEffect
<1>2. /\ job[t].at # "write" /\ ~ Coming(job[t]) /\ ~ Coming(job'[t])
      /\ Walker(mem', disk, job'[t])
  BY <1>1, IdleComing, FreeWalker DEF Coming
<1>3. SameTrees(mem', mem) /\ SameZmaps(mem', mem) /\ (~ halted' => ~ halted)
  BY <1>1, SameAll
<1>4. QED
  BY <1>1, <1>2, <1>3, QuietStep

LEMMA CrashZone ==
  ASSUME TypeInv, ZoneInv, Crash
  PROVE  ZoneInv'
<1>1. /\ crashes' = crashes + 1 /\ mem' = disk /\ disk' = disk /\ told' = told
      /\ job' = [u \in Tasks |-> Idle] /\ own' = [u \in Tasks |-> 0]
  BY DEF Crash, None
<1>2. Typed(mem, disk, own, job) /\ Core(mem, disk, own, job, crashes)
      /\ AnswersKept(mem, disk, told)
  BY TypesTyped DEF ZoneInv
<1>3. crashes' # 0
  <2>1. crashes \in Nat
    BY Numbers DEF TypeInv, OthersTyped
  <2>2. QED
    BY <1>1, <2>1
<1>4. (\A u \in Tasks : own'[u] = 0) /\ \A u \in Tasks : job'[u].at = "idle"
  BY <1>1, IdleComing
<1>5. Core(disk, disk, own', job', crashes')
  BY <1>2, <1>3, <1>4, CoreCrash
<1>6. AnswersKept(disk, disk, told)
  BY <1>2 DEF AnswersKept
<1>7. Mapped(mem', disk', job')
  BY <1>1, FreeWalker DEF Mapped
<1>8. Core(mem', disk', own', job', crashes') /\ AnswersKept(mem', disk', told')
  BY <1>1, <1>5, <1>6
<1>9. QED
  BY <1>7, <1>8 DEF ZoneInv

(* bmap has come to an empty place, and enters z there.                    *)
Here(m, d, g) == Reached(m, g) /\ Reached(d, g) /\ g.asked \in FileBlocks

(* What is entered at the end of a path is not an array.                   *)
LEMMA LeafArrays ==
  ASSUME NEW m, Once(m), NEW g, Reached(m, g), g.asked \in FileBlocks, g.file \in Files,
         Len(g.path) = 1, NEW w, NEW z \in DataZones, PutAt(w, m, g, z),
         z \notin Filed(m)
  PROVE  z \notin Arrays(w)
<1> DEFINE l == Head(g.path)
<1>0. Direct \in Nat /\ Direct \in 0 .. Direct + 1 /\ Direct + 1 \in 0 .. Direct + 1
      /\ Direct # Direct + 1
  BY Numbers
<1>1. z \notin Arrays(m)
  BY ArraysFiled DEF Filed
<1>2. /\ g.buf = NodeBlock => l # Direct /\ l # Direct + 1
      /\ \A y \in Tops(m, Direct + 1) : g.buf # <<"index", y>>
  <2>1. CASE InNode(g)
    <3>1. Steps(g.path) /\ g.buf = NodeBlock
      BY <2>1, PathShape DEF InNode
    <3>a. ASSUME NEW k, g.path = <<Direct, k>> PROVE FALSE
      <4>1. Len(g.path) = 2
        BY <3>a
      <4>2. QED
        BY <4>1
    <3>b. ASSUME NEW k, NEW j, g.path = <<Direct + 1, k, j>> PROVE FALSE
      <4>1. Len(g.path) = 3
        BY <3>b
      <4>2. QED
        BY <4>1
    <3>2. PICK k \in 0 .. Direct - 1 : g.path = <<k>>
      BY <3>1, <3>a, <3>b DEF Steps
    <3>3. l = k
      BY <3>2
    <3>4. QED
      BY <3>1, <3>3, <1>0, Names
  <2>2. ASSUME NEW x \in DataZones, NEW k \in 0 .. Indexes - 1, InFirst(m, g, x, k)
        PROVE  /\ g.buf # NodeBlock
               /\ \A y \in Tops(m, Direct + 1) : g.buf # <<"index", y>>
    <3>1. g.buf = <<"index", x>> /\ NodeAt(m, g.file, Direct) = x
      BY <2>2 DEF InFirst
    <3>2. x \notin Tops(m, Direct + 1)
      BY <1>0, <3>1, InTops, OncePlaces DEF OneNode
    <3>3. QED
      BY <3>1, <3>2, Names
  <2>3. ASSUME NEW x \in DataZones, NEW k \in 0 .. Indexes - 1, NEW j \in 0 .. Indexes - 1,
               InSecond(m, g, x, k, j)
        PROVE  FALSE
    BY <2>3 DEF InSecond
  <2>4. ASSUME NEW a \in DataZones, NEW x \in DataZones, NEW k \in 0 .. Indexes - 1,
               NEW j \in 0 .. Indexes - 1, InThird(m, g, a, x, k, j)
        PROVE  /\ g.buf # NodeBlock
               /\ \A y \in Tops(m, Direct + 1) : g.buf # <<"index", y>>
    <3>1. g.buf = <<"index", x>> /\ NodeAt(m, g.file, Direct + 1) = a /\ At(m, a, k) = x
      BY <2>4 DEF InThird
    <3>2. a \in Arrays(m)
      BY <3>1, InTops, InArrays
    <3>3. x \notin Tops(m, Direct + 1)
      BY <1>0, <3>1, <3>2, InTops, OncePlaces DEF Apart
    <3>4. QED
      BY <3>1, <3>3, Names
  <2>5. QED
    BY <2>1, <2>2, <2>3, <2>4 DEF Reached
<1> HIDE DEF l
<1>3. /\ \A n \in Files : NodeAt(w, n, Direct) = NodeAt(m, n, Direct)
      /\ \A n \in Files : NodeAt(w, n, Direct + 1) = NodeAt(m, n, Direct + 1)
  BY <1>0, <1>2 DEF PutAt, l
<1>4. Tops(w, Direct) = Tops(m, Direct) /\ Tops(w, Direct + 1) = Tops(m, Direct + 1)
  BY <1>3 DEF Tops, NodeAt
<1>5. \A y \in Tops(m, Direct + 1), k \in 0 .. Indexes - 1 : At(w, y, k) = At(m, y, k)
  BY <1>2, ArraysZones DEF PutAt
<1>6. QED
  BY <1>1, <1>4, <1>5, InArrays

\* One place of w has z, which t is about to write.
EntersAt(w, m, d, i, t, z) == \E r :
    /\ Puts(w, m, r) /\ Enters(i, t, r) /\ r[4] = z
    /\ r[1] = "node" => NodeAt(d, r[2], r[3]) = 0
    /\ r[1] = "index" => At(d, r[2], r[3]) = 0

LEMMA EntersPlace ==
  ASSUME NEW m, NEW d, NEW w, NEW g, Reached(m, g), g.asked \in FileBlocks, g.file \in Files,
         EntryIn(m, g) = 0, EntryIn(d, g) = 0, NEW z \in Refs \ {0}, PutAt(w, m, g, z),
         NEW i, NEW t, Became(i[t], g, "next", g.zone, g.buf)
  PROVE  EntersAt(w, m, d, i, t, z)
<1> DEFINE k == Head(g.path)
<1>1. Located(m, g)
  BY ReachedPlace
<1>2. /\ i[t].at = "write" /\ i[t].then = "next" /\ i[t].block = g.buf
      /\ i[t].file = g.file /\ Head(i[t].path) = k
  BY DEF Became
<1>3. CASE g.buf = NodeBlock /\ k \in 0 .. Direct + 1
  <2> DEFINE r == <<"node", g.file, k, z>>
  <2>1. r[1] = "node" /\ r[2] = g.file /\ r[3] = k /\ r[4] = z /\ \E x, l, v : r = <<r[1], x, l, v>>
    OBVIOUS
  <2>2. NodeAt(m, g.file, k) = 0 /\ NodeAt(d, g.file, k) = 0
    BY <1>3 DEF EntryIn
  <2> HIDE DEF r, k
  <2>3. Enters(i, t, r)
    BY <1>2, <1>3, <2>1 DEF Enters, Writing
  <2>4. \A n \in Files, l \in 0 .. Direct + 1 :
            NodeAt(w, n, l) = IF r[1] = "node" /\ r[2] = n /\ r[3] = l THEN r[4] ELSE NodeAt(m, n, l)
    BY <1>3, <2>1 DEF PutAt, k
  <2>5. \A x \in DataZones, l \in 0 .. Indexes - 1 :
            At(w, x, l) = IF r[1] = "index" /\ r[2] = x /\ r[3] = l THEN r[4] ELSE At(m, x, l)
    BY <1>3, <2>1, Names DEF PutAt
  <2>6. Puts(w, m, r)
    BY <1>3, <2>1, <2>2, <2>4, <2>5 DEF Puts
  <2>7. QED
    BY <2>1, <2>2, <2>3, <2>6 DEF EntersAt
<1>4. ASSUME NEW y \in Arrays(m), g.buf = <<"index", y>>, k \in 0 .. Indexes - 1
      PROVE  EntersAt(w, m, d, i, t, z)
  <2> DEFINE r == <<"index", y, k, z>>
  <2>1. r[1] = "index" /\ r[2] = y /\ r[3] = k /\ r[4] = z /\ \E x, l, v : r = <<r[1], x, l, v>>
    OBVIOUS
  <2>2. At(m, y, k) = 0 /\ At(d, y, k) = 0 /\ g.buf # NodeBlock
    BY <1>4, Names DEF EntryIn, At
  <2> HIDE DEF r, k
  <2>3. Enters(i, t, r)
    BY <1>2, <1>4, <2>1 DEF Enters, Writing
  <2>4. \A n \in Files, l \in 0 .. Direct + 1 :
            NodeAt(w, n, l) = IF r[1] = "node" /\ r[2] = n /\ r[3] = l THEN r[4] ELSE NodeAt(m, n, l)
    BY <2>1, <2>2 DEF PutAt
  <2>5. \A x \in DataZones, l \in 0 .. Indexes - 1 :
            At(w, x, l) = IF r[1] = "index" /\ r[2] = x /\ r[3] = l THEN r[4] ELSE At(m, x, l)
    <3>1. \A x : g.buf = <<"index", x>> <=> x = y
      BY <1>4, Names
    <3>2. QED
      BY <3>1, <2>1 DEF PutAt, k
  <2>6. Puts(w, m, r)
    BY <1>4, <2>1, <2>2, <2>4, <2>5 DEF Puts
  <2>7. QED
    BY <2>1, <2>2, <2>3, <2>6 DEF EntersAt
<1>5. QED
  BY <1>1, <1>3, <1>4 DEF Located

(* The other tasks in bmap are in other files, and do not see it.          *)
LEMMA OthersEntries ==
  ASSUME NEW m, NEW d, NEW j, Mapped(m, d, j), Once(m), \A u \in Tasks : Shape(j[u]),
         NEW w, NEW g, Reached(m, g), g.file \in Files, NEW z, PutAt(w, m, g, z), NEW t,
         \A u \in Tasks \ {t} : j[u] # Idle => j[u].file # g.file
  PROVE  SameEntries(w, m, j, t)
<1> SUFFICES ASSUME NEW u \in Tasks \ {t}, j[u] # Idle, j[u].file # 0, j[u].then = "store"
             PROVE  EntryIn(w, j[u]) = EntryIn(m, j[u])
  BY DEF SameEntries
<1> DEFINE h == j[u]  k == Head(j[u].path)
<1>1. Reached(m, h) /\ h.asked \in FileBlocks /\ h.file # g.file
  BY DEF Mapped, Walker
<1>2. h.file \in Files
  BY NotIdle DEF Shape
<1>3. Located(m, h)
  BY <1>1, <1>2, ReachedPlace
<1> HIDE DEF h
<1>4. CASE h.buf = NodeBlock /\ k \in 0 .. Direct + 1
  BY <1>1, <1>2, <1>4 DEF PutAt, EntryIn, h
<1>5. ASSUME NEW x \in Arrays(m), h.buf = <<"index", x>>, k \in 0 .. Indexes - 1
      PROVE  EntryIn(w, h) = EntryIn(m, h)
  <2>1. x \in DataZones /\ h.buf # NodeBlock
    BY <1>5, ArraysZones, Names
  <2>2. g.buf # <<"index", x>>
    BY <1>1, <1>2, <1>5, <2>1, ReachedOne
  <2>3. At(w, x, k) = At(m, x, k)
    BY <1>5, <2>1, <2>2 DEF PutAt
  <2>4. QED
    BY <1>5, <2>1, <2>3 DEF EntryIn, At, h
<1>6. QED
  BY <1>3, <1>4, <1>5 DEF Located, h

LEMMA RecordZone ==
  ASSUME TypeInv, ZoneInv, NEW t \in Tasks, NEW g, Ready(t, g), Here(mem, disk, g),
         NoneWrites(job, g), Entry(g) = 0, NEW z \in Refs \ {0},
         IF z = Eof THEN ~ Coming(job[t])
         ELSE Coming(job[t]) /\ job[t].zone = z /\ job[t].at = "back",
         NEW d \in SUBSET BlockNames, disk' = disk, Record(t, g, z, d), ~ Reused(g, z)
  PROVE  ZoneInv'
<1>1. PICK h : Became(h, g, "next", g.zone, g.buf) /\ job' = [job EXCEPT ![t] = h]
  BY RecordEffect
<1>2. Blocks(mem') /\ SameZmaps(mem', mem) /\ PutAt(mem', mem, g, z)
  BY RecordEffect
<1>3. job'[t] = h /\ Others(job', job, t)
  BY <1>1 DEF Others, TypeInv, JobsSound
<1>4. own' = own /\ told' = told /\ crashes' = crashes /\ halted' = halted
  BY DEF Record, clientVars, machine
<1>5. g.file \in Files /\ ~ halted /\ (\A u \in Tasks \ {t} : job[u] # Idle => job[u].file # g.file)
      /\ job[t].at # "write"
  BY IdleComing DEF Ready
<1>6. Reached(mem, g) /\ Reached(disk, g) /\ g.asked \in FileBlocks
  BY DEF Here
<1>7. Typed(mem, disk, own, job) /\ Core(mem, disk, own, job, crashes) /\ Mapped(mem, disk, job)
      /\ Filled(job) /\ (\A u \in Tasks : Shape(job[u]))
  BY <1>5, TypesTyped, JobsFilled DEF ZoneInv
<1>8. Once(mem) /\ Behind(mem, disk, job)
  BY <1>7 DEF Core
<1>9. EntryIn(mem, g) = 0
  BY EntryTyped
<1>10. EntryIn(disk, g) = 0
  BY <1>5, <1>6, <1>7, <1>8, <1>9, Settled
<1>11. Became(job'[t], g, "next", g.zone, g.buf)
  BY <1>1, <1>3
<1>12. PICK r : /\ Puts(mem', mem, r) /\ Enters(job', t, r) /\ r[4] = z
                /\ r[1] = "node" => NodeAt(disk, r[2], r[3]) = 0
                /\ r[1] = "index" => At(disk, r[2], r[3]) = 0
  <2>1. EntersAt(mem', mem, disk, job', t, z)
    BY <1>2, <1>5, <1>6, <1>9, <1>10, <1>11, EntersPlace
  <2>2. QED
    BY <2>1 DEF EntersAt
<1>13. ~ Coming(job'[t])
  BY <1>11 DEF Became, Coming
<1>14. Core(mem', disk, own, job', crashes)
  <2>1. ASSUME z # Eof, z \in Arrays(mem') PROVE ClearIn(mem, z)
    <3>1. Coming(job[t]) /\ job[t].zone = z /\ z \in DataZones
      BY <2>1, <1>7, TypedZones
    <3>2. z \notin Filed(mem)
      BY <1>7, <3>1 DEF Core, ComingKept
    <3>3. Len(g.path) # 1
      BY <1>2, <1>5, <1>6, <1>8, <2>1, <3>1, <3>2, LeafArrays
    <3>a. Len(g.path) \in 1 .. 3
      BY EntryTyped DEF AtEntry
    <3>4. Len(g.path) > 1
      <4> DEFINE n == Len(g.path)
      <4>1. n \in 1 .. 3 /\ n # 1
        BY <3>3, <3>a
      <4> HIDE DEF n
      <4>2. n > 1
        BY <4>1
      <4>3. QED
        BY <4>2 DEF n
    <3>5. QED
      BY <2>1, <3>4 DEF Reused, ClearIn
  <2>2. r[4] # Eof /\ r[4] \in Arrays(mem') => ClearIn(mem, r[4])
    BY <2>1, <1>12
  <2>3. QED
    BY <1>2, <1>3, <1>5, <1>7, <1>12, <1>13, <2>2, CorePut
<1>15. Core(mem', disk', own', job', crashes')
  BY <1>4, <1>14
<1>16. Extends(mem', mem) /\ Extends(disk', disk)
  BY <1>12, PutsExtends, SelfExtends
<1>17. SameEntries(mem', mem, job, t)
  BY <1>2, <1>5, <1>6, <1>7, <1>8, OthersEntries
<1>18. Walker(mem', disk', job'[t])
  <2>1. /\ job'[t].file = g.file /\ job'[t].asked = g.asked /\ job'[t].buf = g.buf
        /\ job'[t].path = g.path /\ job'[t].then = "next"
    BY <1>11 DEF Became
  <2>2. Reached(mem', g) /\ Reached(disk', g)
    BY <1>5, <1>6, <1>16, ReachedKept
  <2>3. Reached(mem', job'[t]) /\ Reached(disk', job'[t])
    BY <2>1, <2>2, ReachedLike
  <2>4. QED
    BY <1>6, <2>1, <2>3 DEF Walker
<1>19. QED
  BY <1>3, <1>4, <1>5, <1>15, <1>16, <1>17, <1>18, ZoneStep

(* After brelse: an answer that is on the disk, or the next array.         *)
LEMMA GoOnZone ==
  ASSUME TypeInv, ZoneInv, NEW t \in Tasks, NEW g, Ready(t, g), Here(mem, disk, g),
         NoneWrites(job, g), g.then \in {"done", "next"},
         NEW d \in SUBSET BlockNames, disk' = disk, GoOn(t, g, d)
  PROVE  ZoneInv'
<1>1. /\ mem' = mem /\ own' = own /\ crashes' = crashes
      /\ Answers(t, g) \/ \E h : Descends(t, g, h)
  BY GoOnEffect
<1>2. /\ g.file \in Files /\ g.asked \in FileBlocks /\ ~ halted
      /\ Reached(mem, g) /\ Reached(disk, g)
  BY DEF Ready, Here
<1>3. Typed(mem, disk, own, job) /\ Core(mem, disk, own, job, crashes) /\ Mapped(mem, disk, job)
      /\ Filled(job) /\ (\A u \in Tasks : Shape(job[u])) /\ AnswersKept(mem, disk, told)
  BY <1>2, TypesTyped, JobsFilled DEF ZoneInv
<1>4. EntryIn(disk, g) = EntryIn(mem, g)
  BY <1>2, <1>3, Settled DEF Core
<1>5. Entry(g) = EntryIn(mem, g)
  BY EntryTyped
<1>6. job[t].at # "write" /\ ~ Coming(job[t])
  BY IdleComing DEF Ready, Coming
<1>7. SameTrees(mem', mem) /\ SameZmaps(mem', mem)
  BY <1>1, SameAll
<1>8. ASSUME Answers(t, g) PROVE ZoneInv'
  <2>1. job' = [job EXCEPT ![t] = Idle] /\ halted' = halted
    BY <1>8 DEF Answers
  <2>2. job'[t] = Idle /\ Others(job', job, t)
    BY <2>1 DEF Others, TypeInv, JobsSound
  <2>3. Core(mem', disk', own', job', crashes')
    <3>1. ~ Coming(job'[t])
      BY <2>2, IdleComing
    <3>2. Core(mem', disk, own, job', crashes)
      BY <1>3, <1>6, <1>7, <2>2, <3>1, CoreQuiet
    <3>3. QED
      BY <1>1, <3>2
  <2>4. Mapped(mem', disk', job')
    <3>1. SameEntries(mem', mem, job, t)
      BY <1>1 DEF SameEntries
    <3>2. Extends(mem', mem) /\ Extends(disk', disk) /\ Walker(mem', disk', job'[t])
      BY <1>1, <2>2, SelfExtends, FreeWalker
    <3>3. QED
      BY <1>3, <2>2, <3>1, <3>2, MappedStep
  <2>5. AnswersKept(mem', disk', told')
    <3>1. CASE told' = told
      BY <1>1, <1>3, <3>1 DEF AnswersKept
    <3>2. ASSUME Entry(g) \in DataZones, Len(g.path) = 1,
                 told' = [told EXCEPT ![g.file] = [@ EXCEPT ![g.asked] = Entry(g)]]
          PROVE  AnswersKept(mem', disk', told')
      <4>1. /\ RefAt(mem, g.file, Path(g.asked)) = Entry(g)
            /\ RefAt(disk, g.file, Path(g.asked)) = Entry(g)
        BY <1>2, <1>4, <1>5, <3>2, ReachedEnd
      <4>2. \A n \in Files, b \in FileBlocks :
                told'[n][b] = told[n][b] \/ (n = g.file /\ b = g.asked /\ told'[n][b] = Entry(g))
        BY <3>2 DEF TypeInv, OthersTyped
      <4>3. QED
        BY <1>1, <1>3, <4>1, <4>2 DEF AnswersKept
    <3>3. QED
      BY <1>8, <3>1, <3>2 DEF Answers
  <2>6. QED
    BY <2>3, <2>4, <2>5 DEF ZoneInv
<1>9. ASSUME NEW h, Descends(t, g, h) PROVE ZoneInv'
  <2> DEFINE v == Entry(g)
  <2>1. /\ Len(g.path) > 1 /\ v # 0 /\ v \in DataZones \cup {Eof}
        /\ h \in JobRecs /\ LooksAs(h, g, <<"index", v>>) /\ Onward(h, g, v)
        /\ job' = [job EXCEPT ![t] = h]
        /\ halted' = (v = Eof) /\ told' = told
    BY <1>9 DEF Descends
  <2>2. job'[t] = h /\ Others(job', job, t)
    BY <2>1 DEF Others, TypeInv, JobsSound
  <2>3. h.then = g.then /\ ~ Coming(job'[t])
    BY <2>1, <2>2 DEF LooksAs, Coming
  <2> HIDE DEF v
  <2>4. ~ halted' => Walker(mem', disk, job'[t])
    <3> SUFFICES ASSUME ~ halted' PROVE Walker(mem', disk, job'[t])
      OBVIOUS
    <3>1. v \in DataZones
      BY <2>1
    <3>2. EntryIn(mem, g) = v /\ EntryIn(disk, g) = v
      BY <1>4, <1>5 DEF v
    <3>3. Reached(mem, h) /\ Reached(disk, h)
      BY <1>2, <2>1, <3>1, <3>2, ReachedNext
    <3>4. h.asked \in FileBlocks /\ h.then # "store"
      BY <1>2, <2>1, <2>3 DEF Onward
    <3>5. QED
      BY <1>1, <2>2, <3>3, <3>4 DEF Walker
  <2>5. QED
    BY <1>1, <1>2, <1>6, <1>7, <2>1, <2>2, <2>3, <2>4, QuietStep
<1>10. QED
  BY <1>1, <1>8, <1>9

(* A task that waits in bmap, for a write, is where it was.                *)
LEMMA WriterWalks ==
  ASSUME NEW m, NEW d, NEW g, Here(m, d, g), g.file \in Files, NEW w, SameTrees(w, m),
         NEW h, NEW x, NEW z, NEW b, Became(h, g, x, z, b), x = "store" => EntryIn(m, g) = 0
  PROVE  Walker(w, d, h)
<1>1. h.file = g.file /\ h.asked = g.asked /\ h.buf = g.buf /\ h.path = g.path /\ h.then = x
  BY DEF Became
<1>2. Reached(m, g) /\ Reached(d, g) /\ g.asked \in FileBlocks
  BY DEF Here
<1>3. Reached(w, g)
  BY <1>2, ExtendsSame, ReachedKept
<1>4. Reached(w, h) /\ Reached(d, h)
  BY <1>1, <1>2, <1>3, ReachedLike
<1>5. Located(m, g)
  BY <1>2, ReachedPlace
<1>6. EntryIn(w, h) = EntryIn(m, g)
  <2>1. CASE g.buf = NodeBlock
    BY <1>1, <2>1 DEF EntryIn, SameTrees, NodeAt
  <2>2. ASSUME NEW y \in Arrays(m), g.buf = <<"index", y>> PROVE EntryIn(w, h) = EntryIn(m, g)
    BY <1>1, <2>2, ArraysZones, Names DEF EntryIn, SameTrees
  <2>3. QED
    BY <1>5, <2>1, <2>2 DEF Located
<1>7. QED
  BY <1>1, <1>2, <1>4, <1>6 DEF Walker

LEMMA LevelZone ==
  ASSUME TypeInv, ZoneInv, NEW t \in Tasks, NEW g, Ready(t, g), Here(mem, disk, g),
         NoneWrites(job, g), g.then \in {"done", "next"}, Level(t, g)
  PROVE  ZoneInv'
<1>0. /\ disk' = disk
      /\ \/ TakesZone(t, g) \/ TakesNone(t, g) \/ RecordsNone(t, g)
         \/ WritesFirst(t, g) \/ PassesOn(t, g)
  BY LevelCases
<1>1. /\ g \in AnyRecs /\ g.file \in Files /\ ~ halted
      /\ dirty \in SUBSET BlockNames /\ g.zone \in Int
      /\ job[t].at # "write" /\ ~ Coming(job[t])
  BY IdleComing DEF Ready, TypeInv, OthersTyped, AnyRecs, RecsAt, Coming
<1>2. g.buf \in BlockNames /\ Entry(g) = EntryIn(mem, g)
  BY EntryTyped
<1>3. /\ "store" \in Thens /\ "next" \in Thens /\ Eof \in Int /\ Eof \in Refs \ {0}
      /\ "store" \in {"got", "store"}
  BY DEF Thens, Eof, Refs
<1>4. Typed(mem, disk, own, job) /\ Core(mem, disk, own, job, crashes)
  BY TypesTyped DEF ZoneInv
<1>5. CASE TakesZone(t, g)
  <2>1. /\ ClearBits # {} /\ Mark(t, g, "store") /\ own' = own
        /\ told' = told /\ crashes' = crashes /\ halted' = halted /\ EntryIn(mem, g) = 0
    BY <1>2, <1>5 DEF TakesZone, clientVars, machine, Needs
  <2>2. PICK z, h : /\ Marks(mem', mem, z) /\ Became(h, g, "store", z, <<"zmap", MapOf(z)>>)
                    /\ job' = [job EXCEPT ![t] = h] /\ dirty' \subseteq BlockNames
    BY <2>1, <1>1, <1>3, MarkEffect
  <2>3. job'[t] = h /\ Others(job', job, t)
    BY <2>2 DEF Others, TypeInv, JobsSound
  <2>4. /\ z \in DataZones /\ ~ IsMarked(mem, z) /\ Padded(mem') /\ SameTrees(mem', mem)
        /\ \A x \in DataZones : IsMarked(mem', x) <=> x = z \/ IsMarked(mem, x)
    BY <2>2 DEF Marks
  <2>5. Coming(job'[t]) /\ job'[t].zone = z /\ job'[t].at = "write"
    BY <2>2, <2>3, <2>4, Numbers DEF Became, Coming
  <2>6. Core(mem', disk, own, job', crashes)
    BY <1>1, <1>4, <2>3, <2>4, <2>5, CoreMark
  <2>7. Core(mem', disk', own', job', crashes')
    BY <1>0, <2>1, <2>6
  <2>8. Extends(mem', mem) /\ Extends(disk', disk)
    BY <1>0, <2>4, ExtendsSame, SelfExtends
  <2>9. SameEntries(mem', mem, job, t) /\ Walker(mem', disk', job'[t])
    BY <1>0, <1>1, <2>1, <2>2, <2>3, <2>4, TreesEntries, WriterWalks
  <2>10. QED
    BY <1>1, <2>1, <2>3, <2>7, <2>8, <2>9, ZoneStep
<1>6. CASE TakesNone(t, g)
  <2>1. /\ Write(t, [g EXCEPT !.zone = Eof], LastMap, "store", dirty) /\ mem' = mem
        /\ own' = own /\ EntryIn(mem, g) = 0
        /\ told' = told /\ crashes' = crashes /\ halted' = halted
    BY <1>2, <1>6 DEF TakesNone, clientVars, machine, Needs
  <2>2. PICK h : Became(h, g, "store", Eof, LastMap) /\ job' = [job EXCEPT ![t] = h] /\ dirty' = dirty
    <3> DEFINE k == [g EXCEPT !.zone = Eof]
    <3>1. Write(t, k, LastMap, "store", dirty) /\ ZonedFrom(k, g, Eof)
      BY <2>1 DEF ZonedFrom
    <3> HIDE DEF k
    <3>2. g \in AnyRecs /\ Eof \in Int /\ LastMap \in BlockNames /\ "store" \in Thens
      BY <1>1, <1>3, LastMapName
    <3>3. QED
      BY <3>1, <3>2, WriteJob
  <2>3. job'[t] = h /\ Others(job', job, t)
    BY <2>2 DEF Others, TypeInv, JobsSound
  <2>4. ~ Coming(job'[t])
    BY <2>2, <2>3 DEF Became, Coming
  <2>5. SameTrees(mem', mem) /\ SameZmaps(mem', mem)
    BY <2>1, SameAll
  <2>6. Walker(mem', disk, job'[t])
    BY <1>1, <2>1, <2>2, <2>3, <2>5, WriterWalks
  <2>7. QED
    BY <1>0, <1>1, <2>1, <2>3, <2>4, <2>5, <2>6, QuietStep
<1>7. CASE RecordsNone(t, g)
  <2>1. Record(t, g, Eof, dirty) /\ Entry(g) = 0
    BY <1>7 DEF RecordsNone, Needs
  <2>2. QED
    <3>1. ~ Reused(g, Eof)
      BY DEF Reused
    <3>2. QED
      BY <2>1, <3>1, <1>0, <1>1, <1>3, RecordZone
<1>8. CASE WritesFirst(t, g)
  <2>1. /\ Write(t, g, g.buf, "next", dirty) /\ mem' = mem
        /\ own' = own /\ told' = told /\ crashes' = crashes /\ halted' = halted
    BY <1>8 DEF WritesFirst, clientVars, machine
  <2>2. PICK h : Became(h, g, "next", g.zone, g.buf) /\ job' = [job EXCEPT ![t] = h] /\ dirty' = dirty
    BY <2>1, <1>1, <1>2, <1>3, WriteJobPlain
  <2>3. job'[t] = h /\ Others(job', job, t)
    BY <2>2 DEF Others, TypeInv, JobsSound
  <2>4. ~ Coming(job'[t])
    BY <2>2, <2>3 DEF Became, Coming
  <2>5. SameTrees(mem', mem) /\ SameZmaps(mem', mem)
    BY <2>1, SameAll
  <2>6. Walker(mem', disk, job'[t])
    BY <1>1, <2>1, <2>2, <2>3, <2>5, WriterWalks
  <2>7. QED
    BY <1>0, <1>1, <2>1, <2>3, <2>4, <2>5, <2>6, QuietStep
<1>9. CASE PassesOn(t, g)
  BY <1>9, <1>0, <1>1, GoOnZone DEF PassesOn
<1>10. QED
  BY <1>0, <1>5, <1>6, <1>7, <1>8, <1>9

LEMMA BmapZone ==
  ASSUME TypeInv, ZoneInv, NEW t \in Tasks, NEW b \in FileBlocks, NEW make \in BOOLEAN, Bmap(t, b, make)
  PROVE  ZoneInv'
<1>1. PICK g : /\ Ready(t, g) /\ Level(t, g) /\ g.then = "done" /\ InNode(g)
               /\ NoneWrites(job, g) /\ g.file = handle[t] /\ job[t] = Idle
  BY ReadyBmap
<1>2. Here(mem, disk, g)
  BY <1>1 DEF Here, Reached, Ready, OnPath
<1>3. g.then \in {"done", "next"}
  BY <1>1
<1>4. QED
  BY <1>1, <1>2, <1>3, LevelZone

LEMMA HereNow ==
  ASSUME TypeInv, ZoneInv, NEW t \in Tasks, Ready(t, job[t]), job[t] # Idle
  PROVE  Here(mem, disk, job[t]) /\ (job[t].then = "store" => EntryIn(mem, job[t]) = 0)
<1>1. Walker(mem, disk, job[t]) /\ job[t].file # 0
  BY Numbers DEF ZoneInv, Mapped, Ready
<1>2. QED
  BY <1>1 DEF Walker, Here

LEMMA LookZone ==
  ASSUME TypeInv, ZoneInv, NEW t \in Tasks, Look(t)
  PROVE  ZoneInv'
<1>1. ~ halted /\ job[t].at = "look" /\ Level(t, job[t])
  BY DEF Look
<1>2. /\ Ready(t, job[t]) /\ job[t] # Idle /\ NoneWrites(job, job[t])
      /\ job[t].then \in {"done", "next"}
  BY <1>1, ReadyHere
<1>3. Here(mem, disk, job[t])
  BY <1>2, HereNow
<1>4. QED
  BY <1>1, <1>2, <1>3, LevelZone

LEMMA StoreZone ==
  ASSUME TypeInv, ZoneInv, NEW t \in Tasks, Store(t), ~ stale'
  PROVE  ZoneInv'
<1> DEFINE g == job[t]
<1>1. /\ Ready(t, g) /\ g # Idle /\ g.zone \in Refs /\ NoneWrites(job, g)
      /\ g.then = "store" /\ g.at = "back" /\ disk' = disk /\ Record(t, g, g.zone, Cleaned(t))
  BY StoreReady
<1>2. Here(mem, disk, g) /\ EntryIn(mem, g) = 0
  BY <1>1, HereNow
<1>3. Entry(g) = 0
  BY <1>1, <1>2, EntryTyped
<1>4. g.zone # Eof => Coming(g)
  BY <1>1 DEF Coming
<1>5. g.zone # 0
  <2>1. Shape(g)
    BY DEF TypeInv, JobsSound
  <2>2. QED
    BY <1>4, <2>1, ComingZone, Numbers
<1>6. IF g.zone = Eof THEN ~ Coming(g) ELSE Coming(g) /\ g.zone = g.zone /\ g.at = "back"
  BY <1>1, <1>4 DEF Coming
<1>7. Cleaned(t) \in SUBSET BlockNames
  BY CleanedBlocks
<1>8. ~ Reused(g, g.zone)
  BY <1>1 DEF Record
<1>9. QED
  BY <1>1, <1>2, <1>3, <1>5, <1>6, <1>7, <1>8, RecordZone

LEMMA NextZone ==
  ASSUME TypeInv, ZoneInv, NEW t \in Tasks, NextLevel(t)
  PROVE  ZoneInv'
<1>1. /\ Ready(t, job[t]) /\ job[t] # Idle /\ NoneWrites(job, job[t])
      /\ job[t].then \in {"done", "next"} /\ disk' = disk /\ GoOn(t, job[t], Cleaned(t))
  BY NextReady
<1>2. Here(mem, disk, job[t])
  BY <1>1, HereNow
<1>3. QED
  BY <1>1, <1>2, CleanedBlocks, GoOnZone

-----------------------------------------------------------------------------
(* The inodes and their numbers, step by step.                             *)
Naming(j) == j # Idle /\ j.then = "inode"

LEMMA NameOf ==
  ASSUME NEW t
  PROVE  Named(t) = IF node[t] # 0 THEN node[t] ELSE IF Naming(job[t]) THEN job[t].zone ELSE 0
BY DEF Named, Naming

LEMMA NameIs ==
  ASSUME InodeInv, NEW t \in Tasks, Named(t) # 0
  PROVE  Named(t) \in 1 .. Inodes /\ Named(t) \in NumberSpace
<1>1. node[t] \in 0 .. Inodes /\ Inodes \in Nat
  BY Numbers DEF InodeInv, TypeInv, OthersTyped
<1>2. Naming(job[t]) => job[t].zone \in 1 .. Inodes
  BY DEF InodeInv, TypeInv, JobsSound, Shape, Naming
<1>3. Named(t) \in 1 .. Inodes
  BY <1>1, <1>2, NameOf
<1>4. QED
  BY <1>3, SmallNumbers

\* No task but t has another inode number than before.
SameNames(t) == \A u \in Tasks \ {t} : Named(u)' = Named(u)

LEMMA NamesKept ==
  ASSUME NEW t, Others(job', job, t), \A u \in Tasks \ {t} : node'[u] = node[u]
  PROVE  SameNames(t)
BY DEF Others, SameNames, Named

(* A step that is not about inodes.                                        *)
LEMMA InodesStep ==
  ASSUME InodeInv, TypeInv', NEW t \in Tasks, SameNames(t), Named(t)' = Named(t),
         SameImaps(mem', mem), NumbersSet(disk'),
         ~ halted' => ~ halted /\ Counts(table', handle')
  PROVE  InodeInv'
<1>1. \A x \in NumberSpace : Number(mem', x) <=> Number(mem, x)
  BY SameNumbers
<1>2. NumbersSet(mem')
  BY <1>1 DEF InodeInv, NumbersSet, NumberSpace
<1>3. \A u \in Tasks : Named(u)' = Named(u)
  BY DEF SameNames
<1>4. NodesHeld'
  <2>1. ASSUME NEW u \in Tasks, Named(u)' # 0
        PROVE  /\ Named(u)' \notin Files /\ Number(mem', Named(u)')
               /\ \A v \in Tasks : Named(v)' = Named(u)' => v = u
    <3>1. Named(u)' = Named(u) /\ \A v \in Tasks : Named(v)' = Named(v)
      BY <1>3
    <3>2. Named(u) \in NumberSpace
      BY <2>1, <3>1, NameIs
    <3>3. /\ Named(u) \notin Files /\ Number(mem, Named(u))
          /\ \A v \in Tasks : Named(v) = Named(u) => v = u
      BY <2>1, <3>1 DEF InodeInv, NodesHeld
    <3>4. Number(mem', Named(u))
      BY <1>1, <3>2, <3>3
    <3>5. QED
      BY <3>1, <3>3, <3>4
  <2>2. QED
    BY <2>1 DEF NodesHeld
<1>5. Counted'
  BY DEF Counted
<1>6. QED
  BY <1>2, <1>4, <1>5 DEF InodeInv

LEMMA PlainStep ==
  ASSUME InodeInv, TypeInv', NEW t \in Tasks, Others(job', job, t),
         ~ Naming(job[t]), ~ Naming(job'[t]), node' = node, handle' = handle, table' = table,
         SameImaps(mem', mem), disk' = disk, ~ halted' => ~ halted
  PROVE  InodeInv'
<1>1. SameNames(t)
  BY NamesKept
<1>2. Named(t)' = Named(t)
  BY DEF Named, Naming
<1>3. NumbersSet(disk') /\ (~ halted' => ~ halted /\ Counts(table', handle'))
  BY DEF InodeInv, Counted
<1>4. QED
  BY <1>1, <1>2, <1>3, InodesStep

LEMMA HaltInodes ==
  ASSUME InodeInv, Halt
  PROVE  InodeInv'
<1>1. /\ mem' = mem /\ disk' = disk /\ job' = job /\ node' = node /\ handle' = handle
      /\ table' = table /\ halted' = TRUE
  BY DEF Halt, diskVars, clientVars
<1>2. TypeInv'
  BY HaltTypes DEF InodeInv
<1>3. NodesHeld'
  BY <1>1 DEF InodeInv, NodesHeld, Named
<1>4. QED
  BY <1>1, <1>2, <1>3 DEF InodeInv, Counted

LEMMA IdleNaming ==
  ~ Naming(Idle)
BY DEF Naming

LEMMA TransferInodes ==
  ASSUME InodeInv, NEW t \in Tasks, Transfer(t)
  PROVE  InodeInv'
<1> DEFINE b == job[t].block
<1>1. /\ TypeInv' /\ Others(job', job, t) /\ Copies(disk', disk, mem, b)
      /\ BackAs(job'[t], job[t]) /\ job[t].at = "write" /\ ~ halted
      /\ mem' = mem /\ node' = node /\ handle' = handle /\ table' = table /\ halted' = halted
  BY TransferEffect DEF InodeInv
<1>2. SameNames(t)
  BY <1>1, NamesKept
<1>3. job'[t].then = job[t].then /\ job'[t].zone = job[t].zone /\ job'[t] # Idle /\ job[t] # Idle
  BY <1>1 DEF BackAs, Idle
<1>4. Named(t)' = Named(t)
  BY <1>1, <1>3 DEF Named
<1>5. NumbersSet(disk')
  <2>1. Copied(disk', disk, mem)
    BY <1>1, Names DEF Copies, Copied
  <2>2. QED
    BY <2>1, CopiedNumbers DEF InodeInv, NumbersSet, NumberSpace
<1>6. ~ halted' => ~ halted /\ Counts(table', handle')
  BY <1>1 DEF InodeInv, Counted
<1>7. SameImaps(mem', mem)
  BY <1>1, SameAll
<1>8. QED
  BY <1>1, <1>2, <1>4, <1>5, <1>6, <1>7, InodesStep

LEMMA DoneInodes ==
  ASSUME InodeInv, NEW t \in Tasks, Done(t)
  PROVE  InodeInv'
<1>1. TypeInv' /\ Others(job', job, t) /\ job'[t] = Idle
  BY DoneTypes DEF InodeInv
<1>2. /\ job[t].then = "done" /\ mem' = mem /\ disk' = disk /\ node' = node
      /\ handle' = handle /\ table' = table /\ halted' = halted
  BY DEF Done, Return, clientVars, machine
<1>3. QED
  BY <1>1, <1>2, IdleNaming, SameAll, PlainStep DEF Naming

LEMMA BallocInodes ==
  ASSUME InodeInv, NEW t \in Tasks, Balloc(t)
  PROVE  InodeInv'
<1>1. /\ TypeInv' /\ Others(job', job, t) /\ job[t] = Idle
      /\ (\E z, h : BallocTakes(t, z, h)) \/ \E h : BallocFails(t, h)
      /\ disk' = disk /\ node' = node /\ handle' = handle /\ table' = table /\ halted' = halted
  BY BallocEffect DEF InodeInv
<1>2. SameImaps(mem', mem) /\ ~ Naming(job'[t])
  BY <1>1, SameAll DEF BallocTakes, Marks, Became, BallocFails, Writes, Naming
<1>3. QED
  BY <1>1, <1>2, IdleNaming, PlainStep

LEMMA GotInodes ==
  ASSUME InodeInv, NEW t \in Tasks, Got(t)
  PROVE  InodeInv'
<1>1. /\ TypeInv' /\ Others(job', job, t) /\ job'[t] = Idle /\ job[t].then = "got"
      /\ mem' = mem /\ disk' = disk /\ node' = node /\ handle' = handle /\ table' = table
      /\ halted' = halted
  BY GotEffect DEF InodeInv
<1>2. QED
  BY <1>1, IdleNaming, SameAll, PlainStep DEF Naming

LEMMA BfreeInodes ==
  ASSUME InodeInv, NEW t \in Tasks, Bfree(t)
  PROVE  InodeInv'
<1>1. TypeInv' /\ job[t] = Idle /\ ((\E h : Frees(t, h)) \/ Halt)
  BY BfreeEffect DEF InodeInv
<1>2. ASSUME NEW h, Frees(t, h) PROVE InodeInv'
  <2>1. /\ SameImaps(mem', mem) /\ ~ Naming(job'[t]) /\ Others(job', job, t)
        /\ disk' = disk /\ node' = node /\ handle' = handle /\ table' = table /\ halted' = halted
    BY <1>2 DEF Frees, Unmarks, Writes, Naming
  <2>2. QED
    BY <1>1, <2>1, IdleNaming, PlainStep
<1>3. QED
  BY <1>1, <1>2, HaltInodes

LEMMA FillInodes ==
  ASSUME InodeInv, NEW t \in Tasks, NEW c \in {Clear, Data}, Fill(t, c)
  PROVE  InodeInv'
<1>1. /\ TypeInv' /\ job[t] = Idle /\ Others(job', job, t)
      /\ IndexAfter(mem', mem, own[t], c)
      /\ \E h : Writes(t, h, <<"index", own[t]>>) /\ job'[t] = h
      /\ disk' = disk /\ node' = node /\ handle' = handle /\ table' = table /\ halted' = halted
  BY FillEffect DEF InodeInv
<1>2. SameImaps(mem', mem) /\ ~ Naming(job'[t])
  BY <1>1 DEF IndexAfter, Writes, Naming
<1>3. QED
  BY <1>1, <1>2, IdleNaming, PlainStep

LEMMA RecordInodes ==
  ASSUME InodeInv, TypeInv', NEW t \in Tasks, NEW g, Ready(t, g), g.then # "inode", NEW z \in Refs,
         NEW d \in SUBSET BlockNames, disk' = disk, Record(t, g, z, d)
  PROVE  InodeInv'
<1>1. TypeInv
  BY DEF InodeInv
<1>2. SameImaps(mem', mem)
  BY <1>1, RecordEffect
<1>3. PICK h : Became(h, g, "next", g.zone, g.buf) /\ job' = [job EXCEPT ![t] = h]
  BY <1>1, RecordEffect
<1>4. Others(job', job, t) /\ job'[t] = h
  BY <1>1, <1>3 DEF Others, TypeInv, JobsSound
<1>5. ~ Naming(job[t]) /\ ~ Naming(job'[t])
  BY <1>3, <1>4 DEF Naming, Ready, Became
<1>6. node' = node /\ handle' = handle /\ table' = table /\ halted' = halted
  BY DEF Record, clientVars, machine
<1>7. QED
  BY <1>2, <1>4, <1>5, <1>6, PlainStep

LEMMA GoOnInodes ==
  ASSUME InodeInv, TypeInv', NEW t \in Tasks, NEW g, Ready(t, g), g.then # "inode",
         NEW d \in SUBSET BlockNames, disk' = disk, GoOn(t, g, d)
  PROVE  InodeInv'
<1>1. TypeInv /\ ~ halted
  BY DEF InodeInv, Ready
<1>2. /\ mem' = mem /\ node' = node /\ handle' = handle /\ table' = table
      /\ Answers(t, g) \/ \E h : Descends(t, g, h)
  BY <1>1, GoOnEffect
<1>3. \E h : job' = [job EXCEPT ![t] = h] /\ (h = Idle \/ h.then = g.then)
  BY <1>2 DEF Answers, Descends, LooksAs
<1>4. Others(job', job, t) /\ ~ Naming(job[t]) /\ ~ Naming(job'[t])
  BY <1>1, <1>3 DEF Others, TypeInv, JobsSound, Naming, Ready
<1>5. QED
  BY <1>1, <1>2, <1>4, SameAll, PlainStep

LEMMA LevelInodes ==
  ASSUME InodeInv, NEW t \in Tasks, NEW g, Ready(t, g), g.then \in {"done", "next"}, Level(t, g)
  PROVE  InodeInv'
<1>0. /\ disk' = disk
      /\ \/ TakesZone(t, g) \/ TakesNone(t, g) \/ RecordsNone(t, g)
         \/ WritesFirst(t, g) \/ PassesOn(t, g)
  BY LevelCases
<1>1. TypeInv /\ g \in AnyRecs /\ dirty \in SUBSET BlockNames /\ ~ halted /\ g.then # "inode"
  BY DEF InodeInv, Ready, TypeInv, OthersTyped
<1>2. TypeInv' /\ Others(job', job, t)
  BY <1>1, LevelTypes
<1>3. g.buf \in BlockNames
  BY <1>1, EntryTyped
<1>4. /\ "store" \in Thens /\ "next" \in Thens /\ Eof \in Int /\ Eof \in Refs
      /\ "store" \in {"got", "store"}
  BY DEF Thens, Eof, Refs
<1>5. ASSUME SameImaps(mem', mem), node' = node, handle' = handle, table' = table, halted' = halted,
             \E h, x, z, b : Became(h, g, x, z, b) /\ x # "inode" /\ job' = [job EXCEPT ![t] = h]
      PROVE  InodeInv'
  <2>1. job'[t] # Idle => job'[t].then # "inode"
    BY <1>1, <1>5 DEF Became, TypeInv, JobsSound
  <2>2. ~ Naming(job[t]) /\ ~ Naming(job'[t])
    BY <1>1, <2>1 DEF Naming, Ready
  <2>3. QED
    BY <1>0, <1>2, <1>5, <2>2, PlainStep
<1>6. CASE TakesZone(t, g)
  <2>1. /\ ClearBits # {} /\ Mark(t, g, "store") /\ node' = node
        /\ handle' = handle /\ table' = table /\ halted' = halted
    BY <1>6 DEF TakesZone, clientVars, machine
  <2>2. PICK z, h : /\ Marks(mem', mem, z) /\ Became(h, g, "store", z, <<"zmap", MapOf(z)>>)
                    /\ job' = [job EXCEPT ![t] = h] /\ dirty' \subseteq BlockNames
    BY <2>1, <1>1, <1>4, MarkEffect
  <2>3. SameImaps(mem', mem)
    BY <2>2 DEF Marks
  <2>4. \E k, x, y, b : Became(k, g, x, y, b) /\ x # "inode" /\ job' = [job EXCEPT ![t] = k]
    BY <2>2
  <2>5. QED
    BY <2>1, <2>3, <2>4, <1>5
<1>7. CASE TakesNone(t, g)
  <2>1. /\ Write(t, [g EXCEPT !.zone = Eof], LastMap, "store", dirty) /\ mem' = mem
        /\ node' = node /\ handle' = handle /\ table' = table /\ halted' = halted
    BY <1>7 DEF TakesNone, clientVars, machine
  <2>2. PICK h : Became(h, g, "store", Eof, LastMap) /\ job' = [job EXCEPT ![t] = h] /\ dirty' = dirty
    <3> DEFINE k == [g EXCEPT !.zone = Eof]
    <3>1. Write(t, k, LastMap, "store", dirty) /\ ZonedFrom(k, g, Eof)
      BY <2>1 DEF ZonedFrom
    <3> HIDE DEF k
    <3>2. g \in AnyRecs /\ Eof \in Int /\ LastMap \in BlockNames /\ "store" \in Thens
      BY <1>1, <1>4, LastMapName
    <3>3. QED
      BY <3>1, <3>2, WriteJob
  <2>3. \E k, x, y, b : Became(k, g, x, y, b) /\ x # "inode" /\ job' = [job EXCEPT ![t] = k]
    BY <2>2
  <2>4. SameImaps(mem', mem)
    BY <2>1, SameAll
  <2>5. QED
    BY <2>1, <2>3, <2>4, <1>5
<1>8. CASE RecordsNone(t, g)
  BY <1>0, <1>1, <1>2, <1>4, <1>8, RecordInodes DEF RecordsNone
<1>9. CASE WritesFirst(t, g)
  <2>1. /\ Write(t, g, g.buf, "next", dirty) /\ mem' = mem
        /\ node' = node /\ handle' = handle /\ table' = table /\ halted' = halted
    BY <1>9 DEF WritesFirst, clientVars, machine
  <2>2. PICK h : Became(h, g, "next", g.zone, g.buf) /\ job' = [job EXCEPT ![t] = h] /\ dirty' = dirty
    BY <2>1, <1>1, <1>3, <1>4, WriteJobPlain
  <2>3. \E k, x, y, b : Became(k, g, x, y, b) /\ x # "inode" /\ job' = [job EXCEPT ![t] = k]
    BY <2>2
  <2>4. SameImaps(mem', mem)
    BY <2>1, SameAll
  <2>5. QED
    BY <2>1, <2>3, <2>4, <1>5
<1>10. CASE PassesOn(t, g)
  BY <1>0, <1>1, <1>2, <1>10, GoOnInodes DEF PassesOn
<1>11. QED
  BY <1>0, <1>6, <1>7, <1>8, <1>9, <1>10

LEMMA BmapInodes ==
  ASSUME InodeInv, NEW t \in Tasks, NEW b \in FileBlocks, NEW make \in BOOLEAN, Bmap(t, b, make)
  PROVE  InodeInv'
<1>1. TypeInv
  BY DEF InodeInv
<1>2. PICK g : Ready(t, g) /\ Level(t, g) /\ g.then = "done"
  BY <1>1, ReadyBmap
<1>3. QED
  BY <1>2, LevelInodes

LEMMA LookInodes ==
  ASSUME InodeInv, NEW t \in Tasks, Look(t)
  PROVE  InodeInv'
<1>1. TypeInv /\ ~ halted /\ job[t].at = "look" /\ Level(t, job[t])
  BY DEF InodeInv, Look
<1>2. Ready(t, job[t]) /\ job[t].then \in {"done", "next"}
  BY <1>1, ReadyHere
<1>3. QED
  BY <1>1, <1>2, LevelInodes

LEMMA StoreInodes ==
  ASSUME InodeInv, NEW t \in Tasks, Store(t)
  PROVE  InodeInv'
<1>1. TypeInv
  BY DEF InodeInv
<1>2. /\ Ready(t, job[t]) /\ job[t].zone \in Refs /\ job[t].then = "store" /\ disk' = disk
      /\ Record(t, job[t], job[t].zone, Cleaned(t))
  BY <1>1, StoreReady
<1>3. TypeInv' /\ Cleaned(t) \in SUBSET BlockNames
  BY <1>1, StoreTypes, CleanedBlocks
<1>4. QED
  BY <1>2, <1>3, RecordInodes

LEMMA NextInodes ==
  ASSUME InodeInv, NEW t \in Tasks, NextLevel(t)
  PROVE  InodeInv'
<1>1. TypeInv
  BY DEF InodeInv
<1>2. /\ Ready(t, job[t]) /\ job[t].then = "next" /\ disk' = disk
      /\ GoOn(t, job[t], Cleaned(t))
  BY <1>1, NextReady
<1>3. TypeInv' /\ Cleaned(t) \in SUBSET BlockNames
  BY <1>1, NextTypes, CleanedBlocks
<1>4. QED
  BY <1>2, <1>3, GoOnInodes

(* Numbers are taken and given back.                                       *)
LEMMA NamesAfter ==
  ASSUME InodeInv, NEW t \in Tasks, SameNames(t),
         NEW x \in NumberSpace, NEW set \in BOOLEAN, NumberAfter(mem', mem, x, set),
         \A u \in Tasks \ {t} : Named(u) # x,
         Named(t)' = IF set THEN x ELSE 0,
         set => x \notin Files /\ x # 0 /\ ~ Number(mem, x)
  PROVE  NodesHeld'
<1>1. ASSUME NEW u \in Tasks, Named(u)' # 0
      PROVE  /\ Named(u)' \notin Files /\ Number(mem', Named(u)')
             /\ \A v \in Tasks : Named(v)' = Named(u)' => v = u
  <2>1. CASE u = t
    <3>1. set /\ Named(u)' = x
      BY <1>1, <2>1
    <3>2. Number(mem', x)
      BY <3>1 DEF NumberAfter
    <3>3. \A v \in Tasks : v # t => Named(v)' # x
      BY DEF SameNames
    <3>4. QED
      BY <2>1, <3>1, <3>2, <3>3
  <2>2. CASE u # t
    <3>1. Named(u)' = Named(u) /\ Named(u) # x
      BY <2>2 DEF SameNames
    <3>2. Named(u) \in NumberSpace
      BY <1>1, <3>1, NameIs
    <3>3. /\ Named(u) \notin Files /\ Number(mem, Named(u))
          /\ \A v \in Tasks : Named(v) = Named(u) => v = u
      BY <1>1, <3>1 DEF InodeInv, NodesHeld
    <3>4. Number(mem', Named(u))
      BY <3>1, <3>2, <3>3 DEF NumberAfter
    <3>5. \A v \in Tasks : Named(v)' = Named(u) => v = u
      BY <1>1, <3>1, <3>3 DEF SameNames
    <3>6. QED
      BY <3>1, <3>3, <3>4, <3>5
  <2>3. QED
    BY <2>1, <2>2
<1>2. QED
  BY <1>1 DEF NodesHeld

LEMMA IallocInodes ==
  ASSUME InodeInv, NEW t \in Tasks, Ialloc(t)
  PROVE  InodeInv'
<1>1. TypeInv /\ NumbersSet(mem) /\ NumbersSet(disk)
  BY DEF InodeInv
<1>2. TypeInv' /\ job[t] = Idle /\ node[t] = 0 /\ ((\E x, h : NumberTaken(t, x, h)) \/ Halt)
  BY <1>1, IallocEffect
<1>3. ASSUME NEW x, NEW h, NumberTaken(t, x, h) PROVE InodeInv'
  <2>1. /\ x \in 1 .. Inodes /\ ~ Number(mem, x) /\ NumberAfter(mem', mem, x, TRUE)
        /\ job'[t] = h /\ h # Idle /\ h.then = "inode" /\ h.zone = x /\ Others(job', job, t)
        /\ disk' = disk /\ node' = node /\ handle' = handle /\ table' = table /\ halted' = halted
    BY <1>3 DEF NumberTaken
  <2>2. x \in NumberSpace /\ x # 0 /\ x \notin Files
    BY <1>1, <2>1, SmallNumbers, Numbers DEF NumbersSet, NumberSpace
  <2>3. SameNames(t)
    BY <2>1, NamesKept
  <2>4. Named(t)' = x
    BY <1>2, <2>1 DEF Named
  <2>5. \A u \in Tasks \ {t} : Named(u) # x
    BY <2>1, <2>2 DEF InodeInv, NodesHeld
  <2>6. NodesHeld'
    BY <2>1, <2>2, <2>3, <2>4, <2>5, NamesAfter
  <2>7. NumbersSet(mem')
    BY <1>1, <2>1 DEF NumbersSet, NumberAfter, NumberSpace
  <2>8. QED
    BY <1>1, <1>2, <2>1, <2>6, <2>7 DEF InodeInv, Counted
<1>4. QED
  BY <1>2, <1>3, HaltInodes

LEMMA NumberedInodes ==
  ASSUME InodeInv, NEW t \in Tasks, Numbered(t)
  PROVE  InodeInv'
<1>1. /\ TypeInv' /\ Others(job', job, t) /\ job'[t] = Idle
      /\ node' = [node EXCEPT ![t] = job[t].zone] /\ node[t] = 0
      /\ job[t] # Idle /\ job[t].then = "inode" /\ job[t].zone \in 1 .. Inodes
      /\ mem' = mem /\ disk' = disk /\ handle' = handle /\ table' = table /\ halted' = halted
  BY NumberedEffect DEF InodeInv
<1>2. node'[t] = job[t].zone /\ \A u \in Tasks \ {t} : node'[u] = node[u]
  BY <1>1 DEF InodeInv, TypeInv, OthersTyped
<1>3. SameNames(t)
  BY <1>1, <1>2, NamesKept
<1>4. Named(t)' = Named(t)
  BY <1>1, <1>2 DEF Named
<1>5. NumbersSet(disk') /\ SameImaps(mem', mem) /\ (~ halted' => ~ halted /\ Counts(table', handle'))
  BY <1>1, SameAll DEF InodeInv, Counted
<1>6. QED
  BY <1>1, <1>3, <1>4, <1>5, InodesStep

LEMMA IfreeInodes ==
  ASSUME InodeInv, NEW t \in Tasks, Ifree(t)
  PROVE  InodeInv'
<1> DEFINE x == node[t]
<1>1. /\ TypeInv' /\ Others(job', job, t) /\ job[t] = Idle
      /\ x \in 1 .. Inodes /\ NumberAfter(mem', mem, x, FALSE)
      /\ node' = [node EXCEPT ![t] = 0]
      /\ \E b, h : Writes(t, h, b) /\ job'[t] = h
      /\ disk' = disk /\ handle' = handle /\ table' = table /\ halted' = halted
  BY IfreeEffect DEF InodeInv
<1>2. node'[t] = 0 /\ \A u \in Tasks \ {t} : node'[u] = node[u]
  BY <1>1 DEF InodeInv, TypeInv, OthersTyped
<1>3. job'[t].then = "done"
  BY <1>1 DEF Writes
<1>4. SameNames(t) /\ Named(t)' = 0 /\ Named(t) = x /\ x # 0
  BY <1>1, <1>2, <1>3, NamesKept DEF Named
<1>5. x \in NumberSpace /\ x \notin Files /\ \A u \in Tasks \ {t} : Named(u) # x
  BY <1>1, <1>4, SmallNumbers DEF InodeInv, NodesHeld
<1> HIDE DEF x
<1>6. NodesHeld'
  BY <1>1, <1>4, <1>5, NamesAfter
<1>7. NumbersSet(mem')
  BY <1>1, <1>5 DEF InodeInv, NumbersSet, NumberAfter, NumberSpace
<1>8. NumbersSet(disk') /\ Counted'
  BY <1>1 DEF InodeInv, Counted
<1>9. QED
  BY <1>1, <1>6, <1>7, <1>8 DEF InodeInv

(* Tasks come to an inode and leave it.                                    *)
LEMMA UsersFinite ==
  ASSUME NEW h, NEW n
  PROVE  IsFiniteSet(Users(h, n)) /\ Cardinality(Users(h, n)) \in Nat
<1>1. IsFiniteSet(Users(h, n))
  BY Numbers, FS_Subset DEF Users
<1>2. QED
  BY <1>1, FS_CardinalityType

\* h is g but that t has n.
Takes(h, g, t, n) == h[t] = n /\ \A u \in Tasks \ {t} : h[u] = g[u]

LEMMA UsersJoin ==
  ASSUME NEW g, NEW h, NEW t \in Tasks, NEW n, n # 0, Takes(h, g, t, n), g[t] = 0
  PROVE  /\ Uses(h, n) = Uses(g, n) + 1
         /\ \A k : k # 0 /\ k # n => Uses(h, k) = Uses(g, k)
<1>1. Users(h, n) = Users(g, n) \cup {t} /\ t \notin Users(g, n)
  BY DEF Users, Takes
<1>2. Cardinality(Users(h, n)) = Cardinality(Users(g, n)) + 1
  BY <1>1, UsersFinite, FS_AddElement
<1>3. \A k : k # 0 /\ k # n => Users(h, k) = Users(g, k)
  BY DEF Users, Takes
<1>4. Cardinality(Users(g, n)) \in Nat
  BY UsersFinite
<1>5. QED
  BY <1>2, <1>3, <1>4 DEF Uses

LEMMA UsersLeave ==
  ASSUME NEW g, NEW h, NEW t \in Tasks, NEW n, n # 0, Takes(h, g, t, 0), g[t] = n
  PROVE  /\ Uses(g, n) = Uses(h, n) + 1 /\ Uses(h, n) \in Nat
         /\ \A k : k # 0 /\ k # n => Uses(h, k) = Uses(g, k)
<1>1. Users(g, n) = Users(h, n) \cup {t} /\ t \notin Users(h, n)
  BY DEF Users, Takes
<1>2. Cardinality(Users(g, n)) = Cardinality(Users(h, n)) + 1
  BY <1>1, UsersFinite, FS_AddElement
<1>3. \A k : k # 0 /\ k # n => Users(h, k) = Users(g, k)
  BY DEF Users, Takes
<1>4. Cardinality(Users(h, n)) \in Nat
  BY UsersFinite
<1>5. QED
  BY <1>2, <1>3, <1>4 DEF Uses

LEMMA Unused ==
  ASSUME NEW h, NEW n, Uses(h, n) = 0
  PROVE  n # 1 /\ \A u \in Tasks : h[u] # n
<1>1. Cardinality(Users(h, n)) \in Nat /\ IsFiniteSet(Users(h, n))
  BY UsersFinite
<1>2. n # 1 /\ Cardinality(Users(h, n)) = 0
  BY <1>1 DEF Uses
<1>3. Users(h, n) = {}
  BY <1>1, <1>2, FS_EmptySet
<1>4. QED
  BY <1>2, <1>3 DEF Users

\* tb is ub but for the entry s.
Slot(tb, ub, s, n, c) == tb[s].nr = n /\ tb[s].count = c /\ \A r \in Slots \ {s} : tb[r] = ub[r]

LEMMA CountsFound ==
  ASSUME NEW ub, NEW g, Counts(ub, g), NEW t \in Tasks, g[t] = 0, NEW h, NEW n, n # 0,
         Takes(h, g, t, n), NEW s \in Slots, ub[s].nr = n, NEW tb, Slot(tb, ub, s, n, ub[s].count + 1)
  PROVE  Counts(tb, h)
<1>1. \A r \in Slots : tb[r].nr = ub[r].nr
  BY DEF Slot
<1>2. \A k : Holds(tb, k) <=> Holds(ub, k)
  BY <1>1 DEF Holds
<1>3. /\ Uses(h, n) = Uses(g, n) + 1
      /\ \A k : k # 0 /\ k # n => Uses(h, k) = Uses(g, k)
  BY UsersJoin
<1>4. \A u \in Tasks : h[u] # 0 => Holds(tb, h[u])
  <2>1. Holds(tb, n)
    BY <1>1 DEF Holds
  <2>2. QED
    BY <2>1, <1>2 DEF Counts, Takes
<1>5. ASSUME NEW r \in Slots, tb[r].nr # 0 PROVE tb[r].count = Uses(h, tb[r].nr)
  <2>1. CASE r = s
    BY <2>1, <1>3 DEF Counts, Slot
  <2>2. CASE r # s
    <3>1. tb[r] = ub[r] /\ ub[r].nr # n
      BY <2>2, <1>5 DEF Slot, Counts
    <3>2. QED
      BY <3>1, <1>3, <1>5 DEF Counts
  <2>3. QED
    BY <2>1, <2>2
<1>6. Holds(tb, 1) /\ \A r, q \in Slots : tb[r].nr = tb[q].nr /\ tb[r].nr # 0 => r = q
  BY <1>1, <1>2 DEF Counts
<1>7. QED
  BY <1>4, <1>5, <1>6 DEF Counts

LEMMA CountsNew ==
  ASSUME NEW ub, NEW g, Counts(ub, g), NEW t \in Tasks, g[t] = 0, NEW h, NEW n, n # 0,
         Takes(h, g, t, n), ~ Holds(ub, n), NEW s \in Slots, ub[s].nr = 0,
         NEW tb, Slot(tb, ub, s, n, 1)
  PROVE  Counts(tb, h)
<1>1. n # 1 /\ \A u \in Tasks : g[u] # n
  BY DEF Counts
<1>2. Uses(g, n) = 0
  <2>1. Users(g, n) = {}
    BY <1>1 DEF Users
  <2>2. QED
    BY <1>1, <2>1, FS_EmptySet DEF Uses
<1>3. /\ Uses(h, n) = Uses(g, n) + 1
      /\ \A k : k # 0 /\ k # n => Uses(h, k) = Uses(g, k)
  BY UsersJoin
<1>4. \A k : k # 0 /\ Holds(ub, k) => Holds(tb, k)
  BY DEF Holds, Slot
<1>5. Holds(tb, n)
  BY DEF Holds, Slot
<1>6. \A u \in Tasks : h[u] # 0 => Holds(tb, h[u])
  BY <1>4, <1>5 DEF Counts, Takes
<1>7. ASSUME NEW r \in Slots, tb[r].nr # 0 PROVE tb[r].count = Uses(h, tb[r].nr)
  <2>1. CASE r = s
    BY <2>1, <1>2, <1>3 DEF Slot
  <2>2. CASE r # s
    <3>1. tb[r] = ub[r] /\ ub[r].nr # n
      BY <2>2 DEF Slot, Holds
    <3>2. QED
      BY <3>1, <1>3, <1>7 DEF Counts
  <2>3. QED
    BY <2>1, <2>2
<1>8. Holds(tb, 1)
  BY <1>4 DEF Counts
<1>9. \A r, q \in Slots : tb[r].nr = tb[q].nr /\ tb[r].nr # 0 => r = q
  <2>1. \A r \in Slots : r # s => tb[r].nr = ub[r].nr /\ tb[r].nr # n
    BY DEF Slot, Holds
  <2>2. QED
    BY <2>1 DEF Counts, Slot
<1>10. QED
  BY <1>6, <1>7, <1>8, <1>9 DEF Counts

LEMMA CountsLeft ==
  ASSUME NEW ub, NEW g, Counts(ub, g), NEW t \in Tasks, NEW n, n # 0, g[t] = n, NEW h,
         Takes(h, g, t, 0), NEW s \in Slots, ub[s].nr = n, NEW tb, Slot(tb, ub, s, n, ub[s].count - 1)
  PROVE  Counts(tb, h)
<1>1. \A r \in Slots : tb[r].nr = ub[r].nr
  BY DEF Slot
<1>2. \A k : Holds(tb, k) <=> Holds(ub, k)
  BY <1>1 DEF Holds
<1>3. /\ Uses(g, n) = Uses(h, n) + 1 /\ Uses(h, n) \in Nat
      /\ \A k : k # 0 /\ k # n => Uses(h, k) = Uses(g, k)
  BY UsersLeave
<1>4. \A u \in Tasks : h[u] # 0 => Holds(tb, h[u])
  BY <1>2 DEF Counts, Takes
<1>5. ASSUME NEW r \in Slots, tb[r].nr # 0 PROVE tb[r].count = Uses(h, tb[r].nr)
  <2>1. CASE r = s
    BY <2>1, <1>3 DEF Counts, Slot
  <2>2. CASE r # s
    <3>1. tb[r] = ub[r] /\ ub[r].nr # n
      BY <2>2, <1>5 DEF Slot, Counts
    <3>2. QED
      BY <3>1, <1>3, <1>5 DEF Counts
  <2>3. QED
    BY <2>1, <2>2
<1>6. Holds(tb, 1) /\ \A r, q \in Slots : tb[r].nr = tb[q].nr /\ tb[r].nr # 0 => r = q
  BY <1>1, <1>2 DEF Counts
<1>7. QED
  BY <1>4, <1>5, <1>6 DEF Counts

(* An entry that is counted no more is taken out.                          *)
LEMMA CountsOut ==
  ASSUME NEW ub, NEW g, Counts(ub, g), NEW s \in Slots, ub[s].nr # 0, ub[s].count = 0,
         NEW tb, NEW c, Slot(tb, ub, s, 0, c)
  PROVE  Counts(tb, g)
<1> DEFINE n == ub[s].nr
<1>1. n # 1 /\ \A u \in Tasks : g[u] # n
  BY Unused DEF Counts
<1>2. \A k : k # 0 /\ k # n /\ Holds(ub, k) => Holds(tb, k)
  BY DEF Holds, Slot
<1>3. Holds(tb, 1) /\ \A u \in Tasks : g[u] # 0 => Holds(tb, g[u])
  BY <1>1, <1>2 DEF Counts
<1>4. \A r \in Slots : tb[r].nr # 0 => tb[r] = ub[r]
  BY DEF Slot
<1>5. /\ \A r \in Slots : tb[r].nr # 0 => tb[r].count = Uses(g, tb[r].nr)
      /\ \A r, q \in Slots : tb[r].nr = tb[q].nr /\ tb[r].nr # 0 => r = q
  BY <1>4 DEF Counts
<1>6. QED
  BY <1>3, <1>5 DEF Counts

LEMMA SlotNow ==
  ASSUME NEW s, NEW n, NEW c, SlotIs(s, n, c)
  PROVE  s \in Slots /\ Slot(table', table, s, n, c)
BY DEF SlotIs, Slot

LEMMA IgetInodes ==
  ASSUME InodeInv, NEW t \in Tasks, NEW n \in Files, Iget(t, n)
  PROVE  InodeInv'
<1>1. TypeInv' /\ handle[t] = 0 /\ ~ halted /\ ((\E s : Joins(t, n, s)) \/ Halt)
  BY IgetEffect DEF InodeInv
<1>2. ASSUME NEW s, Joins(t, n, s) PROVE InodeInv'
  <2>1. /\ mem' = mem /\ disk' = disk /\ job' = job /\ node' = node /\ halted' = halted
        /\ handle' = [handle EXCEPT ![t] = n]
        /\ \/ table[s].nr = n /\ SlotIs(s, n, table[s].count + 1)
           \/ InTable(n) = {} /\ table[s].nr = 0 /\ SlotIs(s, n, 1)
    BY <1>2 DEF Joins
  <2>2. Takes(handle', handle, t, n) /\ n # 0 /\ Counts(table, handle)
    BY <1>1, <2>1, Numbers DEF Takes, InodeInv, TypeInv, OthersTyped, Counted
  <2>3. Counts(table', handle')
    <3>1. CASE table[s].nr = n /\ SlotIs(s, n, table[s].count + 1)
      <4>1. s \in Slots /\ Slot(table', table, s, n, table[s].count + 1)
        BY <3>1, SlotNow
      <4>2. QED
        BY <1>1, <2>2, <3>1, <4>1, CountsFound
    <3>2. CASE InTable(n) = {} /\ table[s].nr = 0 /\ SlotIs(s, n, 1)
      <4>1. s \in Slots /\ Slot(table', table, s, n, 1)
        BY <3>2, SlotNow
      <4>2. ~ Holds(table, n)
        BY <3>2 DEF InTable, Holds
      <4>3. QED
        BY <1>1, <2>2, <3>2, <4>1, <4>2, CountsNew
    <3>3. QED
      BY <2>1, <3>1, <3>2
  <2>4. Others(job', job, t) /\ Named(t)' = Named(t) /\ NumbersSet(disk') /\ SameImaps(mem', mem)
    BY <2>1, SameAll DEF Others, Named, InodeInv
  <2>5. SameNames(t)
    BY <2>1, <2>4, NamesKept
  <2>6. QED
    BY <1>1, <2>3, <2>4, <2>5, InodesStep
<1>3. QED
  BY <1>1, <1>2, HaltInodes

LEMMA IputInodes ==
  ASSUME InodeInv, NEW t \in Tasks, Iput(t)
  PROVE  InodeInv'
<1> DEFINE n == handle[t]
<1>1. /\ TypeInv' /\ job[t] = Idle /\ n \in Files /\ ~ halted
      /\ \E s : Leaves(t, n, s)
  BY IputEffect DEF InodeInv
<1>2. PICK s : Leaves(t, n, s)
  BY <1>1
<1>3. /\ s \in Slots /\ table[s].nr = n /\ handle' = [handle EXCEPT ![t] = 0]
      /\ \/ table[s].count > 1 /\ SlotIs(s, n, table[s].count - 1)
         \/ table[s].count = 1 /\ SlotIs(s, 0, 0)
         \/ table[s].count = 1 /\ SlotIs(s, n, 0)
      /\ Others(job', job, t) /\ (job'[t] = Idle \/ job'[t].then = "put")
      /\ mem' = mem /\ disk' = disk /\ node' = node /\ halted' = halted
  BY <1>2 DEF Leaves
<1>4. Takes(handle', handle, t, 0) /\ n # 0 /\ Counts(table, handle)
  BY <1>1, <1>3, Numbers DEF Takes, InodeInv, TypeInv, OthersTyped, Counted
<1>5. Counts(table', handle')
  <2>1. ASSUME SlotIs(s, n, table[s].count - 1) PROVE Counts(table', handle')
    <3>1. Slot(table', table, s, n, table[s].count - 1)
      BY <2>1, SlotNow
    <3>2. QED
      BY <1>3, <1>4, <3>1, CountsLeft
  <2>2. CASE table[s].count = 1 /\ SlotIs(s, 0, 0)
    <3> DEFINE ub == [table EXCEPT ![s] = [nr |-> n, count |-> 0]]
    <3>1. Slot(ub, table, s, n, table[s].count - 1)
      BY <1>3, <2>2 DEF Slot, InodeInv, TypeInv, OthersTyped
    <3>2. Slot(table', table, s, 0, 0)
      BY <2>2, SlotNow
    <3>3. Slot(table', ub, s, 0, 0) /\ ub[s].nr # 0 /\ ub[s].count = 0
      BY <1>4, <2>2, <3>1, <3>2 DEF Slot
    <3> HIDE DEF ub
    <3>4. Counts(ub, handle')
      BY <1>3, <1>4, <3>1, CountsLeft
    <3>5. QED
      BY <1>3, <3>3, <3>4, CountsOut
  <2>3. CASE table[s].count = 1 /\ SlotIs(s, n, 0)
    BY <2>1, <2>3
  <2>4. QED
    BY <1>3, <2>1, <2>2, <2>3
<1>6. SameNames(t) /\ Named(t)' = Named(t)
  BY <1>1, <1>3, NamesKept DEF Named
<1>7. NumbersSet(disk') /\ SameImaps(mem', mem)
  BY <1>3, SameAll DEF InodeInv
<1>8. QED
  BY <1>1, <1>5, <1>6, <1>7, InodesStep

LEMMA PutInodeInodes ==
  ASSUME InodeInv, NEW t \in Tasks, PutInode(t)
  PROVE  InodeInv'
<1>1. /\ TypeInv' /\ Others(job', job, t) /\ job'[t] = Idle /\ job[t] # Idle /\ job[t].then = "put"
      /\ mem' = mem /\ disk' = disk /\ node' = node /\ handle' = handle
      /\ halted' \/ (~ halted /\ halted' = halted /\ \E s : /\ table[s].nr # 0 /\ table[s].count = 0
                                                           /\ SlotIs(s, 0, 0))
  BY PutInodeEffect DEF InodeInv
<1>2. ASSUME ~ halted' PROVE ~ halted /\ Counts(table', handle')
  <2>1. PICK s : table[s].nr # 0 /\ table[s].count = 0 /\ SlotIs(s, 0, 0)
    BY <1>1, <1>2
  <2>2. s \in Slots /\ Slot(table', table, s, 0, 0)
    BY <2>1, SlotNow
  <2>3. ~ halted /\ Counts(table, handle)
    BY <1>1, <1>2 DEF InodeInv, Counted
  <2>4. Counts(table', handle)
    BY <2>1, <2>2, <2>3, CountsOut
  <2>5. QED
    BY <1>1, <2>3, <2>4
<1>3. SameNames(t) /\ Named(t)' = Named(t)
  BY <1>1, NamesKept DEF Named
<1>4. NumbersSet(disk') /\ SameImaps(mem', mem)
  BY <1>1, SameAll DEF InodeInv
<1>5. QED
  BY <1>1, <1>2, <1>3, <1>4, InodesStep

LEMMA MountedCounts ==
  ASSUME NEW h, \A u \in Tasks : h[u] = 0
  PROVE  Counts(Mounted, h)
<1>1. /\ 0 \in Slots /\ Mounted[0].nr = 1 /\ Mounted[0].count = 2
      /\ \A s \in Slots \ {0} : Mounted[s].nr = 0
  BY MountedTyped
<1>2. Uses(h, 1) = 2
  <2>1. Users(h, 1) = {}
    BY DEF Users
  <2>2. QED
    BY <2>1, FS_EmptySet DEF Uses
<1>3. Holds(Mounted, 1)
  BY <1>1 DEF Holds
<1>4. QED
  BY <1>1, <1>2, <1>3 DEF Counts

LEMMA CrashInodes ==
  ASSUME InodeInv, Crash
  PROVE  InodeInv'
<1>1. /\ mem' = disk /\ disk' = disk /\ table' = Mounted
      /\ job' = [u \in Tasks |-> Idle] /\ node' = [u \in Tasks |-> 0] /\ handle' = [u \in Tasks |-> 0]
  BY DEF Crash, None
<1>2. TypeInv' /\ NumbersSet(disk)
  BY CrashTypes DEF InodeInv
<1>3. \A u \in Tasks : Named(u)' = 0
  BY <1>1 DEF Named
<1>4. Counts(table', handle')
  <2>1. \A u \in Tasks : handle'[u] = 0
    BY <1>1
  <2>2. QED
    BY <1>1, <2>1, MountedCounts
<1>5. NumbersSet(mem') /\ NumbersSet(disk') /\ NodesHeld' /\ Counted'
  BY <1>1, <1>2, <1>3, <1>4 DEF NodesHeld, Counted
<1>6. QED
  BY <1>2, <1>5 DEF InodeInv

-----------------------------------------------------------------------------
(* The file system as it is made.                                          *)
LEMMA FirstZone ==
  ASSUME NEW n \in Files
  PROVE  FirstData + n - 1 \in FirstZones /\ FirstData + n - 1 \in DataZones
<1> DEFINE f == Cardinality(Files)
<1>1. n \in 1 .. f /\ f \in Nat /\ FirstData \in Nat
  BY Numbers
<1> HIDE DEF f
<1>2. FirstData + n - 1 \in FirstData .. FirstData + f - 1
  BY <1>1
<1>3. QED
  BY <1>2, FirstExists DEF FirstZones, f

LEMMA FirstFile ==
  ASSUME NEW z \in FirstZones
  PROVE  \E n \in Files : z = FirstData + n - 1
<1> DEFINE f == Cardinality(Files)
<1>1. Files = 1 .. f /\ f \in Nat /\ FirstData \in Nat
  BY Numbers
<1>2. z \in FirstData .. FirstData + f - 1
  BY DEF FirstZones
<1> HIDE DEF f
<1>3. z - FirstData + 1 \in 1 .. f /\ z = FirstData + (z - FirstData + 1) - 1
  BY <1>1, <1>2
<1>4. QED
  BY <1>1, <1>3

NewContent(m) ==
    /\ DOMAIN m = BlockNames
    /\ \A i \in 0 .. NrZmaps - 1 : m[<<"zmap", i>>] = NewZmap(i)
    /\ \A i \in 0 .. NrImaps - 1 : m[<<"imap", i>>] = NewImap(i)
    /\ m[NodeBlock] = [n \in Files |-> NewNode(n)]
    /\ \A z \in DataZones : m[<<"index", z>>] = Clear

LEMMA NewContents ==
  NewContent(NewDisk)
<1>1. DOMAIN NewDisk = BlockNames
  BY DEF NewDisk
<1>2. ASSUME NEW i \in 0 .. NrZmaps - 1 PROVE NewDisk[<<"zmap", i>>] = NewZmap(i)
  BY Names DEF NewDisk
<1>3. ASSUME NEW i \in 0 .. NrImaps - 1 PROVE NewDisk[<<"imap", i>>] = NewImap(i)
  BY Names DEF NewDisk
<1>4. NewDisk[NodeBlock] = [n \in Files |-> NewNode(n)]
  BY Names DEF NewDisk, NodeBlock
<1>5. ASSUME NEW z \in DataZones PROVE NewDisk[<<"index", z>>] = Clear
  BY Names DEF NewDisk
<1>6. QED
  BY <1>1, <1>2, <1>3, <1>4, <1>5 DEF NewContent

LEMMA NewPlaces ==
  ASSUME NEW n \in Files
  PROVE  /\ NewNode(n) \in Places /\ NewNode(n)[0] = FirstData + n - 1
         /\ \A k \in 0 .. Direct + 1 : k # 0 => NewNode(n)[k] = 0
<1>1. FirstData + n - 1 \in Refs /\ 0 \in Refs /\ 0 \in 0 .. Direct + 1
  BY FirstZone, Numbers DEF Refs
<1>2. QED
  BY <1>1 DEF NewNode, Places

LEMMA NewTypes ==
  Blocks(NewDisk) /\ Padded(NewDisk)
<1> DEFINE m == NewDisk
<1>1. NewContent(m)
  BY NewContents
<1> HIDE DEF m
<1>2. [n \in Files |-> NewNode(n)] \in [Files -> Places]
  BY NewPlaces
<1>3. Clear \in Index
  BY DEF Clear, Index, Refs
<1>4. \A i : NewZmap(i) \subseteq Bits /\ NewImap(i) \subseteq Bits
  BY DEF NewZmap, NewImap
<1>5. ASSUME NEW b \in BlockNames PROVE m[b] \in (SUBSET Bits) \cup [Files -> Places] \cup Index
  BY <1>1, <1>2, <1>3, <1>4, NameCases DEF NewContent
<1>6. m \in [BlockNames -> (SUBSET Bits) \cup [Files -> Places] \cup Index]
  <2> DEFINE e(b) == CASE b[1] = "zmap"  -> NewZmap(b[2])
                       [] b[1] = "imap"  -> NewImap(b[2])
                       [] b[1] = "node"  -> [n \in Files |-> NewNode(n)]
                       [] b[1] = "index" -> Clear
  <2>0. NewDisk = [b \in BlockNames |-> e(b)]
    BY DEF NewDisk
  <2> HIDE DEF e
  <2>1. NewDisk = [b \in BlockNames |-> NewDisk[b]]
    BY <2>0
  <2>2. m = [b \in BlockNames |-> m[b]]
    BY <2>1 DEF m
  <2>3. QED
    BY <1>5, <2>2
<1>7. Blocks(m)
  BY <1>1, <1>2, <1>3, <1>4, <1>6 DEF NewContent, Blocks
<1>8. Padded(m)
  BY <1>1 DEF Padded, NewContent, NewZmap
<1>9. QED
  BY <1>7, <1>8 DEF m

LEMMA NewMarks ==
  ASSUME NEW z \in DataZones
  PROVE  IsMarked(NewDisk, z) <=> z \in FirstZones
<1>1. /\ MapOf(z) \in 0 .. NrZmaps - 1 /\ BitIn(z) \in Bits
      /\ ZoneOf(MapOf(z), BitIn(z)) = z
  BY ZoneBits
<1>2. NewDisk[<<"zmap", MapOf(z)>>] = NewZmap(MapOf(z))
  BY <1>1, NewContents DEF NewContent
<1>3. QED
  BY <1>1, <1>2 DEF IsMarked, NewZmap

LEMMA NewNumbers ==
  NumbersSet(NewDisk) /\ Number(NewDisk, 0)
<1>1. ASSUME NEW x \in NumberSpace, x \notin (1 .. Inodes) \ Files PROVE Number(NewDisk, x)
  <2> DEFINE i == x \div BlockBits  b == x % BlockBits
  <2>1. i \in 0 .. NrImaps - 1 /\ b \in Bits /\ x \in Nat
    BY NumberMaps
  <2>2. x = i * BlockBits + b
    BY <2>1, Divided, Numbers
  <2> HIDE DEF i, b
  <2>3. b \in NewImap(i)
    BY <1>1, <2>1, <2>2 DEF NewImap
  <2>4. NewDisk[<<"imap", i>>] = NewImap(i)
    BY <2>1, NewContents DEF NewContent
  <2>5. QED
    BY <2>3, <2>4 DEF Number, i, b
<1>2. NumbersSet(NewDisk)
  BY <1>1 DEF NumbersSet, NumberSpace
<1>3. QED
  BY <1>1, <1>2, SmallNumbers

LEMMA NewRecords ==
  /\ \A z \in DataZones : ClearIn(NewDisk, z)
  /\ Arrays(NewDisk) = {}
  /\ \A r : r \in Recorded(NewDisk) <=> \E n \in Files : r = <<"node", n, 0, FirstData + n - 1>>
<1> DEFINE m == NewDisk
<1>1. NewContent(m)
  BY NewContents
<1> HIDE DEF m
<1>2. /\ \A n \in Files : NodeAt(m, n, 0) = FirstData + n - 1
      /\ \A n \in Files, k \in 0 .. Direct + 1 : k # 0 => NodeAt(m, n, k) = 0
  BY <1>1, NewPlaces DEF NewContent, NodeAt
<1>3. /\ 0 \in 0 .. Direct + 1 /\ Direct \in 0 .. Direct + 1 /\ Direct + 1 \in 0 .. Direct + 1
      /\ Direct # 0 /\ Direct + 1 # 0 /\ 0 \notin DataZones
  BY Numbers
<1>4. Tops(m, Direct) = {} /\ Tops(m, Direct + 1) = {}
  BY <1>2, <1>3, InTops
<1>5. Arrays(m) = {}
  BY <1>4, InArrays
<1>6. \A z \in DataZones : ClearIn(m, z)
  BY <1>1 DEF NewContent, ClearIn
<1>7. ASSUME NEW r PROVE r \in Recorded(m) <=> \E n \in Files : r = <<"node", n, 0, FirstData + n - 1>>
  <2>1. ASSUME r \in Recorded(m) PROVE \E n \in Files : r = <<"node", n, 0, FirstData + n - 1>>
    <3>1. NodePlace(m, r) /\ r[4] # 0
      BY <2>1, <1>5, InRecorded DEF IndexPlace
    <3>2. PICK n \in Files, k \in 0 .. Direct + 1 : r = <<"node", n, k, NodeAt(m, n, k)>>
      BY <3>1 DEF NodePlace
    <3>3. k = 0
      BY <3>1, <3>2, <1>2
    <3>4. QED
      BY <3>2, <3>3, <1>2
  <2>2. ASSUME NEW n \in Files, r = <<"node", n, 0, FirstData + n - 1>> PROVE r \in Recorded(m)
    <3>1. NodeAt(m, n, 0) = FirstData + n - 1 /\ FirstData + n - 1 \in DataZones
      BY <1>2, FirstZone
    <3>2. FirstData + n - 1 # 0 /\ FirstData + n - 1 # Eof
      BY <3>1, Numbers
    <3>3. QED
      BY <2>2, <3>1, <3>2, <1>3, RecordedNode
  <2>3. QED
    BY <2>1, <2>2
<1>8. QED
  BY <1>5, <1>6, <1>7 DEF m

LEMMA NewCore ==
  ASSUME NEW o, \A t \in Tasks : o[t] = 0, NEW j, \A t \in Tasks : j[t].at = "idle"
  PROVE  Core(NewDisk, NewDisk, o, j, 0)
<1> DEFINE m == NewDisk
<1>1. Padded(m)
  BY NewTypes
<1>2. /\ \A z \in DataZones : ClearIn(m, z)
      /\ \A r : r \in Recorded(m) <=> \E n \in Files : r = <<"node", n, 0, FirstData + n - 1>>
  BY NewRecords
<1>3. \A z \in DataZones : IsMarked(m, z) <=> z \in FirstZones
  BY NewMarks
<1> HIDE DEF m
<1>4. Once(m)
  <2>1. ASSUME NEW r \in Recorded(m), NEW s \in Recorded(m), r[4] = s[4] PROVE r = s
    <3>1. PICK n \in Files : r = <<"node", n, 0, FirstData + n - 1>>
      BY <1>2
    <3>2. PICK k \in Files : s = <<"node", k, 0, FirstData + k - 1>>
      BY <1>2
    <3>3. n \in Nat /\ k \in Nat /\ FirstData \in Nat
      BY Numbers
    <3>4. FirstData + n - 1 = FirstData + k - 1
      BY <2>1, <3>1, <3>2
    <3>5. n = k
      BY <3>3, <3>4
    <3>6. QED
      BY <3>1, <3>2, <3>5
  <2>2. QED
    BY <2>1 DEF Once
<1>5. Filed(m) = FirstZones
  <2>1. ASSUME NEW z \in Filed(m) PROVE z \in FirstZones
    <3>1. PICK r \in Recorded(m) : z = r[4]
      BY DEF Filed, Zoned
    <3>2. QED
      BY <3>1, <1>2, FirstZone
  <2>2. ASSUME NEW z \in FirstZones PROVE z \in Filed(m)
    <3>1. PICK n \in Files : z = FirstData + n - 1
      BY FirstFile
    <3>2. <<"node", n, 0, z>> \in Recorded(m)
      BY <1>2, <3>1
    <3>3. <<"node", n, 0, z>>[4] = z
      OBVIOUS
    <3>4. QED
      BY <3>2, <3>3 DEF Filed, Zoned
  <2>3. QED
    BY <2>1, <2>2
<1>6. FiledKept(m, m)
  BY <1>3, <1>5, FirstExists DEF FiledKept, Kept
<1>7. \A t \in Tasks : ~ Coming(j[t])
  BY DEF Coming
<1>8. Behind(m, m, j) /\ FreshSame(m, m, j)
  BY DEF Behind, FreshSame, SameIn
<1>9. OwnKept(m, m, o) /\ ComingKept(m, m, o, j) /\ FillsWritten(m, m, o, j)
  BY <1>7 DEF OwnKept, ComingKept, FillsWritten
<1>10. NoneLost(m, o, j, 0)
  BY <1>3, <1>5 DEF NoneLost
<1>11. QED
  BY <1>1, <1>4, <1>6, <1>8, <1>9, <1>10 DEF Core, m

LEMMA InitTypes ==
  ASSUME Init
  PROVE  TypeInv
<1>1. /\ disk = NewDisk /\ mem = NewDisk /\ dirty = {}
      /\ job = [t \in Tasks |-> Idle]
      /\ own = [t \in Tasks |-> 0] /\ node = [t \in Tasks |-> 0] /\ handle = [t \in Tasks |-> 0]
      /\ table = Mounted /\ told = [n \in Files |-> [b \in FileBlocks |-> 0]]
      /\ crashes = 0 /\ halted = FALSE
  BY DEF Init, None
<1>2. Blocks(mem) /\ Blocks(disk) /\ Padded(mem) /\ Padded(disk) /\ Number(mem, 0) /\ Number(disk, 0)
  BY <1>1, NewTypes, NewNumbers
<1>3. told \in [Files -> [FileBlocks -> DataZones \cup {0}]]
  BY <1>1
<1>4. /\ table \in [Slots -> [nr : Files \cup {0}, count : Nat]]
      /\ own \in [Tasks -> DataZones \cup {0}] /\ handle \in [Tasks -> Files \cup {0}]
  BY <1>1, MountedTyped
<1>5. node \in [Tasks -> 0 .. Inodes] /\ crashes \in 0 .. MaxCrashes
  BY <1>1, Numbers
<1>6. OthersTyped
  BY <1>1, <1>3, <1>4, <1>5 DEF OthersTyped
<1>7. JobsSound
  BY <1>1, IdleShape DEF JobsSound, Distinct
<1>8. QED
  BY <1>2, <1>6, <1>7 DEF TypeInv

LEMMA InitInodes ==
  ASSUME Init
  PROVE  InodeInv
<1>1. /\ disk = NewDisk /\ mem = NewDisk /\ job = [t \in Tasks |-> Idle]
      /\ node = [t \in Tasks |-> 0] /\ handle = [t \in Tasks |-> 0] /\ table = Mounted
  BY DEF Init, None
<1>2. NumbersSet(mem) /\ NumbersSet(disk)
  BY <1>1, NewNumbers
<1>3. NodesHeld
  BY <1>1 DEF NodesHeld, Named
<1>4. Counted
  <2>1. \A t \in Tasks : handle[t] = 0
    BY <1>1
  <2>2. QED
    BY <1>1, <2>1, MountedCounts DEF Counted
<1>5. QED
  BY <1>2, <1>3, <1>4, InitTypes DEF InodeInv

LEMMA InitZones ==
  ASSUME Init
  PROVE  ZoneInv
<1>1. /\ disk = NewDisk /\ mem = NewDisk /\ job = [t \in Tasks |-> Idle]
      /\ own = [t \in Tasks |-> 0] /\ told = [n \in Files |-> [b \in FileBlocks |-> 0]]
      /\ crashes = 0
  BY DEF Init, None
<1>2. (\A t \in Tasks : own[t] = 0) /\ \A t \in Tasks : job[t].at = "idle"
  BY <1>1, IdleComing
<1>3. Core(mem, disk, own, job, crashes)
  BY <1>1, <1>2, NewCore
<1>4. Mapped(mem, disk, job)
  BY <1>1, FreeWalker DEF Mapped
<1>5. AnswersKept(mem, disk, told)
  BY <1>1 DEF AnswersKept
<1>6. QED
  BY <1>3, <1>4, <1>5 DEF ZoneInv

-----------------------------------------------------------------------------
(* Every step keeps both invariants.                                       *)
LEMMA InodesInductive ==
  ASSUME InodeInv, [Next]_vars
  PROVE  InodeInv'
<1>1. CASE Crash
  BY <1>1, CrashInodes
<1>2. ASSUME NEW t \in Tasks, Transfer(t) \/ Done(t)
      PROVE  InodeInv'
  BY <1>2, TransferInodes, DoneInodes
<1>3. ASSUME NEW t \in Tasks,
             Balloc(t) \/ Got(t) \/ Bfree(t) \/ \E c \in {Clear, Data} : Fill(t, c)
      PROVE  InodeInv'
  BY <1>3, BallocInodes, GotInodes, BfreeInodes, FillInodes
<1>4. ASSUME NEW t \in Tasks, Ialloc(t) \/ Numbered(t) \/ Ifree(t)
      PROVE  InodeInv'
  BY <1>4, IallocInodes, NumberedInodes, IfreeInodes
<1>5. ASSUME NEW t \in Tasks,
             \/ \E b \in FileBlocks, make \in BOOLEAN : Bmap(t, b, make)
             \/ Look(t) \/ Store(t) \/ NextLevel(t)
      PROVE  InodeInv'
  BY <1>5, BmapInodes, LookInodes, StoreInodes, NextInodes
<1>6. ASSUME NEW t \in Tasks, (\E n \in Files : Iget(t, n)) \/ Iput(t) \/ PutInode(t)
      PROVE  InodeInv'
  BY <1>6, IgetInodes, IputInodes, PutInodeInodes
<1>7. CASE UNCHANGED vars
  <2>1. /\ mem' = mem /\ disk' = disk /\ dirty' = dirty /\ job' = job /\ own' = own /\ node' = node
        /\ handle' = handle /\ table' = table /\ told' = told /\ crashes' = crashes /\ halted' = halted
    BY <1>7 DEF vars, diskVars, clientVars, machine
  <2>2. TypeInv'
    BY <2>1 DEF InodeInv, TypeInv, OthersTyped, JobsSound
  <2>3. NodesHeld' /\ Counted'
    BY <2>1 DEF InodeInv, NodesHeld, Named, Counted
  <2>4. QED
    BY <2>1, <2>2, <2>3 DEF InodeInv
<1>8. QED
  BY <1>1, <1>2, <1>3, <1>4, <1>5, <1>6, <1>7 DEF Next

LEMMA StaleKept ==
  ASSUME [Next]_vars, stale \in BOOLEAN
  PROVE  stale' \in BOOLEAN /\ (stale => stale')
<1>1. CASE Crash
  BY <1>1 DEF Crash
<1>h. CASE Halt
  BY <1>h DEF Halt
<1>r. ASSUME NEW t, NEW g, NEW z, NEW d, Record(t, g, z, d) PROVE stale' \in BOOLEAN /\ (stale => stale')
  <2>1. stale' = (stale \/ Reused(g, z))
    BY <1>r DEF Record
  <2>2. QED
    BY <2>1, Zenon
<1>g. ASSUME NEW t, NEW g, NEW d, GoOn(t, g, d) PROVE stale' = stale
  BY <1>g DEF GoOn, machine
<1>2. ASSUME NEW t \in Tasks, Transfer(t) \/ Done(t) PROVE stale' = stale
  BY <1>2 DEF Transfer, Done, machine
<1>3. ASSUME NEW t \in Tasks,
             Balloc(t) \/ Got(t) \/ Bfree(t) \/ \E c \in {Clear, Data} : Fill(t, c)
      PROVE  stale' = stale
  BY <1>3 DEF Balloc, Got, Bfree, Fill, Halt, machine
<1>4. ASSUME NEW t \in Tasks, Ialloc(t) \/ Numbered(t) \/ Ifree(t)
      PROVE  stale' = stale
  BY <1>4 DEF Ialloc, Numbered, Ifree, Halt, machine
<1>l. ASSUME NEW t, NEW g, Level(t, g) PROVE stale' \in BOOLEAN /\ (stale => stale')
  <2>1. CASE UNCHANGED machine
    BY <2>1 DEF machine
  <2>2. CASE ~ UNCHANGED machine
    <3>1. Record(t, g, Eof, dirty) \/ GoOn(t, g, dirty)
      BY <1>l, <2>2 DEF Level
    <3>2. QED
      BY <3>1, <1>r, <1>g
  <2>3. QED
    BY <2>1, <2>2
<1>5. ASSUME NEW t \in Tasks,
             \/ \E b \in FileBlocks, make \in BOOLEAN : Bmap(t, b, make)
             \/ Look(t) \/ Store(t) \/ NextLevel(t)
      PROVE  stale' \in BOOLEAN /\ (stale => stale')
  <2>1. \/ \E g : Level(t, g)
        \/ \E g, z, d : Record(t, g, z, d)
        \/ \E g, d : GoOn(t, g, d)
    BY <1>5 DEF Bmap, Look, Store, NextLevel
  <2>2. QED
    BY <2>1, <1>l, <1>r, <1>g
<1>6. ASSUME NEW t \in Tasks, (\E n \in Files : Iget(t, n)) \/ Iput(t) \/ PutInode(t)
      PROVE  stale' = stale
  BY <1>6 DEF Iget, Iput, PutInode, Halt, machine
<1>7. CASE UNCHANGED vars
  BY <1>7 DEF vars, machine
<1>8. QED
  BY <1>1, <1>2, <1>3, <1>4, <1>5, <1>6, <1>7 DEF Next

LEMMA ZonesInductive ==
  ASSUME InodeInv, ZoneInv, [Next]_vars, ~ stale'
  PROVE  ZoneInv'
<1>0. TypeInv /\ Counted
  BY DEF InodeInv
<1>1. CASE Crash
  BY <1>0, <1>1, CrashZone
<1>2. ASSUME NEW t \in Tasks, Transfer(t) \/ Done(t)
      PROVE  ZoneInv'
  BY <1>0, <1>2, TransferZone, DoneZone
<1>3. ASSUME NEW t \in Tasks,
             Balloc(t) \/ Got(t) \/ Bfree(t) \/ \E c \in {Clear, Data} : Fill(t, c)
      PROVE  ZoneInv'
  BY <1>0, <1>3, BallocZone, GotZone, BfreeZone, FillZone
<1>4. ASSUME NEW t \in Tasks, Ialloc(t) \/ Numbered(t) \/ Ifree(t)
      PROVE  ZoneInv'
  BY <1>0, <1>4, IallocZone, NumberedZone, IfreeZone
<1>5. ASSUME NEW t \in Tasks,
             \/ \E b \in FileBlocks, make \in BOOLEAN : Bmap(t, b, make)
             \/ Look(t) \/ Store(t) \/ NextLevel(t)
      PROVE  ZoneInv'
  BY <1>0, <1>5, BmapZone, LookZone, StoreZone, NextZone
<1>6. ASSUME NEW t \in Tasks, (\E n \in Files : Iget(t, n)) \/ Iput(t) \/ PutInode(t)
      PROVE  ZoneInv'
  BY <1>0, <1>6, IgetZone, IputZone, PutInodeZone
<1>7. CASE UNCHANGED vars
  <2>1. /\ mem' = mem /\ disk' = disk /\ job' = job /\ own' = own
        /\ told' = told /\ crashes' = crashes /\ halted' = halted
    BY <1>7 DEF vars, diskVars, clientVars, machine
  <2>2. QED
    BY <2>1 DEF ZoneInv
<1>8. QED
  BY <1>1, <1>2, <1>3, <1>4, <1>5, <1>6, <1>7 DEF Next

\* What holds in every state.
FilesInv == InodeInv /\ stale \in BOOLEAN /\ (~ stale => ZoneInv)

LEMMA FilesInductive ==
  ASSUME FilesInv, [Next]_vars
  PROVE  FilesInv'
<1>1. InodeInv'
  BY InodesInductive DEF FilesInv
<1>2. stale' \in BOOLEAN /\ (stale => stale')
  BY StaleKept DEF FilesInv
<1>3. ASSUME ~ stale' PROVE ZoneInv'
  BY <1>2, <1>3, ZonesInductive DEF FilesInv
<1>4. QED
  BY <1>1, <1>2, <1>3 DEF FilesInv

-----------------------------------------------------------------------------
(* What the invariants say of zones and inodes.                            *)
LEMMA ZonesFinite ==
  ASSUME NEW S \in SUBSET DataZones
  PROVE  IsFiniteSet(S)
<1>1. IsFiniteSet(FirstData .. Zones - 1)
  BY Numbers, FS_Interval
<1>2. QED
  BY <1>1, FS_Subset DEF DataZones

LEMMA OnceCount ==
  ASSUME NEW m, Tree(m), Once(m)
  PROVE  Cardinality(Zoned(Recorded(m))) = Cardinality(Recorded(m))
<1> DEFINE R == Recorded(m)  Z == Zoned(R)  f == [z \in Z |-> CHOOSE r \in R : r[4] = z]
<1>1. IsFiniteSet(Z)
  BY RecordedZones, ZonesFinite
<1>2. \A z \in Z : f[z] \in R /\ f[z][4] = z
  BY DEF Zoned
<1>3. \A r \in R : r[4] \in Z /\ f[r[4]] = r
  <2>1. \A r \in R : r[4] \in Z
    BY DEF Zoned
  <2>2. QED
    BY <1>2, <2>1 DEF Once
<1>4. f \in [Z -> R]
  BY <1>2
<1> HIDE DEF f, Z, R
<1>5. f \in Bijection(Z, R)
  BY <1>2, <1>3, <1>4 DEF Bijection, Injection, Surjection, IsInjective
<1>6. QED
  BY <1>1, <1>5, FS_Bijection DEF ExistsBijection, Z, R

LEMMA ZonesRight ==
  ASSUME TypeInv, stale \in BOOLEAN, ~ stale => ZoneInv
  PROVE  ZonesExact
<1> TypeOK
  BY TypeImplied
<1> SUFFICES ASSUME ~ stale
             PROVE  LET filed == Zoned(Recorded(mem))
                        taken == Owned \cup Underway
                        marked == Marked(mem) IN
                    /\ Sound(Recorded(mem), marked)
                    /\ Cardinality(Owned) = Cardinality({t \in Tasks : own[t] # 0})
                    /\ filed \cap taken = {} /\ Owned \cap Underway = {}
                    /\ taken \subseteq marked
                    /\ crashes = 0 => marked = filed \cup taken
  BY DEF ZonesExact
<1> DEFINE m == mem  filed == Filed(mem)
<1>1. Blocks(m) /\ Tree(m)
  BY Entries DEF TypeInv
<1>2. Core(m, disk, own, job, crashes) /\ Typed(m, disk, own, job)
  BY TypesTyped DEF ZoneInv
<1>3. /\ filed \subseteq DataZones
      /\ \A u \in Tasks : own[u] # 0 => own[u] \in DataZones
      /\ \A u \in Tasks : Coming(job[u]) => job[u].zone \in DataZones
  BY <1>2, TypedZones
<1>4. \A z : z \in Marked(m) <=> z \in DataZones /\ IsMarked(m, z)
  BY <1>1, MarkedIs
<1>5. \A z : z \in Owned <=> \E u \in Tasks : own[u] = z /\ z # 0
  BY DEF Owned
<1>6. \A z : z \in Underway <=> \E u \in Tasks : Coming(job[u]) /\ job[u].zone = z
  BY DEF Underway, Coming
<1>7. \A z \in filed : IsMarked(m, z)
  BY <1>2 DEF Core, FiledKept, Kept
<1>8. \A u \in Tasks : own[u] # 0 =>
         /\ IsMarked(m, own[u]) /\ own[u] \notin filed
         /\ \A v \in Tasks : own[v] = own[u] => v = u
  BY <1>2 DEF Core, OwnKept, Kept
<1>9. \A u \in Tasks : Coming(job[u]) =>
         /\ IsMarked(m, job[u].zone) /\ job[u].zone \notin filed
         /\ \A v \in Tasks : own[v] # job[u].zone
  BY <1>2 DEF Core, ComingKept
<1>11. Sound(Recorded(m), Marked(m))
  <2>1. Zoned(Recorded(m)) \subseteq Marked(m)
    BY <1>3, <1>4, <1>7 DEF Filed
  <2>2. QED
    BY <1>1, <1>2, <2>1, OnceCount DEF Sound, Core
<1>12. Cardinality(Owned) = Cardinality({t \in Tasks : own[t] # 0})
  <2> DEFINE T == {t \in Tasks : own[t] # 0}  f == [t \in T |-> own[t]]
  <2>1. IsFiniteSet(T)
    BY Numbers, FS_Subset
  <2>2. f \in [T -> Owned]
    BY <1>5
  <2>3. \A t, u \in T : f[t] = f[u] => t = u
    BY <1>8
  <2>4. \A z \in Owned : \E t \in T : f[t] = z
    BY <1>5
  <2> HIDE DEF f, T
  <2>5. f \in Bijection(T, Owned)
    BY <2>2, <2>3, <2>4 DEF Bijection, Injection, Surjection, IsInjective
  <2>6. QED
    BY <2>1, <2>5, FS_Bijection DEF ExistsBijection, T
<1>13. /\ filed \cap (Owned \cup Underway) = {} /\ Owned \cap Underway = {}
       /\ Owned \cup Underway \subseteq Marked(m)
  BY <1>3, <1>4, <1>5, <1>6, <1>8, <1>9
<1>14. ASSUME crashes = 0 PROVE Marked(m) = filed \cup (Owned \cup Underway)
  <2>1. \A z \in DataZones : IsMarked(m, z) =>
            z \in filed \/ (\E t \in Tasks : own[t] = z) \/ IsUnderway(job, z)
    BY <1>2, <1>14 DEF Core, NoneLost
  <2>2. Marked(m) \subseteq filed \cup (Owned \cup Underway)
    BY <2>1, <1>4, <1>5, <1>6, Numbers DEF IsUnderway
  <2>3. filed \subseteq Marked(m)
    BY <1>3, <1>4, <1>7
  <2>4. QED
    BY <2>2, <2>3, <1>13
<1>15. QED
  BY <1>11, <1>12, <1>13, <1>14 DEF Filed

LEMMA CrashesRight ==
  ASSUME TypeInv, ~ stale => ZoneInv
  PROVE  CrashSafe
<1> SUFFICES ASSUME ~ stale
             PROVE  Sound(Recorded(disk), Marked(disk)) /\ Owned \subseteq Marked(disk)
  BY DEF CrashSafe
<1>1. Blocks(disk) /\ Tree(disk)
  BY Entries DEF TypeInv
<1>2. Core(mem, disk, own, job, crashes) /\ Typed(mem, disk, own, job)
  BY TypesTyped DEF ZoneInv
<1>3. /\ Filed(mem) \subseteq DataZones
      /\ \A u \in Tasks : own[u] # 0 => own[u] \in DataZones
  BY <1>2, TypedZones
<1>4. \A z : z \in Marked(disk) <=> z \in DataZones /\ IsMarked(disk, z)
  BY <1>1, MarkedIs
<1>5. Recorded(disk) \subseteq Recorded(mem)
  BY <1>2, DiskBehind, ExtendsArrays DEF Core
<1>6. Once(disk)
  BY <1>2, <1>5 DEF Core, Once
<1>7. Zoned(Recorded(disk)) \subseteq Marked(disk)
  <2>1. Zoned(Recorded(disk)) \subseteq Filed(mem)
    BY <1>5 DEF Zoned, Filed
  <2>2. \A z \in Filed(mem) : IsMarked(disk, z)
    BY <1>2 DEF Core, FiledKept, Kept
  <2>3. QED
    BY <1>3, <1>4, <2>1, <2>2
<1>8. Owned \subseteq Marked(disk)
  <2>1. \A u \in Tasks : own[u] # 0 => IsMarked(disk, own[u])
    BY <1>2 DEF Core, OwnKept, Kept
  <2>2. QED
    BY <1>3, <1>4, <2>1 DEF Owned
<1>9. QED
  BY <1>1, <1>6, <1>7, <1>8, OnceCount DEF Sound

LEMMA InodesRight ==
  ASSUME InodeInv
  PROVE  InodesSound
<1> SUFFICES ASSUME ~ halted
             PROVE  /\ \A n \in Files : LET users == {t \in Tasks : handle[t] = n} IN
                        /\ Cardinality(InTable(n)) <= 1
                        /\ users # {} => InTable(n) # {}
                        /\ \A s \in InTable(n) :
                               table[s].count = Cardinality(users) + IF n = 1 THEN 2 ELSE 0
                    /\ \A t \in Tasks : node[t] # 0 =>
                        /\ node[t] \notin Files
                        /\ node[t] \notin ClearNumbers
                        /\ \A u \in Tasks \ {t} : node[u] # node[t]
  BY DEF InodesSound
<1>1. Counts(table, handle)
  BY DEF InodeInv, Counted
<1>2. ASSUME NEW n \in Files
      PROVE  /\ Cardinality(InTable(n)) <= 1
             /\ {t \in Tasks : handle[t] = n} # {} => InTable(n) # {}
             /\ \A s \in InTable(n) :
                    table[s].count = Cardinality({t \in Tasks : handle[t] = n})
                                         + IF n = 1 THEN 2 ELSE 0
  <2>1. n # 0
    BY Numbers
  <2>2. Cardinality(InTable(n)) <= 1
    <3>1. CASE InTable(n) = {}
      BY <3>1, FS_EmptySet
    <3>2. ASSUME NEW s \in InTable(n) PROVE Cardinality(InTable(n)) <= 1
      <4>1. InTable(n) = {s}
        BY <1>1, <2>1, <3>2 DEF InTable, Counts
      <4>2. QED
        BY <4>1, FS_Singleton
    <3>3. QED
      BY <3>1, <3>2
  <2>3. {t \in Tasks : handle[t] = n} # {} => InTable(n) # {}
    BY <1>1, <2>1 DEF Counts, Holds, InTable
  <2>4. \A s \in InTable(n) : table[s].count = Uses(handle, n)
    BY <1>1, <2>1 DEF Counts, InTable
  <2>5. QED
    BY <2>2, <2>3, <2>4 DEF Uses, Users
<1>3. ASSUME NEW t \in Tasks, node[t] # 0
      PROVE  /\ node[t] \notin Files /\ node[t] \notin ClearNumbers
             /\ \A u \in Tasks \ {t} : node[u] # node[t]
  <2>1. Named(t) = node[t]
    BY <1>3 DEF Named
  <2>2. /\ node[t] \notin Files /\ Number(mem, node[t])
        /\ \A u \in Tasks : Named(u) = node[t] => u = t
    BY <1>3, <2>1 DEF InodeInv, NodesHeld
  <2>3. \A u \in Tasks : node[u] = node[t] => Named(u) = node[t]
    BY <1>3 DEF Named
  <2>4. QED
    BY <2>2, <2>3, ClearNumbersAre
<1>4. QED
  BY <1>2, <1>3

-----------------------------------------------------------------------------
\* The inductive invariant of the file system: the entries of inodeTable, the
\* bits of the inode map and the handles of the tasks agree in every state.
\* Until bmap makes an index block of a zone that is not clear, a marked zone
\* has one use, a free one is on the disk as it is seen, and the disk lacks at
\* most what is about to be written (bmap.cpp).  Callers of bmap take turns on
\* a file.
THEOREM FilesInvariant ==
  Spec => []FilesInv
<1>1. Init => FilesInv
  <2>1. Init => stale = FALSE
    BY DEF Init
  <2>2. QED
    BY <2>1, InitInodes, InitZones DEF FilesInv
<1>2. FilesInv /\ [Next]_vars => FilesInv'
  BY FilesInductive
<1>3. QED
  BY <1>1, <1>2, PTL DEF Spec

\* The blocks of memory and of the disk, the jobs of the tasks, the table and
\* the handles keep their types (fs.h, superblock.h).
THEOREM FilesTypesHold ==
  Spec => []TypeOK
<1>1. FilesInv => TypeOK
  BY TypeImplied DEF FilesInv, InodeInv
<1>2. QED
  BY <1>1, FilesInvariant, PTL

\* An inode is in one entry of the table, whose count is the number of those
\* that use it, and a number that ialloc gave to a task is no one else's
\* (iget and iput in inode.cpp, ialloc in bmap.cpp).
THEOREM InodesAreSound ==
  Spec => []InodesSound
<1>1. FilesInv => InodesSound
  BY InodesRight DEF FilesInv
<1>2. QED
  BY <1>1, FilesInvariant, PTL

\* balloc never gives out a zone that a file or another task has, and until the
\* power fails no zone is lost (balloc, bfree and bmap in bmap.cpp); as long as
\* bmap has found each zone clear that it made an index block of, which neither
\* it nor bfree sees to, and for callers that take turns on a file.
THEOREM ZonesAreExact ==
  Spec => []ZonesExact
<1>1. FilesInv => ZonesExact
  BY ZonesRight DEF FilesInv, InodeInv
<1>2. QED
  BY <1>1, FilesInvariant, PTL

\* Whenever the power fails, what the inodes and index blocks on the disk name
\* is marked in the maps on the disk, and named once (the order of the writes of
\* balloc and bmap); with the same two conditions.
THEOREM CrashesAreSafe ==
  Spec => []CrashSafe
<1>1. FilesInv => CrashSafe
  BY CrashesRight DEF FilesInv, InodeInv
<1>2. QED
  BY <1>1, FilesInvariant, PTL

\* A zone that bmap answered for a block of a file stays that block's zone, in
\* memory and on the disk, through every failure of the power (bmap.cpp); with
\* the same two conditions.
THEOREM AnswersAreDurable ==
  Spec => []Durable
<1>1. FilesInv => Durable
  BY DEF FilesInv, ZoneInv, AnswersKept, Durable
<1>2. QED
  BY <1>1, FilesInvariant, PTL
=============================================================================
