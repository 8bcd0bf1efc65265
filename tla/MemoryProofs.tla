---------------------------- MODULE MemoryProofs ----------------------------
(***************************************************************************)
(* Proofs about Memory.tla, for any number of processes, frames, pages and *)
(* tables, and in the second half about KernelHeap.tla, for any number of  *)
(* pages and sizes of blocks.  The two specifications share no state.      *)
(***************************************************************************)
EXTENDS Memory, KernelHeap, DataLemmas

(* The invariant is the conjunction of the properties: the counts say      *)
(* which frames are free, the shape of the tables says that a process has  *)
(* a frame once, and so that one reference is one process.                 *)
IInv ==
    /\ RefsExact
    /\ SoleWriter
    /\ TablesSound

\* The frames that a process has, as pages and as tables.
Owned(p) == FramesOf(p) \cup TablesOf(p)

LEMMA OwnedFrames ==
  ASSUME TypeOK
  PROVE  \A p \in Procs : \A f :
            /\ f \in FramesOf(p) <=> f # None /\ \E v \in Pages : frame[p][v] = f
            /\ f \in TablesOf(p) <=> f # None /\ \E t \in Tables : table[p][t] = f
            /\ f \in Owned(p) => f \in Frames
            /\ \A v \in Pages : frame[p][v] # None => frame[p][v] \in Frames
            /\ \A t \in Tables : table[p][t] # None => table[p][t] \in Frames
BY DEF TypeOK, FramesOf, TablesOf, Mapped, Holding, Owned

LEMMA OwnersFinite ==
  \A f : /\ Owners(f) \subseteq Procs /\ IsFiniteSet(Owners(f))
         /\ Cardinality(Owners(f)) \in Nat
         /\ \A p \in Procs : p \in Owners(f) <=> f \in Owned(p)
<1> SUFFICES ASSUME NEW f
             PROVE  /\ Owners(f) \subseteq Procs /\ IsFiniteSet(Owners(f))
                    /\ Cardinality(Owners(f)) \in Nat
                    /\ \A p \in Procs : p \in Owners(f) <=> f \in Owned(p)
  OBVIOUS
<1>1. Owners(f) \in SUBSET Procs /\ \A p \in Procs : p \in Owners(f) <=> f \in Owned(p)
  BY DEF Owners, Owned
<1>2. IsFiniteSet(Owners(f))
  BY <1>1, MemoryAssumption, FS_Subset DEF MemoryAssumption
<1>3. QED
  BY <1>1, <1>2, FS_CardinalityType

(* A free frame is nobody's, and a frame with one reference has one owner. *)
LEMMA FreeIsNobodys ==
  ASSUME RefsExact, NEW f \in Frames
  PROVE  /\ refs[f] = 0 <=> \A p \in Procs : f \notin Owned(p)
         /\ \A p \in Procs : refs[f] = 1 /\ f \in Owned(p) => Owners(f) = {p}
         /\ \A p \in Procs : Owners(f) = {p} => refs[f] = 1
<1>1. /\ refs[f] = Cardinality(Owners(f))
      /\ Owners(f) \subseteq Procs /\ IsFiniteSet(Owners(f))
      /\ \A p \in Procs : p \in Owners(f) <=> f \in Owned(p)
  BY OwnersFinite DEF RefsExact
<1>2. refs[f] = 0 <=> Owners(f) = {}
  BY <1>1, FS_EmptySet
<1>3. refs[f] = 1 <=> \E x : Owners(f) = {x}
  BY <1>1, FS_Singleton
<1>4. QED
  BY <1>1, <1>2, <1>3

-----------------------------------------------------------------------------
(* In a step that leaves the tables of the other processes alone, what p   *)
(* has or has no longer is what the counts must follow.                    *)
LEMMA OwnersAfter ==
  ASSUME NEW p \in Procs, NEW f,
         \A q \in Procs \ {p} : frame'[q] = frame[q] /\ table'[q] = table[q]
  PROVE  /\ Owners(f)' \subseteq Procs
         /\ p \in Owners(f)' <=> f \in Owned(p)'
         /\ \A q \in Procs \ {p} : q \in Owners(f)' <=> q \in Owners(f)
BY DEF Owners, Owned, FramesOf, TablesOf, Mapped, Holding

LEMMA CountStep ==
  ASSUME RefsExact, NEW p \in Procs,
         \A q \in Procs \ {p} : frame'[q] = frame[q] /\ table'[q] = table[q],
         \A f \in Frames :
            refs'[f] = (refs[f] - IF f \in Owned(p) THEN 1 ELSE 0)
                         + IF f \in Owned(p)' THEN 1 ELSE 0
  PROVE  \A f \in Frames : refs'[f] = Cardinality(Owners(f)')
<1> SUFFICES ASSUME NEW f \in Frames PROVE refs'[f] = Cardinality(Owners(f)')
  OBVIOUS
<1> DEFINE others == Owners(f) \ {p}
<1>1. /\ refs[f] = Cardinality(Owners(f)) /\ IsFiniteSet(Owners(f))
      /\ Owners(f) \subseteq Procs
      /\ p \in Owners(f) <=> f \in Owned(p)
  BY OwnersFinite DEF RefsExact
<1>2. IsFiniteSet(others) /\ Cardinality(others) \in Nat
  BY <1>1, FS_RemoveElement, FS_CardinalityType
<1>3. Cardinality(others) = refs[f] - IF f \in Owned(p) THEN 1 ELSE 0
  <2>1. /\ Cardinality(others) = IF p \in Owners(f) THEN Cardinality(Owners(f)) - 1
                                 ELSE Cardinality(Owners(f))
        /\ Cardinality(Owners(f)) \in Nat
    BY <1>1, FS_RemoveElement, FS_CardinalityType
  <2>2. QED
    BY <1>1, <2>1
<1>4. /\ Owners(f)' \subseteq Procs
      /\ p \in Owners(f)' <=> f \in Owned(p)'
      /\ \A q \in Procs \ {p} : q \in Owners(f)' <=> q \in Owners(f)
  BY OwnersAfter
<1>5. CASE f \in Owned(p)'
  <2>1. Owners(f)' = others \cup {p}
    BY <1>1, <1>4, <1>5
  <2>2. Cardinality(others \cup {p}) = Cardinality(others) + 1
    BY <1>2, FS_AddElement
  <2>3. QED
    BY <1>2, <1>3, <1>5, <2>1, <2>2
<1>6. CASE f \notin Owned(p)'
  <2>1. Owners(f)' = others
    <3>1. \A q : q \in Owners(f)' <=> q \in others
      BY <1>1, <1>4, <1>6
    <3>2. QED
      BY <3>1, Zenon
  <2>2. QED
    BY <1>2, <1>3, <1>6, <2>1
<1>7. QED
  BY <1>5, <1>6

(* putPage of the frames in F and getPage for those in G keep freePages    *)
(* right, if the former are in use and the latter free by then.            *)
LEMMA RecountFree ==
  ASSUME RefsExact, NEW F \in SUBSET Frames, NEW G \in SUBSET Frames,
         \A f \in F : refs[f] > 0,
         G \subseteq FreeWithout(F),
         Recount(F, G)
  PROVE  /\ refs' \in [Frames -> Nat]
         /\ freePages' = Cardinality(Free') + KernelPages
         /\ freePages' \in Nat
<1> DEFINE given == {f \in F : refs[f] = 1}
           pool  == Free \cup given
<1>1. /\ refs \in [Frames -> Nat] /\ KernelPages \in Nat
      /\ freePages = Cardinality(Free) + KernelPages
      /\ IsFiniteSet(Frames)
  BY MemoryAssumption DEF RefsExact, TypeOK, MemoryAssumption
<1>2. /\ refs' = [f \in Frames |-> IF f \in G THEN 1
                                   ELSE IF f \in F THEN refs[f] - 1 ELSE refs[f]]
      /\ freePages' = freePages + Cardinality(given) - Cardinality(G)
  BY DEF Recount
<1>3. refs' \in [Frames -> Nat]
  BY <1>1, <1>2
<1>4. Free \subseteq Frames /\ given \subseteq Frames /\ Free \cap given = {}
      /\ G \subseteq pool /\ Free' = pool \ G
  BY <1>1, <1>2 DEF Free, FreeWithout
<1> HIDE DEF given
<1>5. /\ IsFiniteSet(Free) /\ IsFiniteSet(given) /\ IsFiniteSet(G)
      /\ Cardinality(Free) \in Nat /\ Cardinality(given) \in Nat
      /\ Cardinality(G) \in Nat
  BY <1>1, <1>4, FS_Subset, FS_CardinalityType
<1>6. IsFiniteSet(pool) /\ Cardinality(pool) = Cardinality(Free) + Cardinality(given)
  <2>1. /\ IsFiniteSet(Free \cup given)
        /\ Cardinality(Free \cup given)
              = Cardinality(Free) + Cardinality(given) - Cardinality(Free \cap given)
    BY <1>5, FS_Union
  <2>2. Cardinality(Free \cap given) = 0
    BY <1>4, FS_EmptySet
  <2>3. QED
    BY <1>5, <2>1, <2>2
<1>7. pool \cap G = G
  BY <1>4
<1> HIDE DEF pool
<1>8. IsFiniteSet(pool \ G) /\ Cardinality(pool \ G) = Cardinality(pool) - Cardinality(G)
  <2>1. /\ IsFiniteSet(pool \ G)
        /\ Cardinality(pool \ G) = Cardinality(pool) - Cardinality(pool \cap G)
    BY <1>6, FS_Difference
  <2>2. QED
    BY <1>7, <2>1
<1>9. Cardinality(Free') \in Nat
      /\ Cardinality(Free') = Cardinality(Free) + Cardinality(given) - Cardinality(G)
  BY <1>4, <1>5, <1>6, <1>8, FS_CardinalityType
<1>10. QED
  BY <1>1, <1>2, <1>3, <1>5, <1>9

LEMMA RecountStep ==
  ASSUME RefsExact, NEW p \in Procs,
         \A q \in Procs \ {p} : frame'[q] = frame[q] /\ table'[q] = table[q],
         NEW F \in SUBSET Owned(p), NEW G \in SUBSET FreeWithout(F),
         \A f : f \in Owned(p)' <=> f \in G \/ (f \in Owned(p) /\ f \notin F),
         Recount(F, G)
  PROVE  /\ refs' \in [Frames -> Nat]
         /\ freePages' = Cardinality(Free') + KernelPages
         /\ freePages' \in Nat
         /\ \A f \in Frames : refs'[f] = Cardinality(Owners(f)')
<1>1. F \in SUBSET Frames /\ G \in SUBSET Frames /\ Owned(p) \subseteq Frames
  BY OwnedFrames DEF RefsExact, FreeWithout
<1>2. \A f \in F : refs[f] > 0
  BY <1>1, FreeIsNobodys DEF RefsExact, TypeOK
<1>3. \A f \in Frames : refs[f] \in Nat
  BY DEF RefsExact, TypeOK
<1>4. /\ refs' \in [Frames -> Nat]
      /\ freePages' = Cardinality(Free') + KernelPages
      /\ freePages' \in Nat
  BY <1>1, <1>2, RecountFree
<1>5. ASSUME NEW f \in Frames
      PROVE  refs'[f] = (refs[f] - IF f \in Owned(p) THEN 1 ELSE 0)
                           + IF f \in Owned(p)' THEN 1 ELSE 0
  <2>1. refs'[f] = IF f \in G THEN 1 ELSE IF f \in F THEN refs[f] - 1 ELSE refs[f]
    BY DEF Recount
  <2>2. f \in G => \/ refs[f] = 0 /\ f \notin Owned(p)
                   \/ refs[f] = 1 /\ f \in Owned(p)
    BY <1>1, FreeIsNobodys DEF FreeWithout
  <2>3. QED
    BY <1>3, <2>1, <2>2
<1>6. \A f \in Frames : refs'[f] = Cardinality(Owners(f)')
  BY <1>5, CountStep
<1>7. QED
  BY <1>4, <1>6

-----------------------------------------------------------------------------
\* SoleWriter, frame by frame.
WritersAlone == \A p \in Procs : \A v \in Pages : writable[p][v] =>
    /\ frame[p][v] # None
    /\ \A q \in Procs : frame[p][v] \in Owned(q) <=> q = p

LEMMA SoleWriterPoints == SoleWriter <=> WritersAlone
<1> SUFFICES ASSUME NEW p \in Procs, NEW v \in Pages
             PROVE  Owners(frame[p][v]) = {p}
                       <=> \A q \in Procs : frame[p][v] \in Owned(q) <=> q = p
  BY DEF SoleWriter, WritersAlone
<1>1. /\ Owners(frame[p][v]) \subseteq Procs
      /\ \A q \in Procs : q \in Owners(frame[p][v]) <=> frame[p][v] \in Owned(q)
  BY OwnersFinite
<1>2. QED
  BY <1>1

(* The shape of the page tables, frame by frame.                           *)
LEMMA DistinctPoints ==
  Distinct <=>
    /\ \A p, q \in Procs : \A v, w \in Pages :
          frame[p][v] = frame[q][w] /\ frame[p][v] # None => v = w
    /\ \A p, q \in Procs : \A s, t \in Tables :
          table[p][s] = table[q][t] /\ table[p][s] # None => p = q /\ s = t
    /\ \A p, q \in Procs : \A v \in Pages, t \in Tables :
          frame[p][v] = table[q][t] => frame[p][v] = None
<1>1. (\A p, q \in Procs : \A v \in Mapped(p), w \in Mapped(q) :
             frame[p][v] = frame[q][w] => v = w)
         <=> \A p, q \in Procs : \A v, w \in Pages :
                frame[p][v] = frame[q][w] /\ frame[p][v] # None => v = w
  BY DEF Mapped
<1>2. (\A p, q \in Procs : \A s \in Holding(p), t \in Holding(q) :
             table[p][s] = table[q][t] => p = q /\ s = t)
         <=> \A p, q \in Procs : \A s, t \in Tables :
                table[p][s] = table[q][t] /\ table[p][s] # None => p = q /\ s = t
  BY DEF Holding
<1>3. ASSUME NEW p \in Procs, NEW q \in Procs
      PROVE  FramesOf(p) \cap TablesOf(q) = {}
                <=> \A v \in Pages, t \in Tables :
                       frame[p][v] = table[q][t] => frame[p][v] = None
  BY DEF FramesOf, TablesOf, Mapped, Holding
<1>4. QED
  BY <1>1, <1>2, <1>3 DEF Distinct

(* Steps that leave all tables as they are.                                *)
LEMMA SameTables ==
  ASSUME UNCHANGED <<table, frame>>
  PROVE  /\ \A f : Owners(f)' = Owners(f)
         /\ \A p : Mapped(p)' = Mapped(p) /\ Holding(p)' = Holding(p)
         /\ \A p : Owned(p)' = Owned(p)
         /\ Distinct' = Distinct
BY DEF Owners, Owned, FramesOf, TablesOf, Mapped, Holding, Distinct

LEMMA AsideStep ==
  ASSUME IInv, TypeOK', UNCHANGED <<table, frame, vmap, refs, freePages>>,
         SoleWriter', MapsAgree'
  PROVE  IInv'
<1>1. Free' = Free
  BY DEF Free
<1>2. RefsExact'
  BY <1>1, SameTables DEF IInv, RefsExact
<1>3. QED
  BY <1>2, SameTables DEF IInv, TablesSound

LEMMA InitIInv == Init => IInv
<1> SUFFICES ASSUME Init PROVE IInv
  OBVIOUS
<1>1. \A p \in Procs : Mapped(p) = {} /\ Holding(p) = {} /\ Owned(p) = {}
  BY DEF Init, Mapped, Holding, Owned, FramesOf, TablesOf, NoFrames, NoTables
<1>2. \A f : Owners(f) = {}
  BY <1>1 DEF Owners, Owned
<1>3. Free = Frames
  BY DEF Init, Free
<1>4. Cardinality(Frames) \in Nat /\ KernelPages \in Nat
      /\ StackBottom \in 1 .. NrPages /\ NrPages \in Nat
  BY MemoryAssumption, FS_CardinalityType DEF MemoryAssumption
<1>5. TypeOK
  <2>1. 0 \in 0 .. StackBottom - 1 /\ Cardinality(Frames) + KernelPages \in Nat
    BY <1>4
  <2>2. QED
    BY <2>1 DEF Init, TypeOK, NoFrames, NoTables, ReadOnly
<1>6. RefsExact
  BY <1>2, <1>3, <1>5, FS_EmptySet DEF Init, RefsExact
<1>7. SoleWriter
  BY DEF Init, SoleWriter, ReadOnly
<1>8. Distinct
  BY DEF Init, NoFrames, NoTables, Distinct, Mapped, Holding, FramesOf, TablesOf
<1>9. MapsAgree
  BY <1>1 DEF Init, MapsAgree
<1>10. QED
  BY <1>6, <1>7, <1>8, <1>9 DEF IInv, TablesSound

-----------------------------------------------------------------------------
(* Steps that move no frame.                                               *)
LEMMA EnterStep ==
  ASSUME IInv, NEW p \in Procs, Enter(p)
  PROVE  IInv'
<1>1. TypeOK'
  BY DEF Enter, IInv, RefsExact, TypeOK, maps
<1>2. SoleWriter'
  BY SameTables DEF Enter, IInv, SoleWriter, maps
<1>3. MapsAgree'
  BY SameTables DEF Enter, IInv, TablesSound, MapsAgree, maps
<1>4. QED
  BY <1>1, <1>2, <1>3, AsideStep DEF Enter, maps

LEMMA SwitchStep ==
  ASSUME IInv, NEW p \in Procs \cup {None}, Switch(p)
  PROVE  IInv'
<1>1. TypeOK'
  BY DEF Switch, IInv, RefsExact, TypeOK, maps
<1>2. SoleWriter'
  BY SameTables DEF Switch, IInv, SoleWriter, maps
<1>3. MapsAgree'
  BY SameTables DEF Switch, IInv, TablesSound, MapsAgree, maps
<1>4. QED
  BY <1>1, <1>2, <1>3, AsideStep DEF Switch, maps

(* The process on the processor, and where its pages are.                  *)
LEMMA RunningHere ==
  ASSUME IInv, Running
  PROVE  /\ current \in Procs /\ current \in users /\ current # None
         /\ \A v \in Mapped(current) : frame[current][v] \in Frames
BY MemoryAssumption
   DEF IInv, RefsExact, TypeOK, Running, Mapped, MemoryAssumption

LEMMA StoreStep ==
  ASSUME IInv, NEW v \in Pages, Store(v) \/ StoreStatus(v)
  PROVE  IInv'
<1>1. PICK x \in Values :
         /\ Running /\ v \in Mapped(current)
         /\ data' = [data EXCEPT ![frame[current][v]] = x]
         /\ UNCHANGED <<current, users, maps, refs, freePages, window, halted>>
  BY DEF Store, StoreStatus
<1>2. TypeOK'
  BY <1>1, RunningHere DEF IInv, RefsExact, TypeOK, maps
<1>3. SoleWriter' /\ MapsAgree'
  BY <1>1, SameTables DEF IInv, SoleWriter, TablesSound, MapsAgree, maps
<1>4. QED
  BY <1>1, <1>2, <1>3, AsideStep DEF maps

LEMMA OwnFaultStep ==
  ASSUME IInv, NEW v \in Pages, OwnFault(v)
  PROVE  IInv'
<1> DEFINE p == current
<1>1. p \in Procs /\ v \in Mapped(p) /\ frame[p][v] \in Frames
  BY RunningHere DEF OwnFault, Protected
<1>2. /\ writable' = [writable EXCEPT ![p][v] = TRUE]
      /\ UNCHANGED <<current, users, table, frame, vmap, brk, phys, halted>>
  BY DEF OwnFault
<1>3. TypeOK'
  BY <1>1, <1>2 DEF IInv, RefsExact, TypeOK, phys
<1>4. Owners(frame[p][v]) = {p} /\ frame[p][v] # None
  <2>1. frame[p][v] \in Owned(p)
    BY <1>1 DEF Owned, FramesOf
  <2>2. QED
    BY <1>1, <2>1, FreeIsNobodys DEF OwnFault, IInv, Mapped
<1>5. SoleWriter'
  <2>1. \A q \in Procs, w \in Pages :
           writable'[q][w] => writable[q][w] \/ (q = p /\ w = v)
    BY <1>1, <1>2 DEF IInv, RefsExact, TypeOK
  <2>2. QED
    BY <1>2, <1>4, <2>1, SameTables DEF IInv, SoleWriter
<1>6. MapsAgree'
  BY <1>2, SameTables DEF IInv, TablesSound, MapsAgree
<1>7. QED
  BY <1>2, <1>3, <1>5, <1>6, AsideStep DEF phys

LEMMA PanicStep ==
  ASSUME IInv, halted' \in BOOLEAN, UNCHANGED <<current, users, maps, phys>>
  PROVE  IInv'
<1>1. TypeOK'
  BY DEF IInv, RefsExact, TypeOK, maps, phys
<1>2. SoleWriter' /\ MapsAgree'
  BY SameTables DEF IInv, SoleWriter, TablesSound, MapsAgree, maps
<1>3. QED
  BY <1>1, <1>2, AsideStep DEF maps, phys

LEMMA GrowStep ==
  ASSUME IInv, NEW b \in 0 .. StackBottom - 1, Grow(b)
  PROVE  IInv'
<1>1. current \in Procs
  BY RunningHere DEF Grow
<1>2. /\ brk' = [brk EXCEPT ![current] = b]
      /\ b \in brk[current] .. StackBottom - 1
      /\ UNCHANGED <<current, users, table, frame, writable, vmap, phys, halted>>
  BY DEF Grow
<1>3. TypeOK'
  BY <1>1, <1>2 DEF IInv, RefsExact, TypeOK, phys
<1>4. SoleWriter'
  BY <1>2, SameTables DEF IInv, SoleWriter
<1>5. \A q \in Procs : brk[q] <= brk'[q] /\ brk[q] \in Int /\ brk'[q] \in Int
  BY <1>1, <1>2, MemoryAssumption DEF IInv, RefsExact, TypeOK, MemoryAssumption
<1>6. MapsAgree'
  <2>1. \A q \in Procs : \A v \in Mapped(q) : v < brk[q] => v < brk'[q]
    BY <1>5, MemoryAssumption DEF Mapped, Pages, MemoryAssumption
  <2>2. QED
    BY <1>2, <2>1, SameTables DEF IInv, TablesSound, MapsAgree
<1>7. QED
  BY <1>2, <1>3, <1>4, <1>6, AsideStep DEF phys

-----------------------------------------------------------------------------
(* A frame that is free once p has put back the frames of F is nobody's,   *)
(* or is one of F that only p had.                                         *)
LEMMA FreshFrames ==
  ASSUME RefsExact, NEW p \in Procs, NEW F \in SUBSET Owned(p),
         NEW g \in FreeWithout(F)
  PROVE  /\ g \in Frames /\ g # None
         /\ \A q \in Procs \ {p} : g \notin Owned(q)
         /\ g \in Owned(p) => g \in F
<1>1. g \in Frames /\ (refs[g] = 0 \/ (g \in F /\ refs[g] = 1))
  BY DEF FreeWithout
<1>2. refs[g] = 0 => \A q \in Procs : g \notin Owned(q)
  BY <1>1, FreeIsNobodys
<1>3. g \in F /\ refs[g] = 1 => Owners(g) = {p}
  BY <1>1, FreeIsNobodys
<1>4. \A q \in Procs : q \in Owners(g) <=> g \in Owned(q)
  BY OwnersFinite
<1>5. g # None
  BY <1>1, MemoryAssumption DEF MemoryAssumption
<1>6. QED
  BY <1>1, <1>2, <1>3, <1>4, <1>5

(* The steps that put back frames of p and take others for it: what p has  *)
(* afterwards is new, or it was at the same place before and is kept.      *)
LEMMA TurnoverStep ==
  ASSUME IInv, NEW p \in Procs,
         \A q \in Procs \ {p} : /\ frame'[q] = frame[q] /\ table'[q] = table[q]
                                /\ writable'[q] = writable[q],
         NEW F \in SUBSET Owned(p), NEW G \in SUBSET FreeWithout(F),
         Recount(F, G),
         \A f : f \in Owned(p)' <=> f \in G \/ (f \in Owned(p) /\ f \notin F),
         \A v \in Pages : \/ frame'[p][v] \in G \cup {None}
                          \/ frame'[p][v] = frame[p][v] /\ frame[p][v] \notin F,
         \A t \in Tables : \/ table'[p][t] \in G \cup {None}
                           \/ table'[p][t] = table[p][t] /\ table[p][t] \notin F,
         \A v, w \in Pages : frame'[p][v] \in G /\ frame'[p][v] = frame'[p][w] => v = w,
         \A s, t \in Tables : table'[p][s] \in G /\ table'[p][s] = table'[p][t] => s = t,
         \A v \in Pages, t \in Tables : frame'[p][v] \in G => frame'[p][v] # table'[p][t],
         \A v \in Pages : writable'[p][v] =>
            \/ frame'[p][v] \in G
            \/ writable[p][v] /\ frame'[p][v] = frame[p][v],
         refs' \in [Frames -> Nat] /\ freePages' \in Nat => TypeOK',
         MapsAgree'
  PROVE  IInv'
<1>1. RefsExact'
  BY RecountStep DEF IInv, RefsExact
<1>2. \A g \in G : /\ g # None /\ \A q \in Procs \ {p} : g \notin Owned(q)
                   /\ g \in Owned(p) => g \in F
  BY FreshFrames DEF IInv
<1>3. \A q \in Procs \ {p} : \A f : f \in Owned(q)' <=> f \in Owned(q)
  BY DEF Owned, FramesOf, TablesOf, Mapped, Holding
<1>4. /\ TypeOK /\ TypeOK' /\ Distinct
  BY <1>1 DEF IInv, RefsExact, TablesSound
<1>5. \A q \in Procs : /\ \A v \in Pages : frame[q][v] # None => frame[q][v] \in Owned(q)
                       /\ \A t \in Tables : table[q][t] # None => table[q][t] \in Owned(q)
  BY <1>4, OwnedFrames DEF Owned
<1>6. SoleWriter'
  <2>1. SUFFICES ASSUME NEW q \in Procs, NEW v \in Pages, writable'[q][v]
                 PROVE  /\ frame'[q][v] # None
                        /\ \A r \in Procs : frame'[q][v] \in Owned(r)' <=> r = q
    <3>1. SoleWriter' <=> WritersAlone'
      BY SoleWriterPoints, PTL
    <3>2. QED
      BY <2>1, <3>1 DEF WritersAlone
  <2>2. CASE q # p
    BY <1>2, <1>3, <1>5, <2>1, <2>2, SoleWriterPoints DEF IInv, WritersAlone
  <2>3. CASE q = p /\ frame'[p][v] \in G
    BY <1>2, <1>3, <2>1, <2>3
  <2>4. CASE q = p /\ frame'[p][v] \notin G
    BY <1>2, <1>3, <1>5, <2>1, <2>4, SoleWriterPoints DEF IInv, WritersAlone
  <2>5. QED
    BY <2>2, <2>3, <2>4
<1>7. Distinct'
  <2>1. SUFFICES
          /\ \A q, r \in Procs : \A v, w \in Pages :
                frame'[q][v] = frame'[r][w] /\ frame'[q][v] # None => v = w
          /\ \A q, r \in Procs : \A s, t \in Tables :
                table'[q][s] = table'[r][t] /\ table'[q][s] # None => q = r /\ s = t
          /\ \A q, r \in Procs : \A v \in Pages, t \in Tables :
                frame'[q][v] = table'[r][t] => frame'[q][v] = None
    BY <2>1 DEF Distinct, FramesOf, TablesOf, Mapped, Holding
  <2>2. /\ \A q, r \in Procs : \A v, w \in Pages :
              frame[q][v] = frame[r][w] /\ frame[q][v] # None => v = w
        /\ \A q, r \in Procs : \A s, t \in Tables :
              table[q][s] = table[r][t] /\ table[q][s] # None => q = r /\ s = t
        /\ \A q, r \in Procs : \A v \in Pages, t \in Tables :
              frame[q][v] = table[r][t] => frame[q][v] = None
    BY <1>4, DistinctPoints
  <2>3. ASSUME NEW q \in Procs, NEW r \in Procs, NEW v \in Pages, NEW w \in Pages,
               frame'[q][v] = frame'[r][w], frame'[q][v] # None
        PROVE  v = w
    BY <1>2, <1>5, <2>2, <2>3
  <2>4. ASSUME NEW q \in Procs, NEW r \in Procs, NEW s \in Tables, NEW t \in Tables,
               table'[q][s] = table'[r][t], table'[q][s] # None
        PROVE  q = r /\ s = t
    BY <1>2, <1>5, <2>2, <2>4
  <2>5. ASSUME NEW q \in Procs, NEW r \in Procs, NEW v \in Pages, NEW t \in Tables,
               frame'[q][v] = table'[r][t]
        PROVE  frame'[q][v] = None
    BY <1>2, <1>5, <2>2, <2>5
  <2>6. QED
    BY <2>3, <2>4, <2>5
<1>8. QED
  BY <1>1, <1>6, <1>7 DEF IInv, TablesSound

-----------------------------------------------------------------------------

LEMMA LinkFaultStep ==
  ASSUME IInv, NEW v \in Pages, LinkFault(v)
  PROVE  IInv'
<1>1. PICK p \in Procs : p = current /\ p \in users /\ TypeOK
  BY RunningHere DEF LinkFault, IInv, RefsExact
<1>2. PICK f \in Free :
         /\ Missing(v)
         /\ frame' = [frame EXCEPT ![p][v] = f]
         /\ writable' = [writable EXCEPT ![p][v] = TRUE]
         /\ vmap' = [vmap EXCEPT ![p] = @ \cup {v}]
         /\ UNCHANGED <<current, users, brk, data, window, halted>>
         /\ IF TableOf[v] \in Holding(p)
            THEN Recount({}, {f}) /\ UNCHANGED table
            ELSE \E g \in Free \ {f} :
                    /\ table' = [table EXCEPT ![p][TableOf[v]] = g]
                    /\ Recount({}, {f, g})
  BY <1>1, Zenon DEF LinkFault
<1>3. /\ TableOf[v] \in Tables /\ frame[p][v] = None
      /\ \A g \in Free : g \in Frames /\ g # None
      /\ Free \subseteq FreeWithout({}) /\ {} \in SUBSET Owned(p)
      /\ table \in [Procs -> [Tables -> Frames \cup {None}]]
  BY <1>1, <1>2, MemoryAssumption
     DEF Missing, Mapped, Free, FreeWithout, MemoryAssumption, TypeOK
<1>4. PICK G \in SUBSET Free :
         /\ f \in G /\ Recount({}, G)
         /\ table' \in [Procs -> [Tables -> Frames \cup {None}]]
         /\ \A q \in Procs \ {p} : table'[q] = table[q]
         /\ \/ /\ G = {f} /\ table[p][TableOf[v]] # None
               /\ table'[p] = table[p]
            \/ \E g \in G \ {f} :
                  /\ G = {f, g} /\ table[p][TableOf[v]] = None
                  /\ \A t \in Tables :
                        table'[p][t] = IF t = TableOf[v] THEN g ELSE table[p][t]
  <2>1. CASE TableOf[v] \in Holding(p)
    <3>1. {f} \in SUBSET Free /\ f \in {f} /\ Recount({}, {f}) /\ table' = table
          /\ table[p][TableOf[v]] # None
      BY <1>2, <2>1 DEF Holding
    <3>2. QED
      BY <3>1, <1>3
  <2>2. CASE TableOf[v] \notin Holding(p)
    <3>1. PICK g \in Free \ {f} : /\ table' = [table EXCEPT ![p][TableOf[v]] = g]
                                  /\ Recount({}, {f, g})
      BY <1>2, <2>2
    <3>2. {f, g} \in SUBSET Free /\ f \in {f, g} /\ g \in {f, g} \ {f}
          /\ table[p][TableOf[v]] = None
      BY <1>3, <2>2, <3>1 DEF Holding
    <3>3. /\ table' \in [Procs -> [Tables -> Frames \cup {None}]]
          /\ \A q \in Procs \ {p} : table'[q] = table[q]
          /\ \A t \in Tables :
                table'[p][t] = IF t = TableOf[v] THEN g ELSE table[p][t]
      BY <1>1, <1>3, <3>1
    <3> WITNESS {f, g} \in SUBSET Free
    <3>4. Recount({}, {f, g})
      BY <3>1
    <3>5. g \in {f, g} \ {f}
      BY <3>2
    <3>6. QED
      BY <3>2, <3>3, <3>4, <3>5
  <2>3. QED
    BY <2>1, <2>2
<1>5. /\ \A q \in Procs, w \in Pages :
            frame'[q][w] = IF q = p /\ w = v THEN f ELSE frame[q][w]
      /\ \A q \in Procs, w \in Pages :
            writable'[q][w] = IF q = p /\ w = v THEN TRUE ELSE writable[q][w]
      /\ \A q \in Procs : vmap'[q] = IF q = p THEN vmap[p] \cup {v} ELSE vmap[q]
      /\ \A q \in Procs \ {p} : /\ frame'[q] = frame[q] /\ table'[q] = table[q]
                                /\ writable'[q] = writable[q]
  <2>1. \A q \in Procs, w \in Pages :
            frame'[q][w] = IF q = p /\ w = v THEN f ELSE frame[q][w]
    BY <1>1, <1>2 DEF TypeOK
  <2>2. \A q \in Procs, w \in Pages :
            writable'[q][w] = IF q = p /\ w = v THEN TRUE ELSE writable[q][w]
    BY <1>1, <1>2 DEF TypeOK
  <2>3. \A q \in Procs : vmap'[q] = IF q = p THEN vmap[p] \cup {v} ELSE vmap[q]
    BY <1>1, <1>2 DEF TypeOK
  <2>4. \A q \in Procs \ {p} : /\ frame'[q] = frame[q] /\ table'[q] = table[q]
                               /\ writable'[q] = writable[q]
    BY <1>1, <1>2, <1>4 DEF TypeOK
  <2>5. QED
    BY <2>1, <2>2, <2>3, <2>4
<1>6. \A q \in Procs : /\ \A w \in Pages : frame[q][w] # None => frame[q][w] \in Owned(q)
                       /\ \A t \in Tables : table[q][t] # None => table[q][t] \in Owned(q)
  BY <1>1, OwnedFrames DEF Owned
<1>7. \A g \in G : \A q \in Procs : g \notin Owned(q)
  BY <1>3, FreeIsNobodys DEF IInv, Free
<1>8. \A h : h \in Owned(p)' <=> h \in G \/ (h \in Owned(p) /\ h \notin {})
  <2>1. \A h : /\ h \in Owned(p)' <=> (h # None /\ (\/ \E w \in Pages : frame'[p][w] = h
                                                    \/ \E t \in Tables : table'[p][t] = h))
               /\ h \in Owned(p) <=> (h # None /\ (\/ \E w \in Pages : frame[p][w] = h
                                                   \/ \E t \in Tables : table[p][t] = h))
    BY DEF Owned, FramesOf, TablesOf, Mapped, Holding
  <2>2. \A h : (\E w \in Pages : frame'[p][w] = h)
                  => h = f \/ \E w \in Pages : frame[p][w] = h
    BY <1>5
  <2>3. \A h : h # None /\ (\E w \in Pages : frame[p][w] = h)
                  => \E w \in Pages : frame'[p][w] = h
    BY <1>3, <1>5
  <2>4. \E w \in Pages : frame'[p][w] = f
    BY <1>5
  <2>5. \A h : h # None =>
           ((\E t \in Tables : table'[p][t] = h)
               <=> h \in G \ {f} \/ \E t \in Tables : table[p][t] = h)
    BY <1>3, <1>4
  <2>6. \A g \in G : g # None
    BY <1>3
  <2>7. QED
    BY <1>4, <2>1, <2>2, <2>3, <2>4, <2>5, <2>6
<1>9. MapsAgree'
  <2>1. \A q \in Procs : /\ Mapped(q)' = IF q = p THEN Mapped(p) \cup {v} ELSE Mapped(q)
                         /\ q # p => Holding(q)' = Holding(q)
    BY <1>2, <1>3, <1>5 DEF Mapped, Holding
  <2>2. Holding(p)' = Holding(p) \cup {TableOf[v]}
    BY <1>3, <1>4 DEF Holding
  <2>3. QED
    BY <1>1, <1>2, <1>5, <2>1, <2>2 DEF IInv, TablesSound, MapsAgree, Missing
<1>10. refs' \in [Frames -> Nat] /\ freePages' \in Nat => TypeOK'
  <2>1. /\ frame' \in [Procs -> [Pages -> Frames \cup {None}]]
        /\ writable' \in [Procs -> [Pages -> BOOLEAN]]
        /\ vmap' \in [Procs -> SUBSET Pages]
    BY <1>1, <1>2, <1>3 DEF TypeOK
  <2>2. UNCHANGED <<current, users, brk, data, window, halted>>
    BY <1>2
  <2>3. QED
    BY <1>1, <1>4, <2>1, <2>2 DEF TypeOK
<1>11. \A w \in Pages : \/ frame'[p][w] \in G \cup {None}
                        \/ frame'[p][w] = frame[p][w] /\ frame[p][w] \notin {}
  BY <1>4, <1>5
<1>12. \A t \in Tables : \/ table'[p][t] \in G \cup {None}
                         \/ table'[p][t] = table[p][t] /\ table[p][t] \notin {}
  BY <1>4
<1>13. /\ \A u, w \in Pages : frame'[p][u] \in G /\ frame'[p][u] = frame'[p][w] => u = w
       /\ \A s, t \in Tables : table'[p][s] \in G /\ table'[p][s] = table'[p][t] => s = t
       /\ \A w \in Pages, t \in Tables : frame'[p][w] \in G => frame'[p][w] # table'[p][t]
  <2>1. \A g \in G : /\ g # None
                     /\ \A w \in Pages : frame[p][w] # g
                     /\ \A t \in Tables : table[p][t] # g
    BY <1>3, <1>6, <1>7
  <2>2. \A w \in Pages : frame'[p][w] \in G => w = v /\ frame'[p][w] = f
    BY <1>5, <2>1
  <2>3. \A s, t \in Tables : table'[p][s] \in G /\ table'[p][s] = table'[p][t] => s = t
    BY <1>4, <2>1
  <2>4. \A t \in Tables : table'[p][t] # f
    BY <1>4, <2>1
  <2>5. QED
    BY <1>5, <2>2, <2>3, <2>4
<1>14. \A w \in Pages : writable'[p][w] =>
          \/ frame'[p][w] \in G
          \/ writable[p][w] /\ frame'[p][w] = frame[p][w]
  BY <1>4, <1>5
<1>15. {} \in SUBSET Owned(p) /\ G \in SUBSET FreeWithout({})
  BY <1>3
<1>16. QED
  BY <1>4, <1>5, <1>8, <1>9, <1>10, <1>11, <1>12, <1>13, <1>14, <1>15,
     TurnoverStep

(* What a process has, place by place.                                     *)
LEMMA OwnedPoints ==
  \A p, h : h \in Owned(p) <=> (h # None /\ (\/ \E v \in Pages : frame[p][v] = h
                                             \/ \E t \in Tables : table[p][t] = h))
BY DEF Owned, FramesOf, TablesOf, Mapped, Holding

LEMMA OwnedPointsAfter ==
  \A p, h : h \in Owned(p)' <=> (h # None /\ (\/ \E v \in Pages : frame'[p][v] = h
                                              \/ \E t \in Tables : table'[p][t] = h))
BY DEF Owned, FramesOf, TablesOf, Mapped, Holding

LEMMA CopyFaultStep ==
  ASSUME IInv, NEW v \in Pages, CopyFault(v)
  PROVE  IInv'
<1>1. PICK p \in Procs : p = current /\ p \in users /\ TypeOK
  BY RunningHere DEF CopyFault, IInv, RefsExact
<1> DEFINE shared == frame[p][v]
<1>2. PICK f \in Free :
         /\ Protected(v)
         /\ Recount({shared}, {f})
         /\ data' = IF Astray THEN [data EXCEPT ![window] = data[shared]]
                              ELSE [data EXCEPT ![f] = data[shared]]
         /\ IF Astray THEN UNCHANGED window ELSE CopiedTo(f)
         /\ halted' = Astray
         /\ frame' = [frame EXCEPT ![p][v] = f]
         /\ writable' = [writable EXCEPT ![p][v] = TRUE]
         /\ UNCHANGED <<current, users, table, vmap, brk>>
  BY <1>1, Zenon DEF CopyFault
<1>3. /\ shared # None /\ shared \in Frames /\ shared \in Owned(p)
      /\ f \in Frames /\ f # None /\ f # shared
      /\ f \in FreeWithout({shared})
      /\ \A q \in Procs : f \notin Owned(q)
  <2>1. shared # None /\ shared \in Frames /\ shared \in Owned(p)
    BY <1>1, <1>2, OwnedFrames DEF Protected, Mapped, Owned
  <2>2. /\ f \in Frames /\ f # None /\ f \in FreeWithout({shared})
        /\ \A q \in Procs : f \notin Owned(q)
    BY FreeIsNobodys, MemoryAssumption DEF Free, FreeWithout, IInv, MemoryAssumption
  <2>3. QED
    BY <2>1, <2>2
<1>4. \A q \in Procs, w \in Pages : frame'[q][w] = IF q = p /\ w = v THEN f ELSE frame[q][w]
  BY <1>1, <1>2 DEF TypeOK
<1>5. \A q \in Procs, w \in Pages :
         writable'[q][w] = IF q = p /\ w = v THEN TRUE ELSE writable[q][w]
  BY <1>1, <1>2 DEF TypeOK
<1>6. \A q \in Procs \ {p} : /\ frame'[q] = frame[q] /\ table'[q] = table[q]
                             /\ writable'[q] = writable[q]
  BY <1>1, <1>2 DEF TypeOK
<1>7. /\ \A w \in Pages : frame[p][w] = shared => w = v
      /\ \A t \in Tables : table[p][t] # shared
      /\ \A w \in Pages : frame[p][w] # f
      /\ \A t \in Tables : table[p][t] # f
  BY <1>3, DistinctPoints, OwnedPoints DEF IInv, TablesSound
<1>8. \A h : h \in Owned(p)' <=> h \in {f} \/ (h \in Owned(p) /\ h \notin {shared})
  BY <1>2, <1>3, <1>4, <1>7, OwnedPoints, OwnedPointsAfter
<1>9. MapsAgree'
  <2>1. \A q \in Procs : Mapped(q)' = Mapped(q) /\ Holding(q)' = Holding(q)
    BY <1>2, <1>3, <1>4 DEF Mapped, Holding
  <2>2. QED
    BY <1>2, <2>1 DEF IInv, TablesSound, MapsAgree
<1>10. refs' \in [Frames -> Nat] /\ freePages' \in Nat => TypeOK'
  <2>1. window' \in Frames \cup {None} /\ halted' \in BOOLEAN
    BY <1>1, <1>2, <1>3 DEF TypeOK, CopiedTo, Astray
  <2>2. data' \in [Frames -> Values]
    BY <1>1, <1>2, <1>3 DEF TypeOK, Astray
  <2>3. frame' \in [Procs -> [Pages -> Frames \cup {None}]]
        /\ writable' \in [Procs -> [Pages -> BOOLEAN]]
    BY <1>1, <1>2, <1>3 DEF TypeOK
  <2>4. QED
    BY <1>1, <1>2, <2>1, <2>2, <2>3 DEF TypeOK
<1>11. \A w \in Pages : \/ frame'[p][w] \in {f} \cup {None}
                        \/ frame'[p][w] = frame[p][w] /\ frame[p][w] \notin {shared}
  BY <1>4, <1>7
<1>12. \A t \in Tables : \/ table'[p][t] \in {f} \cup {None}
                         \/ table'[p][t] = table[p][t] /\ table[p][t] \notin {shared}
  BY <1>2, <1>7
<1>13. /\ \A u, w \in Pages : frame'[p][u] \in {f} /\ frame'[p][u] = frame'[p][w] => u = w
       /\ \A s, t \in Tables : table'[p][s] \in {f} /\ table'[p][s] = table'[p][t] => s = t
       /\ \A w \in Pages, t \in Tables : frame'[p][w] \in {f} => frame'[p][w] # table'[p][t]
  BY <1>2, <1>4, <1>7
<1>14. \A w \in Pages : writable'[p][w] =>
          \/ frame'[p][w] \in {f}
          \/ writable[p][w] /\ frame'[p][w] = frame[p][w]
  BY <1>4, <1>5
<1>15. {shared} \in SUBSET Owned(p) /\ {f} \in SUBSET FreeWithout({shared})
  BY <1>3
<1> HIDE DEF shared
<1>16. QED
  BY <1>2, <1>6, <1>8, <1>9, <1>10, <1>11, <1>12, <1>13, <1>14, <1>15,
     TurnoverStep

LEMMA ExitStep ==
  ASSUME IInv, NEW next \in Procs \cup {None}, Exit(next)
  PROVE  IInv'
<1>1. PICK p \in Procs : p = current /\ p \in users /\ TypeOK
  BY RunningHere DEF Exit, IInv, RefsExact
<1>2. /\ Recount(Owned(p), {})
      /\ users' = users \ {p} /\ current' = next /\ next \in users \cup {None}
      /\ table' = [table EXCEPT ![p] = NoTables]
      /\ frame' = [frame EXCEPT ![p] = NoFrames]
      /\ writable' = [writable EXCEPT ![p] = ReadOnly]
      /\ vmap' = [vmap EXCEPT ![p] = {}]
      /\ brk' = [brk EXCEPT ![p] = 0]
      /\ window' = None
      /\ UNCHANGED <<data, halted>>
  BY <1>1 DEF Exit, Owned
<1>3. /\ \A w \in Pages : frame'[p][w] = None /\ writable'[p][w] = FALSE
      /\ \A t \in Tables : table'[p][t] = None
      /\ \A q \in Procs \ {p} : /\ frame'[q] = frame[q] /\ table'[q] = table[q]
                                /\ writable'[q] = writable[q]
                                /\ vmap'[q] = vmap[q] /\ brk'[q] = brk[q]
      /\ vmap'[p] = {}
  BY <1>1, <1>2 DEF TypeOK, NoTables, NoFrames, ReadOnly
<1>4. \A h : h \in Owned(p)' <=> h \in {} \/ (h \in Owned(p) /\ h \notin Owned(p))
  BY <1>3, OwnedPointsAfter
<1>5. MapsAgree'
  <2>1. /\ \A q \in Procs \ {p} : Mapped(q)' = Mapped(q) /\ Holding(q)' = Holding(q)
        /\ Mapped(p)' = {} /\ Holding(p)' = {}
    BY <1>3 DEF Mapped, Holding
  <2>2. QED
    BY <1>2, <1>3, <2>1 DEF IInv, TablesSound, MapsAgree
<1>6. refs' \in [Frames -> Nat] /\ freePages' \in Nat => TypeOK'
  <2>1. 0 \in 0 .. StackBottom - 1
    BY MemoryAssumption DEF MemoryAssumption
  <2>2. /\ table' \in [Procs -> [Tables -> Frames \cup {None}]]
        /\ frame' \in [Procs -> [Pages -> Frames \cup {None}]]
        /\ writable' \in [Procs -> [Pages -> BOOLEAN]]
        /\ vmap' \in [Procs -> SUBSET Pages]
        /\ brk' \in [Procs -> 0 .. StackBottom - 1]
    BY <1>1, <1>2, <2>1 DEF TypeOK, NoTables, NoFrames, ReadOnly
  <2>3. QED
    BY <1>1, <1>2, <2>2 DEF TypeOK
<1>7. /\ Owned(p) \in SUBSET Owned(p) /\ {} \in SUBSET FreeWithout(Owned(p))
      /\ \A q \in Procs \ {p} : /\ frame'[q] = frame[q] /\ table'[q] = table[q]
                                /\ writable'[q] = writable[q]
  BY <1>3
<1>8. /\ \A w \in Pages : \/ frame'[p][w] \in {} \cup {None}
                          \/ frame'[p][w] = frame[p][w] /\ frame[p][w] \notin Owned(p)
      /\ \A t \in Tables : \/ table'[p][t] \in {} \cup {None}
                           \/ table'[p][t] = table[p][t] /\ table[p][t] \notin Owned(p)
      /\ \A w \in Pages : writable'[p][w] =>
            \/ frame'[p][w] \in {}
            \/ writable[p][w] /\ frame'[p][w] = frame[p][w]
  BY <1>3
<1> DEFINE F == Owned(p)
           G == {}
<1>9. /\ F \in SUBSET Owned(p) /\ G \in SUBSET FreeWithout(F) /\ Recount(F, G)
       /\ \A h : h \in Owned(p)' <=> h \in G \/ (h \in Owned(p) /\ h \notin F)
  BY <1>2, <1>4, <1>7
<1>10. /\ \A w \in Pages : \/ frame'[p][w] \in G \cup {None}
                           \/ frame'[p][w] = frame[p][w] /\ frame[p][w] \notin F
       /\ \A t \in Tables : \/ table'[p][t] \in G \cup {None}
                            \/ table'[p][t] = table[p][t] /\ table[p][t] \notin F
       /\ \A w \in Pages : writable'[p][w] =>
             \/ frame'[p][w] \in G
             \/ writable[p][w] /\ frame'[p][w] = frame[p][w]
  BY <1>8
<1>11. /\ \A u, w \in Pages : frame'[p][u] \in G /\ frame'[p][u] = frame'[p][w] => u = w
       /\ \A s, t \in Tables : table'[p][s] \in G /\ table'[p][s] = table'[p][t] => s = t
       /\ \A w \in Pages, t \in Tables : frame'[p][w] \in G => frame'[p][w] # table'[p][t]
  OBVIOUS
<1> HIDE DEF F, G
<1>12. QED
  BY <1>5, <1>6, <1>7, <1>9, <1>10, <1>11, TurnoverStep

LEMMA ShrinkStep ==
  ASSUME IInv, NEW b \in 0 .. StackBottom - 1, Shrink(b)
  PROVE  IInv'
<1>1. PICK p \in Procs : p = current /\ p \in users /\ TypeOK
  BY RunningHere DEF Shrink, IInv, RefsExact
<1> DEFINE gone == Mapped(p) \cap (b .. brk[p] - 1)
           left == Image(frame[p], gone)
<1>2. /\ b \in 0 .. brk[p] - 1
      /\ frame' = [frame EXCEPT ![p] =
                      [v \in Pages |-> IF v \in gone THEN None ELSE frame[p][v]]]
      /\ writable' = [writable EXCEPT ![p] =
                         [v \in Pages |-> v \notin gone /\ writable[p][v]]]
      /\ vmap' = [vmap EXCEPT ![p] = @ \ gone]
      /\ brk' = [brk EXCEPT ![p] = b]
      /\ UNCHANGED <<current, users, data, window, halted>>
  BY <1>1 DEF Shrink
<1>3. PICK new \in Allotments(Lacking(b), FreeWithout(left)) :
         /\ Recount(left, Image(new, Lacking(b)))
         /\ \A q \in Procs \ {p} : table'[q] = table[q]
         /\ table' \in [Procs -> [Tables -> Frames \cup {None}]]
         /\ \A t \in Tables :
               table'[p][t] = IF t \in Lacking(b) THEN new[t] ELSE table[p][t]
  <2> DEFINE old == Image(frame[current], Mapped(current) \cap (b .. brk[current] - 1))
  <2>1. PICK new \in Allotments(Lacking(b), FreeWithout(old)) :
           /\ Recount(old, Image(new, Lacking(b)))
           /\ table' = [table EXCEPT ![current] =
                           [t \in Tables |-> IF t \in Lacking(b) THEN new[t]
                                             ELSE table[current][t]]]
    BY DEF Shrink
  <2>2. old = left
    BY <1>1
  <2>3. /\ \A q \in Procs \ {p} : table'[q] = table[q]
        /\ \A t \in Tables :
              table'[p][t] = IF t \in Lacking(b) THEN new[t] ELSE table[p][t]
    BY <1>1, <2>1 DEF TypeOK
  <2>4. \A t \in Lacking(b) : new[t] \in Frames
    BY <2>1 DEF Allotments, FreeWithout
  <2>5. table' \in [Procs -> [Tables -> Frames \cup {None}]]
    BY <1>1, <2>1, <2>4 DEF TypeOK
  <2> HIDE DEF old, left
  <2>6. QED
    BY <2>1, <2>2, <2>3, <2>5
<1> DEFINE lacks == Lacking(b)
           G     == Image(new, lacks)
<1>4. /\ lacks \subseteq Tables /\ \A t \in lacks : table[p][t] = None
      /\ \A w \in gone : TableOf[w] \in Tables
  <2>1. brk[p] \in Int /\ brk[p] <= StackBottom - 1 /\ StackBottom <= NrPages
        /\ NrPages \in Nat /\ StackBottom \in Int /\ b \in Nat
    BY <1>1, MemoryAssumption DEF TypeOK, MemoryAssumption
  <2>2. b .. brk[p] - 1 \subseteq Pages
    BY <2>1 DEF Pages
  <2>3. QED
    BY <1>1, <2>2, MemoryAssumption DEF Lacking, Holding, MemoryAssumption
<1>5. /\ new \in [lacks -> FreeWithout(left)]
      /\ \A s, t \in lacks : new[s] = new[t] => s = t
      /\ G \in SUBSET FreeWithout(left)
      /\ \A t \in lacks : new[t] \in G
      /\ \A g \in G : \E t \in lacks : g = new[t]
  BY DEF Allotments, Image
<1>6. /\ left \in SUBSET Owned(p)
      /\ \A w \in Pages : w \in gone => frame[p][w] # None /\ frame[p][w] \in left
      /\ \A w \in Pages : frame[p][w] \in left => w \in gone
      /\ \A t \in Tables : table[p][t] \notin left
  <2>1. \A h : h \in left <=> h # None /\ \E w \in gone : frame[p][w] = h
    BY DEF Image, Mapped
  <2>2. gone \subseteq Pages
    BY DEF Mapped
  <2>3. left \in SUBSET Owned(p)
    BY <2>1, <2>2, OwnedPoints
  <2>4. \A w \in Pages : w \in gone => frame[p][w] # None /\ frame[p][w] \in left
    BY <2>1 DEF Mapped
  <2>5. /\ \A u, w \in Pages : frame[p][u] = frame[p][w] /\ frame[p][u] # None => u = w
        /\ \A w \in Pages, t \in Tables : frame[p][w] = table[p][t] => frame[p][w] = None
    BY DistinctPoints DEF IInv, TablesSound
  <2> HIDE DEF gone, left
  <2>6. \A w \in Pages : frame[p][w] \in left => w \in gone
    BY <2>1, <2>2, <2>5
  <2>7. \A t \in Tables : table[p][t] \notin left
    BY <2>1, <2>2, <2>5
  <2>8. QED
    BY <2>3, <2>4, <2>6, <2>7
<1> HIDE DEF left
<1>7. \A g \in G : /\ g \in Frames /\ g # None
                   /\ g \in Owned(p) => g \in left
  BY <1>5, <1>6, FreshFrames DEF IInv
<1>8. /\ gone = Mapped(p) \cap (b .. brk[p] - 1)
      /\ gone \subseteq Pages
  BY DEF Mapped
<1> HIDE DEF gone, lacks, G
<1>9. /\ \A w \in Pages : frame'[p][w] = IF w \in gone THEN None ELSE frame[p][w]
      /\ \A w \in Pages : writable'[p][w] = (w \notin gone /\ writable[p][w])
      /\ \A t \in Tables : table'[p][t] = IF t \in lacks THEN new[t] ELSE table[p][t]
      /\ vmap'[p] = vmap[p] \ gone /\ brk'[p] = b
  BY <1>1, <1>2, <1>3 DEF TypeOK, lacks
<1>10. \A q \in Procs \ {p} : /\ frame'[q] = frame[q] /\ table'[q] = table[q]
                             /\ writable'[q] = writable[q]
                             /\ vmap'[q] = vmap[q] /\ brk'[q] = brk[q]
  BY <1>1, <1>2, <1>3 DEF TypeOK
<1>11. Recount(left, G)
  BY <1>3 DEF G, lacks
<1>12. \A w \in Pages : frame'[p][w] \notin G
  BY <1>6, <1>7, <1>9, OwnedPoints
<1>13. \A h : h \in Owned(p)' <=> h \in G \/ (h \in Owned(p) /\ h \notin left)
  <2>1. \A h : h # None /\ (\E w \in Pages : frame'[p][w] = h)
                  <=> h # None /\ h \notin left /\ \E w \in Pages : frame[p][w] = h
    BY <1>6, <1>9
  <2>2. \A h : h # None /\ (\E t \in Tables : table'[p][t] = h)
                  <=> h # None /\ (h \in G \/ (h \notin left /\ \E t \in Tables : table[p][t] = h))
    BY <1>4, <1>5, <1>6, <1>9
  <2>3. QED
    BY <1>7, <2>1, <2>2, OwnedPoints, OwnedPointsAfter
<1>14. MapsAgree'
  <2>1. /\ \A q \in Procs \ {p} : Mapped(q)' = Mapped(q) /\ Holding(q)' = Holding(q)
        /\ Mapped(p)' = Mapped(p) \ gone /\ Holding(p) \subseteq Holding(p)'
    BY <1>4, <1>9, <1>10 DEF Mapped, Holding
  <2>2. \A w \in Mapped(p) \ gone : w < brk[p] => w < b
    BY <1>1, <1>2, <1>8, MemoryAssumption DEF Mapped, Pages, TypeOK, MemoryAssumption
  <2>3. ASSUME NEW q \in Procs
        PROVE  /\ vmap'[q] = Mapped(q)'
               /\ \A v \in Mapped(q)' : /\ TableOf[v] \in Holding(q)'
                                        /\ v < brk'[q] \/ v >= StackBottom
               /\ q \notin users' => Holding(q)' = {}
    <3>1. /\ vmap[q] = Mapped(q)
          /\ \A v \in Mapped(q) : /\ TableOf[v] \in Holding(q)
                                  /\ v < brk[q] \/ v >= StackBottom
          /\ q \notin users => Holding(q) = {}
          /\ users' = users
      BY <1>2 DEF IInv, TablesSound, MapsAgree
    <3>2. CASE q = p
      BY <1>1, <1>9, <2>1, <2>2, <3>1, <3>2
    <3>3. CASE q # p
      BY <1>10, <2>1, <3>1, <3>3
    <3>4. QED
      BY <3>2, <3>3
  <2>4. QED
    BY <2>3 DEF MapsAgree, Mapped, Holding
<1>15. refs' \in [Frames -> Nat] /\ freePages' \in Nat => TypeOK'
  <2>2. frame' \in [Procs -> [Pages -> Frames \cup {None}]]
        /\ vmap' \in [Procs -> SUBSET Pages]
        /\ brk' \in [Procs -> 0 .. StackBottom - 1]
    BY <1>1, <1>2 DEF TypeOK
  <2>3. writable' \in [Procs -> [Pages -> BOOLEAN]]
    BY <1>1, <1>2 DEF TypeOK
  <2>4. QED
    BY <1>1, <1>2, <1>3, <2>2, <2>3 DEF TypeOK
<1>16. /\ \A w \in Pages : \/ frame'[p][w] \in G \cup {None}
                           \/ frame'[p][w] = frame[p][w] /\ frame[p][w] \notin left
       /\ \A t \in Tables : \/ table'[p][t] \in G \cup {None}
                            \/ table'[p][t] = table[p][t] /\ table[p][t] \notin left
  BY <1>5, <1>6, <1>9
<1>17. \A s, t \in Tables : table'[p][s] \in G /\ table'[p][s] = table'[p][t] => s = t
  <2>1. \A t \in Tables : t \notin lacks => table'[p][t] \notin G
    BY <1>6, <1>7, <1>9, OwnedPoints
  <2>2. QED
    BY <1>5, <1>9, <2>1
<1>18. /\ \A u, w \in Pages : frame'[p][u] \in G /\ frame'[p][u] = frame'[p][w] => u = w
       /\ \A w \in Pages, t \in Tables : frame'[p][w] \in G => frame'[p][w] # table'[p][t]
       /\ \A w \in Pages : writable'[p][w] =>
             \/ frame'[p][w] \in G
             \/ writable[p][w] /\ frame'[p][w] = frame[p][w]
  BY <1>9, <1>12
<1>19. G \in SUBSET FreeWithout(left) /\ left \in SUBSET Owned(p)
  BY <1>5, <1>6
<1>20. QED
  BY <1>10, <1>11, <1>13, <1>14, <1>15, <1>16, <1>17, <1>18, <1>19, TurnoverStep

(* As many frames are allotted as were asked for.                          *)
LEMMA AllotmentSize ==
  ASSUME NEW S, IsFiniteSet(S), NEW F, NEW new \in Allotments(S, F)
  PROVE  /\ new \in [S -> F] /\ Image(new, S) \subseteq F
         /\ \A g : g \in Image(new, S) <=> \E s \in S : g = new[s]
         /\ IsFiniteSet(Image(new, S)) /\ Cardinality(Image(new, S)) = Cardinality(S)
<1>1. /\ new \in [S -> F] /\ \A s, t \in S : new[s] = new[t] => s = t
      /\ \A g : g \in Image(new, S) <=> \E s \in S : g = new[s]
  BY DEF Allotments, Image
<1>2. new \in [S -> Image(new, S)]
  BY <1>1
<1>3. new \in Bijection(S, Image(new, S))
  BY <1>1, <1>2 DEF Bijection, Injection, Surjection, IsInjective
<1>4. ExistsBijection(S, Image(new, S))
  BY <1>3 DEF ExistsBijection
<1>5. QED
  BY <1>1, <1>4, FS_Bijection

LEMMA ForkStep ==
  ASSUME IInv, NEW child \in Procs, Fork(child)
  PROVE  IInv'
<1>1. PICK p \in Procs : p = current /\ p \in users /\ TypeOK /\ p # child
  BY RunningHere DEF Fork, IInv, RefsExact
<1> DEFINE held == Holding(p)
<1>2. /\ child \notin users /\ users' = users \cup {child}
      /\ freePages' = freePages - Cardinality(held)
      /\ frame' = [frame EXCEPT ![child] = frame[p]]
      /\ writable' = [writable EXCEPT ![child] = ReadOnly, ![p] = ReadOnly]
      /\ vmap' = [vmap EXCEPT ![child] = vmap[p]]
      /\ brk' = [brk EXCEPT ![child] = brk[p]]
      /\ window' = None /\ halted' \in BOOLEAN
      /\ UNCHANGED <<current, data>>
  <2>1. halted' \in BOOLEAN
    <3>1. halted' = FALSE \/ halted' = Astray
          \/ halted' = (Astray \/ Cardinality(Holding(current)) > 1)
      BY DEF Fork
    <3>2. QED
      BY <3>1 DEF Astray
  <2>2. QED
    BY <1>1, <2>1 DEF Fork
<1>3. IsFiniteSet(held) /\ Cardinality(held) \in Nat /\ held \subseteq Tables
  BY MemoryAssumption, FS_Subset, FS_CardinalityType DEF Holding, MemoryAssumption
<1>4. PICK new \in Allotments(held, Free) :
         /\ \A t \in Tables : table'[child][t] = IF t \in held THEN new[t] ELSE None
         /\ \A q \in Procs \ {child} : table'[q] = table[q]
         /\ table' \in [Procs -> [Tables -> Frames \cup {None}]]
         /\ refs' = [f \in Frames |-> IF f \in Image(new, held) THEN 1
                                      ELSE IF f \in FramesOf(p) THEN refs[f] + 1
                                      ELSE refs[f]]
  <2>1. PICK new \in Allotments(held, Free) :
           /\ table' = [table EXCEPT ![child] =
                           [t \in Tables |-> IF t \in Holding(current) THEN new[t]
                                             ELSE None]]
           /\ refs' = [f \in Frames |->
                          IF f \in Image(new, Holding(current)) THEN 1
                          ELSE IF f \in FramesOf(current) THEN refs[f] + 1
                          ELSE refs[f]]
    BY <1>1 DEF Fork
  <2>2. /\ \A t \in Tables : table'[child][t] = IF t \in held THEN new[t] ELSE None
        /\ \A q \in Procs \ {child} : table'[q] = table[q]
    BY <1>1, <2>1 DEF TypeOK
  <2>3. \A t \in held : new[t] \in Frames
    BY <1>3, <2>1, AllotmentSize DEF Free
  <2>4. table' \in [Procs -> [Tables -> Frames \cup {None}]]
    BY <1>1, <2>1, <2>3 DEF TypeOK
  <2>5. refs' = [f \in Frames |-> IF f \in Image(new, held) THEN 1
                                  ELSE IF f \in FramesOf(p) THEN refs[f] + 1
                                  ELSE refs[f]]
    BY <1>1, <2>1
  <2>6. QED
    BY <2>1, <2>2, <2>4, <2>5
<1> DEFINE G == Image(new, held)
<1>5. /\ new \in [held -> Free] /\ G \subseteq Free
      /\ \A s, t \in held : new[s] = new[t] => s = t
      /\ \A g : g \in G <=> \E t \in held : g = new[t]
      /\ IsFiniteSet(G) /\ Cardinality(G) = Cardinality(held)
  BY <1>3, AllotmentSize DEF Allotments
<1>6. /\ Mapped(child) = {} /\ Holding(child) = {}
      /\ vmap[p] = Mapped(p)
      /\ \A v \in Mapped(p) : /\ TableOf[v] \in held
                              /\ v < brk[p] \/ v >= StackBottom
  BY <1>2 DEF IInv, TablesSound, MapsAgree
<1>7. \A g \in G : /\ g \in Frames /\ g # None /\ refs[g] = 0
                   /\ \A q \in Procs : g \notin Owned(q)
  BY <1>5, FreeIsNobodys, MemoryAssumption DEF Free, IInv, MemoryAssumption
<1> HIDE DEF held, G
<1>8. /\ \A v \in Pages : frame'[child][v] = frame[p][v]
      /\ \A v \in Pages : ~ writable'[child][v] /\ ~ writable'[p][v]
      /\ \A q \in Procs \ {child} : frame'[q] = frame[q] /\ table'[q] = table[q]
      /\ \A q \in Procs \ {child, p} : writable'[q] = writable[q]
      /\ \A q \in Procs \ {child} : vmap'[q] = vmap[q] /\ brk'[q] = brk[q]
      /\ vmap'[child] = vmap[p] /\ brk'[child] = brk[p]
  BY <1>1, <1>2, <1>4 DEF TypeOK, ReadOnly
<1>9. TypeOK'
  <2>1. refs' \in [Frames -> Nat]
    BY <1>1, <1>4 DEF TypeOK
  <2>2. freePages' \in Nat
    <3>1. freePages = Cardinality(Free) + KernelPages /\ KernelPages \in Nat
      BY MemoryAssumption DEF IInv, RefsExact, MemoryAssumption
    <3>2. IsFiniteSet(Free) /\ Cardinality(Free) \in Nat /\ Cardinality(G) <= Cardinality(Free)
      <4>1. IsFiniteSet(Free)
        BY MemoryAssumption, FS_Subset DEF Free, MemoryAssumption
      <4>2. QED
        BY <1>5, <4>1, FS_Subset, FS_CardinalityType
    <3>3. QED
      BY <1>2, <1>3, <1>5, <3>1, <3>2
  <2>3. /\ frame' \in [Procs -> [Pages -> Frames \cup {None}]]
        /\ writable' \in [Procs -> [Pages -> BOOLEAN]]
        /\ vmap' \in [Procs -> SUBSET Pages]
        /\ brk' \in [Procs -> 0 .. StackBottom - 1]
    BY <1>1, <1>2 DEF TypeOK, ReadOnly
  <2>4. QED
    BY <1>1, <1>2, <1>4, <2>1, <2>2, <2>3 DEF TypeOK
<1>10. /\ \A h : h \in Owned(child)' <=> h \in G \/ h \in FramesOf(p)
       /\ \A h : h \notin Owned(child)
       /\ \A q \in Procs \ {child} : \A h : h \in Owned(q)' <=> h \in Owned(q)
  <2>1. \A h : h \in FramesOf(p) <=> h # None /\ \E v \in Pages : frame[p][v] = h
    BY DEF FramesOf, Mapped
  <2>2. \A h : h # None /\ (\E t \in Tables : table'[child][t] = h) <=> h \in G
    BY <1>3, <1>4, <1>5, <1>7
  <2>3. \A h : h \in Owned(child)' <=> h \in G \/ h \in FramesOf(p)
    BY <1>8, <2>1, <2>2, OwnedPointsAfter
  <2>4. \A h : h \notin Owned(child)
    BY <1>6 DEF Owned, FramesOf, TablesOf
  <2>5. \A q \in Procs \ {child} : \A h : h \in Owned(q)' <=> h \in Owned(q)
    BY <1>8, OwnedPoints, OwnedPointsAfter
  <2>6. QED
    BY <2>3, <2>4, <2>5
<1>11. RefsExact'
  <2>1. ASSUME NEW f \in Frames
        PROVE  refs'[f] = (refs[f] - IF f \in Owned(child) THEN 1 ELSE 0)
                             + IF f \in Owned(child)' THEN 1 ELSE 0
    <3>1. refs[f] \in Nat
      BY <1>1 DEF TypeOK
    <3>2. refs'[f] = IF f \in G THEN 1 ELSE IF f \in FramesOf(p) THEN refs[f] + 1
                     ELSE refs[f]
      BY <1>4 DEF G
    <3>3. QED
      BY <1>7, <1>10, <3>1, <3>2
  <2>2. \A f \in Frames : refs'[f] = Cardinality(Owners(f)')
    BY <1>8, <2>1, CountStep DEF IInv
  <2>3. freePages' = Cardinality(Free') + KernelPages
    <3>1. Free' = Free \ G
      <4>1. \A f \in Frames : refs'[f] = 0 <=> refs[f] = 0 /\ f \notin G
        <5>1. \A f \in Frames : refs[f] \in Nat
          BY <1>1 DEF TypeOK
        <5>2. \A f \in Frames : f \in FramesOf(p) => refs[f] # 0
          BY FreeIsNobodys DEF IInv, Owned
        <5>3. QED
          BY <1>4, <5>1, <5>2 DEF G
      <4>2. QED
        BY <4>1 DEF Free
    <3>2. IsFiniteSet(Free) /\ Cardinality(Free) \in Nat
      BY MemoryAssumption, FS_Subset, FS_CardinalityType DEF Free, MemoryAssumption
    <3>3. Free \cap G = G
      BY <1>5
    <3>4. Cardinality(Free \ G) = Cardinality(Free) - Cardinality(G)
      <4>1. Cardinality(Free \ G) = Cardinality(Free) - Cardinality(Free \cap G)
        BY <3>2, FS_Difference
      <4>2. QED
        BY <3>3, <4>1
    <3>5. KernelPages \in Nat /\ freePages = Cardinality(Free) + KernelPages
      BY MemoryAssumption DEF IInv, RefsExact, MemoryAssumption
    <3>6. QED
      BY <1>2, <1>3, <1>5, <3>1, <3>2, <3>4, <3>5
  <2>4. QED
    BY <1>9, <2>2, <2>3 DEF RefsExact
<1>12. SoleWriter'
  <2>1. SoleWriter' <=> WritersAlone'
    BY SoleWriterPoints, PTL
  <2>2. SUFFICES ASSUME NEW q \in Procs, NEW v \in Pages, writable'[q][v]
                 PROVE  /\ frame'[q][v] # None
                        /\ \A r \in Procs : frame'[q][v] \in Owned(r)' <=> r = q
    BY <2>1, <2>2 DEF WritersAlone
  <2>3. q # p /\ q # child /\ writable[q][v] /\ frame'[q][v] = frame[q][v]
    BY <1>8, <2>2
  <2>4. /\ frame[q][v] # None
        /\ \A r \in Procs : frame[q][v] \in Owned(r) <=> r = q
    BY <2>3, SoleWriterPoints DEF IInv, WritersAlone
  <2>5. frame[q][v] \notin G /\ frame[q][v] \notin FramesOf(p)
    BY <1>7, <2>3, <2>4 DEF Owned
  <2>6. QED
    BY <1>10, <2>3, <2>4, <2>5
<1>13. Distinct'
  <2>1. SUFFICES
          /\ \A q, r \in Procs : \A v, w \in Pages :
                frame'[q][v] = frame'[r][w] /\ frame'[q][v] # None => v = w
          /\ \A q, r \in Procs : \A s, t \in Tables :
                table'[q][s] = table'[r][t] /\ table'[q][s] # None => q = r /\ s = t
          /\ \A q, r \in Procs : \A v \in Pages, t \in Tables :
                frame'[q][v] = table'[r][t] => frame'[q][v] = None
    BY <2>1 DEF Distinct, FramesOf, TablesOf, Mapped, Holding
  <2>2. /\ \A q, r \in Procs : \A v, w \in Pages :
              frame[q][v] = frame[r][w] /\ frame[q][v] # None => v = w
        /\ \A q, r \in Procs : \A s, t \in Tables :
              table[q][s] = table[r][t] /\ table[q][s] # None => q = r /\ s = t
        /\ \A q, r \in Procs : \A v \in Pages, t \in Tables :
              frame[q][v] = table[r][t] => frame[q][v] = None
    BY DistinctPoints DEF IInv, TablesSound
  <2>3. \A t \in Tables : table'[child][t] = None \/ table'[child][t] \in G
    BY <1>4, <1>5
  <2>4. \A g \in G : \A q \in Procs : /\ \A v \in Pages : frame[q][v] # g
                                      /\ \A t \in Tables : table[q][t] # g
    BY <1>7, OwnedPoints
  <2>5. \A s, t \in Tables : table'[child][s] = table'[child][t] /\ table'[child][s] # None
                                => s = t
    BY <1>4, <1>5
  <2>6. QED
    BY <1>1, <1>8, <2>2, <2>3, <2>4, <2>5
<1>14. MapsAgree'
  <2>1. /\ \A q \in Procs \ {child} : Mapped(q)' = Mapped(q) /\ Holding(q)' = Holding(q)
        /\ Mapped(child)' = Mapped(p)
    BY <1>8 DEF Mapped, Holding
  <2>2. Holding(child)' = held
    <3>1. \A t : t \in Holding(child)' <=> t \in held
      BY <1>3, <1>4, <1>5, <1>7 DEF Holding
    <3>2. QED
      BY <3>1, Zenon
  <2>3. ASSUME NEW q \in Procs
        PROVE  /\ vmap'[q] = Mapped(q)'
               /\ \A v \in Mapped(q)' : /\ TableOf[v] \in Holding(q)'
                                        /\ v < brk'[q] \/ v >= StackBottom
               /\ q \notin users' => Holding(q)' = {}
    <3>1. CASE q = child
      BY <1>2, <1>6, <1>8, <2>1, <2>2, <3>1
    <3>2. CASE q # child
      BY <1>2, <1>8, <2>1, <3>2 DEF IInv, TablesSound, MapsAgree
    <3>3. QED
      BY <3>1, <3>2
  <2>4. QED
    BY <2>3 DEF MapsAgree, Mapped, Holding
<1>15. QED
  BY <1>11, <1>12, <1>13, <1>14 DEF IInv, TablesSound

LEMMA NextStep == IInv /\ [Next]_vars => IInv'
<1> SUFFICES ASSUME IInv, [Next]_vars PROVE IInv'
  OBVIOUS
<1>1. ASSUME NEW p \in Procs, Enter(p) \/ Fork(p) PROVE IInv'
  BY <1>1, EnterStep, ForkStep
<1>2. ASSUME NEW p \in Procs \cup {None}, Switch(p) \/ Exit(p) PROVE IInv'
  BY <1>2, SwitchStep, ExitStep
<1>3. ASSUME NEW v \in Pages, Store(v) \/ StoreStatus(v) \/ LinkFault(v) PROVE IInv'
  BY <1>3, StoreStep, LinkFaultStep
<1>4. ASSUME NEW v \in Pages, OwnFault(v) \/ CopyFault(v) PROVE IInv'
  BY <1>4, OwnFaultStep, CopyFaultStep
<1>5. ASSUME NEW v \in Pages, BadFault(v) PROVE IInv'
  BY <1>5, PanicStep DEF BadFault
<1>6. ASSUME NEW b \in 0 .. StackBottom - 1, Grow(b) \/ Shrink(b) PROVE IInv'
  BY <1>6, GrowStep, ShrinkStep
<1>7. CASE OutOfMemory
  BY <1>7, PanicStep DEF OutOfMemory
<1>8. CASE UNCHANGED vars
  <2>1. halted' \in BOOLEAN
    BY <1>8 DEF vars, IInv, RefsExact, TypeOK
  <2>2. QED
    BY <1>8, <2>1, PanicStep DEF vars
<1>9. QED
  BY <1>1, <1>2, <1>3, <1>4, <1>5, <1>6, <1>7, <1>8 DEF Next

LEMMA Invariance == Spec => []IInv
BY InitIInv, NextStep, PTL DEF Spec

(* The count of a frame in memoryMap is the number of the processes that   *)
(* have it, and freePages is off by the kernel's own pages only, whatever  *)
(* the processes fork, store, give back or leave when they exit.           *)
THEOREM RefsExactCorrect == Spec => []RefsExact
<1>1. IInv => RefsExact
  BY DEF IInv
<1>2. QED
  BY <1>1, Invariance, PTL

(* No process can change a page of another one, or its parent's or child's *)
(* view of a page that they share, without a fault.                        *)
THEOREM SoleWriterCorrect == Spec => []SoleWriter
<1>1. IInv => SoleWriter
  BY DEF IInv
<1>2. QED
  BY <1>1, Invariance, PTL

(* No frame is used for two things at once, and the bitmap of a process    *)
(* says of each page what its page tables say.                             *)
THEOREM TablesSoundCorrect == Spec => []TablesSound
<1>1. IInv => TablesSound
  BY DEF IInv
<1>2. QED
  BY <1>1, Invariance, PTL

-----------------------------------------------------------------------------
(* Copy-on-write is invisible, as long as no translation outlives its      *)
(* table entry and no status word is stored into a shared page.            *)
LEMMA ViewPoints ==
  /\ \A p \in Procs, v \in Pages :
        View[p][v] = IF frame[p][v] = None THEN None ELSE data[frame[p][v]]
  /\ \A p \in Procs, v \in Pages :
        View'[p][v] = IF frame'[p][v] = None THEN None ELSE data'[frame'[p][v]]
BY DEF View

LEMMA ViewKept ==
  ASSUME \A q \in Procs, w \in Pages : View'[q][w] = View[q][w]
  PROVE  View' = View
<1>1. /\ View = [q \in Procs |-> [w \in Pages |-> View[q][w]]]
      /\ View' = [q \in Procs |-> [w \in Pages |-> View'[q][w]]]
  BY DEF View
<1>2. QED
  BY <1>1

LEMMA ViewStored ==
  ASSUME NEW p \in Procs, NEW v \in Pages, NEW x,
         \A q \in Procs, w \in Pages :
            View'[q][w] = IF q = p /\ w = v THEN x ELSE View[q][w]
  PROVE  View' = [View EXCEPT ![p][v] = x]
<1>1. /\ View = [q \in Procs |-> [w \in Pages |-> View[q][w]]]
      /\ View' = [q \in Procs |-> [w \in Pages |-> View'[q][w]]]
  BY DEF View
<1>2. QED
  BY <1>1

LEMMA ViewReplaced ==
  ASSUME NEW p \in Procs, NEW m,
         m = [w \in Pages |-> m[w]],
         \A w \in Pages : View'[p][w] = m[w],
         \A q \in Procs \ {p}, w \in Pages : View'[q][w] = View[q][w]
  PROVE  View' = [View EXCEPT ![p] = m]
<1>1. /\ View = [q \in Procs |-> [w \in Pages |-> View[q][w]]]
      /\ View' = [q \in Procs |-> [w \in Pages |-> View'[q][w]]]
  BY DEF View
<1>2. QED
  BY <1>1

\* A store reaches no page but the one it is made to.
LEMMA StoreMaps ==
  ASSUME IInv, NEW v \in Pages, Store(v) \/ (StoreStatus(v) /\ ~ StatusShared)
  PROVE  A!Store(current, v)
<1>1. PICK p \in Procs : p = current /\ p \in users /\ TypeOK
  BY RunningHere DEF Store, StoreStatus, IInv, RefsExact
<1>2. PICK x \in Values :
         /\ frame[p][v] # None
         /\ data' = [data EXCEPT ![frame[p][v]] = x]
         /\ UNCHANGED <<users, frame>>
  BY <1>1 DEF Store, StoreStatus, Mapped, maps
<1>3. \A q \in Procs, w \in Pages : frame[q][w] = frame[p][v] => q = p /\ w = v
  <2>1. \A q \in Procs : frame[p][v] \in Owned(q) <=> q = p
    <3>1. writable[p][v] \/ refs[frame[p][v]] = 1
      BY <1>1, <1>2 DEF Store, StatusShared, Protected, Mapped
    <3>2. CASE writable[p][v]
      BY <1>2, <3>2, SoleWriterPoints DEF IInv, WritersAlone
    <3>3. CASE refs[frame[p][v]] = 1
      <4>1. frame[p][v] \in Owned(p) /\ frame[p][v] \in Frames
        BY <1>1, <1>2, OwnedPoints DEF TypeOK
      <4>2. Owners(frame[p][v]) = {p}
        BY <3>3, <4>1, FreeIsNobodys DEF IInv
      <4>3. QED
        BY <4>2 DEF Owners, Owned
    <3>4. QED
      BY <3>1, <3>2, <3>3
  <2>2. \A u, w \in Pages : frame[p][u] = frame[p][w] /\ frame[p][u] # None => u = w
    BY DistinctPoints DEF IInv, TablesSound
  <2>3. QED
    BY <1>2, <2>1, <2>2, OwnedPoints
<1>4. /\ \A q \in Procs, w \in Pages : frame[q][w] # None => frame[q][w] \in Frames
      /\ data \in [Frames -> Values]
  BY <1>1 DEF TypeOK
<1>5. \A q \in Procs, w \in Pages :
         View'[q][w] = IF q = p /\ w = v THEN x ELSE View[q][w]
  BY <1>2, <1>3, <1>4, ViewPoints
<1>6. View' = [View EXCEPT ![p][v] = x]
  BY <1>5, ViewStored
<1>7. QED
  BY <1>1, <1>2, <1>6 DEF A!Store

LEMMA LinkFaultMaps ==
  ASSUME IInv, NEW v \in Pages, LinkFault(v)
  PROVE  A!Store(current, v)
<1>1. PICK p \in Procs : p = current /\ p \in users /\ TypeOK
  BY RunningHere DEF LinkFault, IInv, RefsExact
<1>2. PICK f \in Free : /\ frame' = [frame EXCEPT ![p][v] = f]
                        /\ UNCHANGED <<users, data>>
  BY <1>1 DEF LinkFault
<1>3. f \in Frames /\ f # None /\ data[f] \in Values
  BY <1>1, MemoryAssumption DEF Free, TypeOK, MemoryAssumption
<1>4. \A q \in Procs, w \in Pages : frame'[q][w] = IF q = p /\ w = v THEN f ELSE frame[q][w]
  BY <1>1, <1>2 DEF TypeOK
<1>5. \A q \in Procs, w \in Pages :
         View'[q][w] = IF q = p /\ w = v THEN data[f] ELSE View[q][w]
  BY <1>2, <1>3, <1>4, ViewPoints
<1>6. View' = [View EXCEPT ![p][v] = data[f]]
  BY <1>5, ViewStored
<1>7. QED
  BY <1>1, <1>2, <1>3, <1>6 DEF A!Store

LEMMA CopyFaultMaps ==
  ASSUME IInv, window = None, NEW v \in Pages, CopyFault(v)
  PROVE  users' = users /\ View' = View
<1>1. PICK p \in Procs : p = current /\ p \in users /\ TypeOK
  BY RunningHere DEF CopyFault, IInv, RefsExact
<1>2. PICK f \in Free : /\ frame[p][v] # None
                        /\ data' = [data EXCEPT ![f] = data[frame[p][v]]]
                        /\ frame' = [frame EXCEPT ![p][v] = f]
                        /\ UNCHANGED users
  BY <1>1 DEF CopyFault, Astray, Protected, Mapped
<1>3. /\ f \in Frames /\ f # None
      /\ \A q \in Procs, w \in Pages : frame[q][w] # f
  BY FreeIsNobodys, OwnedPoints, MemoryAssumption DEF IInv, Free, MemoryAssumption
<1>4. \A q \in Procs, w \in Pages : frame'[q][w] = IF q = p /\ w = v THEN f ELSE frame[q][w]
  BY <1>1, <1>2 DEF TypeOK
<1>5. data'[f] = data[frame[p][v]] /\ \A h \in Frames \ {f} : data'[h] = data[h]
  BY <1>1, <1>2, <1>3 DEF TypeOK
<1>6. \A q \in Procs, w \in Pages : frame[q][w] # None => frame[q][w] \in Frames
  BY <1>1 DEF TypeOK
<1>7. \A q \in Procs, w \in Pages : View'[q][w] = View[q][w]
  BY <1>2, <1>3, <1>4, <1>5, <1>6, ViewPoints
<1>8. QED
  BY <1>2, <1>7, ViewKept

LEMMA ForkMaps ==
  ASSUME IInv, NEW child \in Procs, Fork(child)
  PROVE  A!Fork(current, child)
<1>1. PICK p \in Procs : p = current /\ p \in users /\ TypeOK
  BY RunningHere DEF Fork, IInv, RefsExact
<1>2. /\ child \notin users /\ users' = users \cup {child} /\ data' = data
      /\ frame' = [frame EXCEPT ![child] = frame[p]]
  BY <1>1 DEF Fork
<1>3. /\ \A q \in Procs \ {child} : frame'[q] = frame[q]
      /\ frame'[child] = frame[p]
  BY <1>1, <1>2 DEF TypeOK
<1>4. /\ \A w \in Pages : View'[child][w] = View[p][w]
      /\ \A q \in Procs \ {child}, w \in Pages : View'[q][w] = View[q][w]
  BY <1>2, <1>3, ViewPoints
<1>5. View[p] = [w \in Pages |-> View[p][w]]
  BY DEF View
<1>6. View' = [View EXCEPT ![child] = View[p]]
  BY <1>4, <1>5, ViewReplaced
<1>7. QED
  BY <1>1, <1>2, <1>6 DEF A!Fork

LEMMA ExitMaps ==
  ASSUME IInv, NEW next \in Procs \cup {None}, Exit(next)
  PROVE  A!Exit(current)
<1>1. PICK p \in Procs : p = current /\ p \in users /\ TypeOK
  BY RunningHere DEF Exit, IInv, RefsExact
<1>2. /\ users' = users \ {p} /\ data' = data
      /\ frame' = [frame EXCEPT ![p] = NoFrames]
  BY <1>1 DEF Exit
<1>3. /\ \A q \in Procs \ {p} : frame'[q] = frame[q]
      /\ \A w \in Pages : frame'[p][w] = None
  BY <1>1, <1>2 DEF TypeOK, NoFrames
<1>4. /\ \A w \in Pages : View'[p][w] = A!NoPages[w]
      /\ \A q \in Procs \ {p}, w \in Pages : View'[q][w] = View[q][w]
      /\ A!NoPages = [w \in Pages |-> A!NoPages[w]]
  BY <1>2, <1>3, ViewPoints DEF A!NoPages
<1>5. View' = [View EXCEPT ![p] = A!NoPages]
  BY <1>4, ViewReplaced
<1>6. QED
  BY <1>1, <1>2, <1>5 DEF A!Exit

LEMMA ShrinkMaps ==
  ASSUME IInv, NEW b \in 0 .. StackBottom - 1, Shrink(b)
  PROVE  \E S \in SUBSET Pages : A!Drop(current, S)
<1>1. PICK p \in Procs : p = current /\ p \in users /\ TypeOK
  BY RunningHere DEF Shrink, IInv, RefsExact
<1> DEFINE gone == Mapped(p) \cap (b .. brk[p] - 1)
           m    == [w \in Pages |-> IF w \in gone THEN None ELSE View[p][w]]
<1>2. /\ frame' = [frame EXCEPT ![p] =
                      [v \in Pages |-> IF v \in gone THEN None ELSE frame[p][v]]]
      /\ UNCHANGED <<users, data>>
  BY <1>1 DEF Shrink
<1>3. gone \in SUBSET Pages
  BY DEF Mapped
<1> HIDE DEF gone
<1>4. /\ \A q \in Procs \ {p} : frame'[q] = frame[q]
      /\ \A w \in Pages : frame'[p][w] = IF w \in gone THEN None ELSE frame[p][w]
  BY <1>1, <1>2 DEF TypeOK
<1>5. /\ \A w \in Pages : View'[p][w] = m[w]
      /\ \A q \in Procs \ {p}, w \in Pages : View'[q][w] = View[q][w]
      /\ m = [w \in Pages |-> m[w]]
  BY <1>2, <1>4, ViewPoints
<1> HIDE DEF m
<1>6. View' = [View EXCEPT ![p] = m]
  BY <1>5, ViewReplaced
<1>7. A!Drop(p, gone)
  BY <1>1, <1>2, <1>6 DEF A!Drop, m
<1>8. QED
  BY <1>1, <1>3, <1>7

LEMMA StepMaps ==
  ASSUME IInv, [Next]_vars
  PROVE  [A!Next \/ CopyAstray \/ StatusShared]_<<users, View>>
<1>1. ASSUME NEW p \in Procs, Enter(p) PROVE A!Next
  <2>1. A!Enter(p)
    BY <1>1 DEF Enter, A!Enter, View, maps
  <2>2. QED
    BY <2>1 DEF A!Next
<1>2. ASSUME NEW p \in Procs, Fork(p) PROVE A!Next
  BY <1>2, ForkMaps, RunningHere DEF A!Next, Fork
<1>3. ASSUME NEW p \in Procs \cup {None}, Exit(p) PROVE A!Next
  BY <1>3, ExitMaps, RunningHere DEF A!Next, Exit
<1>4. ASSUME NEW v \in Pages, Store(v) \/ StoreStatus(v) \/ LinkFault(v), ~ StatusShared
      PROVE  A!Next
  <2>1. A!Store(current, v) /\ current \in Procs
    BY <1>4, StoreMaps, LinkFaultMaps, RunningHere DEF Store, StoreStatus, LinkFault
  <2>2. QED
    BY <2>1 DEF A!Next
<1>5. ASSUME NEW b \in 0 .. StackBottom - 1, Shrink(b) PROVE A!Next
  BY <1>5, ShrinkMaps, RunningHere DEF A!Next, Shrink
<1>6. ASSUME NEW v \in Pages, CopyFault(v), ~ CopyAstray
      PROVE  UNCHANGED <<users, View>>
  BY <1>6, CopyFaultMaps DEF CopyAstray, Astray
<1>7. ASSUME UNCHANGED <<users, frame, data>> PROVE UNCHANGED <<users, View>>
  BY <1>7 DEF View
<1>8. ASSUME NEW v \in Pages, OwnFault(v) \/ BadFault(v) PROVE UNCHANGED <<users, View>>
  BY <1>7, <1>8 DEF OwnFault, BadFault, maps, phys
<1>9. ASSUME NEW b \in 0 .. StackBottom - 1, Grow(b) PROVE UNCHANGED <<users, View>>
  BY <1>7, <1>9 DEF Grow, phys
<1>10. ASSUME NEW p \in Procs \cup {None}, Switch(p) PROVE UNCHANGED <<users, View>>
  BY <1>7, <1>10 DEF Switch, maps
<1>11. CASE OutOfMemory \/ UNCHANGED vars
  BY <1>7, <1>11 DEF OutOfMemory, vars, maps, phys
<1>12. QED
  BY <1>1, <1>2, <1>3, <1>4, <1>5, <1>6, <1>8, <1>9, <1>10, <1>11 DEF Next

(* No process can tell that a page is copied only when it is written:      *)
(* every step of the memory is one of the address spaces, or changes       *)
(* nothing that a process can see.  Two steps are excepted: the copy that  *)
(* goes astray through a translation that copyPage left, and the status    *)
(* that waitpid stores into a page shared with another process.            *)
THEOREM MemoryImplementsAddressSpace == Spec => Private
<1>1. Init => A!Init
  <2>1. ASSUME Init PROVE View = [p \in Procs |-> A!NoPages]
    BY <2>1 DEF Init, View, NoFrames, A!NoPages
  <2>2. QED
    BY <2>1 DEF Init, A!Init
<1>2. IInv /\ [Next]_vars => [A!Next \/ CopyAstray \/ StatusShared]_<<users, View>>
  BY StepMaps
<1>3. QED
  BY <1>1, <1>2, InitIInv, NextStep, PTL DEF Spec, Private

-----------------------------------------------------------------------------
(* From here on: the kernel's own pages and the heap.                      *)

(* The loop of bitmapScan satisfies the recursion that defines it.         *)
LEMMA CounterUnfold ==
  \A i \in 0 .. MapPages :
      /\ Counter[i] \in Nat
      /\ Counter[i] = IF i = 0 THEN 0 ELSE IF used[i - 1] THEN 0 ELSE Counter[i - 1] + 1
<1> DEFINE step == [t \in 0 .. MapPages - 1 |-> [b \in Nat |-> IF used[t] THEN 0 ELSE b + 1]]
           body(f) == [i \in 0 .. MapPages |->
                          IF i = 0 THEN 0 ELSE IF used[i - 1] THEN 0 ELSE f[i - 1] + 1]
<1>1. MapPages \in Nat /\ 0 \in Nat
  BY KernelHeapAssumption DEF KernelHeapAssumption
<1>2. step \in [0 .. MapPages - 1 -> [Nat -> Nat]]
  BY <1>1
<1>3. PICK f : Recursion(f, MapPages, Nat, 0, step)
  <2> HIDE DEF step
  <2> QED BY <1>1, <1>2, RecursionTo, Zenon
<1>4. \A i \in 0 .. MapPages :
         f[i] = IF i = 0 THEN 0 ELSE IF used[i - 1] THEN 0 ELSE f[i - 1] + 1
  <2> TAKE i \in 0 .. MapPages
  <2>1. CASE i = 0
    BY <2>1, <1>3 DEF Recursion
  <2>2. CASE i # 0
    <3>1. i - 1 \in 0 .. MapPages - 1 /\ f[i - 1] \in Nat
      BY <2>2, <1>1, <1>3 DEF Recursion
    <3>2. step[i - 1][f[i - 1]] = IF used[i - 1] THEN 0 ELSE f[i - 1] + 1
      BY <3>1
    <3> HIDE DEF step
    <3>3. f[i] = step[i - 1][f[i - 1]]
      BY <2>2, <1>3 DEF Recursion
    <3> QED BY <2>2, <3>2, <3>3
  <2> QED BY <2>1, <2>2
<1>5. f = body(f)
  <2> HIDE DEF step
  <2> QED BY <1>3, <1>4 DEF Recursion
<1>6. Counter = CHOOSE g : g = body(g)
  BY Zenon DEF Counter
<1>7. Counter = body(Counter)
  <2> HIDE DEF body
  <2> QED BY <1>5, <1>6
<1> HIDE DEF step
<1>8. \A i \in 0 .. MapPages :
         Counter[i] = IF i = 0 THEN 0 ELSE IF used[i - 1] THEN 0 ELSE Counter[i - 1] + 1
  <2> DEFINE s == Counter
  <2>1. s = body(s)
    BY <1>7
  <2> HIDE DEF s
  <2>2. \A i \in 0 .. MapPages :
           s[i] = IF i = 0 THEN 0 ELSE IF used[i - 1] THEN 0 ELSE s[i - 1] + 1
    BY <2>1
  <2> QED BY <2>2, Zenon DEF s
<1>9. \A i \in 0 .. MapPages : Counter[i] \in Nat
  <2> DEFINE s == Counter
             S == {i \in 0 .. MapPages : s[i] \in Nat}
  <2>1. \A i \in 0 .. MapPages :
           s[i] = IF i = 0 THEN 0 ELSE IF used[i - 1] THEN 0 ELSE s[i - 1] + 1
    BY <1>8
  <2> HIDE DEF s
  <2>2. 0 \in S
    BY <2>1, <1>1
  <2>3. ASSUME NEW i \in 0 .. MapPages - 1, i \in S PROVE i + 1 \in S
    <3>1. i + 1 \in 0 .. MapPages /\ i + 1 # 0 /\ (i + 1) - 1 = i
      BY <1>1
    <3>2. s[i + 1] = IF used[i] THEN 0 ELSE s[i] + 1
      BY <3>1, <2>1
    <3>3. QED
      BY <3>1, <3>2, <2>3
  <2>4. 0 .. MapPages \subseteq S
    <3> HIDE DEF S
    <3> QED BY <1>1, <2>2, <2>3, InductionTo
  <2>5. QED
    BY <2>4 DEF s
<1>10. QED
  BY <1>8, <1>9

(* What the counter says: so many bits are clear just before bit i, and it *)
(* passed through every smaller number on the way.                         *)
LEMMA CounterClear ==
  \A i \in 0 .. MapPages :
      /\ Counter[i] \in 0 .. i
      /\ \A p \in i - Counter[i] .. i - 1 : ~ used[p]
      /\ \A n \in 0 .. Counter[i] : Counter[i - (Counter[i] - n)] = n
<1> DEFINE c == Counter
           Good(i) == /\ c[i] \in 0 .. i
                      /\ \A p \in i - c[i] .. i - 1 : ~ used[p]
                      /\ \A n \in 0 .. c[i] : c[i - (c[i] - n)] = n
           S == {i \in 0 .. MapPages : Good(i)}
<1>1. /\ MapPages \in Nat
      /\ \A i \in 0 .. MapPages :
           /\ c[i] \in Nat
           /\ c[i] = IF i = 0 THEN 0 ELSE IF used[i - 1] THEN 0 ELSE c[i - 1] + 1
  BY CounterUnfold, KernelHeapAssumption DEF KernelHeapAssumption
<1> HIDE DEF c
<1>2. 0 \in S
  <2>1. c[0] = 0 /\ 0 \in 0 .. MapPages
    BY <1>1
  <2>2. QED
    BY <2>1
<1>3. ASSUME NEW i \in 0 .. MapPages - 1, i \in S PROVE i + 1 \in S
  <2>1. i + 1 \in 0 .. MapPages /\ i + 1 # 0 /\ (i + 1) - 1 = i
    BY <1>1
  <2>2. c[i + 1] = IF used[i] THEN 0 ELSE c[i] + 1
    BY <2>1, <1>1
  <2>3. Good(i)
    BY <1>3
  <2>4. CASE used[i]
    <3>1. c[i + 1] = 0
      BY <2>2, <2>4
    <3>2. Good(i + 1)
      BY <2>1, <3>1
    <3>3. QED
      BY <2>1, <3>2
  <2>5. CASE ~ used[i]
    <3>1. c[i + 1] = c[i] + 1 /\ c[i] \in 0 .. i
      BY <2>2, <2>3, <2>5
    <3>2. c[i + 1] \in 0 .. i + 1
      BY <3>1
    <3>3. \A p \in (i + 1) - c[i + 1] .. (i + 1) - 1 : ~ used[p]
      BY <2>3, <2>5, <3>1
    <3>4. \A n \in 0 .. c[i + 1] : c[(i + 1) - (c[i + 1] - n)] = n
      <4> TAKE n \in 0 .. c[i + 1]
      <4>1. CASE n = c[i + 1]
        <5>1. (i + 1) - (c[i + 1] - n) = i + 1
          BY <4>1, <3>1
        <5>2. QED
          BY <4>1, <5>1
      <4>2. CASE n # c[i + 1]
        <5>1. n \in 0 .. c[i] /\ (i + 1) - (c[i + 1] - n) = i - (c[i] - n)
          BY <4>2, <3>1
        <5>2. QED
          BY <5>1, <2>3
      <4>3. QED
        BY <4>1, <4>2
    <3>5. QED
      BY <2>1, <3>2, <3>3, <3>4
  <2>6. QED
    BY <2>4, <2>5
<1>4. 0 .. MapPages \subseteq S
  <2> HIDE DEF S
  <2> QED BY <1>1, <1>2, <1>3, InductionTo
<1>5. QED
  BY <1>4 DEF c

(* And it counts every run of clear bits to its end.                       *)
LEMMA CounterCounts ==
  ASSUME NEW s \in Nat, NEW n \in Nat, s + n <= MapPages,
         \A p \in Span(s, n) : ~ used[p]
  PROVE  Counter[s + n] >= n
<1> DEFINE c == Counter
           S == {k \in 0 .. n : c[s + k] >= k}
<1>1. /\ MapPages \in Nat
      /\ \A i \in 0 .. MapPages :
           /\ c[i] \in Nat
           /\ c[i] = IF i = 0 THEN 0 ELSE IF used[i - 1] THEN 0 ELSE c[i - 1] + 1
  BY CounterUnfold, KernelHeapAssumption DEF KernelHeapAssumption
<1> HIDE DEF c
<1>2. 0 \in S
  <2>1. s + 0 \in 0 .. MapPages
    BY <1>1
  <2>2. QED
    BY <2>1, <1>1
<1>3. ASSUME NEW k \in 0 .. n - 1, k \in S PROVE k + 1 \in S
  <2>1. /\ s + (k + 1) \in 0 .. MapPages /\ s + (k + 1) # 0 /\ (s + (k + 1)) - 1 = s + k
        /\ s + k \in 0 .. MapPages /\ s + k \in Span(s, n)
    BY <1>1 DEF Span
  <2>2. c[s + (k + 1)] = c[s + k] + 1 /\ c[s + k] \in Nat
    BY <2>1, <1>1
  <2>3. QED
    BY <2>2, <1>3
<1>4. 0 .. n \subseteq S
  <2> HIDE DEF S
  <2> QED BY <1>2, <1>3, InductionTo
<1>5. QED
  BY <1>4 DEF c

LEMMA FirstFits ==
  ASSUME NEW n \in Nat \ {0}
  PROVE  LET fits(s) == Span(s, n) \subseteq {p \in PageIndices : ~ used[p]} IN
         /\ Scan(n) = EOF <=> ~ \E s \in PageIndices : fits(s)
         /\ Scan(n) # EOF => /\ Scan(n) \in PageIndices /\ fits(Scan(n))
                             /\ \A s \in 0 .. Scan(n) - 1 : ~ fits(s)
<1> DEFINE fits(s) == Span(s, n) \subseteq {p \in PageIndices : ~ used[p]}
<1>1. MapPages \in Nat /\ n \in Nat /\ n >= 1
  BY KernelHeapAssumption DEF KernelHeapAssumption
<1>2. ASSUME NEW i \in Ends(n)
      PROVE  i - n \in PageIndices /\ fits(i - n) /\ i \in 1 .. MapPages
  <2>1. i \in 1 .. MapPages /\ Counter[i] = n
    BY DEF Ends
  <2>2. n \in 0 .. i /\ \A p \in i - n .. i - 1 : ~ used[p]
    BY <2>1, CounterClear
  <2>3. QED
    BY <1>1, <2>1, <2>2 DEF PageIndices, Span
<1>3. ASSUME NEW s \in PageIndices, fits(s)
      PROVE  \E i \in Ends(n) : i - n <= s
  <2>1. s \in Nat /\ s < MapPages
    BY <1>1 DEF PageIndices
  <2>2. s + n <= MapPages /\ \A p \in Span(s, n) : ~ used[p]
    <3>1. s + n - 1 \in Span(s, n)
      BY <1>1, <2>1 DEF Span
    <3>2. QED
      BY <1>1, <1>3, <2>1, <3>1 DEF PageIndices
  <2>3. PICK i \in 0 .. MapPages : i = s + n
    BY <1>1, <2>1, <2>2
  <2>4. PICK k : k = Counter[i]
    OBVIOUS
  <2>5. k \in 0 .. i /\ \A m \in 0 .. k : Counter[i - (k - m)] = m
    BY <2>4, CounterClear
  <2>a. k >= n
    BY <1>1, <2>1, <2>2, <2>3, <2>4, CounterCounts
  <2>6. Counter[i - (k - n)] = n /\ i - (k - n) \in 1 .. MapPages
    BY <1>1, <2>1, <2>3, <2>5, <2>a
  <2>7. i - (k - n) \in Ends(n)
    BY <2>6 DEF Ends
  <2>8. (i - (k - n)) - n <= s
    BY <1>1, <2>1, <2>3, <2>5, <2>a
  <2>9. QED
    BY <2>7, <2>8
<1>4. CASE Ends(n) = {}
  <2>1. Scan(n) = EOF
    BY <1>4 DEF Scan
  <2>2. ~ \E s \in PageIndices : fits(s)
    BY <1>3, <1>4
  <2>3. QED
    BY <2>1, <2>2
<1>5. CASE Ends(n) # {}
  <2>1. Ends(n) \in SUBSET Nat
    BY <1>1 DEF Ends
  <2>2. \E m \in Ends(n) : \A k \in Ends(n) : m <= k
    BY <1>5, <2>1, LeastNat
  <2> DEFINE m == Min(Ends(n))
  <2>3. m \in Ends(n) /\ \A k \in Ends(n) : m <= k
    BY <2>2 DEF Min
  <2>4. Scan(n) = m - n
    BY <1>5 DEF Scan
  <2> HIDE DEF m
  <2>5. Scan(n) \in PageIndices /\ fits(Scan(n))
    BY <1>2, <2>3, <2>4
  <2>6. \A s \in 0 .. Scan(n) - 1 : ~ fits(s)
    <3> SUFFICES ASSUME NEW s \in 0 .. Scan(n) - 1, fits(s) PROVE FALSE
      OBVIOUS
    <3>1. s \in PageIndices /\ s < Scan(n) /\ Scan(n) \in Int
      BY <2>5, <1>1 DEF PageIndices
    <3>2. PICK i \in Ends(n) : i - n <= s
      BY <1>3, <3>1
    <3>3. m <= i /\ i \in Int /\ m \in Int
      BY <2>1, <2>3
    <3> HIDE DEF fits
    <3>4. QED
      BY <1>1, <2>4, <3>1, <3>2, <3>3
  <2>7. Scan(n) # EOF
    BY <2>5, <1>1 DEF PageIndices, EOF
  <2>8. QED
    BY <2>5, <2>6, <2>7
<1>6. QED
  BY <1>4, <1>5

-----------------------------------------------------------------------------
(* The pages somebody has, run by run.                                     *)
LEMMA RunsPoints ==
  \A r : r \in Runs <=>
      \/ r \in taken
      \/ \E p \in PageIndices : desc[p] = "large" /\ r = <<p, count[p]>>
      \/ \E p \in PageIndices : desc[p] \in Classes /\ r = <<p, 1>>
BY DEF Runs

\* Every run has a page, and where it starts it is known for what it is.
RunsShape ==
    /\ \A r \in taken : r[1] \in PageIndices /\ r[2] \in 1 .. MaxCount
    /\ \A p \in PageIndices : desc[p] = "large" => count[p] \in 1 .. MaxCount

LEMMA RunsSpan ==
  ASSUME RunsShape, NEW r \in Runs
  PROVE  /\ r[1] \in PageIndices /\ r[2] \in Nat /\ r[2] >= 1
         /\ r[1] \in Span(r[1], r[2])
<1>1. MapPages \in Nat /\ MaxCount \in Nat
  BY KernelHeapAssumption DEF KernelHeapAssumption
<1>2. r[1] \in PageIndices /\ r[2] \in Nat /\ r[2] >= 1
  <2>1. CASE r \in taken
    BY <1>1, <2>1 DEF RunsShape
  <2>2. CASE \E p \in PageIndices : desc[p] = "large" /\ r = <<p, count[p]>>
    BY <1>1, <2>2 DEF RunsShape
  <2>3. CASE \E p \in PageIndices : desc[p] \in Classes /\ r = <<p, 1>>
    BY <2>3
  <2>4. QED
    BY <2>1, <2>2, <2>3, RunsPoints
<1>3. QED
  BY <1>1, <1>2 DEF Span, PageIndices

(* Where a clear page starts a new run, nothing was.                       *)
LEMMA ClearIsNobodys ==
  ASSUME HeapTypeOK, PagesExact, RunsShape, NEW p \in PageIndices, ~ used[p]
  PROVE  desc[p] = "none" /\ \A r \in taken : r[1] # p
<1>1. \A r \in Runs : r[1] # p
  BY RunsSpan DEF PagesExact
<1>2. \A r \in taken : r[1] # p
  BY <1>1, RunsPoints
<1>3. desc[p] # "large"
  <2>1. desc[p] = "large" => <<p, count[p]>> \in Runs
    BY RunsPoints
  <2>2. QED
    BY <1>1, <2>1
<1>4. desc[p] \notin Classes
  <2>1. desc[p] \in Classes => <<p, 1>> \in Runs
    BY RunsPoints
  <2>2. QED
    BY <1>1, <2>1
<1>5. QED
  BY <1>2, <1>3, <1>4 DEF HeapTypeOK

\* PagesExact, without what it says of the kinds of runs.
Tiled ==
    /\ \A r, s \in Runs : r # s => Span(r[1], r[2]) \cap Span(s[1], s[2]) = {}
    /\ \A p \in PageIndices : used[p] <=> \E r \in Runs : p \in Span(r[1], r[2])
    /\ \A r \in Runs : Span(r[1], r[2]) \subseteq PageIndices

LEMMA TiledPages == PagesExact <=> Tiled /\ \A r \in taken : desc[r[1]] = "none"
BY DEF PagesExact, Tiled

LEMMA AddRun ==
  ASSUME Tiled, NEW s, NEW n, Span(s, n) \subseteq {p \in PageIndices : ~ used[p]},
         used' = Marked(Span(s, n), TRUE),
         \A r : r \in Runs' <=> r \in Runs \/ r = <<s, n>>
  PROVE  Tiled'
<1> DEFINE N == <<s, n>>
<1>1. N[1] = s /\ N[2] = n
  OBVIOUS
<1>2. \A r \in Runs : Span(r[1], r[2]) \cap Span(s, n) = {}
  BY DEF Tiled
<1>3. \A r, t \in Runs' : r # t => Span(r[1], r[2]) \cap Span(t[1], t[2]) = {}
  <2> TAKE r, t \in Runs'
  <2>1. CASE r \in Runs /\ t \in Runs
    BY <2>1 DEF Tiled
  <2>2. CASE r = N /\ t \in Runs
    BY <1>1, <1>2, <2>2
  <2>3. CASE r \in Runs /\ t = N
    BY <1>1, <1>2, <2>3
  <2>4. CASE r = N /\ t = N
    BY <2>4
  <2>5. QED
    BY <2>1, <2>2, <2>3, <2>4
<1>4. \A p \in PageIndices : used'[p] <=> \E r \in Runs' : p \in Span(r[1], r[2])
  <2> TAKE p \in PageIndices
  <2>1. CASE p \in Span(s, n)
    <3>1. used'[p]
      BY <2>1 DEF Marked
    <3>2. N \in Runs' /\ p \in Span(N[1], N[2])
      BY <1>1, <2>1
    <3>3. QED
      BY <3>1, <3>2
  <2>2. CASE p \notin Span(s, n)
    <3>1. used'[p] = used[p]
      BY <2>2 DEF Marked
    <3>2. \A r \in Runs' : p \in Span(r[1], r[2]) => r \in Runs
      BY <1>1, <2>2
    <3>3. QED
      BY <3>1, <3>2 DEF Tiled
  <2>3. QED
    BY <2>1, <2>2
<1>5. \A r \in Runs' : Span(r[1], r[2]) \subseteq PageIndices
  BY <1>1 DEF Tiled
<1>6. QED
  BY <1>3, <1>4, <1>5 DEF Tiled, Span, PageIndices

LEMMA DropRun ==
  ASSUME Tiled, NEW d \in Runs,
         used' = Marked(Span(d[1], d[2]), FALSE),
         \A r : r \in Runs' <=> r \in Runs /\ r # d
  PROVE  Tiled'
<1>1. \A r, t \in Runs' : r # t => Span(r[1], r[2]) \cap Span(t[1], t[2]) = {}
  BY DEF Tiled
<1>2. \A p \in PageIndices : used'[p] <=> \E r \in Runs' : p \in Span(r[1], r[2])
  <2> TAKE p \in PageIndices
  <2>1. CASE p \in Span(d[1], d[2])
    <3>1. used'[p] = FALSE
      BY <2>1 DEF Marked
    <3>2. \A r \in Runs' : p \notin Span(r[1], r[2])
      BY <2>1 DEF Tiled
    <3>3. QED
      BY <3>1, <3>2
  <2>2. CASE p \notin Span(d[1], d[2])
    <3>1. used'[p] = used[p]
      BY <2>2 DEF Marked
    <3>2. QED
      BY <2>2, <3>1 DEF Tiled
  <2>3. QED
    BY <2>1, <2>2
<1>3. \A r \in Runs' : Span(r[1], r[2]) \subseteq PageIndices
  BY DEF Tiled
<1>4. QED
  BY <1>1, <1>2, <1>3 DEF Tiled, Span, PageIndices

-----------------------------------------------------------------------------
(* The blocks of a new arena, and the list that kmalloc makes of them.     *)
Cut(page, c) == {<<page, i>> : i \in 0 .. TotalBlock[c] - 1}

LEMMA NewLists ==
  ASSUME NEW page \in PageIndices, NEW c \in Classes
  PROVE  /\ Lists(NewList(page, c), Cut(page, c))
         /\ NewList(page, c) # <<>> /\ Cut(page, c) \subseteq Blocks
         /\ IsFiniteSet(Cut(page, c)) /\ Cardinality(Cut(page, c)) = TotalBlock[c]
<1> DEFINE s == NewList(page, c)
           T == TotalBlock[c]
<1>1. T \in Nat /\ T # 0
  BY KernelHeapAssumption DEF KernelHeapAssumption
<1>2. /\ s = [i \in 1 .. T |-> <<page, T - i>>]
      /\ Cut(page, c) = {<<page, i>> : i \in 0 .. T - 1}
  BY DEF NewList, Cut
<1> HIDE DEF s, T
<1>3. s \in Seq(Cut(page, c)) /\ Len(s) = T
  <2>1. s \in [1 .. T -> Cut(page, c)]
    BY <1>1, <1>2
  <2>2. QED
    BY <1>1, <2>1
<1>4. \A m, n \in 1 .. T : s[m] = s[n] => m = n
  BY <1>1, <1>2
<1>5. \A x \in Cut(page, c) : \E n \in 1 .. T : s[n] = x
  <2> TAKE x \in Cut(page, c)
  <2>1. PICK i \in 0 .. T - 1 : x = <<page, i>>
    BY <1>2
  <2>2. T - i \in 1 .. T /\ T - (T - i) = i
    BY <1>1
  <2>3. s[T - i] = x
    BY <1>2, <2>1, <2>2
  <2>4. QED
    BY <2>2, <2>3
<1>6. Lists(s, Cut(page, c))
  BY <1>3, <1>4, <1>5 DEF Lists
<1>7. IsFiniteSet(Cut(page, c)) /\ Cardinality(Cut(page, c)) = T
  BY <1>3, <1>6, ListsCount
<1>8. s # <<>>
  BY <1>1, <1>3
<1>9. Cut(page, c) \subseteq Blocks
  BY <1>1, <1>2 DEF Blocks
<1>10. QED
  BY <1>6, <1>7, <1>8, <1>9 DEF s, T

LEMMA BlocksPoints ==
  ASSUME NEW p \in PageIndices
  PROVE  /\ desc[p] \in Classes => BlocksOf(p) = Cut(p, desc[p])
         /\ desc[p] = "large" => BlocksOf(p) = {<<p, 0>>}
         /\ desc[p] = "none" => BlocksOf(p) = {}
         /\ \A b \in BlocksOf(p) : b[1] = p
<1>1. "large" \notin Classes /\ "none" \notin Classes
  BY KernelHeapAssumption DEF KernelHeapAssumption
<1>2. QED
  BY <1>1 DEF BlocksOf, Cut

\* The blocks that kmalloc may hand out next, by size.
FreeOf(c) == ArenaBlocks(c) \ live

LEMMA FreePoints ==
  ASSUME NEW c
  PROVE  \A b : b \in FreeOf(c) <=>
            /\ b[1] \in PageIndices /\ desc[b[1]] = c
            /\ b \in BlocksOf(b[1]) /\ b \notin live
BY BlocksPoints DEF FreeOf, ArenaBlocks

LEMMA FreePointsAfter ==
  ASSUME NEW c
  PROVE  \A b : b \in FreeOf(c)' <=>
            /\ b[1] \in PageIndices /\ desc'[b[1]] = c
            /\ b \in BlocksOf(b[1])' /\ b \notin live'
<1>1. \A p \in PageIndices : \A b \in BlocksOf(p)' : b[1] = p
  BY KernelHeapAssumption DEF KernelHeapAssumption, BlocksOf
<1>2. QED
  BY <1>1 DEF FreeOf, ArenaBlocks, PageIndices

BlocksSound ==
    /\ \A b \in live : b[1] \in PageIndices /\ b \in BlocksOf(b[1])
    /\ \A c \in Classes : Lists(freeList[c], FreeOf(c))
    /\ \A p \in PageIndices : desc[p] \in Classes =>
          /\ count[p] = Cardinality(BlocksOf(p) \ live)
          /\ count[p] < TotalBlock[desc[p]]

HeapInv == HeapTypeOK /\ PagesExact /\ RunsShape /\ BlocksSound

LEMMA HeapInvExact == HeapInv => HeapExact
<1> SUFFICES ASSUME HeapInv PROVE BlocksExact
  BY DEF HeapInv, HeapExact
<1>1. live \subseteq UNION {BlocksOf(p) : p \in PageIndices}
  BY DEF HeapInv, BlocksSound
<1>2. ASSUME NEW c \in Classes
      PROVE  /\ IsInjective(freeList[c])
             /\ Listed(c) = FreeOf(c)
  <2>1. Lists(freeList[c], FreeOf(c))
    BY DEF HeapInv, BlocksSound
  <2>2. /\ freeList[c] \in Seq(FreeOf(c)) /\ DOMAIN freeList[c] = 1 .. Len(freeList[c])
        /\ \A n \in 1 .. Len(freeList[c]) : freeList[c][n] \in FreeOf(c)
    BY <2>1 DEF Lists
  <2>3. IsInjective(freeList[c])
    BY <2>1, <2>2 DEF Lists, IsInjective
  <2>4. Listed(c) = FreeOf(c)
    <3>1. \A x : x \in Listed(c) <=> \E n \in 1 .. Len(freeList[c]) : x = freeList[c][n]
      BY <2>2 DEF Listed, ToSet
    <3>2. \A x \in FreeOf(c) : \E n \in 1 .. Len(freeList[c]) : freeList[c][n] = x
      BY <2>1 DEF Lists
    <3>3. ASSUME NEW x \in Listed(c) PROVE x \in FreeOf(c)
      <4>1. PICK n \in 1 .. Len(freeList[c]) : x = freeList[c][n]
        BY <3>1
      <4>2. QED
        BY <2>2, <4>1
    <3>4. ASSUME NEW x \in FreeOf(c) PROVE x \in Listed(c)
      <4>1. PICK n \in 1 .. Len(freeList[c]) : freeList[c][n] = x
        BY <3>2
      <4>2. QED
        BY <3>1, <4>1
    <3>5. QED
      BY <3>3, <3>4
  <2>5. QED
    BY <2>3, <2>4
<1>3. QED
  BY <1>1, <1>2 DEF BlocksExact, FreeOf, HeapInv, BlocksSound

(* The counts of an arena and of its blocks.                               *)
LEMMA ArenaCounts ==
  ASSUME HeapInv, NEW p \in PageIndices, desc[p] \in Classes
  PROVE  /\ IsFiniteSet(BlocksOf(p)) /\ IsFiniteSet(BlocksOf(p) \ live)
         /\ Cardinality(BlocksOf(p)) = TotalBlock[desc[p]]
         /\ count[p] = Cardinality(BlocksOf(p) \ live)
         /\ count[p] \in Nat /\ TotalBlock[desc[p]] \in Nat
<1>1. BlocksOf(p) = Cut(p, desc[p])
  BY BlocksPoints
<1>2. IsFiniteSet(BlocksOf(p)) /\ Cardinality(BlocksOf(p)) = TotalBlock[desc[p]]
  BY <1>1, NewLists
<1>3. IsFiniteSet(BlocksOf(p) \ live)
  BY <1>2, FS_Subset
<1>4. count[p] = Cardinality(BlocksOf(p) \ live) /\ count[p] \in Nat
  BY DEF HeapInv, BlocksSound, HeapTypeOK
<1>5. TotalBlock[desc[p]] \in Nat
  BY KernelHeapAssumption DEF KernelHeapAssumption
<1>6. QED
  BY <1>2, <1>3, <1>4, <1>5

LEMMA HeapInitial == HeapInit => HeapInv
<1> SUFFICES ASSUME HeapInit PROVE HeapInv
  OBVIOUS
<1>0. "large" \notin Classes /\ "none" \notin Classes /\ MapPages \in Nat
  BY KernelHeapAssumption DEF KernelHeapAssumption
<1>1. HeapTypeOK
  <2>1. <<>> \in Seq(Blocks)
    OBVIOUS
  <2>2. QED
    BY <1>0, <2>1 DEF HeapInit, HeapTypeOK
<1>2. \A r : r \notin Runs
  BY <1>0, RunsPoints DEF HeapInit
<1>3. PagesExact
  BY <1>2, <1>0 DEF PagesExact, HeapInit, PageIndices
<1>4. RunsShape
  BY DEF RunsShape, HeapInit
<1>5. BlocksSound
  <2>1. \A c \in Classes : \A b : b \notin FreeOf(c)
    BY <1>0, FreePoints DEF HeapInit
  <2>2. \A c \in Classes : FreeOf(c) = {}
    BY <2>1
  <2>3. Lists(<<>>, {})
    BY DEF Lists
  <2>4. \A p \in PageIndices : desc[p] \notin Classes
    BY <1>0 DEF HeapInit
  <2>5. QED
    BY <2>2, <2>3, <2>4 DEF BlocksSound, HeapInit
<1>6. QED
  BY <1>1, <1>3, <1>4, <1>5 DEF HeapInv

-----------------------------------------------------------------------------
(* allocKpage and freeKpage touch no arena.                                *)
LEMMA BlocksUntouched ==
  ASSUME BlocksSound, UNCHANGED <<desc, count, freeList, live>>
  PROVE  BlocksSound'
BY DEF BlocksSound, FreeOf, ArenaBlocks, BlocksOf

LEMMA AllocStep ==
  ASSUME HeapInv, NEW n \in 1 .. MaxCount, AllocKpage(n)
  PROVE  HeapInv'
<1> DEFINE s == Scan(n)
<1>0. MapPages \in Nat /\ MaxCount \in Nat /\ n \in Nat /\ n >= 1
  BY KernelHeapAssumption DEF KernelHeapAssumption
<1>1. /\ s \in PageIndices /\ Span(s, n) \subseteq {p \in PageIndices : ~ used[p]}
      /\ used' = Marked(Span(s, n), TRUE)
      /\ taken' = taken \cup {<<s, n>>}
      /\ UNCHANGED <<desc, count, freeList, live, panicked>>
  BY <1>0, FirstFits DEF AllocKpage
<1> HIDE DEF s
<1>2. s \in Span(s, n) /\ ~ used[s] /\ s \in Int
  BY <1>0, <1>1 DEF Span, PageIndices
<1>3. desc[s] = "none"
  BY <1>1, <1>2, ClearIsNobodys DEF HeapInv
<1>4. HeapTypeOK'
  <2>1. used' \in [PageIndices -> BOOLEAN]
    BY <1>1 DEF Marked, HeapInv, HeapTypeOK
  <2>2. taken' \subseteq PageIndices \X (1 .. MaxCount)
    BY <1>1 DEF HeapInv, HeapTypeOK
  <2>3. QED
    BY <1>1, <2>1, <2>2 DEF HeapInv, HeapTypeOK
<1>5. \A r : r \in Runs' <=> r \in Runs \/ r = <<s, n>>
  BY <1>1 DEF Runs
<1>6. Tiled'
  BY <1>1, <1>5, TiledPages, AddRun DEF HeapInv
<1>7. \A r \in taken' : desc'[r[1]] = "none"
  BY <1>1, <1>3, TiledPages DEF HeapInv
<1>8. PagesExact'
  BY <1>6, <1>7 DEF PagesExact, Tiled
<1>9. RunsShape'
  BY <1>1, <1>4 DEF RunsShape, HeapInv, HeapTypeOK
<1>10. BlocksSound'
  BY <1>1, BlocksUntouched DEF HeapInv
<1>11. QED
  BY <1>4, <1>8, <1>9, <1>10 DEF HeapInv

LEMMA FreeStep ==
  ASSUME HeapInv, NEW run \in taken, FreeKpage(run)
  PROVE  HeapInv'
<1>1. /\ used' = Marked(Span(run[1], run[2]), FALSE)
      /\ taken' = taken \ {run}
      /\ UNCHANGED <<desc, count, freeList, live, panicked>>
  BY DEF FreeKpage
<1>2. HeapTypeOK'
  <2>1. used' \in [PageIndices -> BOOLEAN]
    BY <1>1 DEF Marked, HeapInv, HeapTypeOK
  <2>2. QED
    BY <1>1, <2>1 DEF HeapInv, HeapTypeOK
<1>3. desc[run[1]] = "none" /\ "none" \notin Classes
  BY KernelHeapAssumption, TiledPages DEF HeapInv, KernelHeapAssumption
<1>4. run \in Runs /\ \A r : r \in Runs' <=> r \in Runs /\ r # run
  <2>1. \A p : desc[p] = "large" => <<p, count[p]>> # run
    BY <1>3
  <2>2. \A p : desc[p] \in Classes => <<p, 1>> # run
    BY <1>3
  <2>3. QED
    BY <1>1, <2>1, <2>2 DEF Runs
<1>5. Tiled'
  BY <1>1, <1>4, TiledPages, DropRun DEF HeapInv
<1>6. \A r \in taken' : desc'[r[1]] = "none"
  BY <1>1, TiledPages DEF HeapInv
<1>7. PagesExact'
  BY <1>5, <1>6 DEF PagesExact, Tiled
<1>8. RunsShape'
  BY <1>1 DEF RunsShape, HeapInv
<1>9. BlocksSound'
  BY <1>1, BlocksUntouched DEF HeapInv
<1>10. QED
  BY <1>2, <1>7, <1>8, <1>9 DEF HeapInv

(* What a step that leaves the pages alone does not disturb: only counts   *)
(* of arenas change.                                                       *)
LEMMA PagesUntouched ==
  ASSUME HeapInv, UNCHANGED <<used, desc, taken>>,
         \A p \in PageIndices : desc[p] = "large" => count'[p] = count[p]
  PROVE  PagesExact' /\ RunsShape'
<1>1. \A r : r \in Runs' <=> r \in Runs
  BY DEF Runs
<1>2. Runs' = Runs
  BY <1>1
<1>3. Tiled'
  BY <1>2, TiledPages DEF HeapInv, Tiled, Span, PageIndices
<1>4. QED
  BY <1>3 DEF PagesExact, Tiled, HeapInv, RunsShape

(* kmalloc and kfree change one arena and the list of one size.            *)
LEMMA BlocksStep ==
  ASSUME HeapInv, NEW p \in PageIndices, NEW c,
         \A q \in PageIndices \ {p} : desc'[q] = desc[q] /\ count'[q] = count[q],
         \A x : x[1] # p => (x \in live' <=> x \in live),
         \A x \in live' : x[1] = p => x \in BlocksOf(p)',
         {desc[p], desc'[p]} \cap Classes \subseteq {c},
         \A d \in Classes \ {c} : freeList'[d] = freeList[d],
         c \in Classes => Lists(freeList'[c], FreeOf(c)'),
         desc'[p] \in Classes => /\ count'[p] = Cardinality(BlocksOf(p)' \ live')
                                 /\ count'[p] < TotalBlock[desc'[p]]
  PROVE  BlocksSound'
<1>1. \A q \in PageIndices \ {p} : BlocksOf(q)' = BlocksOf(q)
  BY DEF BlocksOf
<1>2. \A x \in live' : x[1] \in PageIndices /\ x \in BlocksOf(x[1])'
  BY <1>1 DEF HeapInv, BlocksSound
<1>3. ASSUME NEW d \in Classes \ {c} PROVE FreeOf(d)' = FreeOf(d)
  <2>1. desc[p] # d /\ desc'[p] # d
    OBVIOUS
  <2>2. \A x : x \in FreeOf(d)' <=> x \in FreeOf(d)
    BY <1>1, <2>1, FreePoints, FreePointsAfter
  <2>3. QED
    BY <2>2
<1>4. \A d \in Classes : Lists(freeList'[d], FreeOf(d)')
  <2> TAKE d \in Classes
  <2>1. Lists(freeList[d], FreeOf(d))
    BY DEF HeapInv, BlocksSound
  <2>2. QED
    BY <1>3, <2>1
<1>5. ASSUME NEW q \in PageIndices, q # p, desc'[q] \in Classes
      PROVE  /\ count'[q] = Cardinality(BlocksOf(q)' \ live')
             /\ count'[q] < TotalBlock[desc'[q]]
  <2>1. BlocksOf(q)' \ live' = BlocksOf(q) \ live
    <3>1. \A x \in BlocksOf(q) : x[1] # p
      BY <1>5, BlocksPoints
    <3>2. QED
      BY <1>1, <1>5, <3>1
  <2>2. QED
    BY <1>5, <2>1 DEF HeapInv, BlocksSound
<1>6. QED
  BY <1>2, <1>4, <1>5 DEF BlocksSound

(* The types of lists and blocks follow.                                   *)
LEMMA BlocksTyped ==
  ASSUME BlocksSound'
  PROVE  /\ live' \subseteq Blocks
         /\ \A c \in Classes : freeList'[c] \in Seq(Blocks)
<1>1. \A p \in PageIndices : BlocksOf(p)' \subseteq Blocks
  <2> TAKE p \in PageIndices
  <2>1. CASE desc'[p] \in Classes
    <3>1. BlocksOf(p)' = Cut(p, desc'[p])
      BY <2>1 DEF BlocksOf, Cut
    <3>2. QED
      BY <2>1, <3>1, NewLists
  <2>2. CASE desc'[p] \notin Classes
    BY <2>2 DEF BlocksOf, Blocks
  <2>3. QED
    BY <2>1, <2>2
<1>2. live' \subseteq Blocks
  BY <1>1 DEF BlocksSound
<1>3. ASSUME NEW c \in Classes PROVE freeList'[c] \in Seq(Blocks)
  <2>1. freeList'[c] \in Seq(FreeOf(c)')
    BY DEF BlocksSound, Lists
  <2>2. FreeOf(c)' \subseteq Blocks
    BY <1>1, FreePointsAfter
  <2>3. QED
    BY <2>1, <2>2
<1>4. QED
  BY <1>2, <1>3

LEMMA KmallocStep ==
  ASSUME HeapInv, NEW c \in Classes, Kmalloc(c)
  PROVE  HeapInv'
<1> DEFINE h == Head(freeList[c])
<1>1. PICK b : b = h
  OBVIOUS
<1>2. /\ freeList[c] # <<>> /\ live' = live \cup {b}
      /\ count' = [count EXCEPT ![b[1]] = @ - 1]
      /\ freeList' = [freeList EXCEPT ![c] = Tail(@)]
      /\ UNCHANGED <<used, desc, taken, panicked>>
  BY <1>1 DEF Kmalloc
<1>3. Lists(freeList[c], FreeOf(c))
  BY DEF HeapInv, BlocksSound
<1>4. b \in FreeOf(c) /\ Lists(Tail(freeList[c]), FreeOf(c) \ {b})
  BY <1>1, <1>2, <1>3, TailLists
<1> HIDE DEF h
<1>5. PICK p \in PageIndices : p = b[1]
  BY <1>4, FreePoints
<1>6. desc[p] = c /\ b \in BlocksOf(p) /\ b \notin live
  BY <1>4, <1>5, FreePoints
<1>7. /\ IsFiniteSet(BlocksOf(p) \ live)
      /\ count[p] = Cardinality(BlocksOf(p) \ live)
      /\ count[p] \in Nat /\ TotalBlock[c] \in Nat /\ count[p] < TotalBlock[c]
  BY <1>6, ArenaCounts DEF HeapInv, BlocksSound
<1>8. /\ Cardinality((BlocksOf(p) \ live) \ {b}) = count[p] - 1
      /\ count[p] - 1 \in Nat /\ count[p] - 1 < TotalBlock[c]
  <2> DEFINE S == BlocksOf(p) \ live
  <2>1. IsFiniteSet(S) /\ b \in S /\ count[p] = Cardinality(S)
    BY <1>6, <1>7
  <2> HIDE DEF S
  <2>2. /\ IsFiniteSet(S \ {b}) /\ Cardinality(S \ {b}) = Cardinality(S) - 1
    BY <2>1, FS_RemoveElement
  <2>3. Cardinality(S \ {b}) \in Nat
    BY <2>2, FS_CardinalityType
  <2>4. QED
    BY <1>7, <2>1, <2>2, <2>3 DEF S
<1>9. /\ \A q \in PageIndices : BlocksOf(q)' = BlocksOf(q)
      /\ \A q \in PageIndices : count'[q] = IF q = p THEN count[p] - 1 ELSE count[q]
      /\ count' \in [PageIndices -> Nat]
      /\ \A d \in Classes : freeList'[d] = IF d = c THEN Tail(freeList[c]) ELSE freeList[d]
      /\ freeList' \in [Classes -> Seq(Blocks)]
  BY <1>2, <1>5, <1>8 DEF HeapInv, HeapTypeOK, BlocksOf
<1>10. BlocksSound'
  <2>1. FreeOf(c)' = FreeOf(c) \ {b}
    BY <1>2, <1>9 DEF FreeOf, ArenaBlocks
  <2>2. \A x \in live' : x[1] = p => x \in BlocksOf(p)'
    BY <1>2, <1>6, <1>9 DEF HeapInv, BlocksSound
  <2>3. BlocksOf(p)' \ live' = (BlocksOf(p) \ live) \ {b}
    BY <1>2, <1>9
  <2>4. count'[p] = Cardinality(BlocksOf(p)' \ live') /\ count'[p] < TotalBlock[desc'[p]]
    BY <1>2, <1>6, <1>8, <1>9, <2>3
  <2>5. /\ \A q \in PageIndices \ {p} : desc'[q] = desc[q] /\ count'[q] = count[q]
        /\ \A x : x[1] # p => (x \in live' <=> x \in live)
        /\ {desc[p], desc'[p]} \cap Classes \subseteq {c}
        /\ \A d \in Classes \ {c} : freeList'[d] = freeList[d]
    BY <1>2, <1>5, <1>6, <1>9
  <2>6. Lists(freeList'[c], FreeOf(c)')
    BY <1>4, <1>9, <2>1
  <2>7. QED
    BY <2>2, <2>4, <2>5, <2>6, BlocksStep
<1>11. HeapTypeOK'
  BY <1>2, <1>9, <1>10, BlocksTyped DEF HeapInv, HeapTypeOK
<1>12. PagesExact' /\ RunsShape'
  <2>1. \A q \in PageIndices : desc[q] = "large" => count'[q] = count[q]
    BY <1>6, <1>9, KernelHeapAssumption DEF KernelHeapAssumption
  <2>2. QED
    BY <1>2, <2>1, PagesUntouched
<1>13. QED
  BY <1>10, <1>11, <1>12 DEF HeapInv

-----------------------------------------------------------------------------
(* The loop of kfree satisfies the recursion that defines it, and leaves   *)
(* all but the blocks of the page on the list.                             *)
LEMMA UnlinkedLists ==
  ASSUME NEW S, NEW list, Lists(list, S), NEW page, NEW n \in Nat
  PROVE  Lists(Unlinked(list, page, n), S \ {<<page, i>> : i \in 0 .. n - 1})
<1> DEFINE B == {s \in Seq(S) : \E T \in SUBSET S : Lists(s, T)}
           without(s, i) == RemoveFirst(s, <<page, i>>)
           step == [i \in 0 .. n - 1 |-> [s \in B |-> without(s, i)]]
           body(f) == [i \in 0 .. n |->
                          IF i = 0 THEN list ELSE without(f[i - 1], i - 1)]
<1>1. list \in B
  BY DEF Lists
<1>2. ASSUME NEW s \in B, NEW i PROVE without(s, i) \in B
  <2>1. PICK T \in SUBSET S : Lists(s, T)
    OBVIOUS
  <2>2. Lists(without(s, i), T \ {<<page, i>>})
    BY <2>1, RemoveFirstLists
  <2> HIDE DEF without
  <2>3. without(s, i) \in Seq(T \ {<<page, i>>})
    BY <2>2 DEF Lists
  <2>4. without(s, i) \in Seq(S)
    BY <2>3
  <2>5. QED
    BY <2>2, <2>4
<1> HIDE DEF without, B
<1>3. step \in [0 .. n - 1 -> [B -> B]]
  BY <1>2
<1>4. PICK f : Recursion(f, n, B, list, step)
  <2> HIDE DEF step
  <2> QED BY <1>1, <1>3, RecursionTo, Zenon
<1>5. \A i \in 0 .. n : f[i] = IF i = 0 THEN list ELSE without(f[i - 1], i - 1)
  <2> TAKE i \in 0 .. n
  <2>1. CASE i = 0
    BY <2>1, <1>4 DEF Recursion
  <2>2. CASE i # 0
    <3>1. i - 1 \in 0 .. n - 1 /\ f[i - 1] \in B
      BY <2>2, <1>4 DEF Recursion
    <3>2. step[i - 1][f[i - 1]] = without(f[i - 1], i - 1)
      BY <3>1
    <3> HIDE DEF step
    <3>3. f[i] = step[i - 1][f[i - 1]]
      BY <2>2, <1>4 DEF Recursion
    <3> QED BY <2>2, <3>2, <3>3
  <2> QED BY <2>1, <2>2
<1>6. f = body(f)
  <2> HIDE DEF step
  <2> QED BY <1>4, <1>5 DEF Recursion
<1> DEFINE rest == CHOOSE g : g = body(g)
<1>7. Unlinked(list, page, n) = rest[n]
  BY Zenon DEF Unlinked, without
<1>8. rest = body(rest)
  <2> HIDE DEF body
  <2> QED BY <1>6
<1>9. \A i \in 0 .. n : rest[i] = IF i = 0 THEN list ELSE without(rest[i - 1], i - 1)
  <2> HIDE DEF rest
  <2> QED BY <1>8
<1> HIDE DEF rest, body
<1> DEFINE Left(i) == S \ {<<page, k>> : k \in 0 .. i - 1}
           Done == {i \in 0 .. n : Lists(rest[i], Left(i))}
<1>10. 0 \in Done
  <2>1. Left(0) = S
    OBVIOUS
  <2> HIDE DEF Left
  <2>2. rest[0] = list
    BY <1>9
  <2>3. QED
    BY <2>1, <2>2
<1>11. ASSUME NEW i \in 0 .. n - 1, i \in Done PROVE i + 1 \in Done
  <2>1. i + 1 \in 0 .. n /\ i + 1 # 0 /\ (i + 1) - 1 = i
    OBVIOUS
  <2>2. rest[i + 1] = RemoveFirst(rest[i], <<page, i>>)
    BY <1>9, <2>1 DEF without
  <2>3. Left(i + 1) = Left(i) \ {<<page, i>>}
    OBVIOUS
  <2> HIDE DEF Left
  <2>4. Lists(rest[i + 1], Left(i) \ {<<page, i>>})
    BY <1>11, <2>2, RemoveFirstLists
  <2>5. QED
    BY <2>1, <2>3, <2>4
<1>12. 0 .. n \subseteq Done
  <2> HIDE DEF Done
  <2> QED BY <1>10, <1>11, InductionTo
<1>13. Lists(rest[n], Left(n))
  BY <1>12
<1>14. QED
  BY <1>7, <1>13, Zenon DEF Left

-----------------------------------------------------------------------------
(* A new arena: its page was nobody's.                                     *)
LEMMA NobodysBlocks ==
  ASSUME HeapInv, NEW p \in PageIndices, desc[p] = "none"
  PROVE  \A x \in live : x[1] # p
BY BlocksPoints DEF HeapInv, BlocksSound

LEMMA ScannedPages ==
  ASSUME HeapInv, NEW n \in Nat \ {0}, Scan(n) # EOF
  PROVE  /\ Scan(n) \in PageIndices
         /\ Span(Scan(n), n) \subseteq {p \in PageIndices : ~ used[p]}
         /\ desc[Scan(n)] = "none"
         /\ \A r \in taken : r[1] # Scan(n)
         /\ \A x \in live : x[1] # Scan(n)
         /\ Marked(Span(Scan(n), n), TRUE) \in [PageIndices -> BOOLEAN]
<1> DEFINE s == Scan(n)
<1>0. MapPages \in Nat /\ MaxCount \in Nat /\ n \in Nat /\ n >= 1
  BY KernelHeapAssumption DEF KernelHeapAssumption
<1>1. s \in PageIndices /\ Span(s, n) \subseteq {p \in PageIndices : ~ used[p]}
  BY FirstFits
<1> HIDE DEF s
<1>2. s \in Span(s, n) /\ ~ used[s]
  BY <1>0, <1>1 DEF Span, PageIndices
<1>3. desc[s] = "none" /\ \A r \in taken : r[1] # s
  BY <1>1, <1>2, ClearIsNobodys DEF HeapInv
<1>4. \A x \in live : x[1] # s
  BY <1>1, <1>3, NobodysBlocks
<1>5. Marked(Span(s, n), TRUE) \in [PageIndices -> BOOLEAN]
  BY DEF Marked, HeapInv, HeapTypeOK
<1>6. QED
  BY <1>1, <1>3, <1>4, <1>5 DEF s

LEMMA KmallocNewStep ==
  ASSUME HeapInv, NEW c \in Classes, KmallocNew(c)
  PROVE  HeapInv'
<1>0. PICK p : p = Scan(1)
  OBVIOUS
<1>1. PICK new : new = NewList(p, c)
  OBVIOUS
<1>2. /\ freeList[c] = <<>> /\ Scan(1) # EOF
      /\ used' = Marked({p}, TRUE)
      /\ desc' = [desc EXCEPT ![p] = c]
      /\ count' = [count EXCEPT ![p] = TotalBlock[c] - 1]
      /\ live' = live \cup {Head(new)}
      /\ freeList' = [freeList EXCEPT ![c] = Tail(new)]
      /\ UNCHANGED <<taken, panicked>>
  BY <1>0, <1>1 DEF KmallocNew
<1>3. /\ p \in PageIndices /\ Span(p, 1) \subseteq {q \in PageIndices : ~ used[q]}
      /\ desc[p] = "none" /\ \A r \in taken : r[1] # p
      /\ \A x \in live : x[1] # p
      /\ Marked(Span(p, 1), TRUE) \in [PageIndices -> BOOLEAN]
  <2>1. 1 \in Nat \ {0}
    OBVIOUS
  <2>2. QED
    BY <1>0, <1>2, <2>1, ScannedPages
<1>4. Span(p, 1) = {p}
  BY <1>3, KernelHeapAssumption DEF Span, PageIndices, KernelHeapAssumption
<1>5. /\ "none" \notin Classes /\ "large" \notin Classes
      /\ TotalBlock[c] \in Nat /\ TotalBlock[c] - 1 \in Nat
      /\ TotalBlock[c] - 1 < TotalBlock[c]
  BY KernelHeapAssumption DEF KernelHeapAssumption
<1>6. /\ Lists(new, Cut(p, c)) /\ new # <<>>
      /\ IsFiniteSet(Cut(p, c)) /\ Cardinality(Cut(p, c)) = TotalBlock[c]
  BY <1>1, <1>3, NewLists
<1>7. PICK b : b = Head(new)
  OBVIOUS
<1>8. b \in Cut(p, c) /\ Lists(Tail(new), Cut(p, c) \ {b})
  BY <1>6, <1>7, TailLists
<1>9. Cardinality(Cut(p, c) \ {b}) = TotalBlock[c] - 1
  BY <1>6, <1>8, FS_RemoveElement
<1>10. /\ \A q \in PageIndices : desc'[q] = IF q = p THEN c ELSE desc[q]
       /\ \A q \in PageIndices : count'[q] = IF q = p THEN TotalBlock[c] - 1 ELSE count[q]
       /\ desc' \in [PageIndices -> Classes \cup {"large", "none"}]
       /\ count' \in [PageIndices -> Nat]
       /\ \A d \in Classes : freeList'[d] = IF d = c THEN Tail(new) ELSE freeList[d]
       /\ freeList' = [d \in Classes |-> freeList'[d]]
  BY <1>2, <1>3, <1>5 DEF HeapInv, HeapTypeOK
<1>11. BlocksOf(p)' = Cut(p, c) /\ \A x \in Cut(p, c) : x[1] = p
  BY <1>3, <1>10 DEF BlocksOf, Cut
<1>12. BlocksOf(p)' \ live' = Cut(p, c) \ {b}
  BY <1>2, <1>3, <1>7, <1>11
<1>13. FreeOf(c)' = Cut(p, c) \ {b}
  <2>1. FreeOf(c) = {}
    <3>1. Lists(<<>>, FreeOf(c))
      BY <1>2 DEF HeapInv, BlocksSound
    <3>2. \A x : x \notin FreeOf(c)
      BY <3>1 DEF Lists
    <3>3. QED
      BY <3>2
  <2>2. \A q \in PageIndices \ {p} : BlocksOf(q)' = BlocksOf(q)
    BY <1>10 DEF BlocksOf
  <2>3. \A x : x[1] # p => (x \in live' <=> x \in live)
    BY <1>2, <1>7, <1>8, <1>11
  <2>4. ASSUME NEW x, x[1] # p PROVE x \notin FreeOf(c)'
    <3> SUFFICES ASSUME x \in FreeOf(c)' PROVE FALSE
      OBVIOUS
    <3>1. PICK q \in PageIndices : q = x[1]
      BY FreePointsAfter
    <3>2. desc'[q] = c /\ x \in BlocksOf(q)' /\ x \notin live'
      BY <3>1, FreePointsAfter
    <3>3. desc[q] = c /\ x \in BlocksOf(q) /\ x \notin live
      BY <1>10, <2>2, <2>3, <2>4, <3>1, <3>2
    <3>4. x \in FreeOf(c)
      BY <3>1, <3>3, FreePoints
    <3>5. QED
      BY <2>1, <3>4
  <2>5. \A x : x \in FreeOf(c)' <=> x[1] = p /\ x \in BlocksOf(p)' \ live'
    BY <1>3, <1>10, <2>4, FreePointsAfter
  <2>6. \A x \in Cut(p, c) \ {b} : x[1] = p
    BY <1>11
  <2>7. \A x : x \in FreeOf(c)' <=> x \in Cut(p, c) \ {b}
    BY <1>12, <2>5, <2>6
  <2>8. QED
    BY <2>7
<1>14. BlocksSound'
  <2>1. /\ \A q \in PageIndices \ {p} : desc'[q] = desc[q] /\ count'[q] = count[q]
        /\ {desc[p], desc'[p]} \cap Classes \subseteq {c}
        /\ \A d \in Classes \ {c} : freeList'[d] = freeList[d]
    BY <1>3, <1>5, <1>10
  <2>2. /\ \A x : x[1] # p => (x \in live' <=> x \in live)
        /\ \A x \in live' : x[1] = p => x \in BlocksOf(p)'
    BY <1>2, <1>3, <1>7, <1>8, <1>11
  <2>3. Lists(freeList'[c], FreeOf(c)')
    BY <1>8, <1>10, <1>13
  <2>4. count'[p] = Cardinality(BlocksOf(p)' \ live') /\ count'[p] < TotalBlock[desc'[p]]
    BY <1>3, <1>5, <1>9, <1>10, <1>12
  <2>5. QED
    BY <1>3, <2>1, <2>2, <2>3, <2>4, BlocksStep
<1>15. HeapTypeOK'
  <2>1. freeList' \in [Classes -> Seq(Blocks)] /\ live' \subseteq Blocks
    BY <1>10, <1>14, BlocksTyped
  <2>2. used' \in [PageIndices -> BOOLEAN]
    BY <1>2, <1>3, <1>4
  <2>3. QED
    BY <1>2, <1>10, <2>1, <2>2 DEF HeapInv, HeapTypeOK
<1>16. \A r : r \in Runs' <=> r \in Runs \/ r = <<p, 1>>
  <2>1. \A q \in PageIndices \ {p} : desc'[q] = desc[q] /\ count'[q] = count[q]
    BY <1>10
  <2>2. desc[p] = "none" /\ desc'[p] = c /\ taken' = taken
    BY <1>2, <1>3, <1>10
  <2>3. QED
    BY <1>3, <1>5, <2>1, <2>2 DEF Runs
<1>17. Tiled'
  BY <1>2, <1>3, <1>4, <1>16, TiledPages, AddRun DEF HeapInv
<1>18. PagesExact' /\ RunsShape'
  <2>1. \A r \in taken' : desc'[r[1]] = "none"
    BY <1>2, <1>3, <1>10, TiledPages DEF HeapInv, RunsShape
  <2>2. RunsShape'
    BY <1>2, <1>5, <1>10 DEF HeapInv, RunsShape
  <2>3. QED
    BY <1>17, <2>1, <2>2 DEF PagesExact, Tiled
<1>19. QED
  BY <1>14, <1>15, <1>18 DEF HeapInv

LEMMA KmallocLargeStep ==
  ASSUME HeapInv, NEW n \in 1 .. MaxCount, KmallocLarge(n)
  PROVE  HeapInv'
<1>0. PICK p : p = Scan(n)
  OBVIOUS
<1>1. /\ Scan(n) # EOF
      /\ used' = Marked(Span(p, n), TRUE)
      /\ desc' = [desc EXCEPT ![p] = "large"]
      /\ count' = [count EXCEPT ![p] = n]
      /\ live' = live \cup {<<p, 0>>}
      /\ UNCHANGED <<freeList, taken, panicked>>
  BY <1>0 DEF KmallocLarge
<1>2. n \in Nat \ {0} /\ "large" \notin Classes /\ "none" \notin Classes /\ "large" # "none"
  BY KernelHeapAssumption DEF KernelHeapAssumption
<1>3. /\ p \in PageIndices /\ Span(p, n) \subseteq {q \in PageIndices : ~ used[q]}
      /\ desc[p] = "none" /\ \A r \in taken : r[1] # p
      /\ \A x \in live : x[1] # p
      /\ Marked(Span(p, n), TRUE) \in [PageIndices -> BOOLEAN]
  BY <1>0, <1>1, <1>2, ScannedPages
<1>4. /\ \A q \in PageIndices : desc'[q] = IF q = p THEN "large" ELSE desc[q]
      /\ \A q \in PageIndices : count'[q] = IF q = p THEN n ELSE count[q]
      /\ desc' \in [PageIndices -> Classes \cup {"large", "none"}]
      /\ count' \in [PageIndices -> Nat]
  BY <1>1, <1>2, <1>3 DEF HeapInv, HeapTypeOK
<1>5. BlocksOf(p)' = {<<p, 0>>}
  BY <1>2, <1>3, <1>4 DEF BlocksOf
<1>6. BlocksSound'
  <2>1. /\ \A q \in PageIndices \ {p} : desc'[q] = desc[q] /\ count'[q] = count[q]
        /\ {desc[p], desc'[p]} \cap Classes \subseteq {"large"}
        /\ \A d \in Classes \ {"large"} : freeList'[d] = freeList[d]
        /\ "large" \notin Classes /\ desc'[p] \notin Classes
    BY <1>1, <1>2, <1>3, <1>4
  <2>2. /\ \A x : x[1] # p => (x \in live' <=> x \in live)
        /\ \A x \in live' : x[1] = p => x \in BlocksOf(p)'
    BY <1>1, <1>3, <1>5
  <2>3. QED
    BY <1>3, <2>1, <2>2, BlocksStep
<1>7. HeapTypeOK'
  <2>1. live' \subseteq Blocks
    BY <1>6, BlocksTyped
  <2>2. QED
    BY <1>1, <1>3, <1>4, <2>1 DEF HeapInv, HeapTypeOK
<1>8. \A r : r \in Runs' <=> r \in Runs \/ r = <<p, n>>
  <2>1. /\ \A q \in PageIndices \ {p} : desc'[q] = desc[q] /\ count'[q] = count[q]
        /\ desc[p] = "none" /\ desc'[p] = "large" /\ count'[p] = n /\ taken' = taken
    BY <1>1, <1>3, <1>4
  <2>2. QED
    BY <1>2, <1>3, <2>1 DEF Runs
<1>9. Tiled'
  BY <1>1, <1>3, <1>8, TiledPages, AddRun DEF HeapInv
<1>10. PagesExact' /\ RunsShape'
  <2>1. \A r \in taken' : desc'[r[1]] = "none"
    BY <1>1, <1>3, <1>4, TiledPages DEF HeapInv, RunsShape
  <2>2. RunsShape'
    BY <1>1, <1>4 DEF HeapInv, RunsShape
  <2>3. QED
    BY <1>9, <2>1, <2>2 DEF PagesExact, Tiled
<1>11. QED
  BY <1>6, <1>7, <1>10 DEF HeapInv

-----------------------------------------------------------------------------
(* The block that kfree is called with belongs to its page.                *)
LEMMA LivePage ==
  ASSUME HeapInv, NEW b \in live
  PROVE  /\ b[1] \in PageIndices /\ b \in BlocksOf(b[1])
         /\ desc[b[1]] \in Classes \cup {"large"}
<1>1. b[1] \in PageIndices /\ b \in BlocksOf(b[1])
  BY DEF HeapInv, BlocksSound
<1>2. QED
  BY <1>1, BlocksPoints DEF HeapInv, HeapTypeOK

LEMMA KfreeSomeStep ==
  ASSUME HeapInv, NEW b \in live, desc[b[1]] \in Classes,
         live' = live \ {b}, KfreeSome(b), UNCHANGED <<taken, panicked>>
  PROVE  HeapInv'
<1>1. PICK p \in PageIndices : p = b[1] /\ b \in BlocksOf(p)
  BY LivePage
<1>2. PICK c \in Classes : c = desc[p]
  BY <1>1
<1>3. /\ count[p] + 1 # TotalBlock[c]
      /\ freeList' = [freeList EXCEPT ![c] = <<b>> \o @]
      /\ count' = [count EXCEPT ![p] = @ + 1]
      /\ UNCHANGED <<used, desc>>
  BY <1>1, <1>2 DEF KfreeSome
<1>4. /\ IsFiniteSet(BlocksOf(p) \ live)
      /\ count[p] = Cardinality(BlocksOf(p) \ live)
      /\ count[p] \in Nat /\ TotalBlock[c] \in Nat /\ count[p] < TotalBlock[c]
  BY <1>2, ArenaCounts DEF HeapInv, BlocksSound
<1>5. /\ Cardinality((BlocksOf(p) \ live) \cup {b}) = count[p] + 1
      /\ count[p] + 1 \in Nat /\ count[p] + 1 < TotalBlock[c]
  <2> DEFINE S == BlocksOf(p) \ live
  <2>1. IsFiniteSet(S) /\ b \notin S /\ count[p] = Cardinality(S)
    BY <1>4
  <2> HIDE DEF S
  <2>2. Cardinality(S \cup {b}) = Cardinality(S) + 1
    BY <2>1, FS_AddElement
  <2>3. QED
    BY <1>3, <1>4, <2>1, <2>2 DEF S
<1>6. /\ \A q \in PageIndices : BlocksOf(q)' = BlocksOf(q)
      /\ \A q \in PageIndices : count'[q] = IF q = p THEN count[p] + 1 ELSE count[q]
      /\ count' \in [PageIndices -> Nat]
      /\ \A d \in Classes : freeList'[d] = IF d = c THEN <<b>> \o freeList[c] ELSE freeList[d]
      /\ freeList' = [d \in Classes |-> freeList'[d]]
  BY <1>3, <1>5 DEF HeapInv, HeapTypeOK, BlocksOf
<1>7. FreeOf(c)' = FreeOf(c) \cup {b}
  <2>1. \A x : x \in FreeOf(c)' <=> x \in FreeOf(c) \/ x = b
    <3>1. \A x : x \in FreeOf(c)' <=> /\ x[1] \in PageIndices /\ desc[x[1]] = c
                                      /\ x \in BlocksOf(x[1]) /\ (x \notin live \/ x = b)
      BY <1>3, <1>6, FreePointsAfter
    <3>2. QED
      BY <1>1, <1>2, <3>1, FreePoints
  <2>2. QED
    BY <2>1
<1>8. BlocksSound'
  <2>1. b \notin FreeOf(c)
    BY FreePoints
  <2>2. Lists(freeList[c], FreeOf(c))
    BY DEF HeapInv, BlocksSound
  <2>3. Lists(freeList'[c], FreeOf(c)')
    <3>1. Lists(<<b>> \o freeList[c], FreeOf(c) \cup {b})
      BY <2>1, <2>2, PushLists
    <3>2. freeList'[c] = <<b>> \o freeList[c]
      BY <1>6
    <3>3. QED
      BY <1>7, <3>1, <3>2, Zenon
  <2>4. /\ \A q \in PageIndices \ {p} : desc'[q] = desc[q] /\ count'[q] = count[q]
        /\ {desc[p], desc'[p]} \cap Classes \subseteq {c}
        /\ \A d \in Classes \ {c} : freeList'[d] = freeList[d]
    BY <1>2, <1>3, <1>6
  <2>5. /\ \A x : x[1] # p => (x \in live' <=> x \in live)
        /\ \A x \in live' : x[1] = p => x \in BlocksOf(p)'
    BY <1>1, <1>6 DEF HeapInv, BlocksSound
  <2>6. BlocksOf(p)' \ live' = (BlocksOf(p) \ live) \cup {b}
    BY <1>1, <1>6
  <2>7. count'[p] = Cardinality(BlocksOf(p)' \ live') /\ count'[p] < TotalBlock[desc'[p]]
    BY <1>2, <1>3, <1>5, <1>6, <2>6
  <2>8. QED
    BY <2>3, <2>4, <2>5, <2>7, BlocksStep
<1>9. HeapTypeOK'
  <2>1. freeList' \in [Classes -> Seq(Blocks)] /\ live' \subseteq Blocks
    BY <1>6, <1>8, BlocksTyped
  <2>2. QED
    BY <1>3, <1>6, <2>1 DEF HeapInv, HeapTypeOK
<1>10. PagesExact' /\ RunsShape'
  <2>1. \A q \in PageIndices : desc[q] = "large" => count'[q] = count[q]
    BY <1>2, <1>6, KernelHeapAssumption DEF KernelHeapAssumption
  <2>2. QED
    BY <1>3, <2>1, PagesUntouched
<1>11. QED
  BY <1>8, <1>9, <1>10 DEF HeapInv

LEMMA KfreeLastStep ==
  ASSUME HeapInv, NEW b \in live, desc[b[1]] \in Classes,
         live' = live \ {b}, KfreeLast(b), UNCHANGED <<taken, panicked>>
  PROVE  HeapInv'
<1>1. PICK p \in PageIndices : p = b[1] /\ b \in BlocksOf(p)
  BY LivePage
<1>2. PICK c \in Classes : c = desc[p]
  BY <1>1
<1>3. PICK rest : rest = Unlinked(<<b>> \o freeList[c], p, TotalBlock[c])
  OBVIOUS
<1>4. /\ count[p] + 1 = TotalBlock[c]
      /\ freeList' = [freeList EXCEPT ![c] = rest]
      /\ used' = Marked({p}, FALSE)
      /\ desc' = [desc EXCEPT ![p] = "none"]
      /\ count' = [count EXCEPT ![p] = 0]
  BY <1>1, <1>2, <1>3 DEF KfreeLast
<1>5. "none" \notin Classes /\ "large" \notin Classes /\ TotalBlock[c] \in Nat
  BY KernelHeapAssumption DEF KernelHeapAssumption
<1>6. BlocksOf(p) = Cut(p, c) /\ \A x \in Cut(p, c) : x[1] = p
  BY <1>2, BlocksPoints
<1>7. \A x \in live : x[1] = p => x = b
  <2> DEFINE S == BlocksOf(p) \ live
  <2>1. /\ IsFiniteSet(BlocksOf(p)) /\ Cardinality(BlocksOf(p)) = TotalBlock[c]
        /\ IsFiniteSet(S) /\ Cardinality(S) = count[p] /\ count[p] \in Nat
    BY <1>2, ArenaCounts
  <2>2. b \notin S /\ S \cup {b} \subseteq BlocksOf(p)
    BY <1>1
  <2>3. \A x \in live : x[1] = p => x \in BlocksOf(p) /\ x \notin S
    BY DEF HeapInv, BlocksSound
  <2> HIDE DEF S
  <2>4. Cardinality(S \cup {b}) = Cardinality(BlocksOf(p))
    <3>1. Cardinality(S \cup {b}) = Cardinality(S) + 1
      BY <2>1, <2>2, FS_AddElement
    <3>2. QED
      BY <1>4, <2>1, <3>1
  <2>5. S \cup {b} = BlocksOf(p)
    BY <2>1, <2>2, <2>4, FS_Subset
  <2>6. QED
    BY <2>3, <2>5
<1>8. /\ \A q \in PageIndices : desc'[q] = IF q = p THEN "none" ELSE desc[q]
      /\ \A q \in PageIndices : count'[q] = IF q = p THEN 0 ELSE count[q]
      /\ desc' \in [PageIndices -> Classes \cup {"large", "none"}]
      /\ count' \in [PageIndices -> Nat]
      /\ \A d \in Classes : freeList'[d] = IF d = c THEN rest ELSE freeList[d]
      /\ freeList' = [d \in Classes |-> freeList'[d]]
  BY <1>4 DEF HeapInv, HeapTypeOK
<1>9. Lists(rest, (FreeOf(c) \cup {b}) \ Cut(p, c))
  <2>1. b \notin FreeOf(c) /\ Lists(freeList[c], FreeOf(c))
    BY FreePoints DEF HeapInv, BlocksSound
  <2>2. Lists(<<b>> \o freeList[c], FreeOf(c) \cup {b})
    BY <2>1, PushLists
  <2>3. QED
    BY <1>3, <1>5, <2>2, UnlinkedLists DEF Cut
<1>10. FreeOf(c)' = (FreeOf(c) \cup {b}) \ Cut(p, c)
  <2>1. \A q \in PageIndices \ {p} : BlocksOf(q)' = BlocksOf(q)
    BY <1>8 DEF BlocksOf
  <2>2. ASSUME NEW x \in FreeOf(c)' PROVE x \in FreeOf(c) \ Cut(p, c)
    <3>1. PICK q \in PageIndices : q = x[1]
      BY FreePointsAfter
    <3>2. desc'[q] = c /\ x \in BlocksOf(q)' /\ x \notin live'
      BY <3>1, FreePointsAfter
    <3>3. q # p
      BY <1>5, <1>8, <3>2
    <3>4. desc[q] = c /\ x \in BlocksOf(q) /\ x \notin live
      BY <1>1, <1>8, <2>1, <3>1, <3>2, <3>3
    <3>5. QED
      BY <1>6, <3>1, <3>3, <3>4, FreePoints
  <2>3. ASSUME NEW x \in FreeOf(c) \ Cut(p, c) PROVE x \in FreeOf(c)'
    <3>1. PICK q \in PageIndices : q = x[1]
      BY FreePoints
    <3>2. desc[q] = c /\ x \in BlocksOf(q) /\ x \notin live
      BY <3>1, FreePoints
    <3>3. q # p
      BY <1>6, <3>2
    <3>4. QED
      BY <1>8, <2>1, <3>1, <3>2, <3>3, FreePointsAfter
  <2>4. b \in Cut(p, c)
    BY <1>1, <1>6
  <2>5. \A x : x \in FreeOf(c)' <=> x \in (FreeOf(c) \cup {b}) \ Cut(p, c)
    BY <2>2, <2>3, <2>4
  <2>6. QED
    BY <2>5
<1>11. BlocksSound'
  <2>1. /\ \A q \in PageIndices \ {p} : desc'[q] = desc[q] /\ count'[q] = count[q]
        /\ {desc[p], desc'[p]} \cap Classes \subseteq {c}
        /\ \A d \in Classes \ {c} : freeList'[d] = freeList[d]
        /\ desc'[p] \notin Classes
    BY <1>2, <1>5, <1>8
  <2>2. /\ \A x : x[1] # p => (x \in live' <=> x \in live)
        /\ \A x \in live' : x[1] = p => x \in BlocksOf(p)'
    BY <1>1, <1>7
  <2>3. Lists(freeList'[c], FreeOf(c)')
    BY <1>8, <1>9, <1>10
  <2>4. QED
    BY <2>1, <2>2, <2>3, BlocksStep
<1>12. HeapTypeOK'
  <2>1. freeList' \in [Classes -> Seq(Blocks)] /\ live' \subseteq Blocks
    BY <1>8, <1>11, BlocksTyped
  <2>2. used' \in [PageIndices -> BOOLEAN]
    BY <1>4 DEF Marked, HeapInv, HeapTypeOK
  <2>3. QED
    BY <1>8, <2>1, <2>2 DEF HeapInv, HeapTypeOK
<1>13. PICK d : d = <<p, 1>>
  OBVIOUS
<1>14. d \in Runs /\ \A r : r \in Runs' <=> r \in Runs /\ r # d
  <2>1. /\ \A q \in PageIndices \ {p} : desc'[q] = desc[q] /\ count'[q] = count[q]
        /\ desc[p] = c /\ desc'[p] = "none" /\ taken' = taken
    BY <1>2, <1>8
  <2>2. \A r \in taken : r[1] # p
    BY <1>2, <1>5, TiledPages DEF HeapInv
  <2>3. QED
    BY <1>5, <1>13, <2>1, <2>2 DEF Runs
<1>15. Tiled'
  <2>1. Span(d[1], d[2]) = {p}
    BY <1>13, KernelHeapAssumption DEF Span, PageIndices, KernelHeapAssumption
  <2>2. QED
    BY <1>4, <1>14, <2>1, TiledPages, DropRun DEF HeapInv
<1>16. PagesExact' /\ RunsShape'
  <2>1. \A r \in taken' : desc'[r[1]] = "none"
    BY <1>8, TiledPages DEF HeapInv, RunsShape
  <2>2. RunsShape'
    BY <1>8 DEF HeapInv, RunsShape
  <2>3. QED
    BY <1>15, <2>1, <2>2 DEF PagesExact, Tiled
<1>17. QED
  BY <1>11, <1>12, <1>16 DEF HeapInv

LEMMA KfreeLargeStep ==
  ASSUME HeapInv, NEW b \in live, desc[b[1]] = "large",
         live' = live \ {b}, KfreeLarge(b), UNCHANGED <<taken, panicked>>
  PROVE  HeapInv'
<1>1. PICK p \in PageIndices : p = b[1] /\ b \in BlocksOf(p)
  BY LivePage
<1>2. PICK n : n = count[p]
  OBVIOUS
<1>3. /\ freeList' = freeList
      /\ used' = Marked(Span(p, n), FALSE)
      /\ desc' = [desc EXCEPT ![p] = "none"]
      /\ count' = [count EXCEPT ![p] = 0]
  BY <1>1, <1>2 DEF KfreeLarge
<1>4. "none" \notin Classes /\ "large" \notin Classes /\ "none" # "large"
  BY KernelHeapAssumption DEF KernelHeapAssumption
<1>5. \A x \in live : x[1] = p => x = b
  BY <1>1, BlocksPoints DEF HeapInv, BlocksSound
<1>6. /\ \A q \in PageIndices : desc'[q] = IF q = p THEN "none" ELSE desc[q]
      /\ \A q \in PageIndices : count'[q] = IF q = p THEN 0 ELSE count[q]
      /\ desc' \in [PageIndices -> Classes \cup {"large", "none"}]
      /\ count' \in [PageIndices -> Nat]
  BY <1>3 DEF HeapInv, HeapTypeOK
<1>7. BlocksSound'
  <2>1. /\ \A q \in PageIndices \ {p} : desc'[q] = desc[q] /\ count'[q] = count[q]
        /\ {desc[p], desc'[p]} \cap Classes \subseteq {"large"}
        /\ \A d \in Classes \ {"large"} : freeList'[d] = freeList[d]
        /\ "large" \notin Classes /\ desc'[p] \notin Classes
    BY <1>1, <1>3, <1>4, <1>6
  <2>2. /\ \A x : x[1] # p => (x \in live' <=> x \in live)
        /\ \A x \in live' : x[1] = p => x \in BlocksOf(p)'
    BY <1>1, <1>5
  <2>3. QED
    BY <2>1, <2>2, BlocksStep
<1>8. HeapTypeOK'
  <2>1. live' \subseteq Blocks
    BY <1>7, BlocksTyped
  <2>2. used' \in [PageIndices -> BOOLEAN]
    BY <1>3 DEF Marked, HeapInv, HeapTypeOK
  <2>3. QED
    BY <1>3, <1>6, <2>1, <2>2 DEF HeapInv, HeapTypeOK
<1>9. PICK d : d = <<p, n>>
  OBVIOUS
<1>10. d \in Runs /\ \A r : r \in Runs' <=> r \in Runs /\ r # d
  <2>1. /\ \A q \in PageIndices \ {p} : desc'[q] = desc[q] /\ count'[q] = count[q]
        /\ desc[p] = "large" /\ desc'[p] = "none" /\ taken' = taken
    BY <1>1, <1>6
  <2>2. \A r \in taken : r[1] # p
    BY <1>1, <1>4, TiledPages DEF HeapInv
  <2>3. QED
    BY <1>2, <1>4, <1>9, <2>1, <2>2 DEF Runs
<1>11. Tiled'
  BY <1>3, <1>9, <1>10, TiledPages, DropRun DEF HeapInv
<1>12. PagesExact' /\ RunsShape'
  <2>1. \A r \in taken' : desc'[r[1]] = "none"
    BY <1>6, TiledPages DEF HeapInv, RunsShape
  <2>2. RunsShape'
    BY <1>6 DEF HeapInv, RunsShape
  <2>3. QED
    BY <1>11, <2>1, <2>2 DEF PagesExact, Tiled
<1>13. QED
  BY <1>7, <1>8, <1>12 DEF HeapInv

LEMMA HeapStep ==
  ASSUME HeapInv, [HeapNext]_heapVars
  PROVE  HeapInv'
<1>1. CASE \E n \in 1 .. MaxCount : AllocKpage(n) \/ KmallocLarge(n)
  BY <1>1, AllocStep, KmallocLargeStep
<1>2. CASE \E run \in taken : FreeKpage(run)
  BY <1>2, FreeStep
<1>3. CASE \E c \in Classes : Kmalloc(c) \/ KmallocNew(c)
  BY <1>3, KmallocStep, KmallocNewStep
<1>4. ASSUME NEW b \in live, Kfree(b) PROVE HeapInv'
  <2>1. live' = live \ {b} /\ UNCHANGED <<taken, panicked>>
    BY <1>4 DEF Kfree
  <2>2. CASE desc[b[1]] = "large"
    BY <1>4, <2>1, <2>2, KfreeLargeStep DEF Kfree
  <2>3. CASE desc[b[1]] # "large"
    <3>1. desc[b[1]] \in Classes
      BY <2>3, LivePage
    <3>2. KfreeLast(b) \/ KfreeSome(b)
      BY <1>4, <2>3 DEF Kfree
    <3>3. QED
      BY <2>1, <3>1, <3>2, KfreeLastStep, KfreeSomeStep
  <2>4. QED
    BY <2>2, <2>3
<1>5. CASE Panic
  <2>1. UNCHANGED <<used, desc, count, freeList, live, taken>> /\ panicked' = TRUE
    BY <1>5 DEF Panic
  <2>2. PagesExact' /\ RunsShape'
    BY <2>1, PagesUntouched
  <2>3. BlocksSound'
    BY <2>1, BlocksUntouched DEF HeapInv
  <2>4. HeapTypeOK'
    BY <2>1 DEF HeapInv, HeapTypeOK
  <2>5. QED
    BY <2>2, <2>3, <2>4 DEF HeapInv
<1>6. CASE UNCHANGED heapVars
  <2>1. UNCHANGED <<used, desc, count, freeList, live, taken, panicked>>
    BY <1>6 DEF heapVars
  <2>2. PagesExact' /\ RunsShape'
    BY <2>1, PagesUntouched
  <2>3. BlocksSound'
    BY <2>1, BlocksUntouched DEF HeapInv
  <2>4. HeapTypeOK'
    BY <2>1 DEF HeapInv, HeapTypeOK
  <2>5. QED
    BY <2>2, <2>3, <2>4 DEF HeapInv
<1>7. QED
  BY <1>1, <1>2, <1>3, <1>4, <1>5, <1>6 DEF HeapNext

(* Bitmap, free lists and counts agree, for any number of pages and sizes  *)
(* of blocks: no page or block is given out twice, and none is lost.       *)
THEOREM HeapExactCorrect == HeapSpec => []HeapExact
<1>1. HeapSpec => []HeapInv
  BY HeapInitial, HeapStep, PTL DEF HeapSpec
<1>2. QED
  BY <1>1, HeapInvExact, PTL

(* The search of the bitmap finds the first run of clear pages that is     *)
(* long enough, if there is one.                                           *)
THEOREM FirstFitCorrect == HeapSpec => []FirstFit
<1>1. FirstFit
  <2>1. \A n \in 1 .. MaxCount : n \in Nat \ {0}
    BY KernelHeapAssumption DEF KernelHeapAssumption
  <2>2. QED
    BY <2>1, FirstFits DEF FirstFit
<1>2. QED
  BY <1>1, PTL
=============================================================================
