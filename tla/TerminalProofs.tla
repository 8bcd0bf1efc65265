--------------------------- MODULE TerminalProofs ---------------------------
(***************************************************************************)
(* Proofs about the terminal of SoulOS.  First the keyboard, Keyboard.tla, *)
(* for any keymap, any ring and any number of readers: what LockProofs.tla *)
(* proves of the lock is used for the lock of the keyboard, LP is the same *)
(* lock as L.  Then the console, Console.tla, for any size of the window   *)
(* and of the memory.                                                      *)
(***************************************************************************)
EXTENDS Keyboard, Console, DataLemmas, SequenceTheorems

LP == INSTANCE LockProofs WITH MaxDepth <- 1

Threads == L!Threads

LEMMA Slots ==
    /\ L!Idle \in Threads /\ L!Boot \notin Threads /\ L!None \notin Threads
    /\ Threads \subseteq Nat
BY KeyboardAssumption DEF KeyboardAssumption, Threads, L!Threads, L!Idle, L!Boot, L!None

(* LP and L are one lock.                                                  *)
LEMMA SameNames ==
    /\ LP!Threads = Threads /\ LP!Idle = L!Idle
    /\ LP!Boot = L!Boot /\ LP!None = L!None
BY DEF Threads, LP!Threads, L!Threads, LP!Idle, L!Idle, LP!Boot, L!Boot, LP!None, L!None

LEMMA SameReschedule ==
  ASSUME NEW st
  PROVE  LP!D!Reschedule(st) <=> L!D!Reschedule(st)
BY DEF LP!D!Reschedule, L!D!Reschedule, LP!D!Eligible, L!D!Eligible,
       LP!D!Ready, L!D!Ready, LP!D!SwitchTo, L!D!SwitchTo, LP!Threads, L!Threads,
       LP!Idle, L!Idle, LP!Boot, L!Boot

LEMMA SameWorker ==
    /\ LP!Computing <=> L!Computing
    /\ LP!Worker <=> L!Worker
BY DEF LP!Computing, L!Computing, LP!Worker, L!Worker, LP!Boot, L!Boot, LP!Idle, L!Idle

LEMMA SamePreempt == L!Preempt <=> LP!Preempt
BY SameReschedule, SameWorker, SameNames
   DEF LP!Preempt, L!Preempt, LP!lockVars, L!lockVars

LEMMA SameBlock == L!Block <=> LP!Block
BY SameReschedule, SameWorker DEF LP!Block, L!Block, LP!lockVars, L!lockVars

LEMMA SameUnblock == \A t : L!Unblock(t) <=> LP!Unblock(t)
BY SameWorker
   DEF LP!Unblock, L!Unblock, LP!lockVars, L!lockVars, LP!Contains, L!Contains

LEMMA SameTake == L!Take <=> LP!Take
BY DEF LP!Take, L!Take

LEMMA SameQueue == L!Queue <=> LP!Queue
BY SameReschedule DEF LP!Queue, L!Queue

LEMMA SameAcquire ==
    /\ L!Acquire <=> LP!Acquire
    /\ L!AcquireAgain <=> LP!AcquireAgain
    /\ L!Reacquire <=> LP!Reacquire
BY SameTake, SameQueue, SameWorker, SameNames
   DEF LP!Acquire, L!Acquire, LP!AcquireAgain, L!AcquireAgain, LP!Reacquire, L!Reacquire

LEMMA SameWake == L!Wake <=> LP!Wake
BY SameReschedule DEF LP!Wake, L!Wake, LP!Front, L!Front, LP!Last, L!Last

LEMMA SameRelease == L!Release <=> LP!Release
BY SameWorker, SameNames, SameWake
   DEF LP!Release, L!Release, LP!ReleaseInner, L!ReleaseInner,
       LP!ReleaseOuter, L!ReleaseOuter

(* So a step of the lock keeps the invariant of LockProofs.                *)
LEMMA LockStep ==
  ASSUME LP!IInv, [L!Next]_(L!vars)
  PROVE  LP!IInv'
<1>1. L!Next => LP!Next
  BY SamePreempt, SameBlock, SameUnblock, SameAcquire, SameRelease, SameNames
     DEF LP!Next, L!Next, Threads
<1>2. L!vars = LP!vars /\ L!vars' = LP!vars'
  BY DEF LP!vars, L!vars, LP!lockVars, L!lockVars
<1>3. [LP!Next]_(LP!vars)
  BY <1>1, <1>2
<1>4. LP!LockAssumption
  BY KeyboardAssumption DEF KeyboardAssumption, LP!LockAssumption
<1>5. QED
  BY <1>3, <1>4, LP!NextStep

LEMMA LockInit == L!Init => LP!IInv
<1>1. LP!LockAssumption
  BY KeyboardAssumption DEF KeyboardAssumption, LP!LockAssumption
<1>2. L!Init => LP!Init
  BY DEF L!Init, LP!Init, L!Boot, LP!Boot, L!Threads, LP!Threads, L!None, LP!None
<1>3. QED
  BY <1>1, <1>2, LP!InitIInv

-----------------------------------------------------------------------------
Asleep(t) == state[t] = "BLOCKED"

LEMMA SameLock ==
    /\ LP!LockAssumption
    /\ L!TypeOK <=> LP!TypeOK
    /\ \A t : LP!Asleep(t) <=> Asleep(t)
    /\ \A t : L!Contains(waiters, t) <=> LP!Contains(waiters, t)
BY SameNames, KeyboardAssumption
   DEF KeyboardAssumption, LP!LockAssumption, LP!Asleep, Asleep, LP!Contains, L!Contains,
       L!TypeOK, LP!TypeOK, Threads

LEMMA LockFacts ==
  ASSUME LP!IInv
  PROVE  /\ L!TypeOK
         /\ current \in Threads \cup {L!Boot}
         /\ holder \in Threads \cup {L!None}
         /\ state \in [Threads -> {"RUNNING", "READY", "BLOCKED"}]
         /\ \A t \in Threads : state[t] = "RUNNING" <=> t = current
         /\ ~ Asleep(L!Idle) /\ ~ inLoop[L!Idle]
         /\ \A t \in Threads : depth[t] > 0 <=> holder = t
         /\ \A t \in Threads : depth[t] \in Nat
         /\ holder # L!None => repeat = depth[holder]
         /\ value <=> holder # L!None
         /\ \A t \in Threads : inLoop[t] => depth[t] = 0
         /\ \A t \in Threads : L!Contains(waiters, t) <=> inLoop[t] /\ Asleep(t)
BY LP!LockFacts, SameLock, SameNames

LEMMA PreemptEffect ==
  ASSUME LP!IInv, L!Preempt
  PROVE  /\ current' \in Threads
         /\ \A t \in Threads : Asleep(t)' <=> Asleep(t)
         /\ UNCHANGED <<value, waiters, holder, repeat, inLoop, depth>>
BY LP!PreemptEffect, SameLock, SameNames, SamePreempt DEF Asleep, LP!Asleep

LEMMA SleepEffect ==
  ASSUME LP!IInv, current \in Threads, current # L!Idle,
         L!D!Reschedule([state EXCEPT ![current] = "BLOCKED"])
  PROVE  /\ current' \in Threads
         /\ \A t \in Threads : Asleep(t)' <=> Asleep(t) \/ t = current
BY LP!SleepEffect, SameLock, SameNames, SameReschedule DEF Asleep, LP!Asleep

LEMMA BlockEffect ==
  ASSUME LP!IInv, L!Block
  PROVE  /\ current' \in Threads
         /\ \A t \in Threads : Asleep(t)' <=> Asleep(t) \/ t = current
         /\ UNCHANGED <<value, waiters, holder, repeat, inLoop, depth>>
BY LP!BlockEffect, SameLock, SameNames, SameBlock DEF Asleep, LP!Asleep

LEMMA TakeEffect ==
  ASSUME LP!IInv, L!Take, current \in Threads
  PROVE  /\ holder = L!None /\ holder' = current
         /\ UNCHANGED <<current, state>>
         /\ \A t \in Threads : Asleep(t)' <=> Asleep(t)
         /\ \A t \in Threads : inLoop'[t] <=> inLoop[t] /\ t # current
         /\ \A t \in Threads : depth'[t] <= 1
BY LP!TakeEffect, SameLock, SameNames, SameTake DEF Asleep, LP!Asleep

LEMMA QueueEffect ==
  ASSUME LP!IInv, L!Queue, current \in Threads, current # L!Idle
  PROVE  /\ current' \in Threads
         /\ UNCHANGED <<holder, depth>>
         /\ \A t \in Threads : Asleep(t)' <=> Asleep(t) \/ t = current
         /\ \A t \in Threads : inLoop'[t] <=> inLoop[t] \/ t = current
BY LP!QueueEffect, SameLock, SameNames, SameQueue DEF Asleep, LP!Asleep

LEMMA ReleaseEffect ==
  ASSUME LP!IInv, L!Release, \A t \in Threads : depth[t] <= 1
  PROVE  /\ current \in Threads /\ holder = current /\ holder' = L!None
         /\ current' \in Threads
         /\ UNCHANGED inLoop
         /\ \A t \in Threads : depth'[t] <= 1
         /\ \A t \in Threads : Asleep(t)' => Asleep(t)
         /\ \A t \in Threads : Asleep(t) /\ ~ Asleep(t)' => inLoop[t]
BY LP!ReleaseEffect, SameLock, SameNames, SameRelease DEF Asleep, LP!Asleep

-----------------------------------------------------------------------------
(* The ring.                                                               *)
LEMMA Modulo ==
  ASSUME NEW n \in Nat, n > 0, NEW a \in Int
  PROVE  /\ 0 <= a /\ a < n => a % n = a
         /\ 0 - n <= a /\ a < 0 => a % n = a + n
         /\ n <= a /\ a < 2 * n => a % n = a - n
OBVIOUS

LEMMA Sizes ==
    /\ Length \in Nat /\ Length >= 2
    /\ Cells = 0 .. Length - 1
BY KeyboardAssumption DEF KeyboardAssumption, Cells

LEMMA FifoNextIs ==
  ASSUME NEW pos \in Cells
  PROVE  /\ FifoNext(pos) = IF pos = Length - 1 THEN 0 ELSE pos + 1
         /\ FifoNext(pos) \in Cells /\ FifoNext(pos) # pos
<1>1. pos \in Int /\ 0 <= pos /\ pos <= Length - 1
  BY Sizes
<1>2. FifoNext(pos) = IF pos = Length - 1 THEN 0 ELSE pos + 1
  BY <1>1, Sizes, Modulo DEF FifoNext
<1>3. QED
  BY <1>1, <1>2, Sizes

\* The cell of the i-th key that nobody has read.
Cell(i) == IF tail + i - 1 < Length THEN tail + i - 1 ELSE tail + i - 1 - Length

LEMMA Distance ==
  ASSUME NEW h \in Cells, NEW t \in Cells
  PROVE  (h - t) % Length = IF t <= h THEN h - t ELSE h - t + Length
BY Sizes, Modulo

LEMMA Wrapped ==
  ASSUME NEW t \in Cells, NEW i \in 1 .. Length
  PROVE  (t + i - 1) % Length = IF t + i - 1 < Length THEN t + i - 1 ELSE t + i - 1 - Length
<1>1. t + i - 1 \in Int /\ 0 <= t + i - 1 /\ t + i - 1 < 2 * Length
  BY Sizes
<1>2. QED
  BY <1>1, Sizes, Modulo

LEMMA RingIs ==
  ASSUME head \in Cells, tail \in Cells
  PROVE  /\ Filled = IF tail <= head THEN head - tail ELSE head - tail + Length
         /\ Filled \in 0 .. Length - 1
         /\ \A i \in 1 .. Filled + 1 : (tail + i - 1) % Length = Cell(i) /\ Cell(i) \in Cells
         /\ \A i \in 1 .. Filled : Cell(i) # head
         /\ Cell(Filled + 1) = head
         /\ FifoFull <=> Filled = Length - 1
         /\ FifoEmpty <=> Filled = 0
<1>1. /\ head \in Int /\ 0 <= head /\ head <= Length - 1
      /\ tail \in Int /\ 0 <= tail /\ tail <= Length - 1
  BY Sizes
<1>2. Filled = IF tail <= head THEN head - tail ELSE head - tail + Length
  BY <1>1, Sizes, Modulo DEF Filled
<1>3. Filled \in 0 .. Length - 1
  BY <1>1, <1>2, Sizes
<1>4. \A i \in 1 .. Filled + 1 : (tail + i - 1) % Length = Cell(i) /\ Cell(i) \in Cells
  <2> TAKE i \in 1 .. Filled + 1
  <2>1. /\ tail + i - 1 \in Int /\ 0 <= tail + i - 1 /\ tail + i - 1 < 2 * Length
    BY <1>1, <1>3, Sizes
  <2>2. (tail + i - 1) % Length = Cell(i)
    BY <2>1, Sizes, Modulo DEF Cell
  <2>3. Cell(i) \in Cells
    BY <2>1, Sizes DEF Cell
  <2>4. QED
    BY <2>2, <2>3
<1>5. \A i \in 1 .. Filled : Cell(i) # head
  BY <1>1, <1>2, Sizes DEF Cell
<1>6. Cell(Filled + 1) = head
  BY <1>1, <1>2, Sizes DEF Cell
<1>7. FifoFull <=> Filled = Length - 1
  <2>1. FifoNext(head) = IF head = Length - 1 THEN 0 ELSE head + 1
    BY FifoNextIs
  <2>2. QED
    BY <1>1, <1>2, <2>1, Sizes DEF FifoFull
<1>8. FifoEmpty <=> Filled = 0
  BY <1>1, <1>2, Sizes DEF FifoEmpty
<1>9. QED
  BY <1>2, <1>3, <1>4, <1>5, <1>6, <1>7, <1>8

LEMMA ContentsIs ==
  ASSUME head \in Cells, tail \in Cells
  PROVE  /\ DOMAIN Contents = 1 .. Filled
         /\ \A i \in 1 .. Filled : Contents[i] = buf[Cell(i)]
BY RingIs DEF Contents

LEMMA ContentsLength ==
  ASSUME head \in Cells, tail \in Cells, Contents \in Seq(Keys)
  PROVE  Len(Contents) = Filled
<1>1. DOMAIN Contents = 1 .. Len(Contents) /\ Len(Contents) \in Nat
  OBVIOUS
<1>2. DOMAIN Contents = 1 .. Filled /\ Filled \in Nat
  BY ContentsIs, RingIs, Sizes
<1>3. ASSUME NEW a \in Nat, NEW b \in Nat, 1 .. a = 1 .. b PROVE a = b
  <2>1. a > 0 => a \in 1 .. b
    BY <1>3
  <2>2. b > 0 => b \in 1 .. a
    BY <1>3
  <2>3. QED
    BY <2>1, <2>2
<1> HIDE DEF Contents
<1>4. QED
  BY <1>1, <1>2, <1>3

(* A key is put behind the others, in the place of the oldest one if there *)
(* is no other place.                                                      *)
LEMMA PutContents ==
  ASSUME head \in Cells, tail \in Cells, buf \in [Cells -> Keys \cup {NoKey}],
         Contents \in Seq(Keys), NEW k \in Keys, FifoPut(k)
  PROVE  /\ head' \in Cells /\ tail' \in Cells /\ head' # head
         /\ buf' \in [Cells -> Keys \cup {NoKey}] /\ buf'[head] = k
         /\ Contents' \in Seq(Keys)
         /\ Contents' = IF Len(Contents) < Length - 1 THEN Append(Contents, k)
                                                       ELSE Append(Tail(Contents), k)
<1> DEFINE s == Contents
           m == Filled
           q == IF m < Length - 1 THEN m + 1 ELSE m
<1>1. /\ head' = FifoNext(head)
      /\ tail' = IF FifoFull THEN FifoNext(tail) ELSE tail
      /\ \A i \in Cells : buf'[i] = IF i = head THEN k ELSE buf[i]
      /\ buf' \in [Cells -> Keys \cup {NoKey}]
  BY DEF FifoPut
<1>2. /\ head' \in Cells /\ tail' \in Cells /\ head' # head /\ buf'[head] = k
  BY <1>1, FifoNextIs
<1>3. /\ m \in 0 .. Length - 1 /\ Len(s) = m
      /\ \A i \in 1 .. m : s[i] = buf[Cell(i)] /\ s[i] \in Keys
      /\ \A i \in 1 .. m + 1 : Cell(i) \in Cells
      /\ \A i \in 1 .. m : Cell(i) # head
      /\ Cell(m + 1) = head
      /\ FifoFull <=> m = Length - 1
  <2>1. Len(s) = m
    BY ContentsLength
  <2>2. \A i \in 1 .. m : s[i] \in Keys
    BY <2>1
  <2>3. QED
    BY <2>1, <2>2, RingIs, ContentsIs
<1>4. /\ Contents' = [i \in 1 .. Filled' |-> buf'[(tail' + i - 1) % Length]]
      /\ Filled' = IF tail' <= head' THEN head' - tail' ELSE head' - tail' + Length
  <2>1. Contents' = [i \in 1 .. Filled' |-> buf'[(tail' + i - 1) % Length]]
    BY DEF Contents
  <2>2. Filled' = IF tail' <= head' THEN head' - tail' ELSE head' - tail' + Length
    BY <1>2, Distance DEF Filled
  <2>3. QED
    BY <2>1, <2>2

<1>5. Filled' = q
  <2>1. /\ head \in Int /\ 0 <= head /\ head <= Length - 1
        /\ tail \in Int /\ 0 <= tail /\ tail <= Length - 1
    BY Sizes
  <2>2. m = IF tail <= head THEN head - tail ELSE head - tail + Length
    BY RingIs
  <2>3. /\ head' = IF head = Length - 1 THEN 0 ELSE head + 1
        /\ tail' = IF m = Length - 1 THEN IF tail = Length - 1 THEN 0 ELSE tail + 1
                                     ELSE tail
    BY <1>1, <1>3, FifoNextIs
  <2>4. QED
    BY <1>3, <1>4, <2>1, <2>2, <2>3, Sizes
<1>6. \A i \in 1 .. q : Contents'[i] = IF i = q THEN k
                                      ELSE IF m < Length - 1 THEN s[i] ELSE s[i + 1]
  <2> TAKE i \in 1 .. q
  <2>1. (tail' + i - 1) % Length = IF m < Length - 1 THEN Cell(i) ELSE Cell(i + 1)
    <3>1. tail \in Int /\ 0 <= tail /\ tail <= Length - 1
      BY Sizes
    <3>2. tail' = IF m = Length - 1 THEN IF tail = Length - 1 THEN 0 ELSE tail + 1
                                    ELSE tail
      BY <1>1, <1>3, FifoNextIs
    <3>3. /\ tail' + i - 1 \in Int /\ 0 <= tail' + i - 1 /\ tail' + i - 1 < 2 * Length
          /\ i \in Int
      BY <1>3, <3>1, <3>2, Sizes
    <3>4. (tail' + i - 1) % Length =
             IF tail' + i - 1 < Length THEN tail' + i - 1 ELSE tail' + i - 1 - Length
      <4>1. i \in 1 .. Length
        BY <1>3, Sizes
      <4>2. QED
        BY <1>2, <4>1, Wrapped
    <3>5. QED
      BY <3>1, <3>2, <3>3, <3>4, <1>3, Sizes DEF Cell
  <2>2. Contents'[i] = buf'[(tail' + i - 1) % Length]
    BY <1>4, <1>5
  <2>3. CASE m < Length - 1
    <3>1. Contents'[i] = buf'[Cell(i)] /\ q = m + 1
      BY <2>1, <2>2, <2>3
    <3>2. CASE i = m + 1
      BY <3>1, <3>2, <1>1, <1>2, <1>3, <2>3
    <3>3. CASE i \in 1 .. m
      BY <3>1, <3>3, <1>1, <1>3, <2>3
    <3>4. QED
      BY <3>1, <3>2, <3>3, <1>3
  <2>4. CASE m = Length - 1
    <3>1. Contents'[i] = buf'[Cell(i + 1)] /\ q = m
      BY <2>1, <2>2, <2>4, <1>3, Sizes
    <3>2. CASE i = m
      BY <3>1, <3>2, <1>1, <1>2, <1>3, <2>4
    <3>3. CASE i \in 1 .. m - 1
      <4>1. i + 1 \in 1 .. m /\ i # q
        BY <3>1, <3>3, <1>3
      <4>2. QED
        BY <3>1, <4>1, <1>1, <1>3, <2>4
    <3>4. QED
      BY <3>1, <3>2, <3>3, <1>3
  <2>5. QED
    BY <1>3, <2>3, <2>4, Sizes
<1> DEFINE e == IF m < Length - 1 THEN Append(s, k) ELSE Append(Tail(s), k)
<1>7. /\ e \in Seq(Keys) /\ Len(e) = q
      /\ \A i \in 1 .. q : e[i] = IF i = q THEN k
                                  ELSE IF m < Length - 1 THEN s[i] ELSE s[i + 1]
  <2> HIDE DEF s, m
  <2>1. s \in Seq(Keys) /\ Len(s) = m /\ m \in 0 .. Length - 1
    BY <1>3 DEF s
  <2>2. CASE m < Length - 1
    BY <2>1, <2>2
  <2>3. CASE m = Length - 1
    <3>1. s # <<>>
      BY <2>1, <2>3, Sizes
    <3>2. /\ Tail(s) \in Seq(Keys) /\ Len(Tail(s)) = m - 1
          /\ \A i \in 1 .. m - 1 : Tail(s)[i] = s[i + 1]
      BY <2>1, <3>1
    <3>3. QED
      BY <2>1, <2>3, <3>2, Sizes
  <2>4. QED
    BY <2>1, <2>2, <2>3, Sizes
<1>8. Contents' = [i \in 1 .. q |-> e[i]]
  BY <1>4, <1>5, <1>6, <1>7
<1>9. e = [i \in 1 .. q |-> e[i]]
  <2> HIDE DEF e, q
  <2> QED BY <1>7
<1>10. Contents' = e
  BY <1>8, <1>9
<1>11. QED
  BY <1>1, <1>2, <1>3, <1>7, <1>10

(* The oldest key is taken out.                                            *)
LEMMA GetContents ==
  ASSUME head \in Cells, tail \in Cells, Contents \in Seq(Keys), ~ FifoEmpty,
         tail' = FifoNext(tail), UNCHANGED <<buf, head>>
  PROVE  /\ tail' \in Cells
         /\ Contents # <<>> /\ buf[tail] = Head(Contents) /\ buf[tail] \in Keys
         /\ Contents' = Tail(Contents) /\ Contents' \in Seq(Keys)
<1> DEFINE s == Contents
           m == Filled
<1>1. tail' \in Cells /\ tail' = IF tail = Length - 1 THEN 0 ELSE tail + 1
  BY FifoNextIs
<1>2. /\ m \in 1 .. Length - 1 /\ Len(s) = m
      /\ \A i \in 1 .. m : s[i] = buf[Cell(i)] /\ s[i] \in Keys
  <2>1. Len(s) = m
    BY ContentsLength
  <2>2. \A i \in 1 .. m : s[i] \in Keys
    BY <2>1
  <2>3. m \in 1 .. Length - 1
    BY RingIs, Sizes
  <2>4. QED
    BY <2>1, <2>2, <2>3, ContentsIs
<1>3. /\ head \in Int /\ 0 <= head /\ head <= Length - 1
      /\ tail \in Int /\ 0 <= tail /\ tail <= Length - 1
  BY Sizes
<1>4. s # <<>> /\ buf[tail] = Head(s) /\ buf[tail] \in Keys
  <2>1. Cell(1) = tail
    BY <1>3, Sizes DEF Cell
  <2>2. s[1] = buf[tail] /\ s[1] \in Keys
    BY <1>2, <2>1
  <2>3. s \in Seq(Keys) /\ Len(s) = m
    BY <1>2
  <2> HIDE DEF s, m
  <2>4. QED
    BY <2>2, <2>3, <1>2
<1>5. Contents' = [i \in 1 .. Filled' |-> buf[(tail' + i - 1) % Length]]
  BY DEF Contents
<1>6. Filled' = m - 1
  <2>1. Filled' = IF tail' <= head THEN head - tail' ELSE head - tail' + Length
    BY <1>1, Distance DEF Filled
  <2>2. m = IF tail <= head THEN head - tail ELSE head - tail + Length
    BY RingIs
  <2>3. QED
    BY <1>1, <1>2, <1>3, <2>1, <2>2, Sizes
<1>7. \A i \in 1 .. m - 1 : Contents'[i] = s[i + 1]
  <2> TAKE i \in 1 .. m - 1
  <2>1. i + 1 \in 1 .. m /\ i \in Int
    BY <1>2
  <2>2. i \in 1 .. Length
    BY <1>2, Sizes
  <2>3. (tail' + i - 1) % Length =
           IF tail' + i - 1 < Length THEN tail' + i - 1 ELSE tail' + i - 1 - Length
    BY <1>1, <2>2, Wrapped
  <2>4. (tail' + i - 1) % Length = Cell(i + 1)
    BY <1>1, <1>3, <2>1, <2>2, <2>3, Sizes DEF Cell
  <2>5. Contents'[i] = buf[Cell(i + 1)]
    BY <1>5, <1>6, <2>4
  <2>6. QED
    BY <1>2, <2>1, <2>5
<1>8. /\ Tail(s) \in Seq(Keys) /\ Len(Tail(s)) = m - 1
      /\ \A i \in 1 .. m - 1 : Tail(s)[i] = s[i + 1]
  <2>1. s \in Seq(Keys) /\ Len(s) = m /\ s # <<>>
    BY <1>2, <1>4
  <2> HIDE DEF s, m
  <2>2. QED
    BY <2>1, <1>2
<1>9. Contents' = [i \in 1 .. m - 1 |-> Tail(s)[i]]
  BY <1>5, <1>6, <1>7, <1>8
<1>10. Tail(s) = [i \in 1 .. m - 1 |-> Tail(s)[i]]
  <2> DEFINE r == Tail(s)
  <2>1. r \in Seq(Keys) /\ Len(r) = m - 1
    BY <1>8
  <2> HIDE DEF r
  <2>2. r = [i \in 1 .. m - 1 |-> r[i]]
    BY <2>1
  <2>3. QED
    BY <2>2 DEF r
<1>11. Contents' = Tail(s)
  BY <1>9, <1>10
<1>12. QED
  BY <1>1, <1>4, <1>8, <1>11

-----------------------------------------------------------------------------
(* The invariant, in parts.  A reader sleeps with the lock and an empty    *)
(* ring, and only the holder of the lock has characters of its call.       *)
Sleeping ==
    /\ \A t \in Threads : waiter = t <=> holder = t /\ Asleep(t)
    /\ waiter # L!None => FifoEmpty
    /\ current = L!Boot => waiter = L!None

Reads ==
    /\ \A t \in Threads : depth[t] <= 1
    /\ \A t \in Threads : text[t] # <<>> => holder = t

\* What the user thinks of shift and caps lock is what the handler does.
Shifts(h)  == IF h THEN {"SHIFT_L"} ELSE {}
InStep(c)  == "CAPSLOCK" \in locks <=> c
AsHeld     == shifts = Shifts(held) /\ InStep(capsOn)

\* The codes with a prefix that may be left when the first prefix has been
\* taken, and the character that they still have to type.
Left(bytes, char) ==
    \/ char = NoKey /\ bytes \in {<<K!Break("OTHER")>>,
                                  <<K!Make("OTHER"), K!Prefix, K!Break("OTHER")>>,
                                  <<K!Make("SHIFT_L")>>}
    \/ \E k \in ArrowKeys : char = NoKey /\
          bytes \in {<<K!Break(k)>>, <<K!Break(k), K!Prefix, K!Make("SHIFT_L")>>}
    \/ \E k \in ArrowKeys : char = Shifted[k] /\
          bytes \in {<<K!Make(k), K!Prefix, K!Break(k)>>,
                     <<K!Make(k), K!Prefix, K!Break(k), K!Prefix, K!Make("SHIFT_L")>>,
                     <<K!Break("SHIFT_L"), K!Prefix, K!Make(k), K!Prefix, K!Break(k),
                       K!Prefix, K!Make("SHIFT_L")>>}

\* The bytes the controller holds, and what they and the handler's flags
\* make of each other.
Done == ~ ext /\ line = <<>> /\ AsHeld

ShiftComes ==
    /\ ~ ext /\ meant = NoKey /\ InStep(capsOn)
    /\ \/ held /\ line = <<K!Make("SHIFT_L")>> /\ shifts = {}
       \/ ~ held /\ line = <<K!Break("SHIFT_L")>> /\ shifts = {"SHIFT_L"}

CapsComes ==
    /\ ~ ext /\ line = Tap("CAPSLOCK") /\ meant = NoKey
    /\ shifts = Shifts(held) /\ InStep(~ capsOn)

KeyComes == \E k \in TypingKeys :
    ~ ext /\ line = Tap(k) /\ AsHeld /\ meant = Meaning(k)

KeyGoes == \E k \in TypingKeys \cup {"CAPSLOCK"} :
    ~ ext /\ line = <<K!Break(k)>> /\ (Swapped(k) \/ meant = NoKey) /\ AsHeld

PrefixComes ==
    /\ ~ ext /\ line # <<>> /\ Head(line) = K!Prefix /\ AsHeld
    /\ Left(Tail(line), meant)

PrefixTaken == ext /\ AsHeld /\ Left(line, meant)

Decoding == Done \/ ShiftComes \/ CapsComes \/ KeyComes \/ KeyGoes
            \/ PrefixComes \/ PrefixTaken

IInv ==
    /\ LP!IInv
    /\ TypeOK
    /\ Sleeping
    /\ Reads
    /\ Contents \in Seq(Keys)
    /\ Decoding

LEMMA InitIInv == Init => IInv
<1> SUFFICES ASSUME Init PROVE IInv
  OBVIOUS
<1>1. LP!IInv /\ L!TypeOK
  BY LockInit, LockFacts DEF Init
<1>2. TypeOK
  <2>1. /\ buf \in [Cells -> Keys \cup {NoKey}] /\ head \in Cells /\ tail \in Cells
    BY Sizes DEF Init
  <2>2. /\ waiter \in L!Threads \cup {L!None}
        /\ want \in [L!Threads -> 0 .. MaxCount]
        /\ text \in [L!Threads -> Seq(Keys)]
    BY KeyboardAssumption DEF Init, KeyboardAssumption
  <2>3. /\ ext \in BOOLEAN /\ shifts \subseteq K!ShiftKeys
        /\ locks \subseteq K!LockKeys
        /\ held \in BOOLEAN /\ capsOn \in BOOLEAN
        /\ meant \in Keys \cup {NoKey}
    BY DEF Init, K!Init
  <2>4. QED
    BY <1>1, <2>1, <2>2, <2>3 DEF TypeOK
<1>3. Sleeping /\ Reads
  BY <1>1, Slots, LockFacts DEF Init, Sleeping, Reads, L!Init, FifoEmpty, Threads, Asleep
<1>4. Contents \in Seq(Keys)
  <2>1. head \in Cells /\ tail \in Cells /\ FifoEmpty
    BY Sizes DEF Init, FifoEmpty
  <2>2. Filled = 0
    BY <2>1, RingIs
  <2>3. Contents = <<>>
    BY <2>2 DEF Contents
  <2>4. QED
    BY <2>3
<1>5. Decoding
  BY DEF Init, K!Init, Decoding, Done, AsHeld, Shifts, InStep
<1>6. QED
  BY <1>1, <1>2, <1>3, <1>4, <1>5 DEF IInv

-----------------------------------------------------------------------------
(* The task on the processor does not sleep.                               *)
LEMMA CurrentWorks ==
  ASSUME IInv, current # L!Boot
  PROVE  /\ current \in Threads /\ ~ Asleep(current) /\ waiter # current
         /\ inLoop[current] => current # L!Idle
<1>1. current \in Threads /\ state[current] = "RUNNING"
  BY LockFacts DEF IInv
<1>2. ~ Asleep(current) /\ waiter # current
  BY <1>1 DEF IInv, Sleeping, Asleep
<1>3. QED
  BY <1>1, <1>2, LockFacts DEF IInv

(* Every step of the keyboard is a step of the lock, or none.              *)
LEMMA StepKeepsLock ==
  ASSUME IInv, [Next]_vars
  PROVE  [L!Next]_(L!vars)
<1>1. UNCHANGED lockVars => UNCHANGED L!vars
  BY DEF lockVars, L!vars, L!lockVars
<1>2. ASSUME UNCHANGED lockVars PROVE [L!Next]_(L!vars)
  BY <1>1, <1>2
<1>3. CASE Preempt
  BY <1>3 DEF Preempt, L!Next
<1>4. ASSUME NEW bytes, NEW char, Typing(bytes, char) PROVE UNCHANGED lockVars
  BY <1>4 DEF Typing
<1>5. CASE TypeShift
  BY <1>2, <1>4, <1>5 DEF TypeShift
<1>6. CASE TypeCaps
  BY <1>2, <1>4, <1>6 DEF TypeCaps
<1>7. ASSUME NEW k \in TypingKeys, TypeKey(k) PROVE [L!Next]_(L!vars)
  BY <1>2, <1>4, <1>7 DEF TypeKey
<1>8. ASSUME NEW k \in ArrowKeys, TypeArrow(k) PROVE [L!Next]_(L!vars)
  <2> DEFINE Code(byte) == <<K!Prefix, byte>>
  <2>1. PICK bytes : Typing(bytes, Shifted[k])
    BY <1>8 DEF TypeArrow
  <2>2. QED
    BY <1>2, <1>4, <2>1
<1>9. CASE TypeOther
  BY <1>2, <1>4, <1>9 DEF TypeOther
<1>10. CASE Handle
  <2>1. CASE UNCHANGED state
    BY <1>2, <1>10, <2>1 DEF Handle, lockVars
  <2>2. CASE waiter # L!None /\ state' = [state EXCEPT ![waiter] = "READY"]
    <3>1. waiter \in Threads
      BY <2>2 DEF IInv, TypeOK, Threads
    <3>2. holder = waiter /\ Asleep(waiter)
      BY <3>1 DEF IInv, Sleeping
    <3>3. ~ inLoop[waiter]
      BY <3>1, <3>2, LockFacts DEF IInv
    <3>4. ~ L!Contains(waiters, waiter)
      BY <3>1, <3>3, LockFacts DEF IInv
    <3>5. current # L!Boot /\ ~ inLoop[current]
      BY <1>10, <2>2 DEF IInv, Sleeping, Handle, Reading
    <3>6. L!Unblock(waiter)
      BY <1>10, <2>2, <3>2, <3>4, <3>5
         DEF Handle, L!Unblock, L!Computing, Asleep, L!lockVars
    <3>7. QED
      BY <3>1, <3>6 DEF L!Next, Threads
  <2>3. QED
    BY <1>10, <2>1, <2>2 DEF Handle, HandleOther, HandleMake, Enter
<1>11. ASSUME NEW count \in 1 .. MaxCount, Call(count) PROVE [L!Next]_(L!vars)
  BY <1>11 DEF Call, L!Next
<1>12. CASE CallAgain
  BY <1>12 DEF CallAgain, L!Next
<1>13. CASE Get
  BY <1>2, <1>13 DEF Get
<1>14. CASE Wait
  BY <1>14 DEF Wait, L!Next
<1>15. CASE Return
  BY <1>15 DEF Return, L!Next
<1>16. CASE UNCHANGED vars
  BY <1>2, <1>16 DEF vars
<1>17. QED
  BY <1>3, <1>5, <1>6, <1>7, <1>8, <1>9, <1>10, <1>11, <1>12, <1>13, <1>14, <1>15, <1>16
     DEF Next

-----------------------------------------------------------------------------
(* The readers, step by step.                                              *)
LEMMA AsideReaders ==
  ASSUME IInv, UNCHANGED <<current, state, holder, depth, head, tail, waiter, text>>
  PROVE  Sleeping' /\ Reads'
BY DEF IInv, Sleeping, Reads, Asleep, FifoEmpty

LEMMA PreemptReaders ==
  ASSUME IInv, Preempt
  PROVE  Sleeping' /\ Reads'
<1>1. /\ current' \in Threads
      /\ \A t \in Threads : Asleep(t)' <=> Asleep(t)
      /\ UNCHANGED <<holder, depth, waiter, text, head, tail>>
  BY PreemptEffect DEF IInv, Preempt, keyVars, readVars
<1>2. Sleeping'
  BY <1>1, Slots DEF IInv, Sleeping, FifoEmpty
<1>3. Reads'
  BY <1>1 DEF IInv, Reads
<1>4. QED
  BY <1>2, <1>3

LEMMA HandleReaders ==
  ASSUME IInv, Handle
  PROVE  Sleeping' /\ Reads'
<1>1. UNCHANGED <<current, holder, depth, text>>
  BY DEF Handle
<1>2. Reads'
  BY <1>1 DEF IInv, Reads
<1>3. CASE UNCHANGED <<fifoVars, waiter, state>>
  BY <1>1, <1>3, AsideReaders DEF fifoVars
<1>4. ASSUME NEW char, Enter(char) PROVE Sleeping'
  <2>1. waiter' = L!None
    BY <1>4 DEF Enter
  <2>2. \A t \in Threads : ~ (holder = t /\ Asleep(t)')
    <3> SUFFICES ASSUME NEW t \in Threads, holder = t, Asleep(t)' PROVE FALSE
      OBVIOUS
    <3>1. Asleep(t)
      BY <1>4, LockFacts DEF Enter, Asleep, IInv
    <3>2. waiter = t
      BY <3>1 DEF IInv, Sleeping
    <3>3. state' = [state EXCEPT ![t] = "READY"]
      BY <1>4, <3>2, Slots DEF Enter
    <3>4. QED
      BY <3>3, LockFacts DEF Asleep, IInv
  <2>3. QED
    BY <1>1, <2>1, <2>2, Slots DEF Sleeping
<1>5. QED
  BY <1>2, <1>3, <1>4 DEF Handle, HandleOther, HandleMake

LEMMA AcquireReaders ==
  ASSUME IInv, L!Acquire \/ L!AcquireAgain, UNCHANGED <<head, tail, waiter, text>>
  PROVE  Sleeping' /\ Reads'
<1>1. /\ current \in Threads /\ current # L!Idle /\ holder # current
      /\ current # L!Boot /\ ~ Asleep(current)
  <2>1. current # L!Boot /\ current \in Threads /\ ~ Asleep(current)
    BY CurrentWorks DEF L!Acquire, L!AcquireAgain, L!Worker, L!Computing
  <2>2. CASE L!Acquire
    BY <2>1, <2>2 DEF L!Acquire, L!Worker
  <2>3. CASE L!AcquireAgain
    <3>1. inLoop[current]
      BY <2>3 DEF L!AcquireAgain
    <3>2. QED
      BY <2>1, <3>1, LockFacts, CurrentWorks DEF IInv
  <2>4. QED
    BY <2>2, <2>3
<1>2. CASE L!Take
  <2>1. /\ holder = L!None /\ holder' = current
        /\ UNCHANGED <<current, state>>
        /\ \A t \in Threads : Asleep(t)' <=> Asleep(t)
        /\ \A t \in Threads : depth'[t] <= 1
    BY <1>1, <1>2, TakeEffect DEF IInv
  <2>2. waiter = L!None /\ \A t \in Threads : text[t] = <<>>
    BY <2>1, Slots DEF IInv, Sleeping, Reads, TypeOK, Threads
  <2>3. Sleeping'
    BY <1>1, <2>1, <2>2, Slots DEF Sleeping
  <2>4. Reads'
    BY <2>1, <2>2 DEF Reads
  <2>5. QED
    BY <2>3, <2>4
<1>3. CASE L!Queue
  <2>1. /\ current' \in Threads
        /\ UNCHANGED <<holder, depth>>
        /\ \A t \in Threads : Asleep(t)' <=> Asleep(t) \/ t = current
    BY <1>1, <1>3, QueueEffect DEF IInv
  <2>2. Sleeping'
    BY <1>1, <2>1, Slots DEF IInv, Sleeping, FifoEmpty
  <2>3. Reads'
    BY <2>1 DEF IInv, Reads
  <2>4. QED
    BY <2>2, <2>3
<1>4. QED
  BY <1>2, <1>3 DEF L!Acquire, L!AcquireAgain

LEMMA GetReaders ==
  ASSUME IInv, Get
  PROVE  Sleeping' /\ Reads'
<1>1. /\ current \in Threads /\ holder = current /\ ~ Asleep(current)
      /\ UNCHANGED <<current, state, holder, depth, waiter>>
  BY CurrentWorks DEF Get, Wanting, lockVars
<1>2. waiter = L!None
  BY <1>1 DEF IInv, Sleeping, TypeOK, Threads
<1>3. Sleeping'
  BY <1>1, <1>2 DEF IInv, Sleeping, Asleep
<1>4. \A t \in Threads : t # current => text'[t] = text[t]
  BY DEF Get, IInv, TypeOK, Threads
<1>5. Reads'
  BY <1>1, <1>4 DEF IInv, Reads
<1>6. QED
  BY <1>3, <1>5

LEMMA WaitReaders ==
  ASSUME IInv, Wait
  PROVE  Sleeping' /\ Reads'
<1>1. current \in Threads /\ holder = current /\ current # L!Boot
  BY CurrentWorks DEF Wait, Wanting
<1>2. /\ current' \in Threads
      /\ \A t \in Threads : Asleep(t)' <=> Asleep(t) \/ t = current
      /\ UNCHANGED <<holder, depth>>
  BY BlockEffect DEF IInv, Wait
<1>3. waiter' = current /\ FifoEmpty' /\ UNCHANGED text
  BY DEF Wait, fifoVars, FifoEmpty
<1>4. Sleeping'
  BY <1>1, <1>2, <1>3, Slots DEF Sleeping
<1>5. Reads'
  BY <1>2, <1>3 DEF IInv, Reads
<1>6. QED
  BY <1>4, <1>5

LEMMA ReturnReaders ==
  ASSUME IInv, Return
  PROVE  Sleeping' /\ Reads'
<1>1. /\ current \in Threads /\ holder = current /\ holder' = L!None
      /\ current' \in Threads
      /\ \A t \in Threads : depth'[t] <= 1
      /\ UNCHANGED <<head, tail, waiter>>
  BY ReleaseEffect DEF IInv, Reads, Return, fifoVars
<1>2. waiter = L!None
  <2>1. current # L!Boot /\ ~ Asleep(current)
    BY <1>1, Slots, CurrentWorks
  <2>2. QED
    BY <1>1, <2>1 DEF IInv, Sleeping, TypeOK, Threads
<1>3. \A t \in Threads : text'[t] = IF t = current THEN <<>> ELSE text[t]
  BY DEF Return, IInv, TypeOK, Threads
<1>4. Sleeping'
  BY <1>1, <1>2, Slots DEF Sleeping
<1>5. Reads'
  BY <1>1, <1>3 DEF IInv, Reads
<1>6. QED
  BY <1>4, <1>5

-----------------------------------------------------------------------------
(* Types, and what is in the ring.                                         *)
Ring ==
    /\ buf \in [Cells -> Keys \cup {NoKey}]
    /\ head \in Cells /\ tail \in Cells
    /\ Contents \in Seq(Keys)

Calls ==
    /\ waiter \in Threads \cup {L!None}
    /\ want \in [Threads -> 0 .. MaxCount]
    /\ text \in [Threads -> Seq(Keys)]

Codes ==
    /\ ext \in BOOLEAN /\ shifts \subseteq K!ShiftKeys
    /\ locks \subseteq K!LockKeys
    /\ held \in BOOLEAN /\ capsOn \in BOOLEAN
    /\ meant \in Keys \cup {NoKey}

LEMMA TypeParts == TypeOK /\ Contents \in Seq(Keys) <=> L!TypeOK /\ Ring /\ Calls /\ Codes
BY DEF TypeOK, Ring, Calls, Codes, Threads

LEMMA SameRing ==
  ASSUME Ring, UNCHANGED <<buf, head, tail>>
  PROVE  Ring'
BY DEF Ring, Contents, Filled

LEMMA CharIsKey ==
  ASSUME NEW k \in Rows
  PROVE  /\ Plain[k] \in Keys \cup {NoKey} /\ Shifted[k] \in Keys \cup {NoKey}
         /\ K!Char(k) \in Keys \cup {NoKey}
BY DEF Keys, K!Char

LEMMA TypingTypes ==
  ASSUME IInv, NEW bytes, NEW char \in Keys \cup {NoKey}, Typing(bytes, char),
         held' \in BOOLEAN, capsOn' \in BOOLEAN
  PROVE  Ring' /\ Calls' /\ Codes'
<1>1. Ring /\ Calls /\ Codes
  BY TypeParts DEF IInv
<1>2. UNCHANGED <<buf, head, tail, waiter, want, text, ext, shifts, locks>> /\ meant' = char
  BY DEF Typing, readVars, codeVars
<1>3. QED
  BY <1>1, <1>2, SameRing DEF Calls, Codes

LEMMA PressTypes ==
  ASSUME Codes, NEW k,
         \/ K!Press(k) \/ K!Release(k) \/ K!Extend \/ K!Ignore
  PROVE  ext' \in BOOLEAN /\ shifts' \subseteq K!ShiftKeys /\ locks' \subseteq K!LockKeys
<1>1. \A down \in BOOLEAN : K!Down(k, down) \subseteq K!ShiftKeys
  BY DEF Codes, K!Down
<1>2. QED
  BY <1>1 DEF Codes, K!Press, K!Release, K!Extend, K!Ignore

LEMMA HandleTypes ==
  ASSUME IInv, Handle
  PROVE  Ring' /\ Calls' /\ Codes'
<1>1. Ring /\ Calls /\ Codes
  BY TypeParts DEF IInv
<1>2. UNCHANGED <<want, text, held, capsOn>>
  BY DEF Handle, userVars
<1>3. CASE HandleOther(Head(line))
  <2>1. UNCHANGED <<buf, head, tail, waiter, meant>>
    BY <1>3 DEF HandleOther, fifoVars
  <2>2. ext' \in BOOLEAN /\ shifts' \subseteq K!ShiftKeys /\ locks' \subseteq K!LockKeys
    BY <1>1, <1>3, PressTypes DEF HandleOther
  <2>3. QED
    BY <1>1, <1>2, <2>1, <2>2, SameRing DEF Calls, Codes
<1>4. ASSUME NEW k \in Rows, HandleMake(k) PROVE Ring' /\ Calls' /\ Codes'
  <2>1. ext' \in BOOLEAN /\ shifts' \subseteq K!ShiftKeys /\ locks' \subseteq K!LockKeys
    BY <1>1, <1>4, PressTypes DEF HandleMake
  <2>2. CASE K!Char(k) = NoKey
    <3>1. UNCHANGED <<buf, head, tail, waiter, meant>>
      BY <1>4, <2>2 DEF HandleMake, fifoVars
    <3>2. QED
      BY <1>1, <1>2, <2>1, <3>1, SameRing DEF Calls, Codes
  <2>3. CASE K!Char(k) # NoKey
    <3>1. K!Char(k) \in Keys /\ Enter(K!Char(k)) /\ meant' = NoKey
      BY <1>4, <2>3, CharIsKey DEF HandleMake
    <3>2. FifoPut(K!Char(k)) /\ waiter' = L!None
      BY <3>1 DEF Enter
    <3>3. Ring'
      BY <1>1, <3>1, <3>2, PutContents DEF Ring
    <3>4. QED
      BY <1>1, <1>2, <2>1, <3>1, <3>2, <3>3 DEF Calls, Codes
  <2>4. QED
    BY <2>2, <2>3
<1>5. QED
  BY <1>3, <1>4 DEF Handle

LEMMA StepTypes ==
  ASSUME IInv, [Next]_vars
  PROVE  Ring' /\ Calls' /\ Codes'
<1>1. Ring /\ Calls /\ Codes
  BY TypeParts DEF IInv
<1>2. ASSUME UNCHANGED keyVars PROVE Ring' /\ Calls' /\ Codes'
  BY <1>1, <1>2, SameRing DEF keyVars, readVars, codeVars, userVars, Calls, Codes
<1>3. CASE Preempt
  BY <1>2, <1>3 DEF Preempt
<1>4. CASE TypeShift
  BY <1>1, <1>4, TypingTypes DEF TypeShift, Codes
<1>5. CASE TypeCaps
  BY <1>1, <1>5, TypingTypes DEF TypeCaps, Codes
<1>6. ASSUME NEW k \in TypingKeys, TypeKey(k) PROVE Ring' /\ Calls' /\ Codes'
  <2>1. k \in Rows
    BY KeyboardAssumption DEF KeyboardAssumption
  <2>2. UNCHANGED <<held, capsOn>>
    BY <1>6 DEF TypeKey, userVars
  <2>3. Meaning(k) \in Keys \cup {NoKey} /\ Typing(Tap(k), Meaning(k))
    BY <1>6, <2>1, CharIsKey DEF TypeKey, Meaning
  <2>4. QED
    BY <1>1, <2>2, <2>3, TypingTypes DEF Codes
<1>7. ASSUME NEW k \in ArrowKeys, TypeArrow(k) PROVE Ring' /\ Calls' /\ Codes'
  <2>1. k \in Rows
    BY KeyboardAssumption DEF KeyboardAssumption
  <2>2. UNCHANGED <<held, capsOn>>
    BY <1>7 DEF TypeArrow, userVars
  <2>3. PICK bytes : Typing(bytes, Shifted[k])
    BY <1>7 DEF TypeArrow
  <2>4. QED
    BY <1>1, <2>1, <2>2, <2>3, CharIsKey, TypingTypes DEF Codes
<1>8. CASE TypeOther
  BY <1>1, <1>8, TypingTypes DEF TypeOther, userVars, Codes
<1>9. CASE Handle
  BY <1>9, HandleTypes
<1>10. ASSUME NEW count \in 1 .. MaxCount, Call(count) PROVE Ring' /\ Calls' /\ Codes'
  <2>1. UNCHANGED <<buf, head, tail, waiter, text, ext, shifts, locks, held, capsOn, meant>>
    BY <1>10 DEF Call, fifoVars, codeVars, userVars
  <2>2. want' \in [Threads -> 0 .. MaxCount]
    <3>1. count \in 0 .. MaxCount
      BY KeyboardAssumption DEF KeyboardAssumption
    <3>2. QED
      BY <1>1, <1>10, <3>1 DEF Call, Calls
  <2>3. QED
    BY <1>1, <2>1, <2>2, SameRing DEF Calls, Codes
<1>11. CASE CallAgain
  BY <1>2, <1>11 DEF CallAgain
<1>12. CASE Get
  <2>1. UNCHANGED <<buf, head, waiter, want, ext, shifts, locks, held, capsOn, meant>>
    BY <1>12 DEF Get, codeVars, userVars
  <2>2. Ring' /\ buf[tail] \in Keys
    BY <1>1, <1>12, <2>1, GetContents DEF Get, Ring
  <2>3. text' \in [Threads -> Seq(Keys)]
    <3>1. current \in Threads
      BY <1>12, CurrentWorks DEF Get, Wanting
    <3>2. Append(text[current], buf[tail]) \in Seq(Keys)
      BY <1>1, <2>2, <3>1 DEF Calls
    <3>3. QED
      BY <1>1, <1>12, <3>1, <3>2 DEF Get, Calls
  <2>4. QED
    BY <1>1, <2>1, <2>2, <2>3 DEF Calls, Codes
<1>13. CASE Wait
  <2>1. /\ UNCHANGED <<buf, head, tail, want, text, ext, shifts, locks, held, capsOn, meant>>
        /\ waiter' = current
    BY <1>13 DEF Wait, fifoVars, codeVars, userVars
  <2>2. current \in Threads
    BY <1>13, CurrentWorks DEF Wait, Wanting
  <2>3. QED
    BY <1>1, <2>1, <2>2, SameRing DEF Calls, Codes
<1>14. CASE Return
  <2>1. UNCHANGED <<buf, head, tail, waiter, ext, shifts, locks, held, capsOn, meant>>
    BY <1>14 DEF Return, fifoVars, codeVars, userVars
  <2>2. want' \in [Threads -> 0 .. MaxCount] /\ text' \in [Threads -> Seq(Keys)]
    <3>1. 0 \in 0 .. MaxCount /\ <<>> \in Seq(Keys)
      BY KeyboardAssumption DEF KeyboardAssumption
    <3>2. QED
      BY <1>1, <1>14, <3>1 DEF Return, Calls
  <2>3. QED
    BY <1>1, <2>1, <2>2, SameRing DEF Calls, Codes
<1>15. CASE UNCHANGED vars
  BY <1>2, <1>15 DEF vars
<1>16. QED
  BY <1>3, <1>4, <1>5, <1>6, <1>7, <1>8, <1>9, <1>10, <1>11, <1>12, <1>13, <1>14, <1>15
     DEF Next

-----------------------------------------------------------------------------
(* The decoding of the bytes.                                              *)
LEMMA Tails ==
  ASSUME NEW a, NEW b, NEW c, NEW d, NEW e, NEW f, NEW g, NEW h
  PROVE  /\ <<a>> # <<>> /\ Head(<<a>>) = a /\ Tail(<<a>>) = <<>>
         /\ <<a, b>> # <<>> /\ Head(<<a, b>>) = a /\ Tail(<<a, b>>) = <<b>>
         /\ <<a, b, c>> # <<>> /\ Head(<<a, b, c>>) = a /\ Tail(<<a, b, c>>) = <<b, c>>
         /\ <<a, b, c, d>> # <<>> /\ Head(<<a, b, c, d>>) = a
         /\ Tail(<<a, b, c, d>>) = <<b, c, d>>
         /\ <<a, b, c, d, e>> # <<>> /\ Head(<<a, b, c, d, e>>) = a
         /\ Tail(<<a, b, c, d, e>>) = <<b, c, d, e>>
         /\ <<a, b, c, d, e, f, g>> # <<>> /\ Head(<<a, b, c, d, e, f, g>>) = a
         /\ Tail(<<a, b, c, d, e, f, g>>) = <<b, c, d, e, f, g>>
         /\ <<a, b, c, d, e, f, g, h>> # <<>> /\ Head(<<a, b, c, d, e, f, g, h>>) = a
         /\ Tail(<<a, b, c, d, e, f, g, h>>) = <<b, c, d, e, f, g, h>>
OBVIOUS

LEMMA Bytes ==
  ASSUME NEW k, NEW j
  PROVE  /\ K!Make(k) = K!Make(j) => k = j
         /\ K!Break(k) # K!Make(j)
         /\ K!Prefix # K!Make(k) /\ K!Prefix # K!Break(k)
         /\ K!Make(k)[1] = k /\ K!Make(k)[2] = "make"
         /\ K!Break(k)[1] = k /\ K!Break(k)[2] = "break"
BY DEF K!Make, K!Break, K!Prefix

LEMMA KeyFacts ==
    /\ "OTHER" \notin Rows /\ "SHIFT_L" \in Rows /\ "CAPSLOCK" \in Rows
    /\ \A k \in {"SHIFT_L", "CAPSLOCK"} : Plain[k] = NoKey /\ Shifted[k] = NoKey
    /\ \A k \in TypingKeys \cup ArrowKeys :
          k \in Rows /\ k \notin K!ShiftKeys /\ k \notin K!LockKeys
    /\ \A k \in ArrowKeys : k # "SLASH"
    /\ "SHIFT_L" \in K!ShiftKeys /\ "SHIFT_L" \notin K!LockKeys
    /\ "CAPSLOCK" \notin K!ShiftKeys /\ "CAPSLOCK" \in K!LockKeys
BY KeyboardAssumption DEF KeyboardAssumption, Modifiers, K!ShiftKeys, K!LockKeys

(* What the handler does with each kind of byte.                           *)
LEMMA HandlePrefix ==
  ASSUME Handle, Head(line) = K!Prefix
  PROVE  ext' /\ UNCHANGED <<shifts, locks, meant, head>>
<1>1. \A k \in Rows : Head(line) # K!Make(k)
  BY Bytes
<1>2. HandleOther(K!Prefix)
  BY <1>1 DEF Handle
<1>3. QED
  BY <1>2 DEF HandleOther, K!Extend, fifoVars

LEMMA HandleUnknown ==
  ASSUME Handle, Head(line) \in {K!Make("OTHER"), K!Break("OTHER")}
  PROVE  ~ ext' /\ UNCHANGED <<shifts, locks, meant, head>>
<1>1. \A k \in Rows : Head(line) # K!Make(k)
  BY Bytes, KeyFacts
<1>2. HandleOther(Head(line))
  BY <1>1 DEF Handle
<1>3. Head(line) # K!Prefix /\ Head(line)[1] \notin Rows
  BY Bytes, KeyFacts
<1>4. QED
  BY <1>2, <1>3 DEF HandleOther, K!Ignore, fifoVars

LEMMA HandleBreak ==
  ASSUME Handle, NEW k \in Rows, Head(line) = K!Break(k)
  PROVE  ~ ext' /\ shifts' = K!Down(k, FALSE) /\ UNCHANGED <<locks, meant, head>>
<1>1. \A j \in Rows : Head(line) # K!Make(j)
  BY Bytes
<1>2. HandleOther(Head(line))
  BY <1>1 DEF Handle
<1>3. Head(line) # K!Prefix /\ Head(line)[1] = k
  BY Bytes
<1>4. QED
  BY <1>2, <1>3 DEF HandleOther, K!Release, fifoVars

LEMMA HandlesMake ==
  ASSUME Handle, NEW k \in Rows, Head(line) = K!Make(k)
  PROVE  HandleMake(k)
<1>1. \A j \in Rows : Head(line) = K!Make(j) => j = k
  BY Bytes
<1>2. ~ HandleOther(Head(line))
  <2>1. /\ Head(line) # K!Prefix /\ Head(line)[1] = k /\ Head(line)[2] # "break"
    BY Bytes
  <2>2. QED
    BY <2>1 DEF HandleOther
<1>3. QED
  BY <1>1, <1>2 DEF Handle

LEMMA HandleKey ==
  ASSUME Ring, Handle, NEW k \in Rows, Head(line) = K!Make(k), K!Char(k) = meant
  PROVE  /\ K!Press(k) /\ meant' = NoKey
         /\ head' # head => buf'[head] = meant
<1>2. HandleMake(k)
  BY HandlesMake
<1>3. CASE K!Char(k) = NoKey
  BY <1>2, <1>3 DEF HandleMake, fifoVars
<1>4. CASE K!Char(k) # NoKey
  <2>1. FifoPut(meant) /\ meant' = NoKey /\ K!Press(k)
    BY <1>2, <1>4 DEF HandleMake, Enter
  <2>2. buf'[head] = meant
    BY <2>1 DEF FifoPut, Ring
  <2>3. QED
    BY <2>1, <2>2
<1>5. QED
  BY <1>3, <1>4

LEMMA DownIs ==
  ASSUME NEW k, NEW down \in BOOLEAN
  PROVE  ext \/ k \notin K!ShiftKeys => K!Down(k, down) = shifts
BY DEF K!Down

\* What the step has to show: the invariant goes on, and a key that is
\* entered is the one that was meant.
KeyRight == head' # head => buf'[head] = meant

AsMeant == ~ LockedSymbol => /\ head' # head => buf'[head] = meant
                             /\ line # <<>> /\ line' = <<>> => meant' = NoKey

LEMMA HandleShift ==
  ASSUME IInv, Handle, ShiftComes
  PROVE  Decoding' /\ AsMeant
<1>1. Ring /\ UNCHANGED <<held, capsOn>> /\ line' = Tail(line) /\ ~ ext /\ meant = NoKey
  BY TypeParts DEF IInv, Handle, userVars, ShiftComes
<1>2. CASE held /\ line = <<K!Make("SHIFT_L")>> /\ shifts = {}
  <2>1. Head(line) = K!Make("SHIFT_L") /\ line' = <<>>
    BY <1>1, <1>2, Tails
  <2>2. K!Char("SHIFT_L") = meant
    BY <1>1, KeyFacts DEF K!Char
  <2>3. K!Press("SHIFT_L") /\ meant' = NoKey /\ AsMeant
    BY <1>1, <2>1, <2>2, KeyFacts, HandleKey DEF AsMeant
  <2>4. ~ ext' /\ shifts' = {"SHIFT_L"} /\ UNCHANGED locks
    BY <1>1, <1>2, <2>3, KeyFacts DEF K!Press, K!Down
  <2>5. Done'
    BY <1>1, <1>2, <2>1, <2>3, <2>4 DEF Done, AsHeld, Shifts, InStep, ShiftComes
  <2>6. QED
    BY <2>3, <2>5 DEF Decoding
<1>3. CASE ~ held /\ line = <<K!Break("SHIFT_L")>> /\ shifts = {"SHIFT_L"}
  <2>1. Head(line) = K!Break("SHIFT_L") /\ line' = <<>>
    BY <1>1, <1>3, Tails
  <2>2. ~ ext' /\ shifts' = K!Down("SHIFT_L", FALSE) /\ UNCHANGED <<locks, meant, head>>
    BY <2>1, KeyFacts, HandleBreak
  <2>3. shifts' = {}
    BY <1>1, <1>3, <2>2, KeyFacts DEF K!Down
  <2>4. Done' /\ AsMeant
    BY <1>1, <1>3, <2>1, <2>2, <2>3
       DEF Done, AsHeld, Shifts, InStep, ShiftComes, AsMeant
  <2>5. QED
    BY <2>4 DEF Decoding
<1>4. QED
  BY <1>2, <1>3 DEF ShiftComes

LEMMA HandleCaps ==
  ASSUME IInv, Handle, CapsComes
  PROVE  Decoding' /\ AsMeant
<1>1. /\ Ring /\ UNCHANGED <<held, capsOn>> /\ line' = Tail(line) /\ ~ ext /\ meant = NoKey
      /\ line = <<K!Make("CAPSLOCK"), K!Break("CAPSLOCK")>>
  BY TypeParts DEF IInv, Handle, userVars, CapsComes, Tap
<1>2. Head(line) = K!Make("CAPSLOCK") /\ line' = <<K!Break("CAPSLOCK")>>
  BY <1>1, Tails
<1>3. K!Char("CAPSLOCK") = meant
  BY <1>1, KeyFacts DEF K!Char
<1>4. K!Press("CAPSLOCK") /\ meant' = NoKey /\ AsMeant
  BY <1>1, <1>2, <1>3, KeyFacts, HandleKey DEF AsMeant
<1>5. ~ ext' /\ shifts' = shifts /\ ("CAPSLOCK" \in locks' <=> "CAPSLOCK" \notin locks)
  BY <1>4, KeyFacts, DownIs DEF K!Press
<1>6. KeyGoes'
  BY <1>1, <1>2, <1>4, <1>5 DEF KeyGoes, AsHeld, InStep, CapsComes, Shifts
<1>7. QED
  BY <1>4, <1>6 DEF Decoding

LEMMA HandlePressed ==
  ASSUME IInv, Handle, KeyComes
  PROVE  Decoding' /\ AsMeant
<1>1. PICK k \in TypingKeys :
         ~ ext /\ line = Tap(k) /\ AsHeld /\ meant = Meaning(k)
  BY DEF KeyComes
<1>2. Ring /\ Codes /\ UNCHANGED <<held, capsOn>> /\ line' = Tail(line)
  BY TypeParts DEF IInv, Handle, userVars
<1>3. Head(line) = K!Make(k) /\ line' = <<K!Break(k)>> /\ line # <<>>
  BY <1>1, <1>2, Tails DEF Tap
<1>4. K!Press(k) /\ (Swapped(k) \/ meant' = NoKey) /\ AsMeant
  <2>1. CASE Swapped(k)
    <3>1. LockedSymbol
      BY <1>1, <1>3, <2>1 DEF LockedSymbol
    <3>2. QED
      BY <1>3, <2>1, <3>1, KeyFacts, HandlesMake DEF AsMeant, HandleMake
  <2>2. CASE ~ Swapped(k)
    <3>1. K!Shift <=> held # capsOn
      BY <1>1, <1>2 DEF K!Shift, AsHeld, Shifts, InStep, Codes
    <3>2. capsOn => k \in Letters \/ Plain[k] = Shifted[k]
      BY <2>2 DEF Swapped
    <3>3. K!Char(k) = IF held # capsOn THEN Shifted[k] ELSE Plain[k]
      BY <1>1, <3>1 DEF K!Char
    <3>4. meant = IF held # (capsOn /\ k \in Letters) THEN Shifted[k] ELSE Plain[k]
      BY <1>1 DEF Meaning
    <3>5. K!Char(k) = meant
      <4>1. CASE capsOn /\ k \notin Letters
        <5>1. Shifted[k] = Plain[k]
          BY <3>2, <4>1
        <5>2. K!Char(k) = Plain[k] /\ meant = Plain[k]
          BY <3>3, <3>4, <5>1
        <5>3. QED
          BY <5>2
      <4>2. CASE ~ (capsOn /\ k \notin Letters)
        <5>1. (capsOn /\ k \in Letters) = capsOn
          BY <1>2, <4>2 DEF Codes
        <5>2. QED
          BY <3>3, <3>4, <5>1
      <4>3. QED
        BY <4>1, <4>2
    <3>6. line' # <<>>
      BY <1>3, Tails
    <3>7. QED
      BY <1>2, <1>3, <3>5, <3>6, KeyFacts, HandleKey DEF AsMeant
  <2>3. QED
    BY <2>1, <2>2
<1>6. ~ ext' /\ UNCHANGED <<shifts, locks>>
  BY <1>4, KeyFacts, DownIs DEF K!Press
<1>7. KeyGoes'
  <2>1. AsHeld' /\ (Swapped(k)' <=> Swapped(k))
    BY <1>1, <1>2, <1>6 DEF AsHeld, InStep, Shifts, Swapped
  <2>2. QED
    BY <1>3, <1>4, <1>6, <2>1 DEF KeyGoes
<1>8. QED
  BY <1>4, <1>7 DEF Decoding

LEMMA HandleReleased ==
  ASSUME IInv, Handle, KeyGoes
  PROVE  Decoding' /\ AsMeant
<1>1. PICK k \in TypingKeys \cup {"CAPSLOCK"} :
         ~ ext /\ line = <<K!Break(k)>> /\ (Swapped(k) \/ meant = NoKey) /\ AsHeld
  BY DEF KeyGoes
<1>2. UNCHANGED <<held, capsOn>> /\ line' = Tail(line)
  BY DEF Handle, userVars
<1>3. /\ line # <<>> /\ Head(line) = K!Break(k) /\ line' = <<>>
      /\ k \in Rows /\ k \notin K!ShiftKeys
  BY <1>1, <1>2, Tails, KeyFacts
<1>4. ~ ext' /\ UNCHANGED <<shifts, locks, meant, head>>
  BY <1>3, HandleBreak, DownIs
<1>5. Done'
  BY <1>1, <1>2, <1>3, <1>4 DEF Done, AsHeld, InStep, Shifts
<1>6. AsMeant
  <2>1. Swapped(k) => LockedSymbol
    BY <1>1, <1>3 DEF LockedSymbol, Swapped
  <2>2. QED
    BY <1>1, <1>4, <2>1 DEF AsMeant
<1>7. QED
  BY <1>5, <1>6 DEF Decoding

LEMMA HandlePrefixed ==
  ASSUME IInv, Handle, PrefixComes
  PROVE  Decoding' /\ AsMeant
<1>1. UNCHANGED <<held, capsOn>> /\ line' = Tail(line)
  BY DEF Handle, userVars
<1>2. ext' /\ UNCHANGED <<shifts, locks, meant, head>>
  BY HandlePrefix DEF PrefixComes
<1>3. Left(line', meant') /\ AsHeld'
  BY <1>1, <1>2 DEF PrefixComes, AsHeld, Shifts, InStep
<1>4. PrefixTaken'
  BY <1>2, <1>3 DEF PrefixTaken, Left
<1>5. line' # <<>>
  BY <1>3, Tails DEF Left
<1>6. QED
  BY <1>2, <1>4, <1>5 DEF Decoding, AsMeant

\* The handler after a byte with a prefix: the flags are as before, and the
\* rest of the codes, if any, begins with a prefix.
LEMMA AfterPrefixed ==
  ASSUME IInv, Handle, PrefixTaken, ~ ext', UNCHANGED <<shifts, locks>>, KeyRight,
         \/ line' = <<>> /\ meant' = NoKey
         \/ /\ line' # <<>> /\ Head(line') = K!Prefix
            /\ Left(Tail(line'), meant')
  PROVE  Decoding' /\ AsMeant
<1>1. UNCHANGED <<held, capsOn>> /\ AsHeld
  BY DEF Handle, userVars, PrefixTaken
<1>2. AsHeld'
  BY <1>1 DEF AsHeld, Shifts, InStep
<1>3. CASE line' = <<>> /\ meant' = NoKey
  <2>1. Done'
    BY <1>2, <1>3 DEF Done
  <2>2. QED
    BY <1>3, <2>1 DEF Decoding, AsMeant, KeyRight
<1>4. CASE /\ line' # <<>> /\ Head(line') = K!Prefix
           /\ Left(Tail(line'), meant')
  <2>1. PrefixComes'
    BY <1>2, <1>4 DEF PrefixComes, Left
  <2>2. QED
    BY <1>4, <2>1 DEF Decoding, AsMeant, KeyRight
<1>5. QED
  BY <1>3, <1>4

LEMMA HandleTaken ==
  ASSUME IInv, Handle, PrefixTaken
  PROVE  Decoding' /\ AsMeant
<1>1. ext /\ Left(line, meant) /\ line' = Tail(line) /\ Ring
  BY TypeParts DEF IInv, Handle, PrefixTaken
<1>2. ASSUME Head(line) \in {K!Make("OTHER"), K!Break("OTHER")}
      PROVE  ~ ext' /\ UNCHANGED <<shifts, locks, meant>> /\ KeyRight
  BY <1>2, HandleUnknown DEF KeyRight
<1>3. ASSUME NEW k \in Rows, Head(line) = K!Break(k)
      PROVE  ~ ext' /\ UNCHANGED <<shifts, locks, meant>> /\ KeyRight
  BY <1>1, <1>3, HandleBreak, DownIs DEF KeyRight
<1>4. ASSUME NEW k \in Rows, Head(line) = K!Make(k), k \notin K!LockKeys,
             K!Char(k) = meant
      PROVE  ~ ext' /\ UNCHANGED <<shifts, locks>> /\ meant' = NoKey /\ KeyRight
  <2>1. K!Press(k) /\ meant' = NoKey /\ KeyRight
    BY <1>1, <1>4, HandleKey DEF KeyRight
  <2>2. QED
    BY <1>1, <1>4, <2>1, DownIs DEF K!Press
<1>5. CASE line = <<K!Break("OTHER")>> /\ meant = NoKey
  <2>1. Head(line) = K!Break("OTHER") /\ line' = <<>>
    BY <1>1, <1>5, Tails
  <2>2. QED
    BY <1>2, <1>5, <2>1, AfterPrefixed
<1>6. CASE line = <<K!Make("OTHER"), K!Prefix, K!Break("OTHER")>> /\ meant = NoKey
  <2>1. /\ Head(line) = K!Make("OTHER") /\ line' = <<K!Prefix, K!Break("OTHER")>>
        /\ line' # <<>> /\ Head(line') = K!Prefix /\ Tail(line') = <<K!Break("OTHER")>>
    BY <1>1, <1>6, Tails
  <2>2. meant' = NoKey
    BY <1>2, <1>6, <2>1
  <2>3. Left(Tail(line'), meant')
    BY <2>1, <2>2 DEF Left
  <2>4. QED
    BY <1>2, <2>1, <2>3, AfterPrefixed
<1>7. CASE line = <<K!Make("SHIFT_L")>> /\ meant = NoKey
  <2>1. Head(line) = K!Make("SHIFT_L") /\ line' = <<>>
    BY <1>1, <1>7, Tails
  <2>2. K!Char("SHIFT_L") = meant
    BY <1>7, KeyFacts DEF K!Char
  <2>3. QED
    BY <1>4, <2>1, <2>2, KeyFacts, AfterPrefixed
<1>8. ASSUME NEW k \in ArrowKeys, meant = NoKey,
             line \in {<<K!Break(k)>>, <<K!Break(k), K!Prefix, K!Make("SHIFT_L")>>}
      PROVE  Decoding' /\ AsMeant
  <2>1. /\ Head(line) = K!Break(k)
        /\ \/ line' = <<>>
           \/ line' # <<>> /\ Head(line') = K!Prefix /\ Tail(line') = <<K!Make("SHIFT_L")>>
    <3>1. CASE line = <<K!Break(k)>>
      BY <1>1, <3>1, Tails
    <3>2. CASE line = <<K!Break(k), K!Prefix, K!Make("SHIFT_L")>>
      <4>1. Head(line) = K!Break(k) /\ line' = <<K!Prefix, K!Make("SHIFT_L")>>
        BY <1>1, <3>2, Tails
      <4>2. QED
        BY <4>1, Tails
    <3>3. QED
      BY <1>8, <3>1, <3>2
  <2>2. ~ ext' /\ UNCHANGED <<shifts, locks, meant>> /\ KeyRight
    BY <1>3, <2>1, KeyFacts
  <2>3. CASE line' = <<>>
    BY <1>8, <2>2, <2>3, AfterPrefixed
  <2>4. CASE line' # <<>> /\ Head(line') = K!Prefix /\ Tail(line') = <<K!Make("SHIFT_L")>>
    <3>1. Left(Tail(line'), meant')
      BY <1>8, <2>2, <2>4 DEF Left
    <3>2. QED
      BY <2>2, <2>4, <3>1, AfterPrefixed
  <2>5. QED
    BY <2>1, <2>3, <2>4
<1>9. ASSUME NEW k \in ArrowKeys, meant = Shifted[k],
             line \in {<<K!Make(k), K!Prefix, K!Break(k)>>,
                       <<K!Make(k), K!Prefix, K!Break(k), K!Prefix, K!Make("SHIFT_L")>>}
      PROVE  Decoding' /\ AsMeant
  <2>1. /\ Head(line) = K!Make(k) /\ line' # <<>> /\ Head(line') = K!Prefix
        /\ Tail(line') \in {<<K!Break(k)>>, <<K!Break(k), K!Prefix, K!Make("SHIFT_L")>>}
    <3>1. CASE line = <<K!Make(k), K!Prefix, K!Break(k)>>
      <4>1. Head(line) = K!Make(k) /\ line' = <<K!Prefix, K!Break(k)>>
        BY <1>1, <3>1, Tails
      <4>2. QED
        BY <4>1, Tails
    <3>2. CASE line = <<K!Make(k), K!Prefix, K!Break(k), K!Prefix, K!Make("SHIFT_L")>>
      <4>1. /\ Head(line) = K!Make(k)
            /\ line' = <<K!Prefix, K!Break(k), K!Prefix, K!Make("SHIFT_L")>>
        BY <1>1, <3>2, Tails
      <4>2. QED
        BY <4>1, Tails
    <3>3. QED
      BY <1>9, <3>1, <3>2
  <2>2. k \in Rows /\ k \notin K!LockKeys /\ K!Char(k) = meant
    BY <1>1, <1>9, KeyFacts DEF K!Char
  <2>3. ~ ext' /\ UNCHANGED <<shifts, locks>> /\ meant' = NoKey /\ KeyRight
    BY <1>4, <2>1, <2>2
  <2>4. Left(Tail(line'), meant')
    BY <2>1, <2>3 DEF Left
  <2>5. QED
    BY <2>1, <2>3, <2>4, AfterPrefixed
<1>10. ASSUME NEW k \in ArrowKeys, meant = Shifted[k],
              line = <<K!Break("SHIFT_L"), K!Prefix, K!Make(k), K!Prefix, K!Break(k),
                       K!Prefix, K!Make("SHIFT_L")>>
       PROVE  Decoding' /\ AsMeant
  <2>1. /\ Head(line) = K!Break("SHIFT_L") /\ line' # <<>> /\ Head(line') = K!Prefix
        /\ Tail(line') = <<K!Make(k), K!Prefix, K!Break(k), K!Prefix, K!Make("SHIFT_L")>>
    <3>1. /\ Head(line) = K!Break("SHIFT_L")
          /\ line' = <<K!Prefix, K!Make(k), K!Prefix, K!Break(k), K!Prefix, K!Make("SHIFT_L")>>
      BY <1>1, <1>10, Tails
    <3>2. QED
      BY <3>1
  <2>2. ~ ext' /\ UNCHANGED <<shifts, locks, meant>> /\ KeyRight
    BY <1>3, <2>1, KeyFacts
  <2>3. Left(Tail(line'), meant')
    BY <1>10, <2>1, <2>2 DEF Left
  <2>4. QED
    BY <2>1, <2>2, <2>3, AfterPrefixed
<1>11. QED
  BY <1>1, <1>5, <1>6, <1>7, <1>8, <1>9, <1>10 DEF Left

LEMMA HandleDecoding ==
  ASSUME IInv, Handle
  PROVE  Decoding' /\ AsMeant
<1>1. ~ Done
  BY DEF Handle, Done
<1>2. QED
  BY <1>1, HandleShift, HandleCaps, HandlePressed, HandleReleased, HandlePrefixed, HandleTaken
     DEF IInv, Decoding

(* When the controller holds no bytes, everything typed has been decoded.  *)
LEMMA NothingLeft ==
  ASSUME IInv, line = <<>>
  PROVE  Done
<1>1. \A a, b : <<a>> # <<>> /\ <<a, b>> # <<>>
  BY Tails
<1>2. ~ ShiftComes /\ ~ CapsComes /\ ~ KeyComes /\ ~ KeyGoes /\ ~ PrefixComes
  BY <1>1 DEF ShiftComes, CapsComes, KeyComes, KeyGoes, PrefixComes, Tap
<1>3. ~ PrefixTaken
  <2>1. SUFFICES ASSUME Left(<<>>, meant) PROVE FALSE
    BY DEF PrefixTaken
  <2>2. QED
    BY <2>1, Tails DEF Left
<1>4. QED
  BY <1>2, <1>3 DEF IInv, Decoding

LEMMA TypingDecoding ==
  ASSUME IInv, \/ TypeShift \/ TypeCaps \/ TypeOther
               \/ \E k \in TypingKeys : TypeKey(k)
               \/ \E k \in ArrowKeys : TypeArrow(k)
  PROVE  Decoding' /\ AsMeant
<1>1. ASSUME NEW bytes, NEW char, Typing(bytes, char)
      PROVE  /\ Done /\ line' = bytes /\ meant' = char
             /\ UNCHANGED <<ext, shifts, locks, head, buf>>
  BY <1>1, NothingLeft DEF Typing, codeVars, readVars
<1>2. held \in BOOLEAN /\ capsOn \in BOOLEAN
  BY DEF IInv, TypeOK
<1>3. CASE TypeShift
  <2>1. /\ Done /\ line' = <<(IF held THEN K!Break("SHIFT_L") ELSE K!Make("SHIFT_L"))>>
        /\ meant' = NoKey /\ UNCHANGED <<ext, shifts, locks, head, buf>>
    BY <1>1, <1>3 DEF TypeShift
  <2>2. held' = ~ held /\ UNCHANGED capsOn
    BY <1>3 DEF TypeShift
  <2>3. ShiftComes'
    BY <1>2, <2>1, <2>2 DEF ShiftComes, Done, AsHeld, InStep, Shifts
  <2>4. QED
    BY <2>1, <2>3 DEF Decoding, AsMeant
<1>4. CASE TypeCaps
  <2>1. /\ Done /\ line' = Tap("CAPSLOCK")
        /\ meant' = NoKey /\ UNCHANGED <<ext, shifts, locks, head, buf>>
    BY <1>1, <1>4 DEF TypeCaps
  <2>2. capsOn' = ~ capsOn /\ UNCHANGED held
    BY <1>4 DEF TypeCaps
  <2>3. CapsComes'
    BY <1>2, <2>1, <2>2 DEF CapsComes, Done, AsHeld, InStep, Shifts, Tap
  <2>4. QED
    BY <2>1, <2>3 DEF Decoding, AsMeant
<1>5. ASSUME UNCHANGED userVars, Done, UNCHANGED <<ext, shifts, locks>>
      PROVE  AsHeld' /\ ~ ext' /\ UNCHANGED <<held, capsOn>>
  BY <1>5 DEF Done, AsHeld, InStep, Shifts, userVars
<1>6. ASSUME NEW k \in TypingKeys, TypeKey(k) PROVE Decoding' /\ AsMeant
  <2>1. /\ Done /\ line' = Tap(k)
        /\ meant' = Meaning(k)
        /\ UNCHANGED <<ext, shifts, locks, head, buf>>
    BY <1>1, <1>6 DEF TypeKey
  <2>2. AsHeld' /\ ~ ext' /\ UNCHANGED <<held, capsOn>>
    BY <1>5, <1>6, <2>1 DEF TypeKey
  <2>3. KeyComes'
    BY <2>1, <2>2 DEF KeyComes, Tap, Meaning
  <2>4. QED
    BY <2>1, <2>3 DEF Decoding, AsMeant, Done
<1>7. ASSUME NEW bytes, NEW char, UNCHANGED userVars, Typing(bytes, char),
             bytes # <<>>, Head(bytes) = K!Prefix, Left(Tail(bytes), char)
      PROVE  Decoding' /\ AsMeant
  <2>1. /\ Done /\ line' = bytes /\ meant' = char
        /\ UNCHANGED <<ext, shifts, locks, head, buf>>
    BY <1>1, <1>7
  <2>2. AsHeld' /\ ~ ext'
    BY <1>5, <1>7, <2>1
  <2>3. PrefixComes'
    BY <1>7, <2>1, <2>2 DEF PrefixComes, Left
  <2>4. QED
    BY <2>1, <2>3 DEF Decoding, AsMeant, Done
<1>8. ASSUME NEW k \in ArrowKeys, TypeArrow(k) PROVE Decoding' /\ AsMeant
  <2> DEFINE P == K!Prefix
             M == K!Make(k)
             B == K!Break(k)
             U == K!Break("SHIFT_L")
             D == K!Make("SHIFT_L")
             plain == <<P, M, P, B>>
             shifted == <<P, U, P, M, P, B, P, D>>
  <2>1. Typing(IF held THEN shifted ELSE plain, Shifted[k]) /\ UNCHANGED userVars
    BY <1>8 DEF TypeArrow
  <2>2. CASE held
    <3>1. /\ shifted # <<>> /\ Head(shifted) = P
          /\ Tail(shifted) = <<U, P, M, P, B, P, D>>
      BY Tails
    <3>2. Left(Tail(shifted), Shifted[k])
      BY <3>1 DEF Left
    <3> HIDE DEF shifted
    <3>3. Typing(shifted, Shifted[k])
      BY <2>1, <2>2
    <3>4. QED
      BY <1>7, <2>1, <3>1, <3>2, <3>3
  <2>3. CASE ~ held
    <3>1. plain # <<>> /\ Head(plain) = P /\ Tail(plain) = <<M, P, B>>
      BY Tails
    <3>2. Left(Tail(plain), Shifted[k])
      BY <3>1 DEF Left
    <3> HIDE DEF plain
    <3>3. Typing(plain, Shifted[k])
      BY <2>1, <2>3
    <3>4. QED
      BY <1>7, <2>1, <3>1, <3>2, <3>3
  <2>4. QED
    BY <2>2, <2>3
<1>9. CASE TypeOther
  <2> DEFINE bytes == <<K!Prefix, K!Make("OTHER"), K!Prefix, K!Break("OTHER")>>
  <2>1. Typing(bytes, NoKey) /\ UNCHANGED userVars
    BY <1>9 DEF TypeOther
  <2>2. /\ bytes # <<>> /\ Head(bytes) = K!Prefix
        /\ Tail(bytes) = <<K!Make("OTHER"), K!Prefix, K!Break("OTHER")>>
    BY Tails
  <2>3. Left(Tail(bytes), NoKey)
    BY <2>2 DEF Left
  <2> HIDE DEF bytes
  <2>4. QED
    BY <1>7, <2>1, <2>2, <2>3
<1>10. QED
  BY <1>3, <1>4, <1>6, <1>8, <1>9

LEMMA StepDecoding ==
  ASSUME IInv, [Next]_vars
  PROVE  Decoding' /\ AsMeant
<1>1. ASSUME UNCHANGED <<ext, shifts, locks, line, held, capsOn, meant, head>>
      PROVE  Decoding' /\ AsMeant
  <2>1. Decoding'
    BY <1>1 DEF IInv, Decoding, Done, ShiftComes, CapsComes, KeyComes, KeyGoes, PrefixComes,
                PrefixTaken, AsHeld, InStep, Shifts, Left, Meaning, Swapped
  <2>2. QED
    BY <1>1, <2>1 DEF AsMeant
<1>2. ASSUME UNCHANGED keyVars PROVE Decoding' /\ AsMeant
  BY <1>1, <1>2 DEF keyVars, readVars, codeVars, userVars
<1>3. ASSUME NEW count \in 1 .. MaxCount, Call(count) PROVE Decoding' /\ AsMeant
  BY <1>1, <1>3 DEF Call, fifoVars, codeVars, userVars
<1>4. CASE Preempt \/ CallAgain \/ UNCHANGED vars
  BY <1>2, <1>4 DEF Preempt, CallAgain, vars
<1>5. CASE Get
  BY <1>1, <1>5 DEF Get, codeVars, userVars
<1>6. CASE Wait
  BY <1>1, <1>6 DEF Wait, fifoVars, codeVars, userVars
<1>7. CASE Return
  BY <1>1, <1>7 DEF Return, fifoVars, codeVars, userVars
<1>8. QED
  BY <1>3, <1>4, <1>5, <1>6, <1>7, TypingDecoding, HandleDecoding DEF Next

-----------------------------------------------------------------------------
LEMMA TypingReaders ==
  ASSUME IInv, NEW bytes, NEW char, Typing(bytes, char)
  PROVE  Sleeping' /\ Reads'
BY AsideReaders DEF Typing, lockVars, readVars

LEMMA StepReaders ==
  ASSUME IInv, [Next]_vars
  PROVE  Sleeping' /\ Reads'
<1>1. CASE Preempt
  BY <1>1, PreemptReaders
<1>2. CASE TypeShift \/ TypeCaps \/ TypeOther
  BY <1>2, TypingReaders DEF TypeShift, TypeCaps, TypeOther
<1>3. ASSUME NEW k \in TypingKeys, TypeKey(k) PROVE Sleeping' /\ Reads'
  BY <1>3, TypingReaders DEF TypeKey
<1>4. ASSUME NEW k \in ArrowKeys, TypeArrow(k) PROVE Sleeping' /\ Reads'
  <2>1. PICK bytes : Typing(bytes, Shifted[k])
    BY <1>4 DEF TypeArrow
  <2>2. QED
    BY <2>1, TypingReaders
<1>5. CASE Handle
  BY <1>5, HandleReaders
<1>6. ASSUME NEW count \in 1 .. MaxCount, Call(count) PROVE Sleeping' /\ Reads'
  BY <1>6, AcquireReaders DEF Call, fifoVars
<1>7. CASE CallAgain
  BY <1>7, AcquireReaders DEF CallAgain, keyVars, readVars
<1>8. CASE Get
  BY <1>8, GetReaders
<1>9. CASE Wait
  BY <1>9, WaitReaders
<1>10. CASE Return
  BY <1>10, ReturnReaders
<1>11. CASE UNCHANGED vars
  BY <1>11, AsideReaders DEF vars, lockVars, keyVars, readVars
<1>12. QED
  BY <1>1, <1>2, <1>3, <1>4, <1>5, <1>6, <1>7, <1>8, <1>9, <1>10, <1>11 DEF Next

LEMMA NextStep == IInv /\ [Next]_vars => IInv'
<1> SUFFICES ASSUME IInv, [Next]_vars PROVE IInv'
  OBVIOUS
<1>1. LP!IInv'
  BY StepKeepsLock, LockStep DEF IInv
<1>2. L!TypeOK'
  BY <1>1, LockFacts, PTL
<1>3. Ring' /\ Calls' /\ Codes'
  BY StepTypes
<1>4. (TypeOK /\ Contents \in Seq(Keys))'
  BY <1>2, <1>3, TypeParts, PTL
<1>5. Sleeping' /\ Reads' /\ Decoding'
  BY StepReaders, StepDecoding
<1>6. QED
  BY <1>1, <1>4, <1>5 DEF IInv

LEMMA Invariance == Spec => []IInv
BY InitIInv, NextStep, PTL DEF Spec

(* No reader sleeps while there is a key, the reader that sleeps is the    *)
(* one the handler wakes, and the characters of a call are consecutive,    *)
(* for any number of readers and any size of the ring.                     *)
THEOREM ReadersSoundCorrect == Spec => []ReadersSound
<1>1. IInv => ReadersSound
  <2> SUFFICES ASSUME IInv PROVE ReadersSound
    OBVIOUS
  <2>1. \A t \in Threads : waiter = t <=> holder = t /\ state[t] = "BLOCKED"
    BY DEF IInv, Sleeping, Asleep
  <2>2. waiter # L!None => FifoEmpty
    BY DEF IInv, Sleeping
  <2>3. \A t \in Threads : Partial(t) => holder = t
    BY DEF IInv, Reads, Partial
  <2>4. QED
    BY <2>1, <2>2, <2>3 DEF IInv, ReadersSound, Threads
<1>2. QED
  BY <1>1, Invariance, PTL

(* Every key enters the ring as the user meant it, a symbol under caps     *)
(* lock excepted, whatever is typed before and after it, and however the   *)
(* codes fall between the interrupts.                                      *)
THEOREM TypedAsMeantCorrect == Spec => TypedAsMeant
<1>1. IInv /\ [Next]_vars =>
         [~ LockedSymbol => /\ head' # head => buf'[head] = meant
                            /\ line # <<>> /\ line' = <<>> => meant' = NoKey]_vars
  BY StepDecoding DEF AsMeant
<1>2. QED
  BY <1>1, Invariance, PTL DEF Spec, TypedAsMeant

(* The readers and the handler keep to the lock and to the scheduler.      *)
THEOREM KeyboardImplementsLock == Spec => LockSpec
<1>1. Init => L!Init
  BY DEF Init
<1>2. IInv /\ [Next]_vars => [L!Next]_(L!vars)
  BY StepKeepsLock
<1>3. QED
  BY <1>1, <1>2, Invariance, PTL DEF Spec, LockSpec, L!Spec

(* Every step that leaves the ring alone leaves the keys alone, and those  *)
(* that do not are the three of TypeAhead.                                 *)
LEMMA SameContents ==
  ASSUME UNCHANGED <<fifoVars, text>>
  PROVE  UNCHANGED <<Contents, text>>
BY DEF fifoVars, Contents, Filled

LEMMA HandleIsType ==
  ASSUME IInv, Handle
  PROVE  [T!Next]_<<Contents, text>>
<1>1. UNCHANGED text
  BY DEF Handle
<1>2. CASE UNCHANGED fifoVars
  BY <1>1, <1>2, SameContents
<1>3. CASE \E k \in Rows : K!Char(k) # NoKey /\ FifoPut(K!Char(k))
  <2>1. PICK k \in Rows : K!Char(k) # NoKey /\ FifoPut(K!Char(k))
    BY <1>3
  <2>2. PICK c \in Keys : c = K!Char(k)
    BY <2>1, CharIsKey
  <2>3. FifoPut(c)
    BY <2>1, <2>2
  <2>4. Contents' = IF Len(Contents) < Length - 1 THEN Append(Contents, c)
                                                  ELSE Append(Tail(Contents), c)
    BY <2>3, PutContents DEF IInv, TypeOK
  <2>5. T!Type(c)
    BY <1>1, <2>4 DEF T!Type
  <2>6. QED
    BY <2>5 DEF T!Next
<1>4. QED
  BY <1>2, <1>3 DEF Handle, HandleOther, HandleMake, Enter

LEMMA StepIsTypeAhead ==
  ASSUME IInv, [Next]_vars
  PROVE  [T!Next]_<<Contents, text>>
<1>1. CASE Handle
  BY <1>1, HandleIsType
<1>2. CASE Get
  <2>1. /\ current \in Threads
        /\ text' = [text EXCEPT ![current] = Append(@, buf[tail])]
        /\ ~ FifoEmpty /\ tail' = FifoNext(tail) /\ UNCHANGED <<buf, head>>
    BY <1>2, LockFacts DEF Get, Wanting, IInv
  <2>2. /\ Contents # <<>> /\ buf[tail] = Head(Contents)
        /\ Contents' = Tail(Contents)
    BY <2>1, GetContents DEF IInv, TypeOK
  <2>3. T!Read(current)
    BY <2>1, <2>2 DEF T!Read
  <2>4. QED
    BY <2>1, <2>3 DEF T!Next, Threads
<1>3. CASE Return
  <2>1. /\ text' = [text EXCEPT ![current] = <<>>] /\ UNCHANGED fifoVars
    BY <1>3 DEF Return
  <2>2. current \in Threads
    BY <1>3, ReleaseEffect DEF Return, IInv, Reads
  <2>3. UNCHANGED Contents
    BY <2>1 DEF fifoVars, Contents, Filled
  <2>4. T!Restart(current)
    BY <2>1, <2>3 DEF T!Restart
  <2>5. QED
    BY <2>2, <2>4 DEF T!Next, Threads
<1>4. CASE UNCHANGED <<fifoVars, text>>
  BY <1>4, SameContents
<1>5. QED
  BY <1>1, <1>2, <1>3, <1>4
     DEF Next, vars, keyVars, readVars, fifoVars, Preempt, TypeShift, TypeCaps, TypeKey,
         TypeArrow, TypeOther, Typing, Call, CallAgain, Wait

(* No key is lost, doubled or out of order, but for the oldest ones that a *)
(* full ring gives up, for any size of the ring and any number of readers. *)
THEOREM KeyboardImplementsTypeAhead == Spec => TypeAheadSpec
<1>1. Init => T!Init
  <2> SUFFICES ASSUME Init PROVE T!Init
    OBVIOUS
  <2>1. head = 0 /\ tail = 0 /\ text = [t \in Threads |-> <<>>]
    BY DEF Init, Threads
  <2>2. head \in Cells /\ tail \in Cells
    BY <2>1, Sizes
  <2>3. Contents \in Seq(Keys)
    BY InitIInv DEF IInv
  <2>4. Len(Contents) = 0
    BY <2>1, <2>2, <2>3, ContentsLength, RingIs DEF FifoEmpty
  <2>5. Contents = <<>>
    BY <2>3, <2>4
  <2>6. QED
    BY <2>1, <2>5 DEF T!Init, Threads
<1>2. IInv /\ [Next]_vars => [T!Next]_<<Contents, text>>
  BY StepIsTypeAhead
<1>3. QED
  BY <1>1, <1>2, Invariance, PTL DEF Spec, TypeAheadSpec, T!Spec

-----------------------------------------------------------------------------
(* The console.  Its addresses are sums of a multiple of Width and a       *)
(* column; the two lemmas below are all that is used of multiplication.    *)
LEMMA Geometry ==
    /\ Width \in Nat /\ Width > 0 /\ Height \in Nat /\ Height > 0
    /\ Size \in Nat /\ PageSize \in Nat
    /\ Width <= PageSize
    /\ PageSize + Width + Width <= Size
    /\ TabStop \in 1 .. Width /\ MaxArgs \in Nat /\ MaxArgs >= 2 /\ MaxArg \in Nat
<1>1. /\ Width \in Nat /\ Width > 0 /\ Height \in Nat /\ Height > 0
      /\ MemRows \in Nat /\ MemRows > Height + 1
      /\ TabStop \in 1 .. Width /\ MaxArgs \in Nat /\ MaxArgs >= 2 /\ MaxArg \in Nat
  BY ConsoleAssumption DEF ConsoleAssumption
<1>2. ASSUME NEW h \in Nat, NEW m \in Nat, NEW w \in Nat, w > 0, h > 0, m >= h + 2
      PROVE  /\ h * w \in Nat /\ m * w \in Nat /\ h * w = w * h
             /\ w <= h * w /\ h * w + w + w <= m * w
  <2>1. PICK d \in Nat : m = h + 2 + d
    <3>1. m - (h + 2) \in Nat /\ m = h + 2 + (m - (h + 2))
      BY <1>2
    <3>2. QED
      BY <3>1
  <2>2. m * w = h * w + w + w + d * w /\ d * w \in Nat
    BY <2>1
  <2>3. PICK e \in Nat : h = e + 1
    <3>1. h - 1 \in Nat /\ h = (h - 1) + 1
      BY <1>2
    <3>2. QED
      BY <3>1
  <2>4. h * w = e * w + w /\ e * w \in Nat
    BY <2>3
  <2>5. QED
    BY <2>2, <2>4
<1>3. QED
  BY <1>1, <1>2 DEF Size, PageSize

LEMMA Area == PageSize = Width * Height
BY Geometry DEF PageSize

LEMMA RowFits ==
  ASSUME NEW y \in 0 .. Height - 1
  PROVE  /\ y * Width \in Nat /\ y * Width + Width <= PageSize
         /\ (y + 1) * Width = y * Width + Width
         /\ y + 1 < Height => y * Width + Width + Width <= PageSize
         /\ y + 1 >= Height => y * Width + Width = PageSize
<1>1. ASSUME NEW w \in Nat, NEW h \in Nat, NEW d \in Nat, NEW z \in Nat, h = z + 1 + d
      PROVE  /\ z * w \in Nat /\ z * w + w <= h * w /\ (z + 1) * w = z * w + w
             /\ d >= 1 => z * w + w + w <= h * w
             /\ d = 0 => z * w + w = h * w
  <2>1. h * w = z * w + w + d * w /\ d * w \in Nat /\ z * w \in Nat
    BY <1>1
  <2>2. ASSUME d >= 1 PROVE d * w >= w
    <3>1. PICK e \in Nat : d = e + 1
      <4>1. d - 1 \in Nat /\ d = (d - 1) + 1
        BY <2>2
      <4>2. QED
        BY <4>1
    <3>2. d * w = e * w + w /\ e * w \in Nat
      BY <3>1
    <3>3. QED
      BY <3>2
  <2>3. (z + 1) * w = z * w + w
    OBVIOUS
  <2>4. d = 0 => d * w = 0
    OBVIOUS
  <2>5. d * w \in Nat
    OBVIOUS
  <2>6. QED
    BY <2>1, <2>2, <2>3, <2>4, <2>5
<1>2. Height - 1 - y \in Nat /\ Height = y + 1 + (Height - 1 - y) /\ y \in Nat
  BY Geometry
<1>3. /\ y * Width \in Nat /\ y * Width + Width <= Height * Width
      /\ (y + 1) * Width = y * Width + Width
      /\ Height - 1 - y >= 1 => y * Width + Width + Width <= Height * Width
      /\ Height - 1 - y = 0 => y * Width + Width = Height * Width
  BY <1>1, <1>2, Geometry
<1>4. QED
  BY <1>3, Geometry DEF PageSize

\* A line further down.
LEMMA NextRow ==
    /\ 0 % Width = 0 /\ Width % Width = 0
    /\ \A s \in Nat : s % Width = 0 /\ s + PageSize + Width < Size =>
           /\ (s + Width) % Width = 0
           /\ s + PageSize + Width + Width <= Size
<1>1. Width % Width = 0 /\ 0 % Width = 0
  BY Geometry
<1>2. ASSUME NEW s \in Nat, s % Width = 0, s + PageSize + Width < Size
      PROVE  (s + Width) % Width = 0 /\ s + PageSize + Width + Width <= Size
  <2> DEFINE q == s \div Width  p == (s + Width) \div Width
  <2>0. /\ s = Width * q /\ q \in Int /\ p \in Int
        /\ s + Width = Width * p + ((s + Width) % Width)
        /\ (s + Width) % Width \in 0 .. Width - 1
    BY <1>2, Geometry
  <2>1. (s + Width) % Width = 0
    <3>1. ASSUME NEW w \in Nat, NEW k \in Int, NEW r \in 0 .. w - 1, w * k = r
          PROVE  r = 0
      <4>1. k > 0 => w * k >= w
        BY <3>1
      <4>2. k < 0 => w * k < 0
        BY <3>1
      <4>3. k = 0 => w * k = 0
        BY <3>1
      <4>4. QED
        BY <3>1, <4>1, <4>2, <4>3
    <3> HIDE DEF q, p
    <3>2. Width * (q + 1 - p) = (s + Width) % Width
      BY <2>0, Geometry
    <3>3. q + 1 - p \in Int
      BY <2>0
    <3>4. QED
      BY <2>0, <3>1, <3>2, <3>3, Geometry
  <2>2. PICK r \in Nat : s = r * Width
    <3>1. s = (s \div Width) * Width /\ s \div Width \in Nat
      BY <1>2, Geometry
    <3>2. QED
      BY <3>1
  <2>3. ASSUME NEW w \in Nat, w > 0, NEW n \in Nat, NEW m \in Nat, n * w < m * w
        PROVE  n * w + w <= m * w
    <3>1. CASE m >= n + 1
      <4>1. PICK d \in Nat : m = n + 1 + d
        <5>1. m - (n + 1) \in Nat /\ m = n + 1 + (m - (n + 1))
          BY <3>1
        <5>2. QED
          BY <5>1
      <4>2. m * w = n * w + w + d * w /\ d * w \in Nat
        BY <4>1
      <4>3. QED
        BY <4>2
    <3>2. CASE m <= n
      <4>1. PICK d \in Nat : n = m + d
        <5>1. n - m \in Nat /\ n = m + (n - m)
          BY <3>2
        <5>2. QED
          BY <5>1
      <4>2. n * w = m * w + d * w /\ d * w \in Nat
        BY <4>1
      <4>3. QED
        BY <4>2, <2>3
    <3>3. QED
      BY <3>1, <3>2
  <2> DEFINE n == r + Height + 1
  <2>4. s + PageSize + Width = n * Width /\ n \in Nat
    BY <2>2, Geometry DEF PageSize
  <2>5. Size = MemRows * Width /\ MemRows \in Nat
    BY ConsoleAssumption DEF ConsoleAssumption, Size
  <2> HIDE DEF n
  <2>6. n * Width + Width <= MemRows * Width
    BY <1>2, <2>3, <2>4, <2>5, Geometry
  <2>7. QED
    BY <2>1, <2>4, <2>5, <2>6
<1>3. QED
  BY <1>1, <1>2

-----------------------------------------------------------------------------
\* What CursorSound says of the console's fields.
Sound(c) ==
    /\ c \in Consoles
    /\ c.pos = LineStart(c) + c.x
    /\ c.screen % Width = 0
    /\ c.screen + PageSize + Width <= Size

LEMMA SoundParts ==
  ASSUME NEW c, Sound(c)
  PROVE  /\ c.mem \in [0 .. Size - 1 -> {Blank, Mark}]
         /\ c.screen \in Nat /\ c.screen + PageSize + Width <= Size
         /\ c.screen % Width = 0
         /\ c.x \in 0 .. Width /\ c.y \in 0 .. Height - 1
         /\ c.pos = c.screen + c.y * Width + c.x
         /\ c.y * Width \in Nat /\ c.y * Width + Width <= PageSize
         /\ LineStart(c) = c.screen + c.y * Width
         /\ c = [mem |-> c.mem, screen |-> c.screen, pos |-> c.pos, x |-> c.x, y |-> c.y]
<1>1. /\ c.mem \in [0 .. Size - 1 -> {Blank, Mark}]
      /\ c.screen \in 0 .. Size - 1 /\ c.x \in 0 .. Width /\ c.y \in 0 .. Height - 1
      /\ c = [mem |-> c.mem, screen |-> c.screen, pos |-> c.pos, x |-> c.x, y |-> c.y]
  BY DEF Sound, Consoles
<1>2. c.y * Width \in Nat /\ c.y * Width + Width <= PageSize
  BY <1>1, RowFits
<1>3. c.screen \in Nat
  BY <1>1, Geometry
<1>4. LineStart(c) = c.screen + c.y * Width
  BY DEF LineStart
<1>5. c.pos = LineStart(c) + c.x /\ c.screen % Width = 0 /\ c.screen + PageSize + Width <= Size
  BY DEF Sound
<1>6. QED
  BY <1>1, <1>2, <1>3, <1>4, <1>5

LEMMA SoundIs ==
  ASSUME NEW m \in [0 .. Size - 1 -> {Blank, Mark}],
         NEW s \in Nat, s % Width = 0, s + PageSize + Width <= Size,
         NEW x \in 0 .. Width, NEW y \in 0 .. Height - 1,
         NEW p, p = s + y * Width + x,
         NEW d, d = [mem |-> m, screen |-> s, pos |-> p, x |-> x, y |-> y]
  PROVE  Sound(d)
<1>1. y * Width \in Nat /\ y * Width + Width <= PageSize
  BY RowFits
<1> DEFINE r == y * Width
<1>2. r \in Nat /\ r + Width <= PageSize /\ p = s + r + x
  BY <1>1
<1> HIDE DEF r
<1>3. p \in 0 .. Size - 1 /\ s \in 0 .. Size - 1
  BY <1>2, Geometry
<1>4. d.mem = m /\ d.screen = s /\ d.pos = p /\ d.x = x /\ d.y = y
  OBVIOUS
<1>5. d \in Consoles
  BY <1>3 DEF Consoles
<1>6. LineStart(d) = s + y * Width
  BY <1>4 DEF LineStart
<1>7. QED
  BY <1>4, <1>5, <1>6 DEF Sound

\* The cursor elsewhere, and other contents of the memory.
Placed(c, x, y) == [c EXCEPT !.x = x, !.y = y, !.pos = c.screen + y * Width + x]
Holding(c, m)   == [c EXCEPT !.mem = m]

LEMMA PlacedSound ==
  ASSUME NEW c, Sound(c), NEW x \in 0 .. Width, NEW y \in 0 .. Height - 1
  PROVE  /\ Sound(Placed(c, x, y)) /\ Page(Placed(c, x, y)) = Page(c)
         /\ Placed(c, x, y).x = x /\ Placed(c, x, y).y = y
<1>1. Placed(c, x, y) = [mem |-> c.mem, screen |-> c.screen,
                         pos |-> c.screen + y * Width + x, x |-> x, y |-> y]
  <2> DEFINE m == c.mem  s == c.screen  p == c.pos  u == c.x  v == c.y
             r == s + y * Width + x
  <2>1. c = [mem |-> m, screen |-> s, pos |-> p, x |-> u, y |-> v]
    BY SoundParts
  <2>2. Placed(c, x, y) = [c EXCEPT !.x = x, !.y = y, !.pos = r]
    BY DEF Placed
  <2> HIDE DEF m, s, p, u, v, r
  <2>3. Placed(c, x, y) = [mem |-> m, screen |-> s, pos |-> r, x |-> x, y |-> y]
    BY <2>1, <2>2
  <2>4. QED
    BY <2>3 DEF m, s, r
<1>2. Sound(Placed(c, x, y))
  <2> DEFINE p == c.screen + y * Width + x
  <2>1. Placed(c, x, y) = [mem |-> c.mem, screen |-> c.screen, pos |-> p, x |-> x, y |-> y]
    BY <1>1
  <2>2. p = c.screen + y * Width + x
    OBVIOUS
  <2> HIDE DEF p
  <2>3. QED
    BY <2>1, <2>2, SoundParts, SoundIs
<1>3. Page(Placed(c, x, y)) = Page(c)
  BY <1>1 DEF Page
<1>4. QED
  BY <1>1, <1>2, <1>3

LEMMA HoldingSound ==
  ASSUME NEW c, Sound(c), NEW m \in [0 .. Size - 1 -> {Blank, Mark}]
  PROVE  /\ Sound(Holding(c, m))
         /\ Holding(c, m).x = c.x /\ Holding(c, m).y = c.y
         /\ Holding(c, m).screen = c.screen /\ Holding(c, m).pos = c.pos
         /\ Holding(c, m).mem = m
         /\ Page(Holding(c, m)) = [q \in 0 .. PageSize - 1 |-> m[c.screen + q]]
<1>1. Holding(c, m) = [mem |-> m, screen |-> c.screen,
                       pos |-> c.screen + c.y * Width + c.x, x |-> c.x, y |-> c.y]
  <2>1. c.pos = c.screen + c.y * Width + c.x
    BY SoundParts
  <2> DEFINE u == c.mem  s == c.screen  p == c.pos  x == c.x  y == c.y
  <2>2. c = [mem |-> u, screen |-> s, pos |-> p, x |-> x, y |-> y]
    BY SoundParts
  <2>3. Holding(c, m) = [c EXCEPT !.mem = m]
    BY DEF Holding
  <2> HIDE DEF u, s, p, x, y
  <2>4. Holding(c, m) = [mem |-> m, screen |-> s, pos |-> p, x |-> x, y |-> y]
    BY <2>2, <2>3
  <2>5. QED
    BY <2>1, <2>4 DEF s, p, x, y
<1>2. c.pos = c.screen + c.y * Width + c.x
  BY SoundParts
<1>3. Holding(c, m) = [mem |-> m, screen |-> c.screen, pos |-> c.pos, x |-> c.x, y |-> c.y]
  BY <1>1, <1>2
<1>4. Sound(Holding(c, m))
  BY <1>2, <1>3, SoundParts, SoundIs
<1>5. QED
  BY <1>3, <1>4 DEF Page

\* What the operations on the memory do.
Kept(d, c) == Sound(d) /\ d.x = c.x /\ d.y = c.y /\ d.screen = c.screen /\ d.pos = c.pos
Erased(d, c, a, n) ==
    /\ \A i \in 0 .. Size - 1 :
           d.mem[i] = IF i \in a .. a + n - 1 THEN Blank ELSE c.mem[i]
    /\ \A q \in 0 .. PageSize - 1 :
           Page(d)[q] = IF c.screen + q \in a .. a + n - 1 THEN Blank ELSE Page(c)[q]
Copied(d, c, to, from, n) == \A i \in 0 .. Size - 1 :
    d.mem[i] = IF i \in to .. to + n - 1 THEN c.mem[i - to + from] ELSE c.mem[i]
Set(d, c, p, v) ==
    /\ \A i \in 0 .. Size - 1 : d.mem[i] = IF i = p THEN v ELSE c.mem[i]
    /\ \A q \in 0 .. PageSize - 1 :
           Page(d)[q] = IF c.screen + q = p THEN v ELSE Page(c)[q]

\* The window lies in the memory.
LEMMA WindowIn ==
  ASSUME NEW c, Sound(c), NEW q \in 0 .. PageSize - 1
  PROVE  c.screen + q \in 0 .. Size - 1 /\ Page(c)[q] = c.mem[c.screen + q]
<1>1. c.screen + q \in 0 .. Size - 1
  <2>1. c.screen \in Nat /\ c.screen + PageSize + Width <= Size
    BY SoundParts
  <2>2. QED
    BY <2>1, Geometry
<1>2. QED
  BY <1>1 DEF Page

LEMMA SetXYKeeps ==
  ASSUME NEW c, Sound(c), NEW x \in Int, NEW y \in Int, NEW d, d = SetXY(c, x, y)
  PROVE  /\ Sound(d) /\ Page(d) = Page(c)
         /\ d.x \in 0 .. Width /\ d.y \in 0 .. Height - 1
<1>1. CASE x \notin 0 .. Width \/ y \notin 0 .. Height - 1
  BY <1>1, SoundParts DEF SetXY
<1>2. CASE x \in 0 .. Width /\ y \in 0 .. Height - 1
  <2>1. d = Placed(c, x, y)
    BY <1>2 DEF SetXY, Placed
  <2>2. QED
    BY <2>1, <1>2, PlacedSound
<1>3. QED
  BY <1>1, <1>2

LEMMA EraseEffect ==
  ASSUME NEW c, Sound(c), NEW a \in Int, NEW n \in Int, NEW d, d = EraseScreen(c, a, n)
  PROVE  Kept(d, c) /\ Erased(d, c, a, n)
<1> DEFINE m == [i \in DOMAIN c.mem |-> IF i \in a .. a + n - 1 THEN Blank ELSE c.mem[i]]
<1>1. m \in [0 .. Size - 1 -> {Blank, Mark}]
  BY SoundParts
<1>2. d = Holding(c, m)
  BY DEF EraseScreen, Holding
<1>3. \A i \in 0 .. Size - 1 : m[i] = IF i \in a .. a + n - 1 THEN Blank ELSE c.mem[i]
  BY SoundParts
<1> HIDE DEF m
<1>4. /\ Sound(d) /\ d.x = c.x /\ d.y = c.y /\ d.screen = c.screen /\ d.pos = c.pos
      /\ d.mem = m
  BY <1>1, <1>2, HoldingSound
<1>5. ASSUME NEW q \in 0 .. PageSize - 1
      PROVE  Page(d)[q] = IF c.screen + q \in a .. a + n - 1 THEN Blank ELSE Page(c)[q]
  BY <1>3, <1>4, WindowIn
<1>6. QED
  BY <1>3, <1>4, <1>5 DEF Kept, Erased

LEMMA CopyEffect ==
  ASSUME NEW c, Sound(c), NEW to \in Nat, NEW from \in Nat, NEW n \in Int,
         from + n <= Size, NEW d, d = Copy(c, to, from, n)
  PROVE  Kept(d, c) /\ Copied(d, c, to, from, n)
<1> DEFINE m == [i \in DOMAIN c.mem |-> IF i \in to .. to + n - 1
                                        THEN c.mem[i - to + from] ELSE c.mem[i]]
<1>1. \A i \in to .. to + n - 1 : i - to + from \in 0 .. Size - 1
  BY Geometry
<1>2. m \in [0 .. Size - 1 -> {Blank, Mark}]
  BY <1>1, SoundParts
<1>3. d = Holding(c, m)
  BY DEF Copy, Holding
<1>4. \A i \in 0 .. Size - 1 : m[i] = IF i \in to .. to + n - 1
                                      THEN c.mem[i - to + from] ELSE c.mem[i]
  BY SoundParts
<1> HIDE DEF m
<1>5. /\ Sound(d) /\ d.x = c.x /\ d.y = c.y /\ d.screen = c.screen /\ d.pos = c.pos
      /\ d.mem = m
  <2>1. /\ Sound(Holding(c, m))
        /\ Holding(c, m).x = c.x /\ Holding(c, m).y = c.y
        /\ Holding(c, m).screen = c.screen /\ Holding(c, m).pos = c.pos
        /\ Holding(c, m).mem = m
    BY <1>2, HoldingSound
  <2>2. QED
    BY <2>1, <1>3
<1>6. QED
  BY <1>4, <1>5 DEF Kept, Copied

LEMMA PutEffect ==
  ASSUME NEW c, Sound(c), NEW p \in 0 .. Size - 1, NEW v \in {Blank, Mark},
         NEW d, d = [c EXCEPT !.mem[p] = v]
  PROVE  Kept(d, c) /\ Set(d, c, p, v)
<1> DEFINE m == [c.mem EXCEPT ![p] = v]
<1>1. m \in [0 .. Size - 1 -> {Blank, Mark}]
  BY SoundParts
<1>2. d = Holding(c, m)
  BY Zenon DEF Holding
<1>3. \A i \in 0 .. Size - 1 : m[i] = IF i = p THEN v ELSE c.mem[i]
  BY SoundParts
<1> HIDE DEF m
<1>4. /\ Sound(d) /\ d.x = c.x /\ d.y = c.y /\ d.screen = c.screen /\ d.pos = c.pos
      /\ d.mem = m
  <2>1. /\ Sound(Holding(c, m))
        /\ Holding(c, m).x = c.x /\ Holding(c, m).y = c.y
        /\ Holding(c, m).screen = c.screen /\ Holding(c, m).pos = c.pos
        /\ Holding(c, m).mem = m
    BY <1>1, HoldingSound
  <2>2. QED
    BY <2>1, <1>2
<1>5. \A q \in 0 .. PageSize - 1 :
          Page(d)[q] = IF c.screen + q = p THEN v ELSE Page(c)[q]
  <2> TAKE q \in 0 .. PageSize - 1
  <2>1. /\ Page(d)[q] = d.mem[d.screen + q] /\ Page(c)[q] = c.mem[c.screen + q]
        /\ c.screen + q \in 0 .. Size - 1
    BY <1>4, WindowIn
  <2>2. QED
    BY <1>3, <1>4, <2>1
<1>6. QED
  BY <1>3, <1>4, <1>5 DEF Kept, Set

-----------------------------------------------------------------------------
\* The page moved up by a line, as Scr!Raised.
RaisedPage(P) == [q \in 0 .. PageSize - 1 |->
                     IF q + Width \in 0 .. PageSize - 1 THEN P[q + Width] ELSE Blank]

\* Another window on the memory.
Windowed(d, c, s) ==
    /\ d.x = c.x /\ d.y = c.y /\ d.screen = s
    /\ Page(d) = [q \in 0 .. PageSize - 1 |-> c.mem[s + q]]

LEMMA WindowSound ==
  ASSUME NEW c, Sound(c), NEW s \in Nat, s % Width = 0, s + PageSize + Width <= Size,
         NEW p, p = s + c.y * Width + c.x,
         NEW d, d = [c EXCEPT !.pos = p, !.screen = s]
  PROVE  Sound(d) /\ Windowed(d, c, s)
<1> DEFINE m == c.mem  z == c.screen  o == c.pos  u == c.x  v == c.y
<1>1. c = [mem |-> m, screen |-> z, pos |-> o, x |-> u, y |-> v]
  BY SoundParts
<1>2. /\ m \in [0 .. Size - 1 -> {Blank, Mark}] /\ u \in 0 .. Width /\ v \in 0 .. Height - 1
  BY SoundParts
<1>3. p = s + v * Width + u
  OBVIOUS
<1> HIDE DEF m, z, o, u, v
<1>4. d = [mem |-> m, screen |-> s, pos |-> p, x |-> u, y |-> v]
  BY <1>1
<1>5. ASSUME NEW e, e = [mem |-> m, screen |-> s, pos |-> p, x |-> u, y |-> v]
      PROVE  Sound(e) /\ e.mem = m /\ e.screen = s /\ e.x = u /\ e.y = v
  <2>1. Sound(e)
    BY <1>2, <1>3, <1>5, SoundIs, Zenon
  <2>2. QED
    BY <2>1, <1>5
<1>6. Sound(d)
  BY <1>4, <1>5, Zenon
<1>7. d.mem = m /\ d.screen = s /\ d.x = u /\ d.y = v
  BY <1>4, <1>5, Zenon
<1>8. QED
  BY <1>6, <1>7 DEF m, u, v, Page, Windowed

LEMMA RewindEffect ==
  ASSUME NEW c, Sound(c), NEW d, d = Rewind(c)
  PROVE  Sound(d) /\ d.x = c.x /\ d.y = c.y /\ d.screen = 0 /\ Page(d) = Page(c)
<1> DEFINE e == Copy(c, 0, c.screen, PageSize)
<1>0. c.screen \in Nat /\ c.screen + PageSize + Width <= Size
  BY SoundParts
<1>1. Kept(e, c) /\ Copied(e, c, 0, c.screen, PageSize)
  <2>1. c.screen + PageSize <= Size /\ PageSize \in Int /\ 0 \in Nat
    BY <1>0, Geometry
  <2>2. QED
    BY <1>0, <2>1, CopyEffect
<1>2. d = [e EXCEPT !.pos = e.pos - c.screen, !.screen = 0]
  BY DEF Rewind
<1> HIDE DEF e
<1>3. e.pos - c.screen = 0 + e.y * Width + e.x
  <2>1. /\ e.pos = e.screen + e.y * Width + e.x /\ e.y * Width \in Nat
        /\ e.x \in 0 .. Width /\ e.screen \in Nat
    BY <1>1, SoundParts DEF Kept
  <2> DEFINE r == e.y * Width
  <2>2. r \in Nat /\ e.pos = e.screen + r + e.x
    BY <2>1
  <2> HIDE DEF r
  <2>3. e.pos - c.screen = 0 + r + e.x
    BY <2>1, <2>2, <1>1, Geometry DEF Kept
  <2>4. QED
    BY <2>3 DEF r
<1>4. 0 % Width = 0 /\ 0 + PageSize + Width <= Size
  BY NextRow, Geometry
<1>5. Sound(d) /\ Windowed(d, e, 0)
  <2>1. 0 \in Nat /\ Sound(e)
    BY <1>1 DEF Kept
  <2>2. QED
    BY <1>2, <1>3, <1>4, <2>1, WindowSound
<1>6. ASSUME NEW q \in 0 .. PageSize - 1 PROVE e.mem[0 + q] = c.mem[c.screen + q]
  <2>1. 0 + q = q /\ q \in 0 .. Size - 1 /\ q - 0 + c.screen = c.screen + q
    BY <1>0, Geometry
  <2>2. QED
    BY <1>1, <2>1, Geometry DEF Copied
<1>7. QED
  BY <1>1, <1>5, <1>6 DEF Page, Windowed, Kept

LEMMA ScrollUpEffect ==
  ASSUME NEW c, Sound(c), NEW f, f = ScrollUp(c)
  PROVE  Sound(f) /\ f.x = c.x /\ f.y = c.y /\ Page(f) = RaisedPage(Page(c))
<1> DEFINE d == IF c.screen + PageSize + Width >= Size THEN Rewind(c) ELSE c
           e == EraseScreen(d, d.screen + PageSize, Width)
<1>0. c.screen \in Nat /\ c.screen + PageSize + Width <= Size
  BY SoundParts
<1>1. /\ Sound(d) /\ d.x = c.x /\ d.y = c.y /\ Page(d) = Page(c)
      /\ d.screen \in Nat /\ d.screen + PageSize + Width < Size
  <2>1. CASE c.screen + PageSize + Width >= Size
    <3>1. d = Rewind(c)
      BY <2>1
    <3>2. 0 + PageSize + Width < Size /\ 0 \in Nat
      BY Geometry
    <3> HIDE DEF d
    <3>3. QED
      BY <3>1, <3>2, RewindEffect
  <2>2. CASE ~ (c.screen + PageSize + Width >= Size)
    <3>1. d = c
      BY <2>2
    <3>2. c.screen + PageSize + Width < Size
      BY <2>2, <1>0, Geometry
    <3>3. QED
      BY <3>1, <3>2, <1>0
  <2>3. QED
    BY <2>1, <2>2
<1>2. f = [e EXCEPT !.screen = @ + Width, !.pos = @ + Width]
  BY DEF ScrollUp
<1> HIDE DEF d
<1>3. Kept(e, d) /\ Erased(e, d, d.screen + PageSize, Width)
  <2>1. d.screen + PageSize \in Int /\ Width \in Int
    BY <1>1, Geometry
  <2>2. QED
    BY <1>1, <2>1, EraseEffect
<1> HIDE DEF e
<1>4. f = [e EXCEPT !.pos = e.pos + Width, !.screen = e.screen + Width]
  BY <1>2
<1>5. e.pos + Width = (e.screen + Width) + e.y * Width + e.x
  <2>1. /\ e.pos = e.screen + e.y * Width + e.x /\ e.y * Width \in Nat
        /\ e.x \in 0 .. Width /\ e.screen \in Nat
    BY <1>3, SoundParts DEF Kept
  <2> DEFINE r == e.y * Width
  <2>2. r \in Nat /\ e.pos = e.screen + r + e.x
    BY <2>1
  <2> HIDE DEF r
  <2>3. e.pos + Width = (e.screen + Width) + r + e.x
    BY <2>1, <2>2, Geometry
  <2>4. QED
    BY <2>3 DEF r
<1>6. /\ e.screen + Width \in Nat /\ (e.screen + Width) % Width = 0
      /\ e.screen + Width + PageSize + Width <= Size
  <2>1. d.screen % Width = 0
    BY <1>1, SoundParts DEF Kept
  <2>2. (d.screen + Width) % Width = 0 /\ d.screen + PageSize + Width + Width <= Size
    BY <1>1, <2>1, NextRow
  <2>3. QED
    BY <1>1, <1>3, <2>2, Geometry DEF Kept
<1>7. Sound(f) /\ Windowed(f, e, e.screen + Width)
  <2> DEFINE s == e.screen + Width
  <2>1. s \in Nat /\ s % Width = 0 /\ s + PageSize + Width <= Size
    BY <1>6
  <2>2. f = [e EXCEPT !.pos = e.pos + Width, !.screen = s] /\ e.pos + Width = s + e.y * Width + e.x
    BY <1>4, <1>5
  <2>3. Sound(f) /\ Windowed(f, e, s)
    <3>1. Sound(e)
      BY <1>3 DEF Kept
    <3> HIDE DEF s
    <3>2. QED
      BY <2>1, <2>2, <3>1, WindowSound
  <2>4. QED
    BY <2>3
<1>8. ASSUME NEW q \in 0 .. PageSize - 1
      PROVE  e.mem[e.screen + Width + q]
                 = IF q + Width \in 0 .. PageSize - 1 THEN Page(c)[q + Width] ELSE Blank
  <2>1. e.screen + Width + q \in 0 .. Size - 1 /\ e.screen = d.screen
    BY <1>1, <1>3, Geometry DEF Kept
  <2>2. CASE q + Width \in 0 .. PageSize - 1
    <3>1. d.screen + Width + q \notin d.screen + PageSize .. d.screen + PageSize + Width - 1
      BY <2>2, <1>1, Geometry
    <3>2. Page(d)[q + Width] = d.mem[d.screen + (q + Width)]
      BY <2>2, <1>1, WindowIn
    <3>3. d.screen + Width + q = d.screen + (q + Width)
      BY <1>1, Geometry
    <3>4. QED
      BY <2>1, <2>2, <3>1, <3>2, <3>3, <1>1, <1>3 DEF Erased
  <2>3. CASE q + Width \notin 0 .. PageSize - 1
    <3>1. d.screen + Width + q \in d.screen + PageSize .. d.screen + PageSize + Width - 1
      BY <2>3, <1>1, Geometry
    <3>2. QED
      BY <2>1, <2>3, <3>1, <1>3 DEF Erased
  <2>4. QED
    BY <2>2, <2>3
<1>9. Page(f) = RaisedPage(Page(c))
  BY <1>7, <1>8 DEF RaisedPage, Windowed
<1>10. QED
  BY <1>1, <1>3, <1>7, <1>9 DEF Kept, Windowed

-----------------------------------------------------------------------------
\* The fields of a console, and what the assignments to some of them make.
Fields(m, s, p, x, y) == [mem |-> m, screen |-> s, pos |-> p, x |-> x, y |-> y]

Whole(c) == c = Fields(c.mem, c.screen, c.pos, c.x, c.y)

WithXPos(c, a, b) == [c EXCEPT !.x = a, !.pos = b]
WithPosX(c, a, b) == [c EXCEPT !.pos = b, !.x = a]
WithYPos(c, a, b) == [c EXCEPT !.y = a, !.pos = b]
WithXYPos(c, a, f, b) == [c EXCEPT !.x = a, !.y = f, !.pos = b]
WithXPosMem(c, a, b, f) == [c EXCEPT !.x = a, !.pos = b, !.mem = f]
WithMemPosX(c, a, b, f) == [c EXCEPT !.mem = f, !.pos = b, !.x = a]

LEMMA XPosEdit ==
  ASSUME NEW c, NEW a, NEW b, Whole(c)
  PROVE  WithXPos(c, a, b) = Fields(c.mem, c.screen, b, a, c.y)
<1> DEFINE m == c.mem  s == c.screen  p == c.pos  x == c.x  y == c.y
<1>1. c = Fields(m, s, p, x, y)
  BY DEF Whole
<1> HIDE DEF m, s, p, x, y
<1> DEFINE d == [c EXCEPT !.x = a]
<1>2. d = Fields(m, s, p, a, y)
  BY <1>1 DEF Fields
<1> HIDE DEF d
<1>3. [d EXCEPT !.pos = b] = Fields(m, s, b, a, y)
  BY <1>2 DEF Fields
<1>4. QED
  BY <1>3 DEF WithXPos, m, s, p, x, y, d

LEMMA PosXEdit ==
  ASSUME NEW c, NEW a, NEW b, Whole(c)
  PROVE  WithPosX(c, a, b) = Fields(c.mem, c.screen, b, a, c.y)
<1> DEFINE m == c.mem  s == c.screen  p == c.pos  x == c.x  y == c.y
<1>1. c = Fields(m, s, p, x, y)
  BY DEF Whole
<1> HIDE DEF m, s, p, x, y
<1> DEFINE d == [c EXCEPT !.pos = b]
<1>2. d = Fields(m, s, b, x, y)
  BY <1>1 DEF Fields
<1> HIDE DEF d
<1>3. [d EXCEPT !.x = a] = Fields(m, s, b, a, y)
  BY <1>2 DEF Fields
<1>4. QED
  BY <1>3 DEF WithPosX, m, s, p, x, y, d

LEMMA YPosEdit ==
  ASSUME NEW c, NEW a, NEW b, Whole(c)
  PROVE  WithYPos(c, a, b) = Fields(c.mem, c.screen, b, c.x, a)
<1> DEFINE m == c.mem  s == c.screen  p == c.pos  x == c.x  y == c.y
<1>1. c = Fields(m, s, p, x, y)
  BY DEF Whole
<1> HIDE DEF m, s, p, x, y
<1> DEFINE d == [c EXCEPT !.y = a]
<1>2. d = Fields(m, s, p, x, a)
  BY <1>1 DEF Fields
<1> HIDE DEF d
<1>3. [d EXCEPT !.pos = b] = Fields(m, s, b, x, a)
  BY <1>2 DEF Fields
<1>4. QED
  BY <1>3 DEF WithYPos, m, s, p, x, y, d

LEMMA XYPosEdit ==
  ASSUME NEW c, NEW a, NEW f, NEW b, Whole(c)
  PROVE  WithXYPos(c, a, f, b) = Fields(c.mem, c.screen, b, a, f)
<1> DEFINE m == c.mem  s == c.screen  p == c.pos  x == c.x  y == c.y
<1>1. c = Fields(m, s, p, x, y)
  BY DEF Whole
<1> HIDE DEF m, s, p, x, y
<1> DEFINE d == [c EXCEPT !.x = a]
<1>2. d = Fields(m, s, p, a, y)
  BY <1>1 DEF Fields
<1> HIDE DEF d
<1> DEFINE e == [d EXCEPT !.y = f]
<1>3. e = Fields(m, s, p, a, f)
  BY <1>2 DEF Fields
<1> HIDE DEF e
<1>4. [e EXCEPT !.pos = b] = Fields(m, s, b, a, f)
  BY <1>3 DEF Fields
<1>5. QED
  BY <1>4 DEF WithXYPos, m, s, p, x, y, d, e

LEMMA XPosMemEdit ==
  ASSUME NEW c, NEW a, NEW b, NEW f, Whole(c)
  PROVE  WithXPosMem(c, a, b, f) = Fields(f, c.screen, b, a, c.y)
<1> DEFINE m == c.mem  s == c.screen  p == c.pos  x == c.x  y == c.y
<1>1. c = Fields(m, s, p, x, y)
  BY DEF Whole
<1> HIDE DEF m, s, p, x, y
<1> DEFINE d == [c EXCEPT !.x = a]
<1>2. d = Fields(m, s, p, a, y)
  BY <1>1 DEF Fields
<1> HIDE DEF d
<1> DEFINE e == [d EXCEPT !.pos = b]
<1>3. e = Fields(m, s, b, a, y)
  BY <1>2 DEF Fields
<1> HIDE DEF e
<1>4. [e EXCEPT !.mem = f] = Fields(f, s, b, a, y)
  BY <1>3 DEF Fields
<1>5. QED
  BY <1>4 DEF WithXPosMem, m, s, p, x, y, d, e

LEMMA MemPosXEdit ==
  ASSUME NEW c, NEW a, NEW b, NEW f, Whole(c)
  PROVE  WithMemPosX(c, a, b, f) = Fields(f, c.screen, b, a, c.y)
<1> DEFINE m == c.mem  s == c.screen  p == c.pos  x == c.x  y == c.y
<1>1. c = Fields(m, s, p, x, y)
  BY DEF Whole
<1> HIDE DEF m, s, p, x, y
<1> DEFINE d == [c EXCEPT !.mem = f]
<1>2. d = Fields(f, s, p, x, y)
  BY <1>1 DEF Fields
<1> HIDE DEF d
<1> DEFINE e == [d EXCEPT !.pos = b]
<1>3. e = Fields(f, s, b, x, y)
  BY <1>2 DEF Fields
<1> HIDE DEF e
<1>4. [e EXCEPT !.x = a] = Fields(f, s, b, a, y)
  BY <1>3 DEF Fields
<1>5. QED
  BY <1>4 DEF WithMemPosX, m, s, p, x, y, d, e

LEMMA SoundFields ==
  ASSUME NEW c, Sound(c)
  PROVE  /\ Whole(c) /\ c = Fields(c.mem, c.screen, c.pos, c.x, c.y)
         /\ c.screen \in Nat /\ c.pos \in Nat /\ c.x \in 0 .. Width /\ c.y \in 0 .. Height - 1
<1>1. c = Fields(c.mem, c.screen, c.pos, c.x, c.y)
  BY SoundParts DEF Fields
<1>2. c.pos \in 0 .. Size - 1
  BY DEF Sound, Consoles
<1>3. QED
  BY <1>1, <1>2, SoundParts, Geometry DEF Whole

LEMMA PlacedFields ==
  ASSUME NEW c, Sound(c), NEW x, NEW y
  PROVE  Placed(c, x, y) = Fields(c.mem, c.screen, c.screen + y * Width + x, x, y)
<1> DEFINE p == c.screen + y * Width + x
<1>1. Placed(c, x, y) = [c EXCEPT !.x = x, !.y = y, !.pos = p]
  BY DEF Placed
<1> HIDE DEF p
<1>2. [c EXCEPT !.x = x, !.y = y, !.pos = p] = Fields(c.mem, c.screen, p, x, y)
  <2>1. WithXYPos(c, x, y, p) = Fields(c.mem, c.screen, p, x, y)
    BY SoundFields, XYPosEdit
  <2>2. QED
    BY <2>1 DEF WithXYPos
<1>3. QED
  BY <1>1, <1>2 DEF p

LEMMA Moves ==
  ASSUME NEW c, Sound(c), NEW n \in Int
  PROVE  /\ [c EXCEPT !.x = @ + n, !.pos = @ + n] = Placed(c, c.x + n, c.y)
         /\ c.y + 1 < Height =>
                [c EXCEPT !.y = @ + 1, !.pos = @ + Width] = Placed(c, c.x, c.y + 1)
         /\ [c EXCEPT !.pos = @ - c.x, !.x = 0] = Placed(c, 0, c.y)
<1> DEFINE m == c.mem  s == c.screen  o == c.pos  u == c.x  v == c.y
<1>1. /\ c = Fields(m, s, o, u, v)
      /\ s \in Nat /\ u \in 0 .. Width /\ v \in 0 .. Height - 1
      /\ o = s + v * Width + u
      /\ v * Width \in Nat /\ (v + 1) * Width = v * Width + Width
  BY SoundParts, SoundFields, RowFits
<1>2. /\ [c EXCEPT !.x = @ + n, !.pos = @ + n] = [c EXCEPT !.x = u + n, !.pos = o + n]
      /\ [c EXCEPT !.y = @ + 1, !.pos = @ + Width] = [c EXCEPT !.y = v + 1, !.pos = o + Width]
      /\ [c EXCEPT !.pos = @ - c.x, !.x = 0] = [c EXCEPT !.pos = o - u, !.x = 0]
  OBVIOUS
<1>3. /\ Placed(c, c.x + n, c.y) = Fields(m, s, s + v * Width + (u + n), u + n, v)
      /\ Placed(c, c.x, c.y + 1) = Fields(m, s, s + (v + 1) * Width + u, u, v + 1)
      /\ Placed(c, 0, c.y) = Fields(m, s, s + v * Width + 0, 0, v)
  BY PlacedFields
<1> HIDE DEF m, s, o, u, v
<1> DEFINE r == v * Width  t == (v + 1) * Width
<1>4. o + n = s + r + (u + n) /\ o + Width = s + t + u /\ o - u = s + r + 0
  <2>1. r \in Nat /\ t = r + Width /\ o = s + r + u
    BY <1>1
  <2> HIDE DEF r, t
  <2>2. QED
    BY <1>1, <2>1, Geometry
<1>5. [c EXCEPT !.x = u + n, !.pos = o + n] = Fields(m, s, o + n, u + n, v)
  <2> DEFINE a == u + n  b == o + n
  <2> HIDE DEF a, b
  <2>1. WithXPos(c, a, b) = Fields(m, s, b, a, v)
    BY SoundFields, XPosEdit DEF m, s, u, v
  <2>2. QED
    BY <2>1 DEF a, b, WithXPos, WithPosX, WithYPos
<1>6. [c EXCEPT !.y = v + 1, !.pos = o + Width] = Fields(m, s, o + Width, u, v + 1)
  <2> DEFINE a == v + 1  b == o + Width
  <2> HIDE DEF a, b
  <2>1. WithYPos(c, a, b) = Fields(m, s, b, u, a)
    BY SoundFields, YPosEdit DEF m, s, u, v
  <2>2. QED
    BY <2>1 DEF a, b, WithXPos, WithPosX, WithYPos
<1>7. [c EXCEPT !.pos = o - u, !.x = 0] = Fields(m, s, o - u, 0, v)
  <2> DEFINE a == 0  b == o - u
  <2> HIDE DEF a, b
  <2>1. WithPosX(c, a, b) = Fields(m, s, b, a, v)
    BY SoundFields, PosXEdit DEF m, s, u, v
  <2>2. QED
    BY <2>1 DEF a, b, WithXPos, WithPosX, WithYPos
<1>8. /\ [c EXCEPT !.x = @ + n, !.pos = @ + n] = Placed(c, c.x + n, c.y)
      /\ [c EXCEPT !.y = @ + 1, !.pos = @ + Width] = Placed(c, c.x, c.y + 1)
      /\ [c EXCEPT !.pos = @ - c.x, !.x = 0] = Placed(c, 0, c.y)
  BY <1>2, <1>3, <1>4, <1>5, <1>6, <1>7, Zenon
<1>9. QED
  BY <1>8

\* The cursor goes to column x of the next line, as Scr!Advance.
Advanced(d, c, x) ==
    /\ Sound(d) /\ d.x = x
    /\ d.y = IF c.y + 1 < Height THEN c.y + 1 ELSE c.y
    /\ Page(d) = IF c.y + 1 < Height THEN Page(c) ELSE RaisedPage(Page(c))

LEMMA LfEffect ==
  ASSUME NEW c, Sound(c), NEW d, d = Lf(c)
  PROVE  Advanced(d, c, c.x)
<1>1. c.x \in 0 .. Width /\ c.y \in 0 .. Height - 1
  BY SoundParts
<1>2. CASE c.y + 1 < Height
  <2>1. d = Placed(c, c.x, c.y + 1)
    <3>1. d = [c EXCEPT !.y = @ + 1, !.pos = @ + Width]
      BY <1>2 DEF Lf
    <3>2. 0 \in Int
      OBVIOUS
    <3>3. QED
      BY <1>2, <3>1, <3>2, Moves, Zenon
  <2>2. c.y + 1 \in 0 .. Height - 1
    BY <1>1, <1>2, Geometry
  <2>3. QED
    BY <1>1, <1>2, <2>1, <2>2, PlacedSound DEF Advanced
<1>3. CASE ~ (c.y + 1 < Height)
  BY <1>3, ScrollUpEffect DEF Lf, Advanced
<1>4. QED
  BY <1>2, <1>3

LEMMA CrEffect ==
  ASSUME NEW c, Sound(c), NEW d, d = Cr(c)
  PROVE  Sound(d) /\ d.x = 0 /\ d.y = c.y /\ Page(d) = Page(c)
<1>1. c.y \in 0 .. Height - 1 /\ 0 \in Int /\ 0 \in 0 .. Width
  BY SoundParts, Geometry
<1>2. d = Placed(c, 0, c.y)
  <2>1. d = [c EXCEPT !.pos = @ - c.x, !.x = 0]
    BY DEF Cr
  <2>2. QED
    BY <1>1, <2>1, Moves, Zenon
<1>3. QED
  BY <1>1, <1>2, PlacedSound

\* tab and chr: the column x of the line, or else one of the next line.
LEMMA WrapEffect ==
  ASSUME NEW c, Sound(c), NEW n \in Nat, n <= Width,
         NEW d, d = Wrap([c EXCEPT !.x = @ + n, !.pos = @ + n])
  PROVE  IF c.x + n < Width
         THEN Sound(d) /\ d.x = c.x + n /\ d.y = c.y /\ Page(d) = Page(c)
         ELSE Advanced(d, c, c.x + n - Width)
<1>1. c.x \in 0 .. Width /\ c.y \in 0 .. Height - 1 /\ n \in Int
  BY SoundParts
<1> DEFINE e == Placed(c, c.x + n, c.y)  p == c.screen + c.y * Width + (c.x + n)
<1>2. d = Wrap(e)
  <2>1. [c EXCEPT !.x = @ + n, !.pos = @ + n] = e
    BY <1>1, Moves
  <2>2. QED
    BY <2>1
<1>3. e = Fields(c.mem, c.screen, p, c.x + n, c.y)
  BY PlacedFields
<1> HIDE DEF e
<1>4. /\ e.mem = c.mem /\ e.screen = c.screen /\ e.pos = p /\ e.x = c.x + n /\ e.y = c.y
      /\ Whole(e)
  BY <1>3 DEF Fields, Whole
<1>5. CASE c.x + n < Width
  <2>1. d = Placed(c, c.x + n, c.y)
    BY <1>2, <1>4, <1>5 DEF Wrap, e
  <2>2. c.x + n \in 0 .. Width
    BY <1>1, <1>5, Geometry
  <2>3. QED
    BY <1>1, <1>5, <2>1, <2>2, PlacedSound
<1>6. CASE ~ (c.x + n < Width)
  <2> DEFINE x == c.x + n - Width  f == Placed(c, x, c.y)
  <2>1. WithXPos(e, e.x - Width, e.pos - Width) = f
    <3>1. WithXPos(e, e.x - Width, e.pos - Width)
              = Fields(e.mem, e.screen, e.pos - Width, e.x - Width, e.y)
      BY <1>4, XPosEdit
    <3>2. f = Fields(c.mem, c.screen, c.screen + c.y * Width + x, x, c.y)
      BY PlacedFields
    <3>3. e.pos - Width = c.screen + c.y * Width + x /\ e.x - Width = x
      <4> DEFINE r == c.y * Width
      <4>1. r \in Nat /\ c.screen \in Nat /\ p = c.screen + r + (c.x + n) /\ e.pos = p
        BY <1>4, SoundParts
      <4> HIDE DEF r, p
      <4>2. p - Width = c.screen + r + x /\ c.x + n - Width = x
        BY <1>1, <4>1, Geometry
      <4>3. e.pos - Width = c.screen + r + x /\ e.x - Width = x
        BY <1>1, <1>4, <4>1, <4>2, Geometry
      <4>4. QED
        BY <4>3 DEF r
    <3> HIDE DEF f, x, p
    <3>4. QED
      BY <1>4, <3>1, <3>2, <3>3
  <2>2. d = Lf(f)
    <3>1. d = Lf([e EXCEPT !.x = @ - Width, !.pos = @ - Width])
      BY <1>2, <1>4, <1>6 DEF Wrap
    <3> HIDE DEF f
    <3>2. QED
      BY <2>1, <3>1 DEF WithXPos
  <2>3. x \in 0 .. Width
    BY <1>1, <1>6, Geometry
  <2>4. Sound(f) /\ f.x = x /\ f.y = c.y /\ Page(f) = Page(c)
    BY <1>1, <2>3, PlacedSound
  <2> HIDE DEF f, x
  <2>5. Advanced(d, f, f.x)
    BY <2>2, <2>4, LfEffect
  <2>6. Advanced(d, c, x)
    BY <2>4, <2>5 DEF Advanced
  <2>7. QED
    BY <1>6, <2>6 DEF x
<1>7. QED
  BY <1>5, <1>6

LEMMA TabEffect ==
  ASSUME NEW c, Sound(c), NEW d, d = Tab(c)
  PROVE  LET to == c.x + TabStop - (c.x % TabStop) IN
         IF to < Width
         THEN Sound(d) /\ d.x = to /\ d.y = c.y /\ Page(d) = Page(c)
         ELSE Advanced(d, c, to - Width)
<1> DEFINE n == TabStop - (c.x % TabStop)
<1>1. c.x \in 0 .. Width /\ TabStop \in Nat /\ TabStop > 0 /\ TabStop <= Width
  BY SoundFields, Geometry
<1>2. \A x, t \in Nat : t > 0 => x % t \in 0 .. t - 1
  OBVIOUS
<1>3. c.x % TabStop \in 0 .. TabStop - 1
  BY <1>1, <1>2, Geometry
<1>4. n \in Nat /\ n <= Width /\ c.x + TabStop - (c.x % TabStop) = c.x + n
  <2> DEFINE k == c.x % TabStop
  <2>1. k \in 0 .. TabStop - 1
    BY <1>3
  <2> HIDE DEF k
  <2>2. TabStop - k \in Nat /\ TabStop - k <= Width /\ c.x + TabStop - k = c.x + (TabStop - k)
    BY <1>1, <2>1, Geometry
  <2>3. QED
    BY <2>2 DEF k
<1>5. d = Wrap([c EXCEPT !.x = @ + n, !.pos = @ + n])
  BY DEF Tab
<1> HIDE DEF n
<1>6. IF c.x + n < Width
      THEN Sound(d) /\ d.x = c.x + n /\ d.y = c.y /\ Page(d) = Page(c)
      ELSE Advanced(d, c, c.x + n - Width)
  BY <1>4, <1>5, WrapEffect, Zenon
<1> DEFINE to == c.x + TabStop - (c.x % TabStop)
<1>7. to = c.x + n
  BY <1>4
<1> HIDE DEF to
<1>8. IF to < Width
      THEN Sound(d) /\ d.x = to /\ d.y = c.y /\ Page(d) = Page(c)
      ELSE Advanced(d, c, to - Width)
  <2>1. c.x + n - Width = to - Width
    BY <1>1, <1>4, <1>7, Geometry
  <2>2. QED
    BY <1>6, <1>7, <2>1
<1>9. QED
  BY <1>8 DEF to

\* The cell before the cursor, the cursor's cell.
LEMMA BsEffect ==
  ASSUME NEW c, Sound(c), c.x > 0, NEW d, d = Bs(c)
  PROVE  /\ Sound(d) /\ d.x = c.x - 1 /\ d.y = c.y
         /\ \A q \in 0 .. PageSize - 1 :
                Page(d)[q] = IF q = c.y * Width + c.x - 1 THEN Blank ELSE Page(c)[q]
<1>1. /\ c.x \in 0 .. Width /\ c.y \in 0 .. Height - 1 /\ c.screen \in Nat
      /\ c.screen + PageSize + Width <= Size
      /\ c.y * Width \in Nat /\ c.y * Width + Width <= PageSize
      /\ c.pos = c.screen + c.y * Width + c.x
  BY SoundParts
<1> DEFINE m == [c.mem EXCEPT ![c.pos - 1] = Blank]
           e == Placed(c, c.x - 1, c.y)
           r == c.y * Width
<1>2. /\ c.pos - 1 = c.screen + r + (c.x - 1) /\ c.pos - 1 \in 0 .. Size - 1
      /\ c.x - 1 \in 0 .. Width
  <2>1. r \in Nat /\ r + Width <= PageSize /\ c.pos = c.screen + r + c.x
    BY <1>1
  <2> HIDE DEF r
  <2>2. QED
    BY <1>1, <2>1, Geometry
<1>3. Sound(e) /\ Page(e) = Page(c) /\ e.x = c.x - 1 /\ e.y = c.y
  BY <1>1, <1>2, PlacedSound
<1>4. e = Fields(c.mem, c.screen, c.pos - 1, c.x - 1, c.y)
  BY <1>2, PlacedFields
<1>5. d = Fields(m, c.screen, c.pos - 1, c.x - 1, c.y)
  <2>1. c.x # 0
    BY <1>1
  <2>2. d = WithXPosMem(c, c.x - 1, c.pos - 1, m)
    BY <2>1 DEF Bs, WithXPosMem
  <2> HIDE DEF m
  <2>3. QED
    BY <2>2, SoundFields, XPosMemEdit
<1> HIDE DEF e, m
<1>6. /\ e.mem = c.mem /\ e.screen = c.screen /\ e.x = c.x - 1 /\ e.y = c.y
      /\ e.pos = c.pos - 1 /\ Whole(e)
  BY <1>4 DEF Fields, Whole
<1>7. d = Holding(e, m)
  <2> DEFINE o == e.pos  s == e.screen  u == e.x  v == e.y
  <2>1. e = Fields(e.mem, s, o, u, v) /\ d = Fields(m, s, o, u, v)
    BY <1>5, <1>6 DEF Whole
  <2> HIDE DEF o, s, u, v
  <2>2. [e EXCEPT !.mem = m] = Fields(m, s, o, u, v)
    BY <2>1 DEF Fields
  <2>3. QED
    BY <2>1, <2>2 DEF Holding
<1>8. m = [e.mem EXCEPT ![c.pos - 1] = Blank]
  BY <1>6 DEF m
<1>9. d = [e EXCEPT !.mem[c.pos - 1] = Blank]
  BY <1>7, <1>8 DEF Holding
<1>10. Kept(d, e) /\ Set(d, e, c.pos - 1, Blank)
  <2> DEFINE o == c.pos - 1
  <2>1. o \in 0 .. Size - 1 /\ Blank \in {Blank, Mark} /\ d = [e EXCEPT !.mem[o] = Blank]
    BY <1>2, <1>9
  <2> HIDE DEF o
  <2>2. Kept(d, e) /\ Set(d, e, o, Blank)
    BY <1>3, <2>1, PutEffect, Zenon
  <2>3. QED
    BY <2>2 DEF o
<1>11. ASSUME NEW q \in 0 .. PageSize - 1
       PROVE  Page(d)[q] = IF q = r + c.x - 1 THEN Blank ELSE Page(c)[q]
  <2>1. Page(d)[q] = IF c.screen + q = c.pos - 1 THEN Blank ELSE Page(c)[q]
    BY <1>3, <1>6, <1>10 DEF Set
  <2>2. r \in Nat /\ c.pos = c.screen + r + c.x
    BY <1>1
  <2> HIDE DEF r
  <2>3. c.screen + q = c.pos - 1 <=> q = r + c.x - 1
    BY <1>1, <2>2, Geometry
  <2>4. QED
    BY <2>1, <2>3
<1>12. QED
  BY <1>3, <1>10, <1>11 DEF Kept

LEMMA DelEffect ==
  ASSUME NEW c, Sound(c), NEW d, d = Del(c)
  PROVE  /\ Sound(d) /\ d.x = c.x /\ d.y = c.y
         /\ \A q \in 0 .. PageSize - 1 :
                Page(d)[q] = IF q = c.y * Width + c.x THEN Blank ELSE Page(c)[q]
<1> DEFINE o == c.pos  r == c.y * Width
<1>1. o \in 0 .. Size - 1 /\ Blank \in {Blank, Mark}
  BY DEF Sound, Consoles
<1>2. d = [c EXCEPT !.mem[o] = Blank]
  BY DEF Del
<1>3. o = c.screen + r + c.x /\ r \in Nat /\ c.screen \in Nat /\ c.x \in 0 .. Width
  BY SoundParts
<1> HIDE DEF o, r
<1>4. Kept(d, c) /\ Set(d, c, o, Blank)
  BY <1>1, <1>2, PutEffect, Zenon
<1>5. ASSUME NEW q \in 0 .. PageSize - 1
      PROVE  Page(d)[q] = IF q = r + c.x THEN Blank ELSE Page(c)[q]
  <2>1. c.screen + q = o <=> q = r + c.x
    BY <1>3, Geometry
  <2>2. QED
    BY <1>4, <2>1 DEF Set
<1>6. QED
  BY <1>4, <1>5 DEF Kept, r

\* The character that is typed before the last column of a line is passed.
Marked(d, e) ==
    /\ d.x = e.x + 1 /\ d.y = e.y
    /\ \A q \in 0 .. PageSize - 1 :
           Page(d)[q] = IF q = e.y * Width + e.x THEN Mark ELSE Page(e)[q]

LEMMA TypeEffect ==
  ASSUME NEW c, Sound(c), c.x < Width,
         NEW d, d = [c EXCEPT !.mem[c.pos] = Mark, !.pos = @ + 1, !.x = @ + 1]
  PROVE  Sound(d) /\ Marked(d, c)
<1>1. /\ c.x \in 0 .. Width /\ c.y \in 0 .. Height - 1 /\ c.screen \in Nat
      /\ c.screen + PageSize + Width <= Size
      /\ c.y * Width \in Nat /\ c.y * Width + Width <= PageSize
      /\ c.pos = c.screen + c.y * Width + c.x
  BY SoundParts
<1> DEFINE m == [c.mem EXCEPT ![c.pos] = Mark]
           e == Placed(c, c.x + 1, c.y)
           r == c.y * Width
<1>2. /\ c.pos + 1 = c.screen + r + (c.x + 1) /\ c.pos \in 0 .. Size - 1
      /\ c.x + 1 \in 0 .. Width
  <2>1. r \in Nat /\ r + Width <= PageSize /\ c.pos = c.screen + r + c.x
    BY <1>1
  <2> HIDE DEF r
  <2>2. QED
    BY <1>1, <2>1, Geometry
<1>3. Sound(e) /\ Page(e) = Page(c) /\ e.x = c.x + 1 /\ e.y = c.y
  BY <1>1, <1>2, PlacedSound
<1>4. e = Fields(c.mem, c.screen, c.pos + 1, c.x + 1, c.y)
  BY <1>2, PlacedFields
<1>5. d = Fields(m, c.screen, c.pos + 1, c.x + 1, c.y)
  <2>1. d = WithMemPosX(c, c.x + 1, c.pos + 1, m)
    BY DEF WithMemPosX
  <2> HIDE DEF m
  <2>2. QED
    BY <2>1, SoundFields, MemPosXEdit
<1> HIDE DEF e, m
<1>6. /\ e.mem = c.mem /\ e.screen = c.screen /\ e.x = c.x + 1 /\ e.y = c.y
      /\ e.pos = c.pos + 1 /\ Whole(e)
  BY <1>4 DEF Fields, Whole
<1>7. d = Holding(e, m)
  <2> DEFINE o == e.pos  s == e.screen  u == e.x  v == e.y
  <2>1. e = Fields(e.mem, s, o, u, v) /\ d = Fields(m, s, o, u, v)
    BY <1>5, <1>6 DEF Whole
  <2> HIDE DEF o, s, u, v
  <2>2. [e EXCEPT !.mem = m] = Fields(m, s, o, u, v)
    BY <2>1 DEF Fields
  <2>3. QED
    BY <2>1, <2>2 DEF Holding
<1>8. m = [e.mem EXCEPT ![c.pos] = Mark]
  BY <1>6 DEF m
<1>9. d = [e EXCEPT !.mem[c.pos] = Mark]
  BY <1>7, <1>8 DEF Holding
<1>10. Kept(d, e) /\ Set(d, e, c.pos, Mark)
  <2> DEFINE o == c.pos
  <2>1. o \in 0 .. Size - 1 /\ Mark \in {Blank, Mark} /\ d = [e EXCEPT !.mem[o] = Mark]
    BY <1>2, <1>9
  <2> HIDE DEF o
  <2>2. Kept(d, e) /\ Set(d, e, o, Mark)
    BY <1>3, <2>1, PutEffect, Zenon
  <2>3. QED
    BY <2>2 DEF o
<1>11. ASSUME NEW q \in 0 .. PageSize - 1
       PROVE  Page(d)[q] = IF q = r + c.x THEN Mark ELSE Page(c)[q]
  <2>1. Page(d)[q] = IF c.screen + q = c.pos THEN Mark ELSE Page(c)[q]
    BY <1>3, <1>6, <1>10 DEF Set
  <2>2. r \in Nat /\ c.pos = c.screen + r + c.x /\ c.screen \in Nat /\ c.x \in 0 .. Width
    BY <1>1
  <2> HIDE DEF r
  <2>3. c.screen + q = c.pos <=> q = r + c.x
    BY <2>2, Geometry
  <2>4. QED
    BY <2>1, <2>3
<1>12. QED
  BY <1>3, <1>10, <1>11 DEF Kept, Marked

\* A character is typed, as Scr!Type.
TypedOn(d, c, e) == (IF c.x < Width THEN e = c ELSE Advanced(e, c, 0)) /\ Marked(d, e)
Typed(d, c) == \E e : TypedOn(d, c, e)

LEMMA ChrEffect ==
  ASSUME NEW c, Sound(c), NEW d, d = Chr(c)
  PROVE  Sound(d) /\ Typed(d, c)
<1> DEFINE e == Wrap(c)
<1>1. d = [e EXCEPT !.mem[e.pos] = Mark, !.pos = @ + 1, !.x = @ + 1]
  BY DEF Chr
<1>2. c.x \in 0 .. Width
  BY SoundParts
<1>3. IF c.x < Width THEN e = c ELSE Advanced(e, c, 0)
  <2>1. CASE c.x < Width
    BY <2>1 DEF Wrap
  <2>2. CASE ~ (c.x < Width)
    <3>1. c.x = Width /\ 0 \in Nat /\ 0 <= Width /\ 0 \in Int
      BY <1>2, <2>2, Geometry
    <3>2. [c EXCEPT !.x = @ + 0, !.pos = @ + 0] = c
      <4>1. [c EXCEPT !.x = @ + 0, !.pos = @ + 0] = WithXPos(c, c.x, c.pos)
        <5>1. c.x + 0 = c.x /\ c.pos + 0 = c.pos
          BY SoundFields
        <5>2. [c EXCEPT !.x = @ + 0, !.pos = @ + 0] = WithXPos(c, c.x + 0, c.pos + 0)
          BY DEF WithXPos
        <5>3. QED
          BY <5>1, <5>2
      <4>2. WithXPos(c, c.x, c.pos) = Fields(c.mem, c.screen, c.pos, c.x, c.y)
        BY SoundFields, XPosEdit
      <4>3. QED
        BY <4>1, <4>2, SoundFields
    <3>3. e = Wrap([c EXCEPT !.x = @ + 0, !.pos = @ + 0])
      BY <3>2
    <3> HIDE DEF e
    <3>4. IF c.x + 0 < Width
          THEN Sound(e) /\ e.x = c.x + 0 /\ e.y = c.y /\ Page(e) = Page(c)
          ELSE Advanced(e, c, c.x + 0 - Width)
      BY <3>1, <3>3, WrapEffect, Zenon
    <3>5. ~ (c.x + 0 < Width) /\ c.x + 0 - Width = 0
      BY <3>1, Geometry
    <3>6. Advanced(e, c, 0)
      BY <3>4, <3>5
    <3>7. QED
      BY <2>2, <3>6
  <2>3. QED
    BY <2>1, <2>2
<1> HIDE DEF e
<1>4. Sound(e) /\ e.x < Width
  BY <1>3, Geometry DEF Advanced
<1>5. Sound(d) /\ Marked(d, e)
  BY <1>1, <1>4, TypeEffect, Zenon
<1>6. TypedOn(d, c, e)
  BY <1>3, <1>5 DEF TypedOn
<1>7. QED
  BY <1>5, <1>6 DEF Typed

-----------------------------------------------------------------------------
\* What is cleared, as Scr!Cleared and Scr!Erase.
Clears(P, S) == [q \in 0 .. PageSize - 1 |-> IF q \in S THEN Blank ELSE P[q]]
LineAt(r)    == r .. r + Width - 1
Regions(r, h) ==
    {0 .. PageSize - 1, LineAt(r), {h}, {q \in 0 .. PageSize - 1 : q < h},
     {q \in 0 .. PageSize - 1 : q >= h}, {q \in LineAt(r) : q < h},
     {q \in LineAt(r) : q >= h}}

PartErased(d, c) ==
    /\ Sound(d) /\ d.x = c.x /\ d.y = c.y
    /\ \E S \in Regions(c.y * Width, c.y * Width + c.x) : Page(d) = Clears(Page(c), S)

LEMMA ErasePart ==
  ASSUME NEW c, Sound(c), NEW a \in Int, NEW n \in Int, NEW d, d = EraseScreen(c, a, n),
         NEW S \in Regions(c.y * Width, c.y * Width + c.x),
         \A q \in 0 .. PageSize - 1 : c.screen + q \in a .. a + n - 1 <=> q \in S
  PROVE  PartErased(d, c)
<1>1. Kept(d, c) /\ Erased(d, c, a, n)
  BY EraseEffect
<1>2. \A q \in 0 .. PageSize - 1 : Page(d)[q] = IF q \in S THEN Blank ELSE Page(c)[q]
  BY <1>1 DEF Erased
<1>3. Page(d) = Clears(Page(c), S)
  BY <1>2 DEF Page, Clears
<1>4. QED
  BY <1>1, <1>3 DEF Kept, PartErased

\* The numbers that the two lemmas below are about.
LEMMA Places ==
  ASSUME NEW c, Sound(c), NEW r, r = c.y * Width
  PROVE  /\ r \in Nat /\ r + Width <= PageSize /\ c.screen \in Nat /\ c.x \in 0 .. Width
         /\ c.pos = c.screen + r + c.x /\ LineStart(c) = c.screen + r
         /\ c.screen + PageSize + Width <= Size
BY SoundParts

LEMMA CsiJEffect ==
  ASSUME NEW c, Sound(c), NEW part, NEW d, d = CsiJ(c, part)
  PROVE  d = c \/ PartErased(d, c)
<1> DEFINE r == c.y * Width  h == r + c.x
<1>1. /\ r \in Nat /\ r + Width <= PageSize /\ c.screen \in Nat /\ c.x \in 0 .. Width
      /\ c.pos = c.screen + r + c.x
  BY Places
<1> HIDE DEF r
<1>2. CASE part = 0
  <2> DEFINE a == c.pos  n == c.screen + PageSize - c.pos
             S == {q \in 0 .. PageSize - 1 : q >= h}
  <2>1. a \in Int /\ n \in Int
    BY <1>1, Geometry
  <2>2. \A q \in 0 .. PageSize - 1 : c.screen + q \in a .. a + n - 1 <=> q \in S
    BY <1>1, Geometry
  <2>3. S \in Regions(r, h)
    BY DEF Regions
  <2>4. d = EraseScreen(c, a, n)
    BY <1>2 DEF CsiJ
  <2> HIDE DEF a, n, S
  <2>5. QED
    BY <2>1, <2>2, <2>3, <2>4, ErasePart DEF r
<1>3. CASE part = 1
  <2> DEFINE a == c.screen  n == c.pos - c.screen
             S == {q \in 0 .. PageSize - 1 : q < h}
  <2>1. a \in Int /\ n \in Int
    BY <1>1, Geometry
  <2>2. \A q \in 0 .. PageSize - 1 : c.screen + q \in a .. a + n - 1 <=> q \in S
    BY <1>1, Geometry
  <2>3. S \in Regions(r, h)
    BY DEF Regions
  <2>4. d = EraseScreen(c, a, n)
    BY <1>3 DEF CsiJ
  <2> HIDE DEF a, n, S
  <2>5. QED
    BY <2>1, <2>2, <2>3, <2>4, ErasePart DEF r
<1>4. CASE part = 2
  <2> DEFINE a == c.screen  n == PageSize  S == 0 .. PageSize - 1
  <2>1. a \in Int /\ n \in Int
    BY <1>1, Geometry
  <2>2. \A q \in 0 .. PageSize - 1 : c.screen + q \in a .. a + n - 1 <=> q \in S
    BY <1>1, Geometry
  <2>3. S \in Regions(r, h)
    BY DEF Regions
  <2>4. d = EraseScreen(c, a, n)
    BY <1>4 DEF CsiJ
  <2> HIDE DEF a, n, S
  <2>5. QED
    BY <2>1, <2>2, <2>3, <2>4, ErasePart DEF r
<1>5. CASE part \notin {0, 1, 2}
  BY <1>5 DEF CsiJ
<1>6. QED
  BY <1>2, <1>3, <1>4, <1>5

LEMMA CsiKEffect ==
  ASSUME NEW c, Sound(c), NEW part, NEW d, d = CsiK(c, part)
  PROVE  d = c \/ PartErased(d, c)
<1> DEFINE r == c.y * Width  h == r + c.x
<1>1. /\ r \in Nat /\ r + Width <= PageSize /\ c.screen \in Nat /\ c.x \in 0 .. Width
      /\ c.pos = c.screen + r + c.x
  BY Places
<1> HIDE DEF r
<1>2. CASE part = 0
  <2> DEFINE a == c.pos  n == Width - c.x  S == {q \in LineAt(r) : q >= h}
  <2>1. a \in Int /\ n \in Int
    BY <1>1, Geometry
  <2>2. \A q \in 0 .. PageSize - 1 : c.screen + q \in a .. a + n - 1 <=> q \in S
    BY <1>1, Geometry DEF LineAt
  <2>3. S \in Regions(r, h)
    BY DEF Regions
  <2>4. d = EraseScreen(c, a, n)
    BY <1>2 DEF CsiK
  <2> HIDE DEF a, n, S
  <2>5. QED
    BY <2>1, <2>2, <2>3, <2>4, ErasePart DEF r
<1>3. CASE part = 1
  <2> DEFINE a == c.pos - c.x  n == c.x  S == {q \in LineAt(r) : q < h}
  <2>1. a \in Int /\ n \in Int
    BY <1>1, Geometry
  <2>2. \A q \in 0 .. PageSize - 1 : c.screen + q \in a .. a + n - 1 <=> q \in S
    BY <1>1, Geometry DEF LineAt
  <2>3. S \in Regions(r, h)
    BY DEF Regions
  <2>4. d = EraseScreen(c, a, n)
    BY <1>3 DEF CsiK
  <2> HIDE DEF a, n, S
  <2>5. QED
    BY <2>1, <2>2, <2>3, <2>4, ErasePart DEF r
<1>4. CASE part = 2
  <2> DEFINE a == c.pos - c.x  n == Width  S == LineAt(r)
  <2>1. a \in Int /\ n \in Int
    BY <1>1, Geometry
  <2>2. \A q \in 0 .. PageSize - 1 : c.screen + q \in a .. a + n - 1 <=> q \in S
    BY <1>1, Geometry DEF LineAt
  <2>3. S \in Regions(r, h)
    BY DEF Regions
  <2>4. d = EraseScreen(c, a, n)
    BY <1>4 DEF CsiK
  <2> HIDE DEF a, n, S
  <2>5. QED
    BY <2>1, <2>2, <2>3, <2>4, ErasePart DEF r
<1>5. CASE part \notin {0, 1, 2}
  BY <1>5 DEF CsiK
<1>6. QED
  BY <1>2, <1>3, <1>4, <1>5

-----------------------------------------------------------------------------
\* Blank lines above the line at r, k cells of them, as Scr!OpenLines; cells
\* taken out of the line or put in at h, as Scr!ShiftLine.
Opened(P, r, k) == [q \in 0 .. PageSize - 1 |->
    IF q < r THEN P[q] ELSE IF q < r + k THEN Blank ELSE P[q - k]]
TakenOut(P, r, h, n) == [q \in 0 .. PageSize - 1 |->
    IF q \notin LineAt(r) \/ q < h THEN P[q]
    ELSE IF q + n \in LineAt(r) THEN P[q + n] ELSE Blank]
PutIn(P, r, h, n) == [q \in 0 .. PageSize - 1 |->
    IF q \notin LineAt(r) \/ q < h THEN P[q]
    ELSE IF q < h + n THEN Blank ELSE P[q - n]]

Unmoved(d, c) == Sound(d) /\ d.x = c.x /\ d.y = c.y

LEMMA InsertLineEffect ==
  ASSUME NEW c, Sound(c), NEW d, d = InsertLine(c)
  PROVE  Unmoved(d, c) /\ Page(d) = Opened(Page(c), c.y * Width, Width)
<1> DEFINE r == c.y * Width  s == LineStart(c)  to == s + Width  n == Size - Width - s
           e == Copy(c, to, s, n)
<1>1. /\ r \in Nat /\ r + Width <= PageSize /\ c.screen \in Nat
      /\ s = c.screen + r /\ c.screen + PageSize + Width <= Size
  BY Places
<1> HIDE DEF r, s
<1>2. to \in Nat /\ s \in Nat /\ n \in Int /\ s + n <= Size /\ Width \in Int
  BY <1>1, Geometry
<1>3. d = EraseScreen(e, s, Width)
  BY DEF InsertLine, s
<1>4. Kept(e, c) /\ Copied(e, c, to, s, n)
  <2> HIDE DEF to, n
  <2>1. QED
    BY <1>2, CopyEffect, Zenon
<1>5. Kept(d, e) /\ Erased(d, e, s, Width)
  <2> HIDE DEF e
  <2>1. Sound(e) /\ s \in Int
    BY <1>2, <1>4 DEF Kept
  <2>2. QED
    BY <1>2, <1>3, <2>1, EraseEffect, Zenon
<1> HIDE DEF e
<1>6. Unmoved(d, c) /\ d.screen = c.screen
  BY <1>4, <1>5 DEF Kept, Unmoved
<1>7. ASSUME NEW q \in 0 .. PageSize - 1
      PROVE  Page(d)[q] = IF q < r THEN Page(c)[q]
                          ELSE IF q < r + Width THEN Blank ELSE Page(c)[q - Width]
  <2>1. Page(d)[q] = IF c.screen + q \in s .. s + Width - 1 THEN Blank ELSE Page(e)[q]
    BY <1>4, <1>5 DEF Erased, Kept
  <2>2. c.screen + q \in 0 .. Size - 1
    BY <1>1, Geometry
  <2>3. Page(e)[q] = e.mem[c.screen + q]
    BY <1>4, WindowIn DEF Kept
  <2>4. e.mem[c.screen + q] = IF c.screen + q \in to .. to + n - 1
                              THEN c.mem[(c.screen + q) - to + s] ELSE c.mem[c.screen + q]
    BY <1>4, <2>2 DEF Copied
  <2>5. Page(c)[q] = c.mem[c.screen + q]
    BY WindowIn
  <2>6. CASE q < r
    <3>1. c.screen + q \notin s .. s + Width - 1 /\ c.screen + q \notin to .. to + n - 1
      BY <1>1, <2>6, Geometry
    <3>2. QED
      BY <2>1, <2>3, <2>4, <2>5, <2>6, <3>1
  <2>7. CASE ~ (q < r) /\ q < r + Width
    <3>1. c.screen + q \in s .. s + Width - 1
      BY <1>1, <2>7, Geometry
    <3>2. QED
      BY <2>1, <2>7, <3>1
  <2>8. CASE ~ (q < r) /\ ~ (q < r + Width)
    <3>1. /\ c.screen + q \notin s .. s + Width - 1 /\ c.screen + q \in to .. to + n - 1
          /\ (c.screen + q) - to + s = c.screen + (q - Width) /\ q - Width \in 0 .. PageSize - 1
      BY <1>1, <2>8, Geometry
    <3>2. Page(c)[q - Width] = c.mem[c.screen + (q - Width)]
      BY <3>1, WindowIn
    <3>3. QED
      BY <2>1, <2>3, <2>4, <2>8, <3>1, <3>2
  <2>9. QED
    BY <2>6, <2>7, <2>8
<1>8. Page(d) = Opened(Page(c), r, Width)
  BY <1>7 DEF Page, Opened
<1>9. QED
  BY <1>6, <1>8 DEF r

LEMMA DeleteLineEffect ==
  ASSUME NEW c, Sound(c), NEW d, d = DeleteLine(c)
  PROVE  /\ Unmoved(d, c)
         /\ \A q \in 0 .. PageSize - 1 : q < c.y * Width + Width => Page(d)[q] = Page(c)[q]
<1> DEFINE r == c.y * Width  s == LineStart(c)
           row(a) == (a - LineStart(c)) \div Width
           m == [a \in DOMAIN c.mem |-> IF row(a) >= 1 /\ row(a) % 2 = 1 /\ a + Width < Size
                                        THEN c.mem[a + Width] ELSE c.mem[a]]
           e == Holding(c, m)
<1>1. /\ r \in Nat /\ r + Width <= PageSize /\ c.screen \in Nat
      /\ s = c.screen + r /\ c.screen + PageSize + Width <= Size
  BY Places
<1>2. d = EraseScreen(e, Size - Width, Width)
  BY DEF DeleteLine, Holding
<1>3. m \in [0 .. Size - 1 -> {Blank, Mark}]
  <2> HIDE DEF row
  <2>1. c.mem \in [0 .. Size - 1 -> {Blank, Mark}] /\ Width \in Nat /\ Size \in Nat
    BY SoundParts, Geometry
  <2>2. \A a \in 0 .. Size - 1 : a + Width < Size => a + Width \in 0 .. Size - 1
    BY <2>1
  <2>3. QED
    BY <2>1, <2>2
<1>4. \A a \in 0 .. Size - 1 : a < s + Width => m[a] = c.mem[a]
  <2> TAKE a \in 0 .. Size - 1
  <2> HAVE a < s + Width
  <2>1. row(a) < 1
    <3>1. \A z \in Int, w \in Nat : w > 0 /\ z < w => z \div w < 1
      <4> TAKE z \in Int, w \in Nat
      <4> HAVE w > 0 /\ z < w
      <4>1. z \div w \in Int /\ z % w \in 0 .. w - 1 /\ z = w * (z \div w) + (z % w)
        OBVIOUS
      <4>2. ASSUME NEW k \in Int, k >= 1 PROVE w * k >= w
        <5>1. k - 1 \in Nat /\ k = (k - 1) + 1
          BY <4>2
        <5>2. PICK j \in Nat : k = j + 1
          BY <5>1
        <5>3. w * k = w * j + w /\ w * j \in Nat
          BY <5>2
        <5>4. QED
          BY <5>3
      <4>3. QED
        BY <4>1, <4>2
    <3>2. a - s \in Int /\ a - s < Width
      BY <1>1, Geometry
    <3>3. QED
      BY <3>1, <3>2, Geometry
  <2>2. row(a) \in Int
    <3>1. a - s \in Int
      BY <1>1, Geometry
    <3>2. QED
      BY <3>1, Geometry
  <2>3. a \in DOMAIN c.mem
    BY SoundParts
  <2> HIDE DEF row
  <2>4. QED
    BY <2>1, <2>2, <2>3
<1> HIDE DEF m, r, s
<1>5. Kept(e, c) /\ e.mem = m
  BY <1>3, HoldingSound DEF Kept
<1> HIDE DEF e
<1>6. Kept(d, e) /\ Erased(d, e, Size - Width, Width)
  <2> DEFINE a == Size - Width
  <2>1. Sound(e) /\ a \in Int /\ Width \in Int /\ d = EraseScreen(e, a, Width)
    BY <1>2, <1>5, Geometry DEF Kept
  <2> HIDE DEF a
  <2>2. Kept(d, e) /\ Erased(d, e, a, Width)
    BY <2>1, EraseEffect, Zenon
  <2>3. QED
    BY <2>2 DEF a
<1>7. ASSUME NEW q \in 0 .. PageSize - 1, q < r + Width PROVE Page(d)[q] = Page(c)[q]
  <2>1. /\ c.screen + q \in 0 .. Size - 1 /\ c.screen + q < s + Width
        /\ c.screen + q < Size - Width
    BY <1>1, <1>7, Geometry
  <2>2. c.screen + q \notin Size - Width .. Size - Width + Width - 1
    BY <2>1, Geometry
  <2>3. Page(d)[q] = Page(e)[q]
    BY <1>5, <1>6, <2>2 DEF Erased, Kept
  <2>4. Page(e)[q] = m[c.screen + q] /\ Page(c)[q] = c.mem[c.screen + q]
    BY <1>5, WindowIn DEF Kept
  <2>5. QED
    BY <1>4, <2>1, <2>3, <2>4
<1>8. QED
  BY <1>5, <1>6, <1>7 DEF Kept, Unmoved, r

\* The places of the line and of the cursor, for the lemmas on characters.
LEMMA CharPlaces ==
  ASSUME NEW c, Sound(c), NEW r, r = c.y * Width, NEW h, h = r + c.x
  PROVE  /\ r \in Nat /\ h \in Nat /\ r <= h /\ h <= r + Width /\ r + Width <= PageSize
         /\ c.x \in 0 .. Width /\ h = r + c.x
         /\ c.screen \in Nat /\ c.pos = c.screen + h /\ c.screen + PageSize + Width <= Size
<1>1. /\ r \in Nat /\ r + Width <= PageSize /\ c.screen \in Nat /\ c.x \in 0 .. Width
      /\ c.pos = c.screen + r + c.x /\ c.screen + PageSize + Width <= Size
  BY Places
<1>2. QED
  BY <1>1, Geometry

LEMMA MaxZero ==
  ASSUME NEW k \in Int
  PROVE  Max({k, 0}) = IF k > 0 THEN k ELSE 0
<1> DEFINE m == IF k > 0 THEN k ELSE 0
<1>1. m \in {k, 0} /\ \A j \in {k, 0} : m >= j
  OBVIOUS
<1>2. \A n \in {k, 0} : (\A j \in {k, 0} : n >= j) => n = m
  OBVIOUS
<1> HIDE DEF m
<1>3. (CHOOSE n \in {k, 0} : \A j \in {k, 0} : n >= j) = m
  BY <1>1, <1>2
<1>4. QED
  BY <1>3 DEF Max, m

LEMMA DeleteCharEffect ==
  ASSUME NEW c, Sound(c), NEW d, d = DeleteChar(c),
         NEW r, r = c.y * Width, NEW h, h = r + c.x
  PROVE  /\ Unmoved(d, c)
         /\ Page(d) = IF c.x < Width THEN TakenOut(Page(c), r, h, 1)
                                     ELSE Clears(Page(c), {h})
<1> DEFINE k == Width - c.x - 1  rest == Max({k, 0})  to == c.pos  from == c.pos + 1
           e == Copy(c, to, from, rest)  p == to + rest
<1>1. /\ r \in Nat /\ h \in Nat /\ r <= h /\ h <= r + Width /\ r + Width <= PageSize
      /\ c.x \in 0 .. Width /\ h = r + c.x
      /\ c.screen \in Nat /\ to = c.screen + h /\ c.screen + PageSize + Width <= Size
  BY CharPlaces
<1>2. d = [e EXCEPT !.mem[p] = Blank]
  BY DEF DeleteChar
<1>3. rest = IF c.x < Width THEN Width - c.x - 1 ELSE 0
  <2>1. k \in Int /\ (k > 0 \/ k = 0 => c.x < Width) /\ (c.x < Width => k >= 0)
        /\ (~ (c.x < Width) => k < 0)
    BY <1>1, Geometry
  <2> HIDE DEF k
  <2>2. rest = IF k > 0 THEN k ELSE 0
    BY <2>1, MaxZero
  <2>3. rest = IF c.x < Width THEN k ELSE 0
    BY <2>1, <2>2
  <2>4. QED
    BY <2>3 DEF k
<1> HIDE DEF rest, to
<1>4. /\ rest \in Nat /\ rest \in Int /\ to \in Nat /\ from \in Nat /\ from + rest <= Size
      /\ p \in 0 .. Size - 1 /\ Blank \in {Blank, Mark} /\ from = to + 1
  BY <1>1, <1>3, Geometry DEF to
<1> HIDE DEF from
<1>5. Kept(e, c) /\ Copied(e, c, to, from, rest)
  BY <1>4, CopyEffect, Zenon
<1> HIDE DEF e, p
<1>6. Kept(d, e) /\ Set(d, e, p, Blank)
  <2>1. Sound(e)
    BY <1>5 DEF Kept
  <2>2. QED
    BY <1>2, <1>4, <2>1, PutEffect, Zenon
<1>7. Unmoved(d, c) /\ d.screen = c.screen
  BY <1>5, <1>6 DEF Kept, Unmoved
<1>8. ASSUME NEW q \in 0 .. PageSize - 1
      PROVE  Page(d)[q] = IF c.x < Width
                          THEN IF q \notin LineAt(r) \/ q < h THEN Page(c)[q]
                               ELSE IF q + 1 \in LineAt(r) THEN Page(c)[q + 1] ELSE Blank
                          ELSE IF q \in {h} THEN Blank ELSE Page(c)[q]
  <2>1. Page(d)[q] = IF c.screen + q = p THEN Blank ELSE Page(e)[q]
    BY <1>5, <1>6 DEF Set, Kept
  <2>2. c.screen + q \in 0 .. Size - 1
    BY <1>1, Geometry
  <2>3. Page(e)[q] = e.mem[c.screen + q]
    BY <1>5, WindowIn DEF Kept
  <2>4. e.mem[c.screen + q] = IF c.screen + q \in to .. to + rest - 1
                              THEN c.mem[(c.screen + q) - to + from] ELSE c.mem[c.screen + q]
    BY <1>5, <2>2 DEF Copied
  <2>5. Page(c)[q] = c.mem[c.screen + q]
    BY WindowIn
  <2>6. CASE c.x < Width
    <3>1. p = c.screen + (r + Width - 1) /\ to + rest - 1 = c.screen + (r + Width - 1) - 1
      BY <1>1, <1>3, <1>4, <2>6, Geometry DEF p
    <3>2. CASE q \notin LineAt(r) \/ q < h
      <4>1. c.screen + q # p /\ c.screen + q \notin to .. to + rest - 1
        BY <1>1, <2>6, <3>1, <3>2, Geometry DEF LineAt
      <4>2. QED
        BY <2>1, <2>3, <2>4, <2>5, <2>6, <3>2, <4>1
    <3>3. CASE q \in LineAt(r) /\ ~ (q < h) /\ q + 1 \in LineAt(r)
      <4>1. /\ c.screen + q # p /\ c.screen + q \in to .. to + rest - 1
            /\ (c.screen + q) - to + from = c.screen + (q + 1) /\ q + 1 \in 0 .. PageSize - 1
        <5>1. q \in Nat /\ h <= q /\ q + 1 <= r + Width - 1 /\ q + 1 <= PageSize - 1
          BY <1>1, <3>3, Geometry DEF LineAt
        <5>2. c.screen + q # p /\ c.screen + q <= to + rest - 1
          BY <1>1, <3>1, <5>1, Geometry
        <5>3. to <= c.screen + q /\ (c.screen + q) - to + from = c.screen + (q + 1)
          BY <1>1, <1>4, <5>1, Geometry
        <5>4. to \in Int /\ rest \in Int /\ c.screen + q \in Int
          BY <1>1, <1>4, <5>1
        <5>5. QED
          BY <5>1, <5>2, <5>3, <5>4, Geometry
      <4>2. Page(c)[q + 1] = c.mem[c.screen + (q + 1)]
        BY <4>1, WindowIn
      <4>3. QED
        BY <2>1, <2>3, <2>4, <2>6, <3>3, <4>1, <4>2
    <3>4. CASE q \in LineAt(r) /\ ~ (q < h) /\ q + 1 \notin LineAt(r)
      <4>1. c.screen + q = p
        BY <1>1, <2>6, <3>1, <3>4, Geometry DEF LineAt
      <4>2. QED
        BY <2>1, <2>6, <3>4, <4>1
    <3>5. QED
      BY <3>2, <3>3, <3>4
  <2>7. CASE ~ (c.x < Width)
    <3>1. rest = 0 /\ p = c.screen + h
      BY <1>1, <1>3, <1>4, <2>7, Geometry DEF p
    <3>2. c.screen + q \notin to .. to + rest - 1
      BY <1>1, <3>1, Geometry
    <3>3. c.screen + q = p <=> q \in {h}
      BY <1>1, <3>1, Geometry
    <3>4. QED
      BY <2>1, <2>3, <2>4, <2>5, <2>7, <3>2, <3>3
  <2>8. QED
    BY <2>6, <2>7
<1>9. Page(d) = IF c.x < Width THEN TakenOut(Page(c), r, h, 1) ELSE Clears(Page(c), {h})
  <2>1. CASE c.x < Width
    BY <1>8, <2>1 DEF Page, TakenOut
  <2>2. CASE ~ (c.x < Width)
    BY <1>8, <2>2 DEF Page, Clears
  <2>3. QED
    BY <2>1, <2>2
<1>10. QED
  BY <1>7, <1>9

LEMMA InsertCharEffect ==
  ASSUME NEW c, Sound(c), NEW d, d = InsertChar(c),
         NEW r, r = c.y * Width, NEW h, h = r + c.x
  PROVE  /\ Unmoved(d, c)
         /\ Page(d) = IF c.x < Width THEN PutIn(Page(c), r, h, 1)
                                     ELSE Clears(Page(c), {h})
<1> DEFINE k == Width - c.x - 1  from == c.pos  to == c.pos + 1
           e == Copy(c, to, from, k)
<1>1. /\ r \in Nat /\ h \in Nat /\ r <= h /\ h <= r + Width /\ r + Width <= PageSize
      /\ c.x \in 0 .. Width /\ h = r + c.x
      /\ c.screen \in Nat /\ from = c.screen + h /\ c.screen + PageSize + Width <= Size
  BY CharPlaces
<1>2. d = Del(e)
  BY DEF InsertChar
<1>3. /\ k \in Int /\ k = Width - c.x - 1
      /\ to \in Nat /\ from \in Nat /\ from + k <= Size /\ to = from + 1
  BY <1>1, Geometry
<1> HIDE DEF k, from, to
<1>4. Kept(e, c) /\ Copied(e, c, to, from, k)
  BY <1>3, CopyEffect, Zenon
<1> HIDE DEF e
<1>5. /\ Unmoved(d, e)
      /\ \A q \in 0 .. PageSize - 1 : Page(d)[q] = IF q = h THEN Blank ELSE Page(e)[q]
  <2>1. Sound(e) /\ h = e.y * Width + e.x
    BY <1>4 DEF Kept
  <2>2. QED
    BY <1>2, <2>1, DelEffect DEF Unmoved
<1>6. Unmoved(d, c)
  BY <1>4, <1>5 DEF Kept, Unmoved
<1>7. ASSUME NEW q \in 0 .. PageSize - 1
      PROVE  Page(d)[q] = IF c.x < Width
                          THEN IF q \notin LineAt(r) \/ q < h THEN Page(c)[q]
                               ELSE IF q < h + 1 THEN Blank ELSE Page(c)[q - 1]
                          ELSE IF q \in {h} THEN Blank ELSE Page(c)[q]
  <2>1. Page(d)[q] = IF q = h THEN Blank ELSE Page(e)[q]
    BY <1>5
  <2>2. c.screen + q \in 0 .. Size - 1
    BY <1>1, Geometry
  <2>3. Page(e)[q] = e.mem[c.screen + q]
    BY <1>4, WindowIn DEF Kept
  <2>4. e.mem[c.screen + q] = IF c.screen + q \in to .. to + k - 1
                              THEN c.mem[(c.screen + q) - to + from] ELSE c.mem[c.screen + q]
    BY <1>4, <2>2 DEF Copied
  <2>5. Page(c)[q] = c.mem[c.screen + q]
    BY WindowIn
  <2>6. CASE c.x < Width
    <3>1. to = c.screen + h + 1 /\ to + k - 1 = c.screen + (r + Width - 1)
      BY <1>1, <1>3, <2>6, Geometry
    <3>2. CASE q \notin LineAt(r) \/ q < h
      <4>1. q # h /\ c.screen + q \notin to .. to + k - 1
        BY <1>1, <2>6, <3>1, <3>2, Geometry DEF LineAt
      <4>2. QED
        BY <2>1, <2>3, <2>4, <2>5, <2>6, <3>2, <4>1
    <3>3. CASE q \in LineAt(r) /\ ~ (q < h) /\ q < h + 1
      <4>1. q = h
        BY <1>1, <3>3, Geometry
      <4>2. QED
        BY <2>1, <2>6, <3>3, <4>1
    <3>4. CASE q \in LineAt(r) /\ ~ (q < h) /\ ~ (q < h + 1)
      <4>1. q \in Nat /\ h + 1 <= q /\ q <= r + Width - 1
        BY <1>1, <3>4, Geometry DEF LineAt
      <4>2. q # h /\ q - 1 \in 0 .. PageSize - 1
        BY <1>1, <4>1, Geometry
      <4>3. to <= c.screen + q /\ c.screen + q <= to + k - 1
        BY <1>1, <3>1, <4>1, Geometry
      <4>4. (c.screen + q) - to + from = c.screen + (q - 1)
        BY <1>1, <1>3, <4>1, Geometry
      <4>5. c.screen + q \in to .. to + k - 1
        <5>1. to \in Int /\ k \in Int /\ c.screen + q \in Int
          BY <1>1, <1>3, <4>1
        <5>2. QED
          BY <4>3, <5>1
      <4>6. Page(c)[q - 1] = c.mem[c.screen + (q - 1)]
        BY <4>2, WindowIn
      <4>7. QED
        BY <2>1, <2>3, <2>4, <2>6, <3>4, <4>2, <4>4, <4>5, <4>6
    <3>5. QED
      BY <3>2, <3>3, <3>4
  <2>7. CASE ~ (c.x < Width)
    <3>1. k < 0
      BY <1>1, <1>3, <2>7, Geometry
    <3>2. c.screen + q \notin to .. to + k - 1
      BY <1>1, <1>3, <3>1, Geometry
    <3>3. QED
      BY <2>1, <2>3, <2>4, <2>5, <2>7, <3>2
  <2>8. QED
    BY <2>6, <2>7
<1>8. Page(d) = IF c.x < Width THEN PutIn(Page(c), r, h, 1) ELSE Clears(Page(c), {h})
  <2>1. CASE c.x < Width
    BY <1>7, <2>1 DEF Page, PutIn
  <2>2. CASE ~ (c.x < Width)
    BY <1>7, <2>2 DEF Page, Clears
  <2>3. QED
    BY <2>1, <2>2
<1>9. QED
  BY <1>6, <1>8

-----------------------------------------------------------------------------
(* csiL, csiM, csiP and csiAt: what n of them do.                          *)
Repeatable == {"L", "M", "P", "@"}

\* The page after n operations.
AfterAll(d, c, ch, n) == LET r == c.y * Width  h == r + c.x IN
    CASE ch = "L" -> Page(d) = Opened(Page(c), r, n * Width)
      [] ch = "M" -> \A q \in 0 .. PageSize - 1 : q < r + Width => Page(d)[q] = Page(c)[q]
      [] ch = "P" -> Page(d) = IF c.x < Width THEN TakenOut(Page(c), r, h, n)
                                              ELSE Clears(Page(c), {h})
      [] ch = "@" -> Page(d) = IF c.x < Width THEN PutIn(Page(c), r, h, n)
                                              ELSE Clears(Page(c), {h})

LEMMA OnceEffect ==
  ASSUME NEW c, Sound(c), NEW ch \in Repeatable
  PROVE  Unmoved(Once(c, ch), c) /\ AfterAll(Once(c, ch), c, ch, 1)
<1> DEFINE r == c.y * Width  h == r + c.x
<1>0. 1 * Width = Width
  BY Geometry
<1>1. CASE ch = "L"
  <2>1. Once(c, ch) = InsertLine(c)
    BY <1>1 DEF Once
  <2>2. Unmoved(InsertLine(c), c) /\ Page(InsertLine(c)) = Opened(Page(c), c.y * Width, Width)
    BY InsertLineEffect
  <2>3. QED
    BY <1>0, <1>1, <2>1, <2>2 DEF AfterAll
<1>2. CASE ch = "M"
  <2>1. Once(c, ch) = DeleteLine(c)
    BY <1>2 DEF Once
  <2>2. QED
    BY <1>2, <2>1, DeleteLineEffect DEF AfterAll
<1>3. CASE ch = "P"
  <2>1. Once(c, ch) = DeleteChar(c)
    BY <1>3 DEF Once
  <2>2. QED
    BY <1>3, <2>1, DeleteCharEffect DEF AfterAll
<1>4. CASE ch = "@"
  <2>1. Once(c, ch) = InsertChar(c)
    BY <1>4 DEF Once
  <2>2. QED
    BY <1>4, <2>1, InsertCharEffect DEF AfterAll
<1>5. QED
  BY <1>1, <1>2, <1>3, <1>4 DEF Repeatable

LEMMA OpenedTwice ==
  ASSUME NEW P, NEW r \in Nat, NEW k \in Nat, NEW j \in Nat
  PROVE  Opened(Opened(P, r, k), r, j) = Opened(P, r, k + j)
<1> DEFINE O == Opened(P, r, k)
<1>1. \A q \in 0 .. PageSize - 1 :
         O[q] = IF q < r THEN P[q] ELSE IF q < r + k THEN Blank ELSE P[q - k]
  BY DEF Opened
<1> HIDE DEF O
<1>2. ASSUME NEW q \in 0 .. PageSize - 1
      PROVE  (IF q < r THEN O[q] ELSE IF q < r + j THEN Blank ELSE O[q - j])
                 = IF q < r THEN P[q] ELSE IF q < r + (k + j) THEN Blank ELSE P[q - (k + j)]
  <2>1. CASE q < r + j
    <3>1. q < r + (k + j)
      BY <2>1, Geometry
    <3>2. QED
      BY <1>1, <2>1, <3>1
  <2>2. CASE ~ (q < r + j)
    <3>1. /\ q - j \in 0 .. PageSize - 1 /\ ~ (q - j < r) /\ ~ (q < r)
          /\ (q - j < r + k <=> q < r + (k + j)) /\ (q - j) - k = q - (k + j)
      BY <2>2, Geometry
    <3>2. O[q - j] = IF q - j < r THEN P[q - j] ELSE IF q - j < r + k THEN Blank ELSE P[(q - j) - k]
      BY <1>1, <3>1
    <3>3. QED
      BY <2>2, <3>1, <3>2
  <2>3. QED
    BY <2>1, <2>2
<1>3. QED
  BY <1>2 DEF Opened, O

LEMMA TakenOutTwice ==
  ASSUME NEW P, NEW r \in Nat, r + Width <= PageSize, NEW h \in Nat, r <= h, NEW n \in Nat
  PROVE  TakenOut(TakenOut(P, r, h, n), r, h, 1) = TakenOut(P, r, h, n + 1)
<1> DEFINE O == TakenOut(P, r, h, n)
<1>1. \A q \in 0 .. PageSize - 1 :
         O[q] = IF q \notin LineAt(r) \/ q < h THEN P[q]
                ELSE IF q + n \in LineAt(r) THEN P[q + n] ELSE Blank
  BY DEF TakenOut
<1> HIDE DEF O
<1>2. ASSUME NEW q \in 0 .. PageSize - 1
      PROVE  (IF q \notin LineAt(r) \/ q < h THEN O[q]
              ELSE IF q + 1 \in LineAt(r) THEN O[q + 1] ELSE Blank)
                 = IF q \notin LineAt(r) \/ q < h THEN P[q]
                   ELSE IF q + (n + 1) \in LineAt(r) THEN P[q + (n + 1)] ELSE Blank
  <2>1. CASE q \notin LineAt(r) \/ q < h
    BY <1>1, <2>1
  <2>2. CASE q \in LineAt(r) /\ ~ (q < h) /\ q + 1 \in LineAt(r)
    <3>1. /\ q + 1 \in 0 .. PageSize - 1 /\ ~ (q + 1 < h) /\ (q + 1) + n = q + (n + 1)
      BY <2>2, Geometry DEF LineAt
    <3>2. O[q + 1] = IF (q + 1) + n \in LineAt(r) THEN P[(q + 1) + n] ELSE Blank
      BY <1>1, <2>2, <3>1
    <3>3. QED
      BY <2>2, <3>1, <3>2
  <2>3. CASE q \in LineAt(r) /\ ~ (q < h) /\ q + 1 \notin LineAt(r)
    <3>1. q + (n + 1) \notin LineAt(r)
      BY <2>3, Geometry DEF LineAt
    <3>2. QED
      BY <2>3, <3>1
  <2>4. QED
    BY <2>1, <2>2, <2>3
<1>3. QED
  BY <1>2 DEF TakenOut, O

LEMMA PutInTwice ==
  ASSUME NEW P, NEW r \in Nat, r + Width <= PageSize, NEW h \in Nat, r <= h, NEW n \in Nat
  PROVE  PutIn(PutIn(P, r, h, n), r, h, 1) = PutIn(P, r, h, n + 1)
<1> DEFINE O == PutIn(P, r, h, n)
<1>1. \A q \in 0 .. PageSize - 1 :
         O[q] = IF q \notin LineAt(r) \/ q < h THEN P[q]
                ELSE IF q < h + n THEN Blank ELSE P[q - n]
  BY DEF PutIn
<1> HIDE DEF O
<1>2. ASSUME NEW q \in 0 .. PageSize - 1
      PROVE  (IF q \notin LineAt(r) \/ q < h THEN O[q]
              ELSE IF q < h + 1 THEN Blank ELSE O[q - 1])
                 = IF q \notin LineAt(r) \/ q < h THEN P[q]
                   ELSE IF q < h + (n + 1) THEN Blank ELSE P[q - (n + 1)]
  <2>1. CASE q \notin LineAt(r) \/ q < h
    BY <1>1, <2>1
  <2>2. CASE q \in LineAt(r) /\ ~ (q < h) /\ q < h + 1
    <3>1. q < h + (n + 1)
      BY <2>2, Geometry
    <3>2. QED
      BY <2>2, <3>1
  <2>3. CASE q \in LineAt(r) /\ ~ (q < h) /\ ~ (q < h + 1)
    <3>1. /\ q - 1 \in 0 .. PageSize - 1 /\ q - 1 \in LineAt(r) /\ ~ (q - 1 < h)
          /\ (q - 1 < h + n <=> q < h + (n + 1)) /\ (q - 1) - n = q - (n + 1)
      BY <2>3, Geometry DEF LineAt
    <3>2. O[q - 1] = IF q - 1 < h + n THEN Blank ELSE P[(q - 1) - n]
      BY <1>1, <3>1
    <3>3. QED
      BY <2>3, <3>1, <3>2
  <2>4. QED
    BY <2>1, <2>2, <2>3
<1>3. QED
  BY <1>2 DEF PutIn, O

LEMMA OnceMore ==
  ASSUME NEW c, Sound(c), NEW ch \in Repeatable, NEW n \in Nat, n > 0,
         NEW d, Unmoved(d, c), AfterAll(d, c, ch, n), NEW f, f = Once(d, ch)
  PROVE  Unmoved(f, c) /\ AfterAll(f, c, ch, n + 1)
<1> DEFINE r == c.y * Width  h == r + c.x
<1>1. /\ r \in Nat /\ h \in Nat /\ r <= h /\ r + Width <= PageSize
  BY CharPlaces
<1>2. Unmoved(f, d) /\ AfterAll(f, d, ch, 1)
  BY OnceEffect DEF Unmoved
<1>3. Unmoved(f, c) /\ d.x = c.x /\ d.y = c.y
  BY <1>2 DEF Unmoved
<1>4. CASE ch = "L"
  <2> DEFINE k == n * Width
  <2>1. k \in Nat /\ Width \in Nat /\ (n + 1) * Width = k + Width /\ 1 * Width = Width
    BY Geometry
  <2>2. Page(d) = Opened(Page(c), r, k)
    BY <1>4 DEF AfterAll
  <2>3. Page(f) = Opened(Page(d), r, Width)
    BY <1>2, <1>3, <1>4, <2>1 DEF AfterAll
  <2> HIDE DEF k, r
  <2>4. Page(f) = Opened(Page(c), r, k + Width)
    BY <1>1, <2>1, <2>2, <2>3, OpenedTwice
  <2>5. Page(f) = Opened(Page(c), r, (n + 1) * Width)
    BY <2>1, <2>4
  <2>6. QED
    BY <1>3, <1>4, <2>5 DEF AfterAll, r
<1>5. CASE ch = "M"
  <2>1. \A q \in 0 .. PageSize - 1 : q < r + Width => Page(d)[q] = Page(c)[q]
    BY <1>5 DEF AfterAll
  <2>2. \A q \in 0 .. PageSize - 1 : q < r + Width => Page(f)[q] = Page(d)[q]
    BY <1>2, <1>3, <1>5 DEF AfterAll
  <2>3. QED
    BY <1>3, <1>5, <2>1, <2>2 DEF AfterAll
<1>6. CASE ch = "P"
  <2>1. Page(d) = IF c.x < Width THEN TakenOut(Page(c), r, h, n) ELSE Clears(Page(c), {h})
    BY <1>6 DEF AfterAll
  <2>2. Page(f) = IF c.x < Width THEN TakenOut(Page(d), r, h, 1) ELSE Clears(Page(d), {h})
    BY <1>2, <1>3, <1>6 DEF AfterAll
  <2> HIDE DEF r, h
  <2>3. Clears(Clears(Page(c), {h}), {h}) = Clears(Page(c), {h})
    BY DEF Clears
  <2>4. TakenOut(TakenOut(Page(c), r, h, n), r, h, 1) = TakenOut(Page(c), r, h, n + 1)
    BY <1>1, TakenOutTwice
  <2>5. Page(f) = IF c.x < Width THEN TakenOut(Page(c), r, h, n + 1) ELSE Clears(Page(c), {h})
    BY <2>1, <2>2, <2>3, <2>4
  <2>6. QED
    BY <1>3, <1>6, <2>5 DEF AfterAll, r, h
<1>7. CASE ch = "@"
  <2>1. Page(d) = IF c.x < Width THEN PutIn(Page(c), r, h, n) ELSE Clears(Page(c), {h})
    BY <1>7 DEF AfterAll
  <2>2. Page(f) = IF c.x < Width THEN PutIn(Page(d), r, h, 1) ELSE Clears(Page(d), {h})
    BY <1>2, <1>3, <1>7 DEF AfterAll
  <2> HIDE DEF r, h
  <2>3. Clears(Clears(Page(c), {h}), {h}) = Clears(Page(c), {h})
    BY DEF Clears
  <2>4. PutIn(PutIn(Page(c), r, h, n), r, h, 1) = PutIn(Page(c), r, h, n + 1)
    BY <1>1, PutInTwice
  <2>5. Page(f) = IF c.x < Width THEN PutIn(Page(c), r, h, n + 1) ELSE Clears(Page(c), {h})
    BY <2>1, <2>2, <2>3, <2>4
  <2>6. QED
    BY <1>3, <1>7, <2>5 DEF AfterAll, r, h
<1>8. QED
  BY <1>4, <1>5, <1>6, <1>7 DEF Repeatable

LEMMA TimesIs ==
  ASSUME NEW n \in Nat
  PROVE  Times(n) \in 1 .. Height
<1> DEFINE m == Max({n, 1})
<1>1. m \in Nat /\ m >= 1
  <2> DEFINE k == IF n >= 1 THEN n ELSE 1
  <2>1. k \in {n, 1} /\ \A j \in {n, 1} : k >= j
    OBVIOUS
  <2>2. \E x \in {n, 1} : \A j \in {n, 1} : x >= j
    BY <2>1
  <2>3. m \in {n, 1} /\ \A j \in {n, 1} : m >= j
    BY <2>2 DEF Max
  <2> HIDE DEF m
  <2>4. QED
    BY <2>3
<1> HIDE DEF m
<1> DEFINE t == Min({m, Height})
<1>2. t \in {m, Height} /\ \A j \in {m, Height} : t <= j
  <2> DEFINE k == IF m <= Height THEN m ELSE Height
  <2>1. k \in {m, Height} /\ \A j \in {m, Height} : k <= j
    BY <1>1, Geometry
  <2>2. \E x \in {m, Height} : \A j \in {m, Height} : x <= j
    BY <2>1
  <2>3. QED
    BY <2>2 DEF Min
<1>3. Times(n) = t
  BY DEF Times, m
<1> HIDE DEF t
<1>4. QED
  BY <1>1, <1>2, <1>3, Geometry

LEMMA RepeatedEffect ==
  ASSUME NEW c, Sound(c), NEW ch \in Repeatable, NEW n \in Nat
  PROVE  /\ Unmoved(Repeated(c, ch, n), c)
         /\ AfterAll(Repeated(c, ch, n), c, ch, Times(n))
<1> DEFINE B == {d \in Consoles : Sound(d)}
           turn == [i \in 0 .. Height - 1 |-> [d \in B |-> Once(d, ch)]]
           body(f) == [i \in 0 .. Height |-> IF i = 0 THEN c ELSE Once(f[i - 1], ch)]
           after == CHOOSE f : f = body(f)
<1>1. Height \in Nat /\ c \in B
  BY Geometry DEF Sound
<1>2. ASSUME NEW d \in B PROVE Once(d, ch) \in B
  <2>1. Sound(Once(d, ch))
    BY OnceEffect DEF Unmoved
  <2>2. QED
    BY <2>1 DEF Sound
<1>3. turn \in [0 .. Height - 1 -> [B -> B]]
  BY <1>2
<1>4. PICK f : Recursion(f, Height, B, c, turn)
  <2> HIDE DEF turn, B
  <2>1. QED
    BY <1>1, <1>3, RecursionTo, Zenon
<1>5. \A i \in 0 .. Height : f[i] = IF i = 0 THEN c ELSE Once(f[i - 1], ch)
  <2> TAKE i \in 0 .. Height
  <2>1. CASE i = 0
    BY <2>1, <1>4 DEF Recursion
  <2>2. CASE i # 0
    <3>1. i - 1 \in 0 .. Height - 1 /\ f[i - 1] \in B
      BY <2>2, <1>1, <1>4 DEF Recursion
    <3>2. turn[i - 1][f[i - 1]] = Once(f[i - 1], ch)
      BY <3>1
    <3> HIDE DEF turn
    <3>3. f[i] = turn[i - 1][f[i - 1]]
      BY <2>2, <1>4 DEF Recursion
    <3>4. QED
      BY <2>2, <3>2, <3>3
  <2>3. QED
    BY <2>1, <2>2
<1>6. f = body(f)
  <2> HIDE DEF turn, B
  <2>1. QED
    BY <1>4, <1>5 DEF Recursion
<1>7. after = body(after)
  <2> HIDE DEF body
  <2>1. QED
    BY <1>6
<1>8. Repeated(c, ch, n) = after[Times(n)]
  BY Zenon DEF Repeated
<1> HIDE DEF after, turn, B
<1>9. \A i \in 0 .. Height : after[i] = IF i = 0 THEN c ELSE Once(after[i - 1], ch)
  BY <1>7
<1> DEFINE Fine(i) == Unmoved(after[i], c) /\ (i > 0 => AfterAll(after[i], c, ch, i))
           S == {i \in 0 .. Height : Fine(i)}
<1>10. Fine(0)
  <2>1. after[0] = c
    BY <1>1, <1>9
  <2>2. QED
    BY <2>1 DEF Unmoved
<1>11. ASSUME NEW i \in 0 .. Height - 1, Fine(i) PROVE Fine(i + 1)
  <2>1. i + 1 \in 0 .. Height /\ i + 1 # 0 /\ (i + 1) - 1 = i /\ i \in Nat
    BY <1>1
  <2>2. after[i + 1] = Once(after[i], ch)
    BY <1>9, <2>1
  <2>3. CASE i = 0
    <3>1. after[i + 1] = Once(c, ch) /\ i + 1 = 1
      BY <1>1, <1>9, <2>2, <2>3
    <3>2. QED
      BY <3>1, OnceEffect
  <2>4. CASE i # 0
    <3>1. i > 0
      BY <2>1, <2>4
    <3> DEFINE d == after[i]  g == after[i + 1]
    <3>2. Unmoved(d, c) /\ AfterAll(d, c, ch, i) /\ g = Once(d, ch)
      BY <1>11, <2>2, <3>1
    <3> HIDE DEF d, g
    <3>3. Unmoved(g, c) /\ AfterAll(g, c, ch, i + 1)
      BY <2>1, <3>1, <3>2, OnceMore
    <3>4. QED
      BY <3>3 DEF g
  <2>5. QED
    BY <2>3, <2>4
<1> HIDE DEF Fine
<1>12. 0 .. Height \subseteq S
  <2>1. 0 \in S
    BY <1>1, <1>10
  <2>2. \A i \in 0 .. Height - 1 : i \in S => i + 1 \in S
    BY <1>1, <1>11
  <2> HIDE DEF S
  <2>3. QED
    BY <1>1, <2>1, <2>2, InductionTo
<1>13. Times(n) \in 0 .. Height /\ Times(n) > 0
  BY TimesIs
<1>14. Fine(Times(n))
  BY <1>12, <1>13
<1>15. QED
  BY <1>8, <1>13, <1>14 DEF Fine

-----------------------------------------------------------------------------
(* The steps of Screen.tla, as relations of two consoles.                  *)
Moved(d, c) == Page(d) = Page(c) /\ d.x \in 0 .. Width /\ d.y \in 0 .. Height - 1
Tabbed(d, c) == LET to == c.x + TabStop - (c.x % TabStop) IN
    IF to < Width THEN d.x = to /\ d.y = c.y /\ Page(d) = Page(c)
                  ELSE Advanced(d, c, to - Width)
Back(d, c) ==
    /\ c.x > 0 /\ d.x = c.x - 1 /\ d.y = c.y
    /\ \A q \in 0 .. PageSize - 1 :
           Page(d)[q] = IF q = c.y * Width + c.x - 1 THEN Blank ELSE Page(c)[q]
Worked(d, c) == \E ch \in Repeatable \ {"M"}, n \in 1 .. Height :
    Unmoved(d, c) /\ AfterAll(d, c, ch, n)

Terminal(d, c) ==
    \/ Moved(d, c) \/ Typed(d, c) \/ Advanced(d, c, c.x) \/ Advanced(d, c, 0)
    \/ Tabbed(d, c) \/ Back(d, c) \/ PartErased(d, c) \/ Worked(d, c)

LEMMA ScrCells == Scr!Cells = 0 .. PageSize - 1
BY Area DEF Scr!Cells

LEMMA TerminalMoved ==
  ASSUME NEW c, NEW d, con = c, con' = d, Moved(d, c)
  PROVE  Scr!Next
<1>1. Scr!Move
  BY DEF Moved, Scr!Move
<1>2. QED
  BY <1>1 DEF Scr!Next

LEMMA AdvancedIs ==
  ASSUME NEW c, NEW d, con = c, con' = d, NEW x, Advanced(d, c, x)
  PROVE  Scr!Advance(x)
<1>1. Scr!Raised = RaisedPage(Page(c))
  BY ScrCells DEF Scr!Raised, RaisedPage
<1>2. QED
  BY <1>1 DEF Advanced, Scr!Advance

LEMMA TerminalAdvanced ==
  ASSUME NEW c, NEW d, con = c, con' = d, Advanced(d, c, c.x) \/ Advanced(d, c, 0)
  PROVE  Scr!Next
<1>1. Scr!Advance(c.x) \/ Scr!Advance(0)
  BY AdvancedIs
<1>2. QED
  BY <1>1 DEF Scr!Next, Scr!LineFeed

LEMMA TerminalTabbed ==
  ASSUME NEW c, NEW d, con = c, con' = d, Tabbed(d, c)
  PROVE  Scr!Next
<1> DEFINE to == c.x + TabStop - (c.x % TabStop)
<1>1. CASE to < Width
  <2>1. d.x = to /\ d.y = c.y /\ Page(d) = Page(c)
    BY <1>1 DEF Tabbed
  <2>2. Scr!Tabulate
    BY <1>1, <2>1 DEF Scr!Tabulate
  <2>3. QED
    BY <2>2 DEF Scr!Next
<1>2. CASE ~ (to < Width)
  <2>1. Advanced(d, c, to - Width)
    BY <1>2 DEF Tabbed
  <2>2. Scr!Advance(to - Width)
    BY <2>1, AdvancedIs
  <2>3. Scr!Tabulate
    BY <1>2, <2>2 DEF Scr!Tabulate
  <2>4. QED
    BY <2>3 DEF Scr!Next
<1>3. QED
  BY <1>1, <1>2

LEMMA TerminalErased ==
  ASSUME NEW c, NEW d, con = c, con' = d, PartErased(d, c)
  PROVE  Scr!Next
<1> DEFINE r == c.y * Width  h == r + c.x
<1>1. PICK S \in Regions(r, h) : Page(d) = Clears(Page(c), S)
  BY DEF PartErased
<1>2. Scr!Here = h /\ Scr!Line = LineAt(r)
  <2>1. r .. c.y * Width + Width - 1 = r .. r + Width - 1
    OBVIOUS
  <2>2. QED
    BY DEF Scr!Here, Scr!Line, LineAt
<1>3. Scr!Cleared(S) = Clears(Page(c), S)
  BY ScrCells DEF Scr!Cleared, Clears
<1>4. UNCHANGED <<con.x, con.y>>
  BY DEF PartErased
<1>5. Scr!Erase
  <2> HIDE DEF r, h
  <2>1. S \in {Scr!Cells, Scr!Line, {Scr!Here}, {q \in Scr!Cells : q < Scr!Here},
               {q \in Scr!Cells : q >= Scr!Here}, {q \in Scr!Line : q < Scr!Here},
               {q \in Scr!Line : q >= Scr!Here}}
    BY <1>1, <1>2, ScrCells, Zenon DEF Regions
  <2>2. Page(con)' = Scr!Cleared(S)
    BY <1>1, <1>3
  <2>3. QED
    BY <1>4, <2>1, <2>2, Zenon DEF Scr!Erase
<1>6. QED
  BY <1>5 DEF Scr!Next

LEMMA TerminalTyped ==
  ASSUME NEW c, NEW d, Sound(c), con = c, con' = d, Typed(d, c)
  PROVE  Scr!Next
<1>1. PICK e :
        /\ IF c.x < Width THEN e = c ELSE Advanced(e, c, 0)
        /\ d.x = e.x + 1 /\ d.y = e.y
        /\ \A q \in 0 .. PageSize - 1 :
               Page(d)[q] = IF q = e.y * Width + e.x THEN Mark ELSE Page(e)[q]
  BY DEF Typed, TypedOn, Marked
<1>2. Sound(e) /\ e.x < Width
  BY <1>1, Geometry DEF Advanced
<1> DEFINE h == e.y * Width + e.x
<1>3. h \in 0 .. PageSize - 1
  <2> DEFINE r == e.y * Width
  <2>1. r \in Nat /\ r + Width <= PageSize /\ e.x \in 0 .. Width
    BY <1>2, SoundParts
  <2> HIDE DEF r
  <2>2. r + e.x \in 0 .. PageSize - 1
    BY <1>2, <2>1, Geometry
  <2>3. QED
    BY <2>2 DEF r
<1>4. Page(e) = [q \in 0 .. PageSize - 1 |-> Page(e)[q]]
  BY DEF Page
<1>5. Page(d) = [Page(e) EXCEPT ![h] = Mark]
  <2> HIDE DEF h
  <2>1. \A q \in 0 .. PageSize - 1 : Page(d)[q] = IF q = h THEN Mark ELSE Page(e)[q]
    BY <1>1 DEF h
  <2> DEFINE P == Page(e)
  <2>2. P = [q \in 0 .. PageSize - 1 |-> P[q]]
    BY <1>4
  <2>3. \A q \in 0 .. PageSize - 1 : Page(d)[q] = IF q = h THEN Mark ELSE P[q]
    BY <2>1
  <2> HIDE DEF P
  <2>4. Page(d) = [P EXCEPT ![h] = Mark]
    <3>1. Page(d) = [q \in 0 .. PageSize - 1 |-> IF q = h THEN Mark ELSE P[q]]
      BY <2>3 DEF Page
    <3>2. [P EXCEPT ![h] = Mark] = [q \in 0 .. PageSize - 1 |-> IF q = h THEN Mark ELSE P[q]]
      BY <2>2
    <3>3. QED
      BY <3>1, <3>2
  <2>5. QED
    BY <2>4 DEF P
<1>6. CASE c.x < Width
  <2>1. e = c /\ h = Scr!Here
    BY <1>1, <1>6 DEF Scr!Here
  <2>2. Page(con)' = [Page(con) EXCEPT ![Scr!Here] = Mark]
    BY <1>5, <2>1
  <2>3. (con.x)' = con.x + 1 /\ (con.y)' = con.y
    BY <1>1, <2>1
  <2>4. Scr!Type
    <3>1. con.x < Width
      BY <1>6
    <3>2. QED
      BY <2>2, <2>3, <3>1, Zenon DEF Scr!Type
  <2>5. QED
    BY <2>4 DEF Scr!Next
<1>7. CASE ~ (c.x < Width)
  <2>1. Advanced(e, c, 0)
    BY <1>1, <1>7
  <2>2. /\ e.x = 0 /\ e.y = IF c.y + 1 < Height THEN c.y + 1 ELSE c.y
        /\ Page(e) = IF c.y + 1 < Height THEN Page(c) ELSE RaisedPage(Page(c))
    BY <2>1 DEF Advanced
  <2>3. Scr!Raised = RaisedPage(Page(c))
    BY ScrCells DEF Scr!Raised, RaisedPage
  <2>4. (con.y)' = e.y /\ (con.x)' = 1
    BY <1>1, <2>2
  <2>5. h = (con.y)' * Width
    <3> DEFINE r == e.y * Width
    <3>1. r \in Nat
      BY <1>2, SoundParts
    <3> HIDE DEF r
    <3>2. r + 0 = r
      BY <3>1
    <3>3. QED
      BY <2>2, <2>4, <3>2 DEF r
  <2> HIDE DEF h
  <2>6. Page(con)' = [(IF con.y + 1 < Height THEN Page(con) ELSE Scr!Raised)
                         EXCEPT ![(con.y)' * Width] = Mark]
    <3>1. Page(e) = IF con.y + 1 < Height THEN Page(con) ELSE Scr!Raised
      BY <2>2, <2>3
    <3>2. QED
      BY <1>5, <2>5, <3>1
  <2>7. Scr!Type
    BY <1>7, <2>2, <2>4, <2>6 DEF Scr!Type
  <2>8. QED
    BY <2>7 DEF Scr!Next
<1>8. QED
  BY <1>6, <1>7

LEMMA TerminalBack ==
  ASSUME NEW c, NEW d, Sound(c), con = c, con' = d, Back(d, c)
  PROVE  Scr!Next
<1> DEFINE h == c.y * Width + (c.x - 1)
<1>1. c.x > 0 /\ d.x = c.x - 1 /\ d.y = c.y
  BY DEF Back
<1>2. \A q \in 0 .. PageSize - 1 : Page(d)[q] = IF q = h THEN Blank ELSE Page(c)[q]
  BY DEF Back
<1>3. Scr!Here - 1 = h
  <2> DEFINE r == c.y * Width
  <2>1. r \in Nat /\ c.x \in 0 .. Width /\ Scr!Here = r + c.x
    BY SoundParts DEF Scr!Here
  <2> HIDE DEF r
  <2>2. (r + c.x) - 1 = r + (c.x - 1)
    BY <2>1, Geometry
  <2>3. QED
    BY <2>1, <2>2 DEF r
<1> HIDE DEF h
<1>4. Page(d) = Scr!Cleared({h})
  BY <1>2, ScrCells DEF Page, Scr!Cleared
<1>5. Scr!Backspace
  BY <1>1, <1>3, <1>4 DEF Scr!Backspace
<1>6. QED
  BY <1>5 DEF Scr!Next

LEMMA TerminalWorked ==
  ASSUME NEW c, NEW d, Sound(c), con = c, con' = d, Worked(d, c)
  PROVE  Scr!Next
<1> DEFINE r == c.y * Width  h == r + c.x
<1>1. PICK ch \in Repeatable \ {"M"}, n \in 1 .. Height :
          Unmoved(d, c) /\ AfterAll(d, c, ch, n)
  BY DEF Worked
<1>2. UNCHANGED <<con.x, con.y>> /\ Sound(d) /\ d.x = c.x /\ d.y = c.y
  BY <1>1 DEF Unmoved
<1>3. /\ Scr!Here = h /\ Scr!Line = LineAt(r) /\ con.y * Width = r
      /\ (con.y + n) * Width = r + n * Width /\ (con.y + 1) * Width = r + Width
  <2>1. c.y \in Nat /\ n \in Nat /\ Width \in Nat
    BY SoundParts, Geometry
  <2>2. \A i, j, w \in Nat : (i + j) * w = i * w + j * w
    OBVIOUS
  <2>3. (c.y + n) * Width = c.y * Width + n * Width
    BY <2>1, <2>2
  <2>4. (c.y + 1) * Width = c.y * Width + Width
    BY SoundParts, RowFits
  <2>5. r .. c.y * Width + Width - 1 = r .. r + Width - 1
    OBVIOUS
  <2>6. QED
    BY <2>3, <2>4, <2>5 DEF Scr!Here, Scr!Line, LineAt
<1>4. Scr!Cells = 0 .. PageSize - 1
  BY ScrCells
<1> HIDE DEF r, h
<1>5. CASE ch = "L"
  <2>1. Page(d) = Opened(Page(c), r, n * Width)
    BY <1>1, <1>5 DEF AfterAll, r
  <2>2. Page(con)' = [q \in Scr!Cells |-> IF q < con.y * Width THEN Page(con)[q]
                         ELSE IF q < (con.y + n) * Width THEN Blank
                         ELSE Page(con)[q - n * Width]]
    BY <1>3, <1>4, <2>1 DEF Opened
  <2>3. Scr!OpenLines
    BY <1>2, <2>2, Zenon DEF Scr!OpenLines
  <2>4. QED
    BY <2>3 DEF Scr!Next
<1>7. CASE ch \in {"P", "@"} /\ c.x < Width
  <2>1. Page(d) = TakenOut(Page(c), r, h, n) \/ Page(d) = PutIn(Page(c), r, h, n)
    BY <1>1, <1>7 DEF AfterAll, r, h
  <2>2. \/ Page(con)' = [q \in Scr!Cells |->
                IF q \notin Scr!Line \/ q < Scr!Here THEN Page(con)[q]
                ELSE IF q + n \in Scr!Line THEN Page(con)[q + n] ELSE Blank]
        \/ Page(con)' = [q \in Scr!Cells |->
                IF q \notin Scr!Line \/ q < Scr!Here THEN Page(con)[q]
                ELSE IF q < Scr!Here + n THEN Blank ELSE Page(con)[q - n]]
    BY <1>3, <1>4, <2>1 DEF TakenOut, PutIn
  <2>3. Scr!ShiftLine
    BY <1>2, <2>2, Zenon DEF Scr!ShiftLine
  <2>4. QED
    BY <2>3 DEF Scr!Next
<1>8. CASE ch \in {"P", "@"} /\ ~ (c.x < Width)
  <2>1. Page(d) = Clears(Page(c), {h})
    BY <1>1, <1>8 DEF AfterAll, r, h
  <2>2. PartErased(d, c)
    BY <1>2, <2>1 DEF PartErased, Regions, r, h
  <2>3. QED
    BY <2>2, TerminalErased
<1>9. QED
  BY <1>5, <1>7, <1>8 DEF Repeatable

LEMMA TerminalIs ==
  ASSUME NEW c, NEW d, Sound(c), con = c, con' = d, Terminal(d, c)
  PROVE  Scr!Next
BY TerminalMoved, TerminalTyped, TerminalAdvanced, TerminalTabbed, TerminalBack,
   TerminalErased, TerminalWorked DEF Terminal

-----------------------------------------------------------------------------
\* A console after a step of Screen.tla, or as it was.
Good(d, c) == Sound(d) /\ (d = c \/ Terminal(d, c))

LEMMA NewLine ==
  ASSUME NEW c, Sound(c), NEW d, d = Cr(Lf(c))
  PROVE  Advanced(d, c, 0)
<1> DEFINE e == Lf(c)
<1>1. Advanced(e, c, c.x)
  BY LfEffect
<1>2. Sound(e)
  BY <1>1 DEF Advanced
<1>3. d = Cr(e)
  OBVIOUS
<1> HIDE DEF e
<1>4. Sound(d) /\ d.x = 0 /\ d.y = e.y /\ Page(d) = Page(e)
  BY <1>2, <1>3, CrEffect
<1>5. QED
  BY <1>1, <1>4 DEF Advanced

LEMMA SetXYGood ==
  ASSUME NEW c, Sound(c), NEW x \in Int, NEW y \in Int
  PROVE  Good(SetXY(c, x, y), c)
<1> DEFINE d == SetXY(c, x, y)
<1>1. d = SetXY(c, x, y)
  OBVIOUS
<1> HIDE DEF d
<1>2. /\ Sound(d) /\ Page(d) = Page(c)
      /\ d.x \in 0 .. Width /\ d.y \in 0 .. Height - 1
  BY <1>1, SetXYKeeps, Zenon
<1>3. Good(d, c)
  BY <1>2 DEF Good, Terminal, Moved
<1>4. QED
  BY <1>1, <1>3

LEMMA NormalGood ==
  ASSUME NEW c, Sound(c), NEW ch
  PROVE  Good(Normal(c, ch), c)
<1> DEFINE d == Normal(c, ch)
<1>0. d = Normal(c, ch)
  OBVIOUS
<1>a. c.x \in 0 .. Width /\ c.y \in 0 .. Height - 1
  BY SoundParts
<1> HIDE DEF d
<1>b. SUFFICES Good(d, c)
  BY <1>0
<1>1. CASE ch = "BS"
  <2>1. d = Bs(c)
    BY <1>0, <1>1 DEF Normal
  <2>2. CASE c.x = 0
    <3>1. d = c
      BY <2>1, <2>2 DEF Bs
    <3>2. QED
      BY <3>1 DEF Good
  <2>3. CASE c.x # 0
    <3>1. c.x > 0
      BY <1>a, <2>3, Geometry
    <3>2. /\ Sound(d) /\ d.x = c.x - 1 /\ d.y = c.y
          /\ \A q \in 0 .. PageSize - 1 :
                 Page(d)[q] = IF q = c.y * Width + c.x - 1 THEN Blank ELSE Page(c)[q]
      BY <2>1, <3>1, BsEffect
    <3>3. Back(d, c)
      BY <3>1, <3>2, Zenon DEF Back
    <3>4. QED
      BY <3>2, <3>3, Zenon DEF Good, Terminal
  <2>4. QED
    BY <2>2, <2>3
<1>2. CASE ch = "HT"
  <2>1. d = Tab(c)
    BY <1>0, <1>2 DEF Normal
  <2>2. Tabbed(d, c) /\ Sound(d)
    BY <2>1, TabEffect, Zenon DEF Tabbed, Advanced
  <2>3. QED
    BY <2>2, Zenon DEF Good, Terminal
<1>3. CASE ch = "LF"
  <2>1. d = Cr(Lf(c))
    BY <1>0, <1>3 DEF Normal
  <2>2. Advanced(d, c, 0)
    BY <2>1, NewLine
  <2>3. QED
    BY <2>2, Zenon DEF Good, Terminal, Advanced
<1>4. CASE ch = "VT"
  <2>1. d = Lf(c)
    BY <1>0, <1>4 DEF Normal
  <2>2. Advanced(d, c, c.x)
    BY <2>1, LfEffect
  <2>3. QED
    BY <2>2, Zenon DEF Good, Terminal, Advanced
<1>5. CASE ch = "CR"
  <2>1. d = Cr(c)
    BY <1>0, <1>5 DEF Normal
  <2>2. Sound(d) /\ d.x = 0 /\ d.y = c.y /\ Page(d) = Page(c)
    BY <2>1, CrEffect
  <2>3. Moved(d, c)
    BY <1>a, <2>2, Geometry DEF Moved
  <2>4. QED
    BY <2>2, <2>3, Zenon DEF Good, Terminal
<1>6. CASE ch = "DEL"
  <2>1. d = Del(c)
    BY <1>0, <1>6 DEF Normal
  <2> DEFINE h == c.y * Width + c.x
  <2>2. /\ Sound(d) /\ d.x = c.x /\ d.y = c.y
        /\ \A q \in 0 .. PageSize - 1 :
               Page(d)[q] = IF q = h THEN Blank ELSE Page(c)[q]
    BY <2>1, DelEffect
  <2>3. {h} \in Regions(c.y * Width, h)
    BY DEF Regions
  <2> HIDE DEF h
  <2>4. Page(d) = Clears(Page(c), {h})
    BY <2>2 DEF Page, Clears
  <2>5. PartErased(d, c)
    BY <2>2, <2>3, <2>4 DEF PartErased, h
  <2>6. QED
    BY <2>2, <2>5, Zenon DEF Good, Terminal
<1>7. CASE ch \notin {"BS", "HT", "LF", "VT", "CR", "DEL"}
  <2>1. d = Chr(c)
    BY <1>0, <1>7 DEF Normal
  <2>2. Sound(d) /\ Typed(d, c)
    BY <2>1, ChrEffect, Zenon
  <2>3. QED
    BY <2>2, Zenon DEF Good, Terminal
<1>8. QED
  BY <1>1, <1>2, <1>3, <1>4, <1>5, <1>6, <1>7

LEMMA MaxIsInt ==
  ASSUME NEW i \in Int, NEW j \in Int
  PROVE  Max({i, j}) \in Int
<1> DEFINE k == IF i >= j THEN i ELSE j  m == Max({i, j})
<1>1. k \in {i, j} /\ \A l \in {i, j} : k >= l
  OBVIOUS
<1>2. \E x \in {i, j} : \A l \in {i, j} : x >= l
  BY <1>1
<1>3. m \in {i, j}
  BY <1>2 DEF Max
<1> HIDE DEF m
<1>4. m \in Int
  BY <1>3
<1>5. QED
  BY <1>4 DEF m

LEMMA CsiGood ==
  ASSUME NEW c, Sound(c), NEW ch, NEW p \in [0 .. MaxArgs - 1 -> 0 .. MaxArg],
         saved \in [x : 0 .. Width, y : 0 .. Height - 1], ch # "M"
  PROVE  Good(Csi(c, ch, p), c)
<1> DEFINE n == Max({p[0], 1})  from == [i \in 0 .. 1 |-> Max({p[i] - 1, 0})]
           d == Csi(c, ch, p)
<1>1. /\ p[0] \in Nat /\ p[1] \in Nat /\ c.x \in Int /\ c.y \in Int /\ 0 \in Int
      /\ saved.x \in Int /\ saved.y \in Int
  <2>1. 0 \in 0 .. MaxArgs - 1 /\ 1 \in 0 .. MaxArgs - 1
    BY Geometry
  <2>2. p[0] \in 0 .. MaxArg /\ p[1] \in 0 .. MaxArg
    BY <2>1
  <2>3. c.x \in 0 .. Width /\ c.y \in 0 .. Height - 1
    BY SoundParts
  <2>4. saved.x \in 0 .. Width /\ saved.y \in 0 .. Height - 1
    OBVIOUS
  <2>5. \A i, j \in Int : i .. j \subseteq Int
    OBVIOUS
  <2>6. \A j \in Int : 0 .. j \subseteq Nat
    OBVIOUS
  <2>7. MaxArg \in Int /\ Width \in Int /\ Height - 1 \in Int /\ 0 \in Int
    BY Geometry
  <2>8. QED
    BY <2>2, <2>3, <2>4, <2>5, <2>6, <2>7
<1>2. n \in Int
  BY <1>1, MaxIsInt
<1>3. from[0] \in Int /\ from[1] \in Int
  <2>1. p[0] - 1 \in Int /\ p[1] - 1 \in Int
    BY <1>1
  <2>2. Max({p[0] - 1, 0}) \in Int /\ Max({p[1] - 1, 0}) \in Int
    BY <1>1, <2>1, MaxIsInt
  <2>3. from[0] = Max({p[0] - 1, 0}) /\ from[1] = Max({p[1] - 1, 0})
    OBVIOUS
  <2> HIDE DEF from
  <2>4. QED
    BY <2>2, <2>3
<1>4. d = CASE ch = "A" -> SetXY(c, c.x, c.y - n)
            [] ch = "B" -> SetXY(c, c.x, c.y + n)
            [] ch = "C" -> SetXY(c, c.x + n, c.y)
            [] ch = "D" -> SetXY(c, c.x - n, c.y)
            [] ch = "E" -> SetXY(c, 0, c.y + n)
            [] ch = "F" -> SetXY(c, 0, c.y - n)
            [] ch = "G" -> SetXY(c, from[0], c.y)
            [] ch = "d" -> SetXY(c, c.x, from[0])
            [] ch = "H" -> SetXY(c, from[1], from[0])
            [] ch = "J" -> CsiJ(c, p[0])
            [] ch = "K" -> CsiK(c, p[0])
            [] ch \in {"L", "M", "P", "@"} -> Repeated(c, ch, p[0])
            [] ch = "u" -> SetXY(c, saved.x, saved.y)
            [] OTHER    -> c
  BY DEF Csi
<1> HIDE DEF n, from
<1>5. c.y - n \in Int /\ c.y + n \in Int /\ c.x + n \in Int /\ c.x - n \in Int
  BY <1>1, <1>2
<1> DEFINE Moving == {"A", "B", "C", "D", "E", "F", "G", "d", "H", "u"}
<1>b. d = Csi(c, ch, p)
  OBVIOUS
<1> HIDE DEF d
<1>c. SUFFICES Good(d, c)
  BY <1>b
<1>6. CASE ch \in Moving
  <2>1. \E x, y \in Int : d = SetXY(c, x, y)
    BY <1>1, <1>3, <1>4, <1>5, <1>6
  <2>2. QED
    BY <2>1, SetXYGood
<1>7. CASE ch \in {"J", "K"}
  <2>1. d = CsiJ(c, p[0]) \/ d = CsiK(c, p[0])
    BY <1>4, <1>7
  <2>2. d = c \/ PartErased(d, c)
    BY <2>1, CsiJEffect, CsiKEffect
  <2>3. QED
    BY <2>2, Zenon DEF Good, Terminal, PartErased
<1>8. CASE ch \in {"L", "M", "P", "@"}
  <2>1. d = Repeated(c, ch, p[0])
    BY <1>4, <1>8
  <2>2. ch \in Repeatable /\ ch \in Repeatable \ {"M"}
    BY <1>8 DEF Repeatable
  <2>3. Unmoved(d, c) /\ AfterAll(d, c, ch, Times(p[0]))
    BY <1>1, <2>1, <2>2, RepeatedEffect
  <2>4. Times(p[0]) \in 1 .. Height
    BY <1>1, TimesIs
  <2>5. Worked(d, c)
    BY <2>2, <2>3, <2>4, Zenon DEF Worked
  <2>6. QED
    BY <2>3, <2>5, Zenon DEF Good, Terminal, Unmoved
<1>9. CASE ch \notin Moving \cup {"J", "K"} \cup {"L", "M", "P", "@"}
  <2>1. d = c
    BY <1>4, <1>9
  <2>2. QED
    BY <2>1 DEF Good
<1>10. QED
  BY <1>6, <1>7, <1>8, <1>9

\* The end of ESC [ n M: the cursor and the lines above it are as before.
Cut(d, c) ==
    Unmoved(d, c) /\ \A q \in 0 .. c.y * Width - 1 : Page(d)[q] = Page(c)[q]

LEMMA CsiCut ==
  ASSUME NEW c, Sound(c), NEW p \in [0 .. MaxArgs - 1 -> 0 .. MaxArg]
  PROVE  Cut(Csi(c, "M", p), c)
<1> DEFINE d == Csi(c, "M", p)   r == c.y * Width
<1>1. p[0] \in Nat
  <2>1. 0 \in 0 .. MaxArgs - 1 /\ MaxArg \in Nat
    BY Geometry
  <2>2. p[0] \in 0 .. MaxArg
    BY <2>1
  <2>3. QED
    BY <2>1, <2>2
<1>2. d = Repeated(c, "M", p[0])
  BY DEF Csi
<1>3. "M" \in Repeatable
  BY DEF Repeatable
<1>4. Unmoved(d, c) /\ AfterAll(d, c, "M", Times(p[0]))
  BY <1>1, <1>2, <1>3, RepeatedEffect
<1>5. \A q \in 0 .. PageSize - 1 : q < r + Width => Page(d)[q] = Page(c)[q]
  BY <1>4 DEF AfterAll
<1>6. r \in Nat /\ r + Width <= PageSize /\ Width \in Nat /\ PageSize \in Nat
  BY Places, Geometry
<1> HIDE DEF d, r
<1>7. \A q \in 0 .. r - 1 : q \in 0 .. PageSize - 1 /\ q < r + Width
  BY <1>6
<1>8. \A q \in 0 .. r - 1 : Page(d)[q] = Page(c)[q]
  BY <1>5, <1>7
<1>9. Cut(d, c)
  BY <1>4, <1>8 DEF Cut, r
<1>10. QED
  BY <1>9 DEF d

-----------------------------------------------------------------------------
(* The steps of the console.                                               *)
LEMMA CursorIs ==
  CursorSound <=> ConTypeOK /\ Sound(con)
BY DEF CursorSound, ConTypeOK, Sound

\* What a step keeps, and what it does to the terminal.
Stepped == CursorSound' /\ (con' = con \/ Terminal(con', con) \/ LineDeleted)

LEMMA GoodStep ==
  ASSUME Sound(con), Sound(con') /\ (Good(con', con) \/ LineDeleted),
         saved' \in [x : 0 .. Width, y : 0 .. Height - 1],
         mode' \in {"NOR", "ESC", "QUE", "ARG"},
         args' \in [0 .. MaxArgs - 1 -> 0 .. MaxArg],
         argc' \in 0 .. MaxArgs
  PROVE  Stepped
<1>1. Sound(con') /\ (con' = con \/ Terminal(con', con) \/ LineDeleted)
  BY DEF Good
<1>2. Sound(con)'
  BY <1>1 DEF Sound, LineStart, Consoles
<1>3. con' \in Consoles
  BY <1>1 DEF Sound
<1>4. ConTypeOK'
  BY <1>3 DEF ConTypeOK, Consoles
<1>5. CursorSound'
  BY <1>2, <1>4 DEF CursorSound, ConTypeOK, Sound
<1>6. QED
  BY <1>1, <1>5 DEF Stepped

LEMMA NoArgsType == NoArgs \in [0 .. MaxArgs - 1 -> 0 .. MaxArg]
BY Geometry DEF NoArgs

LEMMA SaveType ==
  ASSUME Sound(con), Save
  PROVE  saved' \in [x : 0 .. Width, y : 0 .. Height - 1]
BY SoundParts DEF Save

LEMMA ArgKeeps ==
  ASSUME CursorSound, NEW ch, NEW p \in [0 .. MaxArgs - 1 -> 0 .. MaxArg],
         NEW n \in 0 .. MaxArgs, Arg(ch, p, n), WriteQue(ch) \/ WriteArg(ch)
  PROVE  Stepped
<1>1. /\ Sound(con) /\ saved \in [x : 0 .. Width, y : 0 .. Height - 1]
      /\ MaxArgs \in Nat /\ MaxArgs >= 2 /\ MaxArg \in Nat
  BY CursorIs, Geometry DEF ConTypeOK
<1>2. ASSUME mode' = "ARG", args' = NoArgs, argc' = MaxArgs, UNCHANGED <<con, saved>>
      PROVE  Stepped
  <2>1. Good(con', con)
    BY <1>1, <1>2 DEF Good
  <2>2. QED
    BY <1>1, <1>2, <2>1, NoArgsType, GoodStep DEF Good
<1>3. ASSUME n + 1 < MaxArgs,
             mode' = "ARG", args' = p, argc' = n + 1, UNCHANGED <<con, saved>>
      PROVE  Stepped
  <2>1. Good(con', con)
    BY <1>1, <1>3 DEF Good
  <2>2. argc' \in 0 .. MaxArgs
    BY <1>1, <1>3
  <2>3. QED
    BY <1>1, <1>3, <2>1, <2>2, GoodStep DEF Good
<1>4. ASSUME n < MaxArgs, ch \in DOMAIN Digit, p[n] * 10 + Digit[ch] <= MaxArg,
             mode' = "ARG", argc' = n, args' = [p EXCEPT ![n] = @ * 10 + Digit[ch]],
             UNCHANGED <<con, saved>>
      PROVE  Stepped
  <2>1. Good(con', con)
    BY <1>1, <1>4 DEF Good
  <2> DEFINE m == Digit[ch]
  <2>2. m \in {1, 2}
    BY <1>4 DEF Digit
  <2>3. p[n] * 10 + m <= MaxArg /\ args' = [p EXCEPT ![n] = p[n] * 10 + m]
    BY <1>4
  <2> HIDE DEF m
  <2>4. n \in 0 .. MaxArgs - 1 /\ p[n] \in 0 .. MaxArg
    BY <1>1, <1>4
  <2>5. p[n] * 10 + m \in 0 .. MaxArg
    BY <1>1, <2>2, <2>3, <2>4
  <2>6. args' \in [0 .. MaxArgs - 1 -> 0 .. MaxArg]
    BY <2>3, <2>5
  <2>7. QED
    BY <1>1, <1>4, <2>1, <2>6, GoodStep DEF Good
<1>5. ASSUME mode' = "NOR", args' = NoArgs, argc' = 0, con' = Csi(con, ch, p),
             IF ch = "s" THEN Save ELSE UNCHANGED saved
      PROVE  Stepped
  <2>1. Sound(con') /\ (Good(con', con) \/ LineDeleted)
    <3>1. CASE ch = "M"
      <4>1. Cut(con', con)
        BY <1>1, <1>5, <3>1, CsiCut
      <4>2. EndsDelete
        BY <1>5, <3>1 DEF EndsDelete
      <4>3. /\ Sound(con') /\ UNCHANGED <<con.x, con.y>>
            /\ \A q \in 0 .. con.y * Width - 1 : Page(con)'[q] = Page(con)[q]
        BY <4>1 DEF Cut, Unmoved, Page
      <4>4. QED
        BY <4>2, <4>3 DEF LineDeleted
    <3>2. CASE ch # "M"
      BY <1>1, <1>5, <3>2, CsiGood DEF Good
    <3>3. QED
      BY <3>1, <3>2
  <2>2. saved' \in [x : 0 .. Width, y : 0 .. Height - 1]
    BY <1>1, <1>5, SaveType
  <2>3. QED
    BY <1>1, <1>5, <2>1, <2>2, NoArgsType, GoodStep DEF Good
<1>6. QED
  BY <1>2, <1>3, <1>4, <1>5, Zenon DEF Arg

LEMMA ConStep ==
  ASSUME CursorSound, [ConNext]_conVars
  PROVE  Stepped
<1>1. /\ Sound(con) /\ saved \in [x : 0 .. Width, y : 0 .. Height - 1]
      /\ mode \in {"NOR", "ESC", "QUE", "ARG"}
      /\ args \in [0 .. MaxArgs - 1 -> 0 .. MaxArg] /\ argc \in 0 .. MaxArgs
      /\ 0 \in 0 .. MaxArgs
  BY CursorIs, Geometry DEF ConTypeOK
<1>2. ASSUME NEW ch \in Chars, WriteNormal(ch)
      PROVE  Stepped
  <2>1. /\ mode' = IF ch = "ESC" THEN "ESC" ELSE "NOR"
        /\ con' = IF ch = "ESC" THEN con ELSE Normal(con, ch)
        /\ UNCHANGED <<saved, args, argc>>
    BY <1>2 DEF WriteNormal
  <2>2. Good(con', con)
    BY <1>1, <2>1, NormalGood DEF Good
  <2>3. QED
    BY <1>1, <2>1, <2>2, GoodStep DEF Good
<1>3. ASSUME NEW ch \in Chars, WriteEsc(ch)
      PROVE  Stepped
  <2>1. /\ mode' = IF ch = "[" THEN "QUE" ELSE "ESC"
        /\ con' = CASE ch = "E" -> Cr(Lf(con))
                    [] ch = "D" -> Lf(con)
                    [] ch = "8" -> SetXY(con, saved.x, saved.y)
                    [] OTHER    -> con
        /\ IF ch = "7" THEN Save ELSE UNCHANGED saved
        /\ UNCHANGED <<args, argc>>
    BY <1>3 DEF WriteEsc
  <2>2. Good(con', con)
    <3>1. CASE ch = "E"
      <4>1. con' = Cr(Lf(con))
        BY <2>1, <3>1
      <4>2. Advanced(con', con, 0)
        BY <1>1, <4>1, NewLine
      <4>3. QED
        BY <4>2 DEF Good, Terminal, Advanced
    <3>2. CASE ch = "D"
      <4>1. con' = Lf(con)
        BY <2>1, <3>2
      <4>2. Advanced(con', con, con.x)
        BY <1>1, <4>1, LfEffect
      <4>3. QED
        BY <4>2 DEF Good, Terminal, Advanced
    <3>3. CASE ch = "8"
      <4>1. con' = SetXY(con, saved.x, saved.y)
        BY <2>1, <3>3
      <4>2. saved.x \in Int /\ saved.y \in Int
        BY <1>1, Geometry
      <4>3. QED
        BY <1>1, <4>1, <4>2, SetXYGood
    <3>4. CASE ch \notin {"E", "D", "8"}
      BY <1>1, <2>1, <3>4 DEF Good
    <3>5. QED
      BY <3>1, <3>2, <3>3, <3>4
  <2>3. saved' \in [x : 0 .. Width, y : 0 .. Height - 1]
    BY <1>1, <2>1, SaveType
  <2>4. QED
    BY <1>1, <2>1, <2>2, <2>3, GoodStep DEF Good
<1>4. ASSUME NEW ch \in Chars, WriteQue(ch)
      PROVE  Stepped
  <2>1. CASE ch = "?"
    <3>1. mode' = "ARG" /\ args' = NoArgs /\ argc' = 0 /\ UNCHANGED <<con, saved>>
      BY <1>4, <2>1 DEF WriteQue
    <3>2. Good(con', con)
      BY <1>1, <3>1 DEF Good
    <3>3. QED
      BY <1>1, <3>1, <3>2, NoArgsType, GoodStep DEF Good
  <2>2. CASE ch # "?"
    <3>1. Arg(ch, NoArgs, 0)
      BY <1>4, <2>2 DEF WriteQue
    <3>2. QED
      BY <1>1, <1>4, <3>1, NoArgsType, ArgKeeps
  <2>3. QED
    BY <2>1, <2>2
<1>5. ASSUME NEW ch \in Chars, WriteArg(ch)
      PROVE  Stepped
  <2>1. Arg(ch, args, argc)
    BY <1>5 DEF WriteArg
  <2>2. QED
    BY <1>1, <1>5, <2>1, ArgKeeps
<1>6. CASE UNCHANGED conVars
  <2>1. UNCHANGED <<con, saved, mode, args, argc>>
    BY <1>6 DEF conVars
  <2>2. Good(con', con)
    BY <1>1, <2>1 DEF Good
  <2>3. QED
    BY <1>1, <2>1, <2>2, GoodStep DEF Good
<1>7. QED
  BY <1>2, <1>3, <1>4, <1>5, <1>6 DEF ConNext

LEMMA ConStart ==
  ASSUME ConInit
  PROVE  CursorSound
<1> DEFINE m == [a \in 0 .. Size - 1 |-> Blank]
<1>1. con = [mem |-> m, screen |-> 0, pos |-> 0, x |-> 0, y |-> 0]
  BY DEF ConInit
<1>2. m \in [0 .. Size - 1 -> {Blank, Mark}]
  OBVIOUS
<1>3. 0 % Width = 0 /\ 0 + PageSize + Width <= Size /\ 0 = 0 + 0 * Width + 0
  <2>1. \A w \in Nat : w > 0 => 0 % w = 0 /\ 0 * w = 0
    OBVIOUS
  <2>2. QED
    BY <2>1, Geometry
<1>4. 0 \in 0 .. Width /\ 0 \in 0 .. Height - 1 /\ 0 \in Nat
  BY Geometry
<1> HIDE DEF m
<1>5. Sound(con)
  BY <1>1, <1>2, <1>3, <1>4, SoundIs
<1>6. ConTypeOK
  <2>1. con \in Consoles
    BY <1>5 DEF Sound
  <2>2. saved \in [x : 0 .. Width, y : 0 .. Height - 1]
    BY <1>4 DEF ConInit
  <2>3. mode = "NOR" /\ args = NoArgs /\ argc = 0 /\ 0 \in 0 .. MaxArgs
    BY Geometry DEF ConInit
  <2>4. QED
    BY <2>1, <2>2, <2>3, NoArgsType DEF ConTypeOK
<1>7. QED
  BY <1>5, <1>6, CursorIs

-----------------------------------------------------------------------------
(* The address that console.cpp keeps beside the cursor's coordinates is   *)
(* the one they stand for, and the window lies within video memory with a  *)
(* line to spare, whatever is written: no cell outside is touched.         *)
THEOREM CursorSoundCorrect == ConSpec => []CursorSound
<1>1. ConInit => CursorSound
  BY ConStart
<1>2. CursorSound /\ [ConNext]_conVars => CursorSound'
  BY ConStep DEF Stepped
<1>3. QED
  BY <1>1, <1>2, PTL DEF ConSpec

(* Through the window the console is a plain page: the return of the       *)
(* window to the start of the memory, the copies over overlapping lines    *)
(* and the repetitions show nothing but one operation of a terminal, for   *)
(* every character but the end of ESC [ n M, which keeps no more than the  *)
(* cursor and the lines above it.                                          *)
THEOREM ConsoleImplementsScreen == ConSpec => ScreenSpec
<1>1. ConInit => Scr!Init
  <2> SUFFICES ASSUME ConInit PROVE Scr!Init
    OBVIOUS
  <2>1. /\ con.mem = [a \in 0 .. Size - 1 |-> Blank] /\ con.screen = 0
        /\ con.x = 0 /\ con.y = 0
    BY DEF ConInit
  <2>2. \A q \in 0 .. PageSize - 1 : 0 + q \in 0 .. Size - 1
    BY Geometry
  <2>3. Page(con) = [q \in 0 .. PageSize - 1 |-> Blank]
    BY <2>1, <2>2 DEF Page
  <2>4. QED
    BY <2>1, <2>3, ScrCells DEF Scr!Init
<1>2. CursorSound /\ [ConNext]_conVars
          => [Scr!Next \/ LineDeleted]_<<Page(con), con.x, con.y>>
  <2> SUFFICES ASSUME CursorSound, [ConNext]_conVars
               PROVE  Scr!Next \/ LineDeleted \/ UNCHANGED <<Page(con), con.x, con.y>>
    OBVIOUS
  <2>1. Sound(con) /\ (con' = con \/ Terminal(con', con) \/ LineDeleted)
    BY ConStep, CursorIs DEF Stepped
  <2>2. CASE con' = con
    BY <2>2 DEF Page
  <2>3. CASE Terminal(con', con)
    BY <2>1, <2>3, TerminalIs
  <2>4. QED
    BY <2>1, <2>2, <2>3
<1>3. QED
  BY <1>1, <1>2, CursorSoundCorrect, PTL DEF ConSpec, ScreenSpec

=============================================================================
