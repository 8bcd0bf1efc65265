----------------------------- MODULE DiskProofs ------------------------------
(***************************************************************************)
(* Proofs about the way to the disk.  First the requests of the tasks,     *)
(* BlockIO.tla, for any disks, partitions and sectors and any number of    *)
(* tasks: what LockProofs.tla proves of the lock is used for the lock of   *)
(* the controller, LP is the same lock as L.  Then the buffer cache above  *)
(* them, Buffer.tla, for any number of tasks, blocks and values and any    *)
(* size of the memory.                                                     *)
(***************************************************************************)
EXTENDS BlockIO, Buffer, DataLemmas

LP == INSTANCE LockProofs WITH MaxDepth <- 1

Threads == L!Threads

LEMMA Slots ==
    /\ L!Idle \in Threads /\ L!Boot \notin Threads /\ L!None \notin Threads
    /\ Threads \subseteq Nat
BY BlockIOAssumption DEF BlockIOAssumption, Threads, L!Threads, L!Idle, L!Boot, L!None

(* LP and L are one lock.                                                  *)
LEMMA SameNames ==
    /\ LP!Threads = Threads /\ LP!Idle = L!Idle
    /\ LP!Boot = L!Boot /\ LP!None = L!None
BY DEF Threads, LP!Threads, L!Threads, LP!Idle, L!Idle, LP!Boot, L!Boot, LP!None, L!None

LEMMA SameReschedule ==
  ASSUME NEW st
  PROVE  LP!D!Reschedule(st) <=> L!D!Reschedule(st)
BY DEF LP!D!Reschedule, L!D!Reschedule, LP!D!Eligible, L!D!Eligible,
       LP!D!Ready, L!D!Ready, LP!D!SwitchTo, L!D!SwitchTo, LP!Threads, L!Threads,
       LP!Idle, L!Idle, LP!Boot, L!Boot

LEMMA SameWorker ==
    /\ LP!Computing <=> L!Computing
    /\ LP!Worker <=> L!Worker
BY DEF LP!Computing, L!Computing, LP!Worker, L!Worker, LP!Boot, L!Boot, LP!Idle, L!Idle

LEMMA SamePreempt == L!Preempt <=> LP!Preempt
BY SameReschedule, SameWorker, SameNames
   DEF LP!Preempt, L!Preempt, LP!lockVars, L!lockVars

LEMMA SameBlock == L!Block <=> LP!Block
BY SameReschedule, SameWorker DEF LP!Block, L!Block, LP!lockVars, L!lockVars

LEMMA SameUnblock == \A t : L!Unblock(t) <=> LP!Unblock(t)
BY SameWorker
   DEF LP!Unblock, L!Unblock, LP!lockVars, L!lockVars, LP!Contains, L!Contains

LEMMA SameTake == L!Take <=> LP!Take
BY DEF LP!Take, L!Take

LEMMA SameQueue == L!Queue <=> LP!Queue
BY SameReschedule DEF LP!Queue, L!Queue

LEMMA SameAcquire ==
    /\ L!Acquire <=> LP!Acquire
    /\ L!AcquireAgain <=> LP!AcquireAgain
    /\ L!Reacquire <=> LP!Reacquire
BY SameTake, SameQueue, SameWorker, SameNames
   DEF LP!Acquire, L!Acquire, LP!AcquireAgain, L!AcquireAgain, LP!Reacquire, L!Reacquire

LEMMA SameWake == L!Wake <=> LP!Wake
BY SameReschedule DEF LP!Wake, L!Wake, LP!Front, L!Front, LP!Last, L!Last

LEMMA SameRelease == L!Release <=> LP!Release
BY SameWorker, SameNames, SameWake
   DEF LP!Release, L!Release, LP!ReleaseInner, L!ReleaseInner,
       LP!ReleaseOuter, L!ReleaseOuter

(* So a step of the lock keeps the invariant of LockProofs.                *)
LEMMA LockStep ==
  ASSUME LP!IInv, [L!Next]_(L!vars)
  PROVE  LP!IInv'
<1>1. L!Next => LP!Next
  BY SamePreempt, SameBlock, SameUnblock, SameAcquire, SameRelease, SameNames
     DEF LP!Next, L!Next, Threads
<1>2. L!vars = LP!vars /\ L!vars' = LP!vars'
  BY DEF LP!vars, L!vars, LP!lockVars, L!lockVars
<1>3. [LP!Next]_(LP!vars)
  BY <1>1, <1>2
<1>4. LP!LockAssumption
  BY BlockIOAssumption DEF BlockIOAssumption, LP!LockAssumption
<1>5. QED
  BY <1>3, <1>4, LP!NextStep

LEMMA LockInit == L!Init => LP!IInv
<1>1. LP!LockAssumption
  BY BlockIOAssumption DEF BlockIOAssumption, LP!LockAssumption
<1>2. L!Init => LP!Init
  BY DEF L!Init, LP!Init, L!Boot, LP!Boot, L!Threads, LP!Threads, L!None, LP!None
<1>3. QED
  BY <1>1, <1>2, LP!InitIInv

-----------------------------------------------------------------------------
Asleep(t) == state[t] = "BLOCKED"

LEMMA SameLock ==
    /\ LP!LockAssumption
    /\ L!TypeOK <=> LP!TypeOK
    /\ \A t : LP!Asleep(t) <=> Asleep(t)
    /\ \A t : L!Contains(waiters, t) <=> LP!Contains(waiters, t)
BY SameNames, BlockIOAssumption
   DEF BlockIOAssumption, LP!LockAssumption, LP!Asleep, Asleep, LP!Contains, L!Contains,
       L!TypeOK, LP!TypeOK, Threads

LEMMA LockFacts ==
  ASSUME LP!IInv
  PROVE  /\ L!TypeOK
         /\ current \in Threads \cup {L!Boot}
         /\ holder \in Threads \cup {L!None}
         /\ state \in [Threads -> {"RUNNING", "READY", "BLOCKED"}]
         /\ \A t \in Threads : state[t] = "RUNNING" <=> t = current
         /\ ~ Asleep(L!Idle) /\ ~ inLoop[L!Idle]
         /\ \A t \in Threads : depth[t] > 0 <=> holder = t
         /\ \A t \in Threads : depth[t] \in Nat
         /\ holder # L!None => repeat = depth[holder]
         /\ value <=> holder # L!None
         /\ \A t \in Threads : inLoop[t] => depth[t] = 0
         /\ \A t \in Threads : L!Contains(waiters, t) <=> inLoop[t] /\ Asleep(t)
BY LP!LockFacts, SameLock, SameNames

LEMMA PreemptEffect ==
  ASSUME LP!IInv, L!Preempt
  PROVE  /\ current' \in Threads
         /\ \A t \in Threads : Asleep(t)' <=> Asleep(t)
         /\ UNCHANGED <<value, waiters, holder, repeat, inLoop, depth>>
BY LP!PreemptEffect, SameLock, SameNames, SamePreempt DEF Asleep, LP!Asleep

LEMMA SleepEffect ==
  ASSUME LP!IInv, current \in Threads, current # L!Idle,
         L!D!Reschedule([state EXCEPT ![current] = "BLOCKED"])
  PROVE  /\ current' \in Threads
         /\ \A t \in Threads : Asleep(t)' <=> Asleep(t) \/ t = current
BY LP!SleepEffect, SameLock, SameNames, SameReschedule DEF Asleep, LP!Asleep

LEMMA BlockEffect ==
  ASSUME LP!IInv, L!Block
  PROVE  /\ current' \in Threads
         /\ \A t \in Threads : Asleep(t)' <=> Asleep(t) \/ t = current
         /\ UNCHANGED <<value, waiters, holder, repeat, inLoop, depth>>
BY LP!BlockEffect, SameLock, SameNames, SameBlock DEF Asleep, LP!Asleep

LEMMA TakeEffect ==
  ASSUME LP!IInv, L!Take, current \in Threads
  PROVE  /\ holder = L!None /\ holder' = current
         /\ UNCHANGED <<current, state>>
         /\ \A t \in Threads : Asleep(t)' <=> Asleep(t)
         /\ \A t \in Threads : inLoop'[t] <=> inLoop[t] /\ t # current
         /\ \A t \in Threads : depth'[t] <= 1
BY LP!TakeEffect, SameLock, SameNames, SameTake DEF Asleep, LP!Asleep

LEMMA QueueEffect ==
  ASSUME LP!IInv, L!Queue, current \in Threads, current # L!Idle
  PROVE  /\ current' \in Threads
         /\ UNCHANGED <<holder, depth>>
         /\ \A t \in Threads : Asleep(t)' <=> Asleep(t) \/ t = current
         /\ \A t \in Threads : inLoop'[t] <=> inLoop[t] \/ t = current
BY LP!QueueEffect, SameLock, SameNames, SameQueue DEF Asleep, LP!Asleep

LEMMA ReleaseEffect ==
  ASSUME LP!IInv, L!Release, \A t \in Threads : depth[t] <= 1
  PROVE  /\ current \in Threads /\ holder = current /\ holder' = L!None
         /\ current' \in Threads
         /\ UNCHANGED inLoop
         /\ \A t \in Threads : depth'[t] <= 1
         /\ \A t \in Threads : Asleep(t)' => Asleep(t)
         /\ \A t \in Threads : Asleep(t) /\ ~ Asleep(t)' => inLoop[t]
BY LP!ReleaseEffect, SameLock, SameNames, SameRelease DEF Asleep, LP!Asleep

-----------------------------------------------------------------------------
\* The keys of s ascend.
Ascends(s, key) == \A m, n \in 1 .. Len(s) : m < n => key[s[m]] <= key[s[n]]

LEMMA InsertAscends ==
  ASSUME NEW S, NEW s, Lists(s, S), NEW e, NEW p \in 1 .. Len(s) + 1,
         NEW r, Inserted(r, S \cup {e}, s, p, e),
         NEW key, \A x \in S \cup {e} : key[x] \in Int, Ascends(s, key),
         \A m \in 1 .. p - 1 : key[s[m]] <= key[e],
         p <= Len(s) => key[s[p]] > key[e]
  PROVE  Ascends(r, key)
<1>1. /\ Len(s) \in Nat /\ Len(r) = Len(s) + 1
      /\ \A n \in 1 .. Len(s) : s[n] \in S /\ key[s[n]] \in Int
      /\ key[e] \in Int
  <2>1. s \in Seq(S) /\ Len(r) = Len(s) + 1
    BY DEF Lists, Inserted
  <2>2. Len(s) \in Nat /\ \A n \in 1 .. Len(s) : s[n] \in S
    BY <2>1
  <2>3. QED
    BY <2>1, <2>2
<1>2. \A i \in 1 .. Len(s) + 1 :
         r[i] = IF i < p THEN s[i] ELSE IF i = p THEN e ELSE s[i - 1]
  BY DEF Inserted
<1>3. \A n \in 1 .. Len(s) : n >= p => key[s[n]] > key[e]
  <2> SUFFICES ASSUME NEW n \in 1 .. Len(s), n >= p PROVE key[s[n]] > key[e]
    OBVIOUS
  <2>1. p \in 1 .. Len(s) /\ key[s[p]] > key[e] /\ key[s[p]] \in Int /\ key[s[n]] \in Int
    BY <1>1
  <2>2. p < n => key[s[p]] <= key[s[n]]
    BY <2>1 DEF Ascends
  <2>3. p = n \/ p < n
    BY <2>1
  <2>4. QED
    BY <2>1, <2>2, <2>3, <1>1
<1>4. ASSUME NEW m \in 1 .. Len(r), NEW n \in 1 .. Len(r), m < n
      PROVE  key[r[m]] <= key[r[n]]
  <2>1. CASE n < p
    BY <2>1, <1>1, <1>2, <1>4 DEF Ascends
  <2>2. CASE n = p
    BY <2>2, <1>1, <1>2, <1>4
  <2>3. CASE n > p /\ m < p
    <3>1. /\ m \in 1 .. Len(s) /\ n - 1 \in 1 .. Len(s) /\ (m < n - 1 \/ m = n - 1)
          /\ r[m] = s[m] /\ r[n] = s[n - 1]
      BY <2>3, <1>1, <1>2
    <3>2. CASE m < n - 1
      BY <3>1, <3>2, <2>3, <1>1 DEF Ascends
    <3>3. CASE m = n - 1
      BY <3>1, <3>3, <2>3, <1>1
    <3>4. QED
      BY <3>2, <3>3, <2>3, <1>4, <1>1
  <2>4. CASE n > p /\ m = p
    <3>1. n - 1 \in 1 .. Len(s) /\ n - 1 >= p /\ r[m] = e /\ r[n] = s[n - 1]
      BY <2>4, <1>1, <1>2
    <3>2. QED
      BY <3>1, <1>1, <1>3
  <2>5. CASE n > p /\ m > p
    <3>1. /\ m - 1 \in 1 .. Len(s) /\ n - 1 \in 1 .. Len(s) /\ m - 1 < n - 1
          /\ r[m] = s[m - 1] /\ r[n] = s[n - 1]
      BY <2>5, <1>1, <1>2, <1>4
    <3>2. QED
      BY <3>1 DEF Ascends
  <2>6. QED
    BY <2>1, <2>2, <2>3, <2>4, <2>5, <1>1
<1>5. QED
  BY <1>4 DEF Ascends

LEMMA RemoveAscends ==
  ASSUME NEW S, NEW s, Lists(s, S), NEW p \in 1 .. Len(s),
         NEW r, Removed(r, S, s, p), NEW key, Ascends(s, key)
  PROVE  Ascends(r, key)
<1>1. /\ Len(s) \in Nat /\ Len(r) = Len(s) - 1
      /\ \A i \in 1 .. Len(s) - 1 : r[i] = IF i < p THEN s[i] ELSE s[i + 1]
  <2>1. s \in Seq(S)
    BY Zenon DEF Lists
  <2>2. /\ Len(r) = Len(s) - 1
        /\ \A i \in 1 .. Len(s) - 1 : r[i] = IF i < p THEN s[i] ELSE s[i + 1]
    BY Zenon DEF Removed
  <2>3. QED
    BY <2>1, <2>2
<1> DEFINE Old(i) == IF i < p THEN i ELSE i + 1
<1>2. \A i \in 1 .. Len(r) : Old(i) \in 1 .. Len(s) /\ r[i] = s[Old(i)]
  BY <1>1
<1>3. \A m, n \in 1 .. Len(r) : m < n => Old(m) < Old(n)
  BY <1>1
<1> HIDE DEF Old
<1>4. QED
  BY <1>2, <1>3 DEF Ascends

-----------------------------------------------------------------------------
Inside(t) == stage[t] # "user"
Open(d)   == {t \in Threads : Inside(t) /\ dev[t] = d}

\* The place listInsertSort finds for a request.
LEMMA PositionFound ==
  ASSUME NEW s \in Seq(Threads), NEW i \in Nat, \A t \in Threads : idx[t] \in Nat
  PROVE  /\ Position(s, i) \in 1 .. Len(s) + 1
         /\ \A m \in 1 .. Position(s, i) - 1 : idx[s[m]] <= i
         /\ Position(s, i) <= Len(s) => idx[s[Position(s, i)]] > i
<1> DEFINE Later == {n \in 1 .. Len(s) + 1 : n <= Len(s) => idx[s[n]] > i}
<1>1. Len(s) \in Nat /\ \A n \in 1 .. Len(s) : s[n] \in Threads /\ idx[s[n]] \in Nat
  OBVIOUS
<1>2. Later \in SUBSET Nat /\ Later # {}
  <2>1. Len(s) + 1 \in Later
    BY <1>1
  <2>2. QED
    BY <2>1, <1>1
<1>3. PICK n \in Later : \A k \in Later : n <= k
  <2> HIDE DEF Later
  <2> QED BY <1>2, LeastNat
<1>4. \A m \in 1 .. n - 1 : idx[s[m]] <= i
  <2> TAKE m \in 1 .. n - 1
  <2>1. m \in 1 .. Len(s) /\ m \notin Later
    BY <1>1, <1>3
  <2>2. QED
    BY <2>1, <1>1
<1>5. \E m \in 1 .. Len(s) + 1 :
         /\ \A k \in 1 .. m - 1 : idx[s[k]] <= i
         /\ m <= Len(s) => idx[s[m]] > i
  BY <1>4
<1>6. QED
  BY <1>5, Zenon DEF Position

\* The elevator's choice when the request of t on disk d is done.
Chosen(d, t, u) ==
    /\ NextRequests(d, t) = {u}
    /\ ~ Beyond(t, u, ~ UpAfter(d, t))
    /\ \A v \in Open(d) : ~ (Beyond(t, v, UpAfter(d, t)) /\ Beyond(v, u, UpAfter(d, t)))

LEMMA PlaceFound ==
  ASSUME NEW d, Lists(list[d], Open(d)), NEW t \in Open(d)
  PROVE  Place(d, t) \in 1 .. Len(list[d]) /\ list[d][Place(d, t)] = t
<1>1. DOMAIN list[d] = 1 .. Len(list[d])
  BY DEF Lists
<1>2. \E n \in DOMAIN list[d] : list[d][n] = t
  BY <1>1 DEF Lists
<1>3. QED
  BY <1>1, <1>2 DEF Place

LEMMA NextRequest ==
  ASSUME NEW d, Lists(list[d], Open(d)), Ascends(list[d], idx),
         \A t \in Threads : idx[t] \in Nat, up[d] \in BOOLEAN, NEW t \in Open(d)
  PROVE  /\ UpAfter(d, t) \in BOOLEAN
         /\ Open(d) = {t} => NextRequests(d, t) = {}
         /\ Open(d) # {t} => \E u \in Open(d) \ {t} : Chosen(d, t, u)
         /\ UpAfter(d, t) # up[d] => \A v \in Open(d) : ~ Beyond(t, v, up[d])
<1> DEFINE s == list[d]
           p == Place(d, t)
           q == IF UpAfter(d, t) THEN p + 1 ELSE p - 1
<1>1. /\ s \in Seq(Open(d)) /\ Len(s) \in Nat /\ DOMAIN s = 1 .. Len(s)
      /\ p \in 1 .. Len(s) /\ s[p] = t
      /\ \A n \in 1 .. Len(s) : s[n] \in Open(d) /\ idx[s[n]] \in Nat
      /\ \A n \in 1 .. Len(s) : s[n] = t => n = p
      /\ \A x \in Open(d) : \E n \in 1 .. Len(s) : s[n] = x
  <2>1. s \in Seq(Open(d)) /\ Len(s) \in Nat /\ DOMAIN s = 1 .. Len(s)
    BY DEF Lists
  <2>2. p \in 1 .. Len(s) /\ s[p] = t
    BY PlaceFound
  <2>3. \A n \in 1 .. Len(s) : s[n] \in Open(d) /\ idx[s[n]] \in Nat
    BY <2>1 DEF Open
  <2>4. QED
    BY <2>1, <2>2, <2>3 DEF Lists
<1>2. \A m, n \in 1 .. Len(s) : m < n => idx[s[m]] <= idx[s[n]]
  BY DEF Ascends
<1>a. ASSUME NEW m \in 1 .. Len(s), NEW n \in 1 .. Len(s), idx[s[m]] < idx[s[n]]
      PROVE  m < n
  <2>1. idx[s[m]] \in Nat /\ idx[s[n]] \in Nat /\ m # n
    BY <1>1, <1>a
  <2>2. ~ (n < m)
    BY <2>1, <1>2, <1>a
  <2>3. QED
    BY <2>1, <2>2
<1>3. NextRequests(d, t) = {s[n] : n \in {q} \cap DOMAIN s}
  BY DEF NextRequests
<1>4. UpAfter(d, t) = IF up[d] THEN p # Len(s) ELSE p = 1
  BY DEF UpAfter
<1>5. UpAfter(d, t) \in BOOLEAN
  BY <1>4
<1> HIDE DEF s, p
<1>6. \A v \in Open(d) : \E n \in 1 .. Len(s) : s[n] = v
  BY <1>1
<1>7. ASSUME Open(d) = {t} PROVE NextRequests(d, t) = {}
  <2>1. \A n \in 1 .. Len(s) : n = p
    BY <1>1, <1>7
  <2>2. q \notin 1 .. Len(s)
    <3>1. q # p
      BY <1>1
    <3> HIDE DEF q
    <3>2. QED
      BY <2>1, <3>1
  <2>3. QED
    BY <2>2, <1>3, <1>1
<1>8. ASSUME Open(d) # {t} PROVE \E u \in Open(d) \ {t} : Chosen(d, t, u)
  <2>1. PICK m \in 1 .. Len(s) : m # p
    BY <1>1, <1>8
  <2>2. q \in 1 .. Len(s) /\ q # p
    <3>1. /\ Len(s) \in Nat /\ Len(s) >= 2 /\ p \in 1 .. Len(s)
          /\ p = Len(s) => p # 1
      <4>1. Len(s) \in Nat /\ p \in 1 .. Len(s) /\ m \in 1 .. Len(s) /\ m # p
        BY <2>1, <1>1
      <4>2. QED
        BY <4>1
    <3>2. CASE UpAfter(d, t)
      <4>1. p # Len(s)
        BY <3>1, <3>2, <1>4
      <4>2. QED
        BY <3>1, <3>2, <4>1
    <3>3. CASE ~ UpAfter(d, t)
      <4>1. p # 1
        BY <3>1, <3>3, <1>4
      <4>2. QED
        BY <3>1, <3>3, <4>1
    <3>4. QED
      BY <3>2, <3>3
  <2>3. NextRequests(d, t) = {s[q]} /\ s[q] \in Open(d) \ {t}
    <3> HIDE DEF q
    <3> QED BY <2>2, <1>3, <1>1
  <2>4. ~ Beyond(t, s[q], ~ UpAfter(d, t))
    <3>1. CASE UpAfter(d, t)
      <4>1. q = p + 1 /\ idx[s[p]] <= idx[s[q]]
        BY <3>1, <2>2, <1>1, <1>2
      <4>2. QED
        BY <4>1, <3>1, <2>2, <1>1 DEF Beyond
    <3>2. CASE ~ UpAfter(d, t)
      <4>1. q = p - 1 /\ idx[s[q]] <= idx[s[p]]
        BY <3>2, <2>2, <1>1, <1>2
      <4>2. QED
        BY <4>1, <3>2, <2>2, <1>1 DEF Beyond
    <3>3. QED
      BY <3>1, <3>2
  <2>5. ASSUME NEW v \in Open(d), Beyond(t, v, UpAfter(d, t)),
               Beyond(v, s[q], UpAfter(d, t))
        PROVE  FALSE
    <3>1. PICK n \in 1 .. Len(s) : s[n] = v
      BY <1>6
    <3>2. CASE UpAfter(d, t)
      <4>1. idx[s[n]] > idx[s[p]] /\ idx[s[q]] > idx[s[n]] /\ q = p + 1
        BY <3>1, <3>2, <2>5, <1>1 DEF Beyond
      <4> HIDE DEF q
      <4>2. p < n /\ n < q
        BY <4>1, <2>2, <1>1, <1>a
      <4>3. QED
        BY <4>1, <4>2, <1>1
    <3>3. CASE ~ UpAfter(d, t)
      <4>1. idx[s[n]] < idx[s[p]] /\ idx[s[q]] < idx[s[n]] /\ q = p - 1
        BY <3>1, <3>3, <2>5, <1>1 DEF Beyond
      <4> HIDE DEF q
      <4>2. n < p /\ q < n
        BY <4>1, <2>2, <1>1, <1>a
      <4>3. QED
        BY <4>1, <4>2, <1>1
    <3>4. QED
      BY <3>2, <3>3
  <2>6. QED
    BY <2>3, <2>4, <2>5 DEF Chosen
<1>9. ASSUME UpAfter(d, t) # up[d], NEW v \in Open(d), Beyond(t, v, up[d])
      PROVE  FALSE
  <2>1. PICK n \in 1 .. Len(s) : s[n] = v
    BY <1>6
  <2>2. CASE up[d]
    <3>1. p = Len(s) /\ idx[s[n]] > idx[s[p]]
      BY <2>1, <2>2, <1>1, <1>4, <1>9 DEF Beyond
    <3>2. QED
      BY <3>1, <1>1, <1>2
  <2>3. CASE ~ up[d]
    <3>1. p = 1 /\ idx[s[n]] < idx[s[p]]
      BY <2>1, <2>3, <1>1, <1>4, <1>9 DEF Beyond
    <3>2. QED
      BY <3>1, <1>1, <1>2
  <2>4. QED
    BY <2>2, <2>3
<1>10. QED
  BY <1>5, <1>7, <1>8, <1>9

-----------------------------------------------------------------------------
(* The invariant: besides the properties and the lock's invariant, how far *)
(* a task is in deviceRequest says what it may wait for and what it holds. *)
Phases ==
    /\ current = L!Boot => \A t \in Threads : ~ Inside(t)
    /\ ~ Inside(L!Idle)
    /\ \A t \in Threads :
          /\ Inside(t) => dev[t] \in Disks
          /\ inLoop[t] => stage[t] = "work"
          /\ holder = t <=> stage[t] = "move" \/ (stage[t] = "work" /\ ~ inLoop[t])
          /\ Asleep(t) => stage[t] = "turn" \/ stage[t] = "move" \/ inLoop[t]
          /\ depth[t] <= 1

Driver ==
    /\ \A t \in Threads : waiter = t <=> holder = t /\ Asleep(t)
    /\ waiter # L!None => busy \/ irq
    /\ busy => holder # L!None /\ stage[holder] = "move"

\* One of the tasks with an open request on d does not wait for its turn.
Sole(d) ==
    /\ \A t, u \in Open(d) : ~ Queued(t) /\ ~ Queued(u) => t = u
    /\ Open(d) # {} => \E t \in Open(d) : ~ Queued(t)

Queues == \A d \in Disks :
    Lists(list[d], Open(d)) /\ Ascends(list[d], idx) /\ Sole(d)

Typed ==
    /\ list \in [Disks -> Seq(Threads)]
    /\ up \in [Disks -> BOOLEAN]
    /\ waiter \in Threads \cup {L!None}
    /\ busy \in BOOLEAN /\ irq \in BOOLEAN
    /\ stage \in [Threads -> {"user", "turn", "work", "move", "done"}]
    /\ dev \in [Threads -> Disks \cup {L!None}]
    /\ idx \in [Threads -> Nat]
    /\ left \in [Threads -> 0 .. MaxCount]

IInv == LP!IInv /\ Typed /\ Phases /\ Driver /\ Queues

LEMMA Typing == IInv => TypeOK
<1>1. LP!IInv => L!TypeOK
  BY LockFacts
<1>2. QED
  BY <1>1 DEF IInv, Typed, TypeOK, Threads

LEMMA InsideWorks ==
  ASSUME IInv, InRequest
  PROVE  /\ current \in Threads /\ current # L!Idle /\ Inside(current)
         /\ current # L!Boot /\ ~ Asleep(current)
         /\ dev[current] \in Disks /\ current \in Open(dev[current])
<1>1. current \in Threads /\ Inside(current) /\ current # L!Boot
  BY LockFacts DEF IInv, InRequest, Inside
<1>2. state[current] = "RUNNING"
  BY <1>1, LockFacts DEF IInv
<1>3. QED
  BY <1>1, <1>2 DEF IInv, Phases, Asleep, Open

\* Who is woken at the end of deviceRequest.
LEMMA FinishEffect ==
  ASSUME IInv, Finish
  PROVE  LET d == dev[current] IN
         \/ Open(d) = {current} /\ UNCHANGED state
         \/ \E u \in Open(d) \ {current} :
               /\ Chosen(d, current, u) /\ Queued(u)
               /\ state' = [state EXCEPT ![u] = "READY"]
<1> DEFINE d == dev[current]
<1>1. InRequest /\ stage[current] = "done"
  BY DEF Finish
<1>2. d \in Disks /\ current \in Open(d) /\ ~ Queued(current)
  BY <1>1, InsideWorks DEF Queued
<1>3. state' = [t \in Threads |->
                  IF t \in NextRequests(d, current) THEN "READY" ELSE state[t]]
  BY DEF Finish, Threads
<1>4. state \in [Threads -> {"RUNNING", "READY", "BLOCKED"}]
  BY LockFacts DEF IInv
<1>5. /\ Lists(list[d], Open(d)) /\ Ascends(list[d], idx) /\ Sole(d)
      /\ up[d] \in BOOLEAN /\ \A t \in Threads : idx[t] \in Nat
  BY <1>2 DEF IInv, Queues, Typed
<1> HIDE DEF d
<1>6. /\ Open(d) = {current} => NextRequests(d, current) = {}
      /\ Open(d) # {current} => \E u \in Open(d) \ {current} : Chosen(d, current, u)
  BY <1>2, <1>5, NextRequest
<1>7. CASE Open(d) = {current}
  <2>1. state' = [t \in Threads |-> state[t]]
    BY <1>3, <1>6, <1>7
  <2>2. state' = state
    BY <2>1, <1>4
  <2>3. QED
    BY <2>2, <1>7 DEF d
<1>8. CASE Open(d) # {current}
  <2>1. PICK u \in Open(d) \ {current} : Chosen(d, current, u)
    BY <1>6, <1>8
  <2>2. Queued(u)
    BY <1>2, <1>5, <2>1 DEF Sole
  <2>3. u \in Threads /\ NextRequests(d, current) = {u}
    BY <2>1 DEF Open, Chosen
  <2>4. state' = [t \in Threads |-> IF t = u THEN "READY" ELSE state[t]]
    BY <1>3, <2>3
  <2>5. state' = [state EXCEPT ![u] = "READY"]
    BY <2>4, <1>4
  <2>6. QED
    BY <2>1, <2>2, <2>5 DEF d
<1>9. QED
  BY <1>7, <1>8

(* Every step of a request is a step of the lock, or none.                 *)
LEMMA StepKeepsLock ==
  ASSUME IInv, [Next]_vars
  PROVE  [L!Next]_(L!vars)
<1>1. /\ current \in Threads \cup {L!Boot}
      /\ \A t \in Threads : L!Contains(waiters, t) <=> inLoop[t] /\ Asleep(t)
  BY LockFacts DEF IInv
<1>2. UNCHANGED lockVars => UNCHANGED L!vars
  BY DEF lockVars, L!vars, L!lockVars
<1>3. CASE Preempt
  BY <1>3 DEF Preempt, L!Next
<1>4. ASSUME NEW d \in Disks, NEW sector \in Sectors, NEW count \in 1 .. MaxCount,
             NEW k \in 0 .. Len(Parts[d]), Request(d, k, sector, count)
      PROVE  [L!Next]_(L!vars)
  BY <1>2, <1>4 DEF Request, L!Next
<1>5. CASE DoRequest
  BY <1>5 DEF DoRequest, L!Next
<1>6. CASE AcquireAgain
  BY <1>6 DEF AcquireAgain, L!Next
<1>7. CASE Command \/ Ready
  BY <1>2, <1>7 DEF Command, Ready
<1>8. CASE Sector
  BY <1>8 DEF Sector, L!Next
<1>9. CASE IdeHandler
  <2>1. CASE waiter = L!None
    BY <1>2, <1>9, <2>1 DEF IdeHandler
  <2>2. CASE waiter # L!None
    <3>1. waiter \in Threads /\ Asleep(waiter) /\ holder = waiter
      BY <2>2 DEF IInv, Typed, Driver
    <3>2. ~ inLoop[waiter] /\ Inside(waiter)
      BY <3>1 DEF IInv, Phases, Inside
    <3>3. current # L!Boot /\ ~ inLoop[current]
      <4>1. current # L!Boot
        BY <3>1, <3>2 DEF IInv, Phases
      <4>2. stage[current] = "user" /\ current \in Threads
        BY <4>1, <1>1, <1>9 DEF IdeHandler, InRequest
      <4>3. QED
        BY <4>1, <4>2 DEF IInv, Phases
    <3>4. L!Unblock(waiter)
      BY <1>1, <1>9, <2>2, <3>1, <3>2, <3>3
         DEF IdeHandler, L!Unblock, L!Computing, Asleep, L!lockVars
    <3>5. QED
      BY <3>1, <3>4 DEF L!Next, Threads
  <2>3. QED
    BY <2>1, <2>2
<1>10. CASE Release
  BY <1>10 DEF Release, L!Next
<1>11. CASE Finish
  <2>1. /\ current \in Threads /\ current # L!Boot /\ stage[current] = "done"
    BY <1>11, InsideWorks DEF Finish
  <2>2. ~ inLoop[current]
    BY <2>1 DEF IInv, Phases
  <2>3. CASE UNCHANGED state
    BY <1>2, <1>11, <2>3 DEF Finish, lockVars
  <2>4. ASSUME NEW u \in Open(dev[current]), Queued(u),
               state' = [state EXCEPT ![u] = "READY"]
        PROVE  [L!Next]_(L!vars)
    <3>1. u \in Threads /\ Asleep(u) /\ ~ inLoop[u]
      BY <2>4 DEF IInv, Phases, Queued, Open, Asleep
    <3>2. L!Unblock(u)
      BY <1>1, <1>11, <2>1, <2>2, <2>4, <3>1
         DEF Finish, L!Unblock, L!Computing, Asleep, L!lockVars
    <3>3. QED
      BY <3>1, <3>2 DEF L!Next, Threads
  <2>5. QED
    BY <1>11, <2>3, <2>4, FinishEffect
<1>12. CASE UNCHANGED vars
  BY <1>2, <1>12 DEF vars
<1>13. QED
  BY <1>3, <1>4, <1>5, <1>6, <1>7, <1>8, <1>9, <1>10, <1>11, <1>12 DEF Next

-----------------------------------------------------------------------------
\* A step that leaves the requests and those who wait for their turn alone.
LEMMA AsideQueues ==
  ASSUME Queues, UNCHANGED <<list, dev, idx>>,
         \A t \in Threads : Inside(t)' <=> Inside(t),
         \A t \in Threads : Queued(t)' <=> Queued(t)
  PROVE  Queues'
<1>1. \A d : Open(d)' = Open(d)
  BY DEF Open
<1>2. ASSUME NEW d \in Disks
      PROVE  (Lists(list[d], Open(d)) /\ Ascends(list[d], idx) /\ Sole(d))'
  <2>1. Lists(list[d], Open(d)) /\ Ascends(list[d], idx) /\ Sole(d)
    BY DEF Queues
  <2>2. Lists(list[d], Open(d))' /\ Ascends(list[d], idx)'
    BY <1>1, <2>1 DEF Lists, Ascends
  <2>3. Sole(d)'
    <3>1. \A t \in Open(d) : Queued(t)' <=> Queued(t)
      BY DEF Open
    <3>2. QED
      BY <1>1, <2>1, <3>1 DEF Sole
  <2>4. QED
    BY <2>2, <2>3
<1>3. QED
  BY <1>2 DEF Queues

LEMMA PreemptStep ==
  ASSUME IInv, Preempt
  PROVE  Typed' /\ Phases' /\ Driver' /\ Queues'
<1>1. /\ current' \in Threads
      /\ \A t \in Threads : Asleep(t)' <=> Asleep(t)
      /\ UNCHANGED <<value, waiters, holder, repeat, inLoop, depth>>
      /\ UNCHANGED <<list, up, dev, idx, waiter, busy, irq, stage, left>>
  BY PreemptEffect DEF Preempt, IInv, reqVars, ctrlVars
<1>2. Typed' /\ Phases' /\ Driver'
  BY <1>1, Slots DEF IInv, Typed, Phases, Driver, Inside
<1>3. Queues'
  BY <1>1, AsideQueues DEF IInv, Inside, Queued, Asleep
<1>4. QED
  BY <1>2, <1>3

LEMMA DoRequestStep ==
  ASSUME IInv, DoRequest
  PROVE  Typed' /\ Phases' /\ Driver' /\ Queues'
<1>1. /\ current \in Threads /\ current # L!Idle /\ ~ Asleep(current)
      /\ stage[current] = "turn" /\ current # L!Boot
  BY InsideWorks DEF DoRequest
<1>2. /\ UNCHANGED <<list, up, dev, idx, waiter, busy, irq, left>>
      /\ stage' = [stage EXCEPT ![current] = "work"]
      /\ L!Take \/ L!Queue
  BY DEF DoRequest, reqVars, ctrlVars, L!Acquire
<1>3. \A t \in Threads : stage'[t] = IF t = current THEN "work" ELSE stage[t]
  BY <1>2 DEF IInv, Typed
<1>4. Typed'
  BY <1>1, <1>2 DEF IInv, Typed
<1>5. /\ \A t \in Threads : Inside(t)' <=> Inside(t)
  BY <1>1, <1>3 DEF Inside
<1>6. CASE L!Take
  <2>1. /\ holder = L!None /\ holder' = current /\ current' = current
        /\ \A t \in Threads : Asleep(t)' <=> Asleep(t)
        /\ \A t \in Threads : inLoop'[t] <=> inLoop[t] /\ t # current
        /\ \A t \in Threads : depth'[t] <= 1
    BY <1>1, <1>6, TakeEffect DEF IInv
  <2>2. Phases'
    BY <1>1, <1>2, <1>3, <2>1, Slots DEF IInv, Phases, Inside
  <2>3. Driver'
    BY <1>1, <1>2, <1>3, <2>1, Slots DEF IInv, Typed, Driver
  <2>4. Queues'
    BY <1>1, <1>2, <1>3, <1>5, <2>1, AsideQueues DEF IInv, Queued, Asleep
  <2>5. QED
    BY <1>4, <2>2, <2>3, <2>4
<1>7. CASE L!Queue
  <2>1. /\ current' \in Threads /\ UNCHANGED <<holder, depth>>
        /\ \A t \in Threads : Asleep(t)' <=> Asleep(t) \/ t = current
        /\ \A t \in Threads : inLoop'[t] <=> inLoop[t] \/ t = current
    BY <1>1, <1>7, QueueEffect DEF IInv
  <2>2. Phases'
    BY <1>1, <1>2, <1>3, <2>1, Slots DEF IInv, Phases, Inside
  <2>3. Driver'
    BY <1>1, <1>2, <1>3, <2>1, Slots DEF IInv, Typed, Phases, Driver
  <2>4. Queues'
    BY <1>1, <1>2, <1>3, <1>5, <2>1, AsideQueues DEF IInv, Queued, Asleep
  <2>5. QED
    BY <1>4, <2>2, <2>3, <2>4
<1>8. QED
  BY <1>2, <1>6, <1>7

LEMMA AcquireAgainStep ==
  ASSUME IInv, AcquireAgain
  PROVE  Typed' /\ Phases' /\ Driver' /\ Queues'
<1>1. /\ current \in Threads /\ current # L!Idle /\ ~ Asleep(current)
      /\ current # L!Boot /\ inLoop[current] /\ stage[current] = "work"
  <2>1. current \in Threads /\ inLoop[current] /\ current # L!Boot
    BY LockFacts DEF IInv, AcquireAgain, L!AcquireAgain
  <2>2. state[current] = "RUNNING" /\ current # L!Idle
    BY <2>1, LockFacts DEF IInv
  <2>3. QED
    BY <2>1, <2>2 DEF IInv, Phases, Asleep
<1>2. /\ UNCHANGED <<list, up, dev, idx, waiter, busy, irq, stage, left>>
      /\ L!Take \/ L!Queue
  BY DEF AcquireAgain, reqVars, ctrlVars, L!AcquireAgain
<1>3. Typed'
  BY <1>2 DEF IInv, Typed
<1>4. /\ \A t \in Threads : Inside(t)' <=> Inside(t)
  BY <1>2 DEF Inside
<1>5. CASE L!Take
  <2>1. /\ holder = L!None /\ holder' = current /\ current' = current
        /\ \A t \in Threads : Asleep(t)' <=> Asleep(t)
        /\ \A t \in Threads : inLoop'[t] <=> inLoop[t] /\ t # current
        /\ \A t \in Threads : depth'[t] <= 1
    BY <1>1, <1>5, TakeEffect DEF IInv
  <2>2. Phases'
    BY <1>1, <1>2, <2>1, Slots DEF IInv, Phases, Inside
  <2>3. Driver'
    BY <1>1, <1>2, <2>1, Slots DEF IInv, Typed, Driver
  <2>4. Queues'
    BY <1>2, <1>4, <2>1, AsideQueues DEF IInv, Queued, Asleep
  <2>5. QED
    BY <1>3, <2>2, <2>3, <2>4
<1>6. CASE L!Queue
  <2>1. /\ current' \in Threads /\ UNCHANGED <<holder, depth>>
        /\ \A t \in Threads : Asleep(t)' <=> Asleep(t) \/ t = current
        /\ \A t \in Threads : inLoop'[t] <=> inLoop[t] \/ t = current
    BY <1>1, <1>6, QueueEffect DEF IInv
  <2>2. Phases'
    BY <1>1, <1>2, <2>1, Slots DEF IInv, Phases, Inside
  <2>3. Driver'
    BY <1>1, <1>2, <2>1, Slots DEF IInv, Typed, Phases, Driver
  <2>4. Queues'
    BY <1>1, <1>2, <1>4, <2>1, AsideQueues DEF IInv, Queued, Asleep
  <2>5. QED
    BY <1>3, <2>2, <2>3, <2>4
<1>7. QED
  BY <1>2, <1>5, <1>6

LEMMA CommandStep ==
  ASSUME IInv, Command
  PROVE  Typed' /\ Phases' /\ Driver' /\ Queues'
<1>1. /\ current \in Threads /\ current # L!Idle /\ ~ Asleep(current)
      /\ stage[current] = "work" /\ holder = current
  BY InsideWorks DEF Command, Polled
<1>2. /\ UNCHANGED <<current, state, holder, inLoop, depth>>
      /\ UNCHANGED <<list, up, dev, idx, waiter, busy, irq, left>>
      /\ stage' = [stage EXCEPT ![current] = "move"]
  BY DEF Command, lockVars, reqVars, ctrlVars
<1>3. \A t \in Threads : stage'[t] = IF t = current THEN "move" ELSE stage[t]
  BY <1>2 DEF IInv, Typed
<1>4. Typed'
  BY <1>1, <1>2 DEF IInv, Typed
<1>5. Phases'
  BY <1>1, <1>2, <1>3 DEF IInv, Phases, Inside, Asleep
<1>6. Driver'
  BY <1>1, <1>2, <1>3 DEF IInv, Driver, Asleep
<1>7. Queues'
  BY <1>1, <1>2, <1>3, AsideQueues DEF IInv, Queued, Inside
<1>8. QED
  BY <1>4, <1>5, <1>6, <1>7

LEMMA SectorStep ==
  ASSUME IInv, Sector
  PROVE  Typed' /\ Phases' /\ Driver' /\ Queues'
<1>1. /\ current \in Threads /\ current # L!Idle /\ ~ Asleep(current)
      /\ stage[current] = "move"
  BY InsideWorks DEF Sector, Polled
<1>2. holder = current
  BY <1>1 DEF IInv, Phases
<1>3. /\ current' \in Threads
      /\ \A t \in Threads : Asleep(t)' <=> Asleep(t) \/ t = current
      /\ UNCHANGED <<value, waiters, holder, repeat, inLoop, depth>>
      /\ UNCHANGED <<list, up, dev, idx, irq, stage>>
      /\ busy' = TRUE /\ waiter' = current
  BY BlockEffect DEF Sector, IInv, reqVars
<1>4. left' \in [Threads -> 0 .. MaxCount]
  <2>1. left[current] \in 0 .. MaxCount /\ left[current] > 0
    BY <1>1 DEF Sector, IInv, Typed
  <2>2. left[current] - 1 \in 0 .. MaxCount
    BY <2>1, BlockIOAssumption DEF BlockIOAssumption
  <2>3. QED
    BY <2>2 DEF Sector, IInv, Typed
<1>5. Typed'
  BY <1>1, <1>3, <1>4 DEF IInv, Typed
<1>6. Phases'
  BY <1>1, <1>3, Slots DEF IInv, Phases, Inside
<1>7. Driver'
  BY <1>1, <1>2, <1>3, Slots DEF IInv, Driver
<1>8. Queues'
  BY <1>1, <1>3, AsideQueues DEF IInv, Queued, Inside, Asleep
<1>9. QED
  BY <1>5, <1>6, <1>7, <1>8

LEMMA ReadyStep ==
  ASSUME IInv, Ready
  PROVE  Typed' /\ Phases' /\ Driver' /\ Queues'
<1>1. /\ UNCHANGED <<current, state, holder, inLoop, depth>>
      /\ UNCHANGED <<list, up, dev, idx, waiter, stage, left>>
      /\ busy' = FALSE /\ irq' = TRUE
  BY DEF Ready, lockVars, reqVars
<1>2. Typed' /\ Phases' /\ Driver'
  BY <1>1 DEF IInv, Typed, Phases, Driver, Inside, Asleep
<1>3. Queues'
  BY <1>1, AsideQueues DEF IInv, Queued, Inside
<1>4. QED
  BY <1>2, <1>3

LEMMA IdeHandlerStep ==
  ASSUME IInv, IdeHandler
  PROVE  Typed' /\ Phases' /\ Driver' /\ Queues'
<1>1. /\ UNCHANGED <<current, holder, inLoop, depth>>
      /\ UNCHANGED <<list, up, dev, idx, busy, stage, left>>
      /\ irq' = FALSE /\ waiter' = L!None
  BY DEF IdeHandler, lockVars, reqVars
<1>2. \A t \in Threads : Asleep(t)' <=> Asleep(t) /\ t # waiter
  <2>1. state \in [Threads -> {"RUNNING", "READY", "BLOCKED"}]
    BY LockFacts DEF IInv
  <2>2. CASE waiter = L!None
    BY <2>2, Slots DEF IdeHandler, lockVars, Asleep
  <2>3. CASE waiter # L!None
    BY <2>1, <2>3 DEF IdeHandler, Asleep, IInv, Typed
  <2>4. QED
    BY <2>2, <2>3
<1>3. waiter # L!None => waiter \in Threads /\ holder = waiter
  BY DEF IInv, Typed, Driver
<1>4. Typed'
  BY <1>1 DEF IInv, Typed
<1>5. Phases'
  BY <1>1, <1>2, <1>3 DEF IInv, Phases, Inside
<1>6. Driver'
  BY <1>1, <1>2, <1>3, Slots DEF IInv, Driver
<1>7. Queues'
  <2>1. waiter # L!None => stage[waiter] # "turn"
    BY <1>3 DEF IInv, Phases
  <2>2. \A t \in Threads : Queued(t)' <=> Queued(t)
    BY <1>1, <1>2, <2>1, Slots DEF Queued, Asleep
  <2>3. QED
    BY <1>1, <2>2, AsideQueues DEF IInv, Inside
<1>8. QED
  BY <1>4, <1>5, <1>6, <1>7

LEMMA ReleaseStep ==
  ASSUME IInv, Release
  PROVE  Typed' /\ Phases' /\ Driver' /\ Queues'
<1>1. /\ current # L!Idle /\ ~ Asleep(current) /\ stage[current] = "move" /\ ~ busy
  BY InsideWorks DEF Release, Polled
<1>2. /\ current \in Threads /\ holder = current /\ holder' = L!None
      /\ current' \in Threads /\ UNCHANGED inLoop
      /\ \A t \in Threads : depth'[t] <= 1
      /\ \A t \in Threads : Asleep(t)' => Asleep(t)
      /\ \A t \in Threads : Asleep(t) /\ ~ Asleep(t)' => inLoop[t]
  BY ReleaseEffect DEF Release, IInv, Phases
<1>3. /\ UNCHANGED <<list, up, dev, idx, waiter, busy, irq, left>>
      /\ stage' = [stage EXCEPT ![current] = "done"]
  BY DEF Release, reqVars, ctrlVars
<1>4. \A t \in Threads : stage'[t] = IF t = current THEN "done" ELSE stage[t]
  BY <1>3 DEF IInv, Typed
<1>5. Typed'
  BY <1>2, <1>3 DEF IInv, Typed
<1>6. Phases'
  BY <1>1, <1>2, <1>3, <1>4, Slots DEF IInv, Phases, Inside
<1>7. Driver'
  BY <1>1, <1>2, <1>3, Slots DEF IInv, Typed, Driver
<1>8. Queues'
  <2>1. \A t \in Threads : inLoop[t] => stage[t] = "work"
    BY DEF IInv, Phases
  <2>2. \A t \in Threads : Queued(t)' <=> Queued(t)
    BY <1>1, <1>2, <1>4, <2>1 DEF Queued, Asleep
  <2>3. QED
    BY <1>1, <1>3, <1>4, <2>2, AsideQueues DEF IInv, Inside
<1>9. QED
  BY <1>5, <1>6, <1>7, <1>8

-----------------------------------------------------------------------------
\* What a request does to the lists: the caller is put into its disk's.
LEMMA RequestLists ==
  ASSUME IInv, NEW d \in Disks, NEW i \in Nat,
         current \in Threads, ~ Inside(current),
         idx' = [idx EXCEPT ![current] = i],
         list' = [list EXCEPT ![d] = InsertAt(@, Position(@, i), current)],
         \A e \in Disks : Open(e)' = IF e = d THEN Open(e) \cup {current} ELSE Open(e)
  PROVE  /\ list' \in [Disks -> Seq(Threads)]
         /\ \A e \in Disks : (Lists(list[e], Open(e)) /\ Ascends(list[e], idx))'
<1> DEFINE s == list[d]
           p == Position(s, i)
           r == InsertAt(s, p, current)
<1>1. /\ idx \in [Threads -> Nat] /\ list \in [Disks -> Seq(Threads)]
      /\ \A e \in Disks : Lists(list[e], Open(e)) /\ Ascends(list[e], idx)
      /\ \A e : Open(e) \subseteq Threads /\ current \notin Open(e)
  BY DEF IInv, Typed, Queues, Open
<1>2. /\ \A t \in Threads : idx'[t] = IF t = current THEN i ELSE idx[t]
      /\ \A t \in Threads : idx'[t] \in Nat /\ idx[t] \in Nat
  BY <1>1
<1>3. \A e \in Disks : list'[e] = IF e = d THEN r ELSE list[e]
  BY <1>1
<1>4. \A e \in Disks : Ascends(list[e], idx')
  <2> SUFFICES ASSUME NEW e \in Disks PROVE Ascends(list[e], idx')
    OBVIOUS
  <2>1. \A n \in 1 .. Len(list[e]) : list[e][n] \in Open(e)
    BY <1>1 DEF Lists
  <2>2. \A n \in 1 .. Len(list[e]) : idx'[list[e][n]] = idx[list[e][n]]
    BY <2>1, <1>1, <1>2
  <2>3. QED
    BY <2>2, <1>1 DEF Ascends
<1>5. s \in Seq(Threads) /\ s \in Seq(Open(d)) /\ Lists(s, Open(d)) /\ Ascends(s, idx')
  BY <1>1, <1>4 DEF Lists
<1>6. /\ p \in 1 .. Len(s) + 1
      /\ \A m \in 1 .. p - 1 : idx[s[m]] <= i
      /\ p <= Len(s) => idx[s[p]] > i
  <2> HIDE DEF s
  <2> QED BY <1>5, <1>2, PositionFound
<1>7. /\ \A m \in 1 .. p - 1 : idx'[s[m]] <= idx'[current]
      /\ p <= Len(s) => idx'[s[p]] > idx'[current]
  <2>1. idx'[current] = i
    BY <1>2
  <2>2. \A n \in 1 .. Len(s) : s[n] \in Threads /\ s[n] # current
    BY <1>1, <1>5
  <2>3. Len(s) \in Nat
    BY <1>5
  <2> HIDE DEF s, p
  <2>4. \A n \in 1 .. Len(s) : idx'[s[n]] = idx[s[n]]
    BY <2>2, <1>2
  <2>5. QED
    BY <2>1, <2>3, <2>4, <1>6
<1> HIDE DEF s, p
<1>8. Inserted(r, Open(d) \cup {current}, s, p, current)
  <2>1. s \in Seq(Open(d) \cup {current})
    BY <1>5
  <2>2. QED
    BY <2>1, <1>6, InsertAtShape
<1>9. Lists(r, Open(d) \cup {current})
  BY <1>1, <1>5, <1>6, <1>8, InsertLists
<1>10. Ascends(r, idx')
  <2>1. \A t \in Open(d) \cup {current} : idx'[t] \in Int
    BY <1>1, <1>2
  <2> DEFINE key == idx'
  <2>2. /\ \A t \in Open(d) \cup {current} : key[t] \in Int
        /\ Lists(s, Open(d)) /\ Ascends(s, key) /\ p \in 1 .. Len(s) + 1
        /\ \A m \in 1 .. p - 1 : key[s[m]] <= key[current]
        /\ p <= Len(s) => key[s[p]] > key[current]
    BY <2>1, <1>5, <1>6, <1>7
  <2> HIDE DEF key, r
  <2>3. Ascends(r, key)
    BY <2>2, <1>8, InsertAscends
  <2>4. QED
    BY <2>3 DEF key
<1> HIDE DEF r
<1>11. ASSUME NEW e \in Disks
       PROVE  (Lists(list[e], Open(e)) /\ Ascends(list[e], idx))'
  <2>1. CASE e = d
    <3>1. list'[e] = r /\ Open(e)' = Open(d) \cup {current}
      BY <2>1, <1>3
    <3>2. Lists(list'[e], Open(e)') /\ Ascends(list'[e], idx')
      BY <3>1, <1>9, <1>10
    <3>3. QED
      BY <3>2
  <2>2. CASE e # d
    <3>1. list'[e] = list[e] /\ Open(e)' = Open(e)
      BY <2>2, <1>3
    <3>2. Lists(list'[e], Open(e)') /\ Ascends(list'[e], idx')
      BY <3>1, <1>1, <1>4
    <3>3. QED
      BY <3>2
  <2>3. QED
    BY <2>1, <2>2
<1>12. list' \in [Disks -> Seq(Threads)]
  <2>1. r \in Seq(Threads)
    <3>1. r \in Seq(Open(d) \cup {current}) /\ Open(d) \cup {current} \subseteq Threads
      BY <1>1, <1>9 DEF Lists
    <3>2. QED
      BY <3>1
  <2>2. QED
    BY <2>1, <1>1 DEF r, p, s
<1>13. QED
  BY <1>11, <1>12

LEMMA RequestStep ==
  ASSUME IInv, NEW d \in Disks, NEW sector \in Sectors, NEW count \in 1 .. MaxCount,
         NEW k \in 0 .. Len(Parts[d]), Request(d, k, sector, count)
  PROVE  Typed' /\ Phases' /\ Driver' /\ Queues'
<1> DEFINE i == sector + SectorStart(d, k)
<1>1. i \in Nat
  <2>1. Parts[d] \in Seq(Nat) /\ sector \in Nat
    BY BlockIOAssumption DEF BlockIOAssumption
  <2>2. k # 0 => k \in 1 .. Len(Parts[d])
    BY <2>1
  <2>3. SectorStart(d, k) \in Nat
    BY <2>1, <2>2 DEF SectorStart
  <2>4. QED
    BY <2>1, <2>3
<1>2. /\ L!Worker /\ ~ InRequest
      /\ dev' = [dev EXCEPT ![current] = d]
      /\ idx' = [idx EXCEPT ![current] = i]
      /\ left' = [left EXCEPT ![current] = count]
      /\ list' = [list EXCEPT ![d] = InsertAt(@, Position(@, i), current)]
      /\ stage' = [stage EXCEPT ![current] = "turn"]
      /\ IF list[d] = <<>> THEN UNCHANGED lockVars ELSE L!Block
      /\ UNCHANGED <<up, waiter, busy, irq>>
  BY DEF Request, ctrlVars
<1> HIDE DEF i
<1>3. /\ current \in Threads /\ current # L!Idle /\ current # L!Boot
      /\ ~ inLoop[current] /\ ~ Inside(current)
  BY <1>2, LockFacts DEF IInv, L!Worker, L!Computing, InRequest, Inside
<1>4. ~ Asleep(current) /\ holder # current
  BY <1>3 DEF IInv, Phases, Inside
<1>5. /\ \A t \in Threads : stage'[t] = IF t = current THEN "turn" ELSE stage[t]
      /\ \A t \in Threads : dev'[t] = IF t = current THEN d ELSE dev[t]
  BY <1>2 DEF IInv, Typed
<1>6. \A e \in Disks : Open(e)' = IF e = d THEN Open(e) \cup {current} ELSE Open(e)
  <2> SUFFICES ASSUME NEW e \in Disks
               PROVE  Open(e)' = IF e = d THEN Open(e) \cup {current} ELSE Open(e)
    OBVIOUS
  <2>1. ASSUME NEW t \in Threads
        PROVE  t \in Open(e)' <=> t \in Open(e) \/ (e = d /\ t = current)
    BY <1>3, <1>5 DEF Open, Inside
  <2>2. Open(e)' \subseteq Threads /\ Open(e) \subseteq Threads
    BY DEF Open
  <2>3. CASE e = d
    BY <2>1, <2>2, <2>3, <1>3
  <2>4. CASE e # d
    BY <2>1, <2>2, <2>4
  <2>5. QED
    BY <2>3, <2>4
<1>7. /\ list' \in [Disks -> Seq(Threads)]
      /\ \A e \in Disks : (Lists(list[e], Open(e)) /\ Ascends(list[e], idx))'
  BY <1>1, <1>2, <1>3, <1>6, RequestLists
<1>8. Typed'
  BY <1>1, <1>2, <1>3, <1>7 DEF IInv, Typed
<1>9. /\ current' \in Threads
      /\ UNCHANGED <<holder, inLoop, depth>>
      /\ \A t \in Threads : Asleep(t)' <=> Asleep(t) \/ (t = current /\ list[d] # <<>>)
  <2>1. CASE list[d] = <<>>
    BY <2>1, <1>2, <1>3 DEF lockVars, Asleep
  <2>2. CASE list[d] # <<>>
    BY <2>2, <1>2, BlockEffect DEF IInv
  <2>3. QED
    BY <2>1, <2>2
<1>10. Phases'
  BY <1>3, <1>4, <1>5, <1>9, Slots DEF IInv, Phases, Inside
<1>11. Driver'
  BY <1>2, <1>3, <1>4, <1>5, <1>9, Slots DEF IInv, Phases, Driver, Inside
<1>12. \A t \in Threads :
          Queued(t)' <=> Queued(t) \/ (t = current /\ list[d] # <<>>)
  BY <1>3, <1>4, <1>5, <1>9 DEF Queued, Asleep, Inside
<1>13. list[d] = <<>> <=> Open(d) = {}
  <2>0. Lists(list[d], Open(d))
    BY DEF IInv, Queues
  <2>1. Lists(list[d], Open(d)) /\ Len(list[d]) \in Nat
    BY <2>0 DEF Lists
  <2>2. \A n \in 1 .. Len(list[d]) : list[d][n] \in Open(d)
    BY <2>1 DEF Lists
  <2>3. Open(d) = {} => list[d] = <<>>
    <3>1. Open(d) = {} => ~ (1 \in 1 .. Len(list[d]))
      BY <2>2
    <3>2. list[d] \in Seq(Open(d))
      BY <2>1 DEF Lists
    <3>3. QED
      BY <2>1, <3>1, <3>2
  <2>4. list[d] = <<>> => Open(d) = {}
    BY <2>1 DEF Lists
  <2>5. QED
    BY <2>3, <2>4
<1>14. ASSUME NEW e \in Disks PROVE Sole(e)'
  <2> PICK c \in Threads : c = current
    BY <1>3
  <2>1. Sole(e) /\ Open(e) \subseteq Threads /\ c \notin Open(e)
    BY <1>3 DEF IInv, Queues, Open
  <2>2. CASE e # d
    <3>1. Open(e)' = Open(e) /\ \A t \in Open(e) : Queued(t)' <=> Queued(t)
      BY <2>1, <2>2, <1>6, <1>12
    <3>2. QED
      BY <2>1, <3>1 DEF Sole
  <2>3. CASE e = d /\ Open(d) = {}
    <3>1. Open(e)' = {c} /\ ~ Queued(c)'
      <4>1. ~ Queued(c)
        BY <1>4 DEF Queued, Asleep
      <4>2. ~ Queued(c)'
        BY <2>3, <4>1, <1>12, <1>13
      <4>3. QED
        BY <2>3, <4>2, <1>6
    <3>2. QED
      BY <3>1 DEF Sole
  <2>4. CASE e = d /\ Open(d) # {}
    <3>1. /\ Open(e)' = Open(e) \cup {c} /\ Queued(c)'
          /\ \A t \in Open(e) : Queued(t)' <=> Queued(t)
      BY <2>1, <2>4, <1>6, <1>12, <1>13
    <3>2. QED
      BY <2>1, <2>4, <3>1 DEF Sole
  <2>5. QED
    BY <2>2, <2>3, <2>4
<1>15. QED
  BY <1>7, <1>8, <1>10, <1>11, <1>14 DEF Queues

\* And at its end: the request goes.
LEMMA FinishLists ==
  ASSUME IInv, NEW c \in Threads, c = current, Finish
  PROVE  /\ list' \in [Disks -> Seq(Threads)]
         /\ \A e \in Disks : Open(e)' = Open(e) \ {c}
         /\ \A e \in Disks : e # dev[c] => c \notin Open(e)
         /\ \A e \in Disks : (Lists(list[e], Open(e)) /\ Ascends(list[e], idx))'
<1> DEFINE d == dev[c]
           s == list[d]
           p == Place(d, c)
           r == RemoveAt(s, p)
<1>1. d \in Disks /\ c \in Open(d)
  BY InsideWorks DEF Finish
<1>2. /\ idx \in [Threads -> Nat] /\ list \in [Disks -> Seq(Threads)]
      /\ stage' = [stage EXCEPT ![c] = "user"]
      /\ stage \in [Threads -> {"user", "turn", "work", "move", "done"}]
      /\ dev' = [dev EXCEPT ![c] = L!None] /\ dev \in [Threads -> Disks \cup {L!None}]
      /\ idx' = [idx EXCEPT ![c] = 0]
      /\ list' = [list EXCEPT ![d] = RemoveAt(list[d], Place(d, c))]
  BY DEF Finish, IInv, Typed
<1>3. /\ \A t \in Threads : stage'[t] = IF t = c THEN "user" ELSE stage[t]
      /\ \A t \in Threads : dev'[t] = IF t = c THEN L!None ELSE dev[t]
      /\ \A t \in Threads : idx'[t] = IF t = c THEN 0 ELSE idx[t]
  BY <1>2
<1>4. \A e \in Disks : list'[e] = IF e = d THEN r ELSE list[e]
  BY <1>2
<1>5. /\ \A e \in Disks : Open(e)' = Open(e) \ {c}
      /\ \A e \in Disks : e # d => c \notin Open(e)
  BY <1>3 DEF Open, Inside
<1>6. \A e \in Disks : Lists(list[e], Open(e)) /\ Ascends(list[e], idx)
  BY DEF IInv, Queues
<1>7. p \in 1 .. Len(s) /\ s[p] = c /\ Lists(s, Open(d)) /\ Ascends(s, idx)
  BY <1>1, <1>6, PlaceFound
<1> HIDE DEF s, p
<1>8. Removed(r, Open(d), s, p)
  BY <1>7, RemoveAtShape DEF Lists
<1> HIDE DEF r
<1>9. Lists(r, Open(d) \ {c})
  BY <1>7, <1>8, RemoveLists
<1>10. Ascends(r, idx)
  BY <1>7, <1>8, RemoveAscends
<1>11. ASSUME NEW S, NEW q, c \notin S, S \subseteq Threads, Lists(q, S), Ascends(q, idx)
       PROVE  Ascends(q, idx')
  <2>1. \A n \in 1 .. Len(q) : q[n] \in Threads /\ q[n] # c
    BY <1>11 DEF Lists
  <2>2. \A n \in 1 .. Len(q) : idx'[q[n]] = idx[q[n]]
    BY <2>1, <1>3
  <2>3. QED
    BY <2>2, <1>11 DEF Ascends
<1>12. ASSUME NEW e \in Disks
       PROVE  Lists(list'[e], Open(e)') /\ Ascends(list'[e], idx')
  <2>1. Open(e) \subseteq Threads
    BY DEF Open
  <2>2. CASE e = d
    <3>1. list'[e] = r /\ Open(e)' = Open(d) \ {c}
      BY <2>2, <1>4, <1>5
    <3>2. Ascends(r, idx')
      BY <2>1, <2>2, <1>9, <1>10, <1>11
    <3>3. QED
      BY <3>1, <3>2, <1>9
  <2>3. CASE e # d
    <3>1. list'[e] = list[e] /\ Open(e)' = Open(e) /\ c \notin Open(e)
      BY <2>3, <1>4, <1>5
    <3>2. Ascends(list[e], idx')
      BY <2>1, <3>1, <1>6, <1>11
    <3>3. QED
      BY <3>1, <3>2, <1>6
  <2>4. QED
    BY <2>2, <2>3
<1>13. list' \in [Disks -> Seq(Threads)]
  <2>1. r \in Seq(Threads)
    <3>1. r \in Seq(Open(d) \ {c}) /\ Open(d) \ {c} \subseteq Threads
      BY <1>9 DEF Lists, Open
    <3>2. QED
      BY <3>1
  <2>2. QED
    BY <2>1, <1>2 DEF r, p, s
<1>14. QED
  BY <1>5, <1>12, <1>13

LEMMA FinishStep ==
  ASSUME IInv, Finish
  PROVE  Typed' /\ Phases' /\ Driver' /\ Queues'
<1>1. current \in Threads /\ InRequest /\ stage[current] = "done"
  BY InsideWorks DEF Finish
<1> PICK c \in Threads : c = current
  BY <1>1
<1> DEFINE d == dev[c]
<1>2. d \in Disks /\ c \in Open(d) /\ ~ Asleep(c) /\ c # L!Idle /\ c # L!Boot
  BY <1>1, InsideWorks
<1>3. /\ stage' = [stage EXCEPT ![c] = "user"]
      /\ dev' = [dev EXCEPT ![c] = L!None]
      /\ idx' = [idx EXCEPT ![c] = 0]
      /\ up' = [up EXCEPT ![d] = UpAfter(d, c)]
      /\ UNCHANGED <<current, holder, inLoop, depth, waiter, busy, irq, left>>
  BY DEF Finish, ctrlVars
<1>4. /\ \A t \in Threads : stage'[t] = IF t = c THEN "user" ELSE stage[t]
      /\ \A t \in Threads : dev'[t] = IF t = c THEN L!None ELSE dev[t]
  BY <1>3 DEF IInv, Typed
<1>5. /\ list' \in [Disks -> Seq(Threads)]
      /\ \A e \in Disks : Open(e)' = Open(e) \ {c}
      /\ \A e \in Disks : e # d => c \notin Open(e)
      /\ \A e \in Disks : (Lists(list[e], Open(e)) /\ Ascends(list[e], idx))'
  BY FinishLists
<1>6. UpAfter(d, c) \in BOOLEAN
  BY <1>2, NextRequest DEF IInv, Queues, Typed
<1>7. Typed'
  BY <1>3, <1>5, <1>6 DEF IInv, Typed
<1>8. \/ Open(d) = {c} /\ \A t \in Threads : Asleep(t)' <=> Asleep(t)
      \/ \E u \in Open(d) \ {c} :
            Queued(u) /\ \A t \in Threads : Asleep(t)' <=> Asleep(t) /\ t # u
  <2>1. state \in [Threads -> {"RUNNING", "READY", "BLOCKED"}]
    BY LockFacts DEF IInv
  <2>2. CASE Open(d) = {c} /\ UNCHANGED state
    BY <2>2 DEF Asleep
  <2>3. ASSUME NEW u \in Open(d) \ {c}, Queued(u),
               state' = [state EXCEPT ![u] = "READY"]
        PROVE  \A t \in Threads : Asleep(t)' <=> Asleep(t) /\ t # u
    BY <2>1, <2>3 DEF Asleep
  <2>4. QED
    BY <2>2, <2>3, FinishEffect
<1> HIDE DEF d
<1>9. \A t \in Threads : Asleep(t)' => Asleep(t)
  BY <1>8
<1>10. \A t \in Threads : Asleep(t) /\ ~ Asleep(t)' => Queued(t)
  BY <1>8
<1>11. Phases'
  BY <1>1, <1>2, <1>3, <1>4, <1>9 DEF IInv, Phases, Inside, Open
<1>12. Driver'
  <2>1. \A t \in Threads : holder = t => (Asleep(t)' <=> Asleep(t))
    BY <1>9, <1>10 DEF IInv, Phases, Queued
  <2>2. holder # c
    BY <1>1 DEF IInv, Phases
  <2>3. holder \in Threads \cup {L!None}
    BY LockFacts DEF IInv
  <2>4. QED
    BY <1>3, <1>4, <2>1, <2>2, <2>3 DEF IInv, Driver
<1>13. ASSUME NEW e \in Disks PROVE Sole(e)'
  <2>1. Sole(e) /\ Open(e) \subseteq Threads
    BY DEF IInv, Queues, Open
  <2>2. CASE e # d
    <3>1. Open(e)' = Open(e) /\ c \notin Open(e)
      BY <2>2, <1>5
    <3>2. \A t \in Open(e) : Asleep(t)' <=> Asleep(t)
      BY <2>1, <2>2, <1>8 DEF Open
    <3>3. \A t \in Open(e) : Queued(t)' <=> Queued(t)
      BY <2>1, <3>1, <3>2, <1>4 DEF Queued, Asleep
    <3>4. QED
      BY <2>1, <3>1, <3>3 DEF Sole
  <2>3. CASE e = d /\ Open(d) = {c}
    <3>1. Open(e)' = {}
      BY <2>3, <1>5
    <3>2. QED
      BY <3>1 DEF Sole
  <2>4. ASSUME e = d, NEW u \in Open(d) \ {c}, Queued(u),
               \A t \in Threads : Asleep(t)' <=> Asleep(t) /\ t # u
        PROVE  Sole(e)'
    <3>1. Open(e)' = Open(e) \ {c} /\ ~ Queued(c) /\ c \in Open(e)
      BY <2>4, <1>2, <1>5 DEF Queued, Asleep
    <3>2. \A t \in Open(e) \ {c} : Queued(t)
      BY <2>1, <3>1 DEF Sole
    <3>3. \A t \in Open(e) \ {c} : Queued(t)' <=> t # u
      BY <2>1, <2>4, <3>2, <1>4 DEF Queued, Asleep
    <3>4. QED
      BY <2>4, <3>1, <3>3 DEF Sole
  <2>5. QED
    BY <2>2, <2>3, <2>4, <1>8
<1>14. QED
  BY <1>5, <1>7, <1>11, <1>12, <1>13 DEF Queues

-----------------------------------------------------------------------------
LEMMA InitIInv == Init => IInv
<1> SUFFICES ASSUME Init PROVE IInv
  OBVIOUS
<1>1. /\ L!Init /\ LP!IInv
      /\ list = [d \in Disks |-> <<>>] /\ up = [d \in Disks |-> TRUE]
      /\ stage = [t \in Threads |-> "user"] /\ dev = [t \in Threads |-> L!None]
      /\ idx = [t \in Threads |-> 0] /\ left = [t \in Threads |-> 0]
      /\ waiter = L!None /\ busy = FALSE /\ irq \in BOOLEAN
  BY LockInit DEF Init, CtrlInit, Threads
<1>2. Typed
  <2>1. <<>> \in Seq(Threads) /\ 0 \in 0 .. MaxCount
    BY BlockIOAssumption DEF BlockIOAssumption
  <2>2. QED
    BY <1>1, <2>1 DEF Typed
<1>3. /\ holder = L!None /\ state = [t \in Threads |-> "READY"]
      /\ inLoop = [t \in Threads |-> FALSE] /\ depth = [t \in Threads |-> 0]
  BY <1>1 DEF L!Init, Threads
<1>4. Phases /\ Driver
  BY <1>1, <1>3, Slots DEF Phases, Driver, Inside, Asleep
<1>5. ASSUME NEW d \in Disks
      PROVE  Lists(list[d], Open(d)) /\ Ascends(list[d], idx) /\ Sole(d)
  <2>1. Open(d) = {} /\ list[d] = <<>>
    BY <1>1 DEF Open, Inside
  <2>2. QED
    BY <2>1 DEF Lists, Ascends, Sole
<1>6. QED
  BY <1>1, <1>2, <1>4, <1>5 DEF IInv, Queues

LEMMA NextStep == IInv /\ [Next]_vars => IInv'
<1> SUFFICES ASSUME IInv, [Next]_vars PROVE IInv'
  OBVIOUS
<1>1. LP!IInv'
  BY StepKeepsLock, LockStep DEF IInv
<1> DEFINE Rest == Typed' /\ Phases' /\ Driver' /\ Queues'
<1> SUFFICES Rest
  BY <1>1 DEF IInv
<1>2. CASE Preempt
  BY <1>2, PreemptStep
<1>3. ASSUME NEW d \in Disks, NEW sector \in Sectors, NEW count \in 1 .. MaxCount,
             NEW k \in 0 .. Len(Parts[d]), Request(d, k, sector, count)
      PROVE  Rest
  BY <1>3, RequestStep
<1>4. CASE DoRequest
  BY <1>4, DoRequestStep
<1>5. CASE AcquireAgain
  BY <1>5, AcquireAgainStep
<1>6. CASE Command
  BY <1>6, CommandStep
<1>7. CASE Sector
  BY <1>7, SectorStep
<1>8. CASE Ready
  BY <1>8, ReadyStep
<1>9. CASE IdeHandler
  BY <1>9, IdeHandlerStep
<1>10. CASE Release
  BY <1>10, ReleaseStep
<1>11. CASE Finish
  BY <1>11, FinishStep
<1>12. CASE UNCHANGED vars
  <2>1. /\ UNCHANGED <<current, state, holder, inLoop, depth>>
        /\ UNCHANGED <<list, up, dev, idx, waiter, busy, irq, stage, left>>
    BY <1>12 DEF vars, lockVars, reqVars, ctrlVars
  <2>2. Typed' /\ Phases' /\ Driver'
    BY <2>1 DEF IInv, Typed, Phases, Driver, Inside, Asleep
  <2>3. Queues'
    BY <2>1, AsideQueues DEF IInv, Queued, Inside
  <2>4. QED
    BY <2>2, <2>3
<1>13. QED
  BY <1>2, <1>3, <1>4, <1>5, <1>6, <1>7, <1>8, <1>9, <1>10, <1>11, <1>12 DEF Next

LEMMA Invariance == Spec => []IInv
BY InitIInv, NextStep, PTL DEF Spec

(* The requests, the elevator and the driver stay within their types.      *)
THEOREM TypeCorrect == Spec => []TypeOK
BY Typing, Invariance, PTL

LEMMA ListedIs ==
  ASSUME NEW S, NEW s, Lists(s, S)
  PROVE  {s[n] : n \in DOMAIN s} = S
<1>1. s \in Seq(S) /\ DOMAIN s = 1 .. Len(s)
  BY DEF Lists
<1>2. \A n \in DOMAIN s : s[n] \in S
  BY <1>1
<1>3. \A x \in S : \E n \in DOMAIN s : s[n] = x
  BY <1>1 DEF Lists
<1>4. QED
  BY <1>2, <1>3

LEMMA ListSoundHolds == IInv => ListSound
<1> SUFFICES ASSUME IInv PROVE ListSound
  OBVIOUS
<1>1. ASSUME NEW d \in Disks
      PROVE  /\ Listed(d) = Open(d)
             /\ Len(list[d]) = Cardinality(Open(d))
             /\ \A m, n \in DOMAIN list[d] : m < n => idx[list[d][m]] <= idx[list[d][n]]
             /\ list[d] # <<>> => Cardinality({t \in Open(d) : ~ Queued(t)}) = 1
  <2> DEFINE s == list[d]
             N == Len(s)
  <2>1. Lists(s, Open(d)) /\ Ascends(s, idx) /\ Sole(d)
    BY DEF IInv, Queues
  <2>2. s \in Seq(Open(d)) /\ N \in Nat /\ DOMAIN s = 1 .. N
    BY <2>1 DEF Lists
  <2>3. Listed(d) = Open(d)
    BY <2>1, ListedIs DEF Listed
  <2>4. N = Cardinality(Open(d))
    <3>1. s \in Bijection(1 .. N, Open(d))
      <4>1. s \in [1 .. N -> Open(d)]
        BY <2>2
      <4>2. \A m, n \in 1 .. N : s[m] = s[n] => m = n
        BY <2>1 DEF Lists
      <4>3. \A t \in Open(d) : \E n \in 1 .. N : s[n] = t
        BY <2>1 DEF Lists
      <4>4. QED
        BY <4>1, <4>2, <4>3 DEF Bijection, Injection, Surjection, IsInjective
    <3>2. QED
      BY <2>2, <3>1, FS_CountingElements DEF ExistsBijection
  <2>5. \A m, n \in DOMAIN s : m < n => idx[s[m]] <= idx[s[n]]
    BY <2>1, <2>2 DEF Ascends
  <2>6. s # <<>> => Cardinality({t \in Open(d) : ~ Queued(t)}) = 1
    <3> SUFFICES ASSUME s # <<>>
                 PROVE  Cardinality({t \in Open(d) : ~ Queued(t)}) = 1
      OBVIOUS
    <3>1. s[1] \in Open(d)
      BY <2>2
    <3>2. PICK t \in Open(d) : ~ Queued(t)
      BY <2>1, <3>1 DEF Sole
    <3>3. {u \in Open(d) : ~ Queued(u)} = {t}
      BY <2>1, <3>2 DEF Sole
    <3>4. QED
      BY <3>3, FS_Singleton
  <2>7. QED
    BY <2>3, <2>4, <2>5, <2>6
<1>2. \A d \in Disks : Open(d) = {t \in L!Threads : stage[t] # "user" /\ dev[t] = d}
  BY DEF Open, Inside, Threads
<1>3. QED
  BY <1>1, <1>2, Typing DEF ListSound

(* A list holds the open requests on its disk, each once and by sector,    *)
(* and all but one of their tasks wait, for any disks and any requests.    *)
THEOREM ListSoundCorrect == Spec => []ListSound
BY ListSoundHolds, Invariance, PTL

LEMMA ProgressHolds == IInv => Progress
<1> SUFFICES ASSUME IInv PROVE Progress
  OBVIOUS
<1>1. /\ \A t \in Threads : waiter = t <=> holder = t /\ state[t] = "BLOCKED"
      /\ waiter # L!None => busy \/ irq
      /\ busy => holder # L!None /\ stage[holder] = "move"
  BY DEF IInv, Driver, Asleep
<1>2. ASSUME NEW d \in Disks, list[d] # <<>>
      PROVE  \E t \in Threads : Inside(t) /\ (~ Asleep(t) \/ waiter = t)
  <2>1. PICK t \in Open(d) : ~ Queued(t)
    <3>1. Lists(list[d], Open(d)) /\ Sole(d)
      BY DEF IInv, Queues
    <3>2. list[d][1] \in Open(d)
      BY <3>1, <1>2 DEF Lists
    <3>3. QED
      BY <3>1, <3>2 DEF Sole
  <2>2. t \in Threads /\ Inside(t)
    BY DEF Open
  <2>3. CASE ~ Asleep(t) \/ waiter = t
    BY <2>2, <2>3
  <2>4. CASE Asleep(t) /\ waiter # t
    <3>1. inLoop[t]
      BY <2>1, <2>2, <2>4, <1>1 DEF IInv, Phases, Queued, Asleep
    <3>2. LP!Contains(waiters, t)
      BY <2>2, <2>4, <3>1, SameNames DEF IInv, LP!IInv, LP!QueueSound, Asleep
    <3>3. waiters # <<>>
      BY <3>2 DEF LP!Contains
    <3>4. value \/ \E u \in Threads : inLoop[u] /\ ~ Asleep(u)
      BY <3>3, SameNames DEF IInv, LP!IInv, LP!NoLostWakeup, Asleep
    <3>5. CASE value
      <4>1. holder \in Threads
        BY <3>5, LockFacts DEF IInv
      <4>2. Inside(holder) /\ (~ Asleep(holder) \/ waiter = holder)
        BY <4>1 DEF IInv, Phases, Driver, Inside
      <4>3. QED
        BY <4>1, <4>2
    <3>6. ASSUME NEW u \in Threads, inLoop[u], ~ Asleep(u)
          PROVE  \E v \in Threads : Inside(v) /\ (~ Asleep(v) \/ waiter = v)
      BY <3>6 DEF IInv, Phases, Inside
    <3>7. QED
      BY <3>4, <3>5, <3>6
  <2>5. QED
    BY <2>3, <2>4
<1>3. QED
  BY <1>1, <1>2 DEF Progress, Threads, Inside, Asleep

(* The controller works for the holder of its lock only, no interrupt that *)
(* is waited for is lost, and tasks with open requests never only wait for *)
(* each other.                                                             *)
THEOREM ProgressCorrect == Spec => []Progress
BY ProgressHolds, Invariance, PTL

\* What Elevator says of a step.
Turns(d, t) == LET rest == Listed(d)' IN
    /\ up'[d] # up[d] => \A v \in rest : ~ Beyond(t, v, up[d])
    /\ rest # {} => \E u \in rest :
          /\ Queued(u) /\ state'[u] = "READY"
          /\ ~ Beyond(t, u, ~ up'[d])
          /\ \A v \in rest : ~ (Beyond(t, v, up'[d]) /\ Beyond(v, u, up'[d]))

\* In these states the lists hold the open requests.
ListsShowOpen == \A d \in Disks : Listed(d) = Open(d)

LEMMA ListedOpen == IInv => ListsShowOpen
<1> SUFFICES ASSUME IInv, NEW d \in Disks PROVE Listed(d) = Open(d)
  BY DEF ListsShowOpen
<1>1. Lists(list[d], Open(d))
  BY DEF IInv, Queues
<1>2. QED
  BY <1>1, ListedIs DEF Listed

LEMMA ElevatorStep ==
  ASSUME IInv, [Next]_vars, NEW d \in Disks, NEW t \in Listed(d) \ Listed(d)'
  PROVE  Turns(d, t)
<1>1. IInv'
  BY NextStep
<1>2. Listed(d) = Open(d) /\ Listed(d)' = Open(d)'
  <2>1. ListsShowOpen'
    BY <1>1, ListedOpen, PTL
  <2>2. QED
    BY <2>1, ListedOpen DEF ListsShowOpen
<1>3. Inside(t) /\ dev[t] = d /\ t \in Threads
  BY <1>2 DEF Open
<1>4. ~ Inside(t)' \/ dev'[t] # d
  BY <1>2, <1>3 DEF Open
<1>5. Finish /\ t = current
  <2>1. stage \in [Threads -> {"user", "turn", "work", "move", "done"}]
    BY DEF IInv, Typed
  <2>2. /\ \/ Preempt \/ AcquireAgain \/ Sector \/ Ready \/ IdeHandler
           \/ UNCHANGED vars
        => UNCHANGED <<stage, dev>>
    BY DEF Preempt, AcquireAgain, Sector, Ready, IdeHandler, vars, reqVars
  <2>3. DoRequest \/ Command \/ Release => Inside(t)' /\ dev'[t] = dev[t]
    BY <2>1, <1>3 DEF DoRequest, Command, Release, reqVars, Inside
  <2>4. ASSUME NEW e \in Disks, NEW sector \in Sectors, NEW count \in 1 .. MaxCount,
               NEW k \in 0 .. Len(Parts[e]), Request(e, k, sector, count)
        PROVE  Inside(t)' /\ dev'[t] = dev[t]
    <3>1. ~ Inside(current)
      BY <2>4 DEF Request, InRequest, L!Worker, L!Computing, Inside
    <3>2. QED
      BY <2>1, <2>4, <1>3, <3>1 DEF Request, Inside, IInv, Typed
  <2>5. Finish => t = current
    BY <1>3, <1>4 DEF Finish, Inside, IInv, Typed
  <2>6. QED
    BY <2>2, <2>3, <2>4, <2>5, <1>3, <1>4 DEF Next, Inside
<1>6. /\ UpAfter(d, t) # up[d] => \A v \in Open(d) : ~ Beyond(t, v, up[d])
      /\ up'[d] = UpAfter(d, t)
  <2>1. /\ Lists(list[d], Open(d)) /\ Ascends(list[d], idx)
        /\ \A v \in Threads : idx[v] \in Nat
        /\ up[d] \in BOOLEAN /\ t \in Open(d)
    BY <1>3 DEF IInv, Queues, Typed, Open
  <2>2. up' = [up EXCEPT ![d] = UpAfter(d, t)] /\ up \in [Disks -> BOOLEAN]
    BY <1>3, <1>5 DEF Finish, IInv, Typed
  <2>3. QED
    BY <2>1, <2>2, NextRequest
<1>7. Open(d)' = Open(d) \ {t}
  BY <1>3, <1>5, FinishLists
<1>8. \/ Open(d) = {t}
      \/ \E u \in Open(d) \ {t} :
            Chosen(d, t, u) /\ Queued(u) /\ state'[u] = "READY"
  <2>1. state \in [Threads -> {"RUNNING", "READY", "BLOCKED"}]
    BY LockFacts DEF IInv
  <2>2. QED
    BY <2>1, <1>3, <1>5, FinishEffect DEF Open
<1>9. CASE Open(d) = {t}
  BY <1>2, <1>7, <1>9 DEF Turns
<1>10. ASSUME NEW u \in Open(d) \ {t},
              Chosen(d, t, u), Queued(u), state'[u] = "READY"
       PROVE  Turns(d, t)
  <2>1. /\ u \in Listed(d)' /\ Listed(d)' \subseteq Open(d)
    BY <1>2, <1>7, <1>10
  <2>2. \A v \in Listed(d)' :
           ~ (Beyond(t, v, up'[d]) /\ Beyond(v, u, up'[d]))
    BY <2>1, <1>6, <1>10 DEF Chosen
  <2>3. ~ Beyond(t, u, ~ up'[d])
    BY <1>6, <1>10 DEF Chosen
  <2>4. up'[d] # up[d] => \A v \in Listed(d)' : ~ Beyond(t, v, up[d])
    BY <2>1, <1>6
  <2>5. QED
    BY <2>1, <2>2, <2>3, <2>4, <1>10 DEF Turns
<1>11. QED
  BY <1>8, <1>9, <1>10

(* The elevator passes the disk to a waiting request with no other between *)
(* in the direction of travel, and turns only when nothing is left ahead,  *)
(* however the requests come in.                                           *)
THEOREM ElevatorCorrect == Spec => Elevator
<1>1. IInv /\ [Next]_vars =>
         [\A d \in Disks : \A t \in Listed(d) \ Listed(d)' : Turns(d, t)]_vars
  BY ElevatorStep
<1>2. QED
  BY <1>1, Invariance, PTL DEF Spec, Elevator, Turns

(* The tasks with disk requests keep to the lock and to the scheduler.     *)
THEOREM BlockIOImplementsLock == Spec => LockSpec
<1>1. Init => L!Init
  BY DEF Init
<1>2. IInv /\ [Next]_vars => [L!Next]_(L!vars)
  BY StepKeepsLock
<1>3. QED
  BY <1>1, <1>2, Invariance, PTL DEF Spec, LockSpec, L!Spec

-----------------------------------------------------------------------------
(* The buffer cache.                                                       *)

Record == [block : Blocks, count : Int, dirty : BOOLEAN,
           valid : BOOLEAN, data : Values \cup {Junk}]
Users(n) == {t \in Tasks : buf[t] = n}
Idle == {n \in Buffers : bufs[n].count = 0}
Waiting == {t \in Tasks : at[t] = "wait"}
Woken == {t \in Tasks : at[t] = "turn"}

\* What the lists hold, and what the headers say of the buffers that no task has.
CacheQueues ==
    /\ Lists(hashed, Buffers)
    /\ Lists(freeList, Idle)
    /\ Lists(waitList, Waiting)

Counted == \A n \in Buffers :
    /\ bufs[n].count = Cardinality(Users(n))
    /\ bufs[n].count = 0 => bufs[n].valid /\ ~ bufs[n].dirty

\* Where a task is, and the buffer and the block it has.
CachePhases == \A t \in Tasks :
    /\ at[t] \in {"read", "filled", "write", "wrote"} => buf[t] # 0
    /\ want[t] # 0 <=> at[t] \in {"wait", "turn"}
    /\ want[t] # 0 => buf[t] = 0

\* A buffer is valid except while the one task that has it reads it.
Reading == \A t \in Tasks : buf[t] # 0 =>
    /\ bufs[buf[t]].valid <=> at[t] \notin {"read", "filled"}
    /\ at[t] \in {"read", "filled"} => \A u \in Tasks : buf[u] = buf[t] => u = t

Filled ==
    /\ \A n \in Buffers : bufs[n].valid => bufs[n].data \in Values
    /\ \A t \in Tasks : at[t] = "filled" => bufs[buf[t]].data \in Values

\* Tasks wait only when the cache cannot grow, and free buffers are promised.
Promised == waitList # <<>> => ~ Room /\ Len(freeList) <= Cardinality(Woken)

\* What the turns of the tasks give: of a private block there is one user and
\* one buffer, none while a task waits for it, and the disk is as clean
\* buffers say.
Turned ==
    /\ \A t, u \in Tasks : \A b \in Private : Claims(t, b) /\ Claims(u, b) => t = u
    /\ \A m, n \in Buffers :
          bufs[m].block = bufs[n].block /\ bufs[m].block \in Private => m = n
    /\ \A t \in Tasks : \A n \in Buffers : want[t] \in Private => bufs[n].block # want[t]

Clean ==
    /\ \A n \in Buffers : bufs[n].block \in Private /\ bufs[n].valid /\ ~ bufs[n].dirty
          => bufs[n].data = disk[bufs[n].block]
    /\ \A t \in Tasks : at[t] \in {"filled", "wrote"} /\ bufs[buf[t]].block \in Private
          => bufs[buf[t]].data = disk[bufs[buf[t]].block]

CacheInv == /\ CacheTypeOK /\ CacheQueues /\ Counted /\ CachePhases /\ Reading /\ Filled
        /\ Promised /\ Turned /\ Clean

-----------------------------------------------------------------------------
LEMMA ListsIn ==
  ASSUME NEW S, NEW T, S \subseteq T, NEW s, Lists(s, S)
  PROVE  s \in Seq(T)
BY DEF Lists

(* What the type invariant says of the headers and the tasks, one by one.  *)
LEMMA Shape ==
  ASSUME CacheTypeOK
  PROVE  /\ Len(bufs) \in Nat /\ Buffers = 1 .. Len(bufs)
         /\ bufs \in [Buffers -> Record]
         /\ 0 \notin Buffers
         /\ \A t \in Tasks : buf[t] # 0 => buf[t] \in Buffers
<1>1. bufs \in Seq(Record) /\ buf \in [Tasks -> Buffers \cup {0}]
  BY DEF CacheTypeOK, Record
<1> HIDE DEF Record
<1>2. /\ Len(bufs) \in Nat /\ Buffers = 1 .. Len(bufs)
      /\ bufs \in [Buffers -> Record]
  BY <1>1 DEF Buffers
<1>3. QED
  BY <1>1, <1>2

LEMMA Fields ==
  ASSUME CacheTypeOK, NEW n \in Buffers
  PROVE  /\ bufs[n].block \in Blocks /\ bufs[n].count \in Int
         /\ bufs[n].dirty \in BOOLEAN /\ bufs[n].valid \in BOOLEAN
         /\ bufs[n].data \in Values \cup {Junk}
BY Shape DEF Record

(* The users of a buffer can be counted, and none is left at 0.            *)
LEMMA UsersCount ==
  ASSUME NEW n
  PROVE  /\ IsFiniteSet(Users(n)) /\ Cardinality(Users(n)) \in Nat
         /\ Cardinality(Users(n)) = 0 <=> Users(n) = {}
<1>1. IsFiniteSet(Tasks) /\ Users(n) \subseteq Tasks
  BY BufferAssumption DEF Users
<1>2. IsFiniteSet(Users(n))
  BY <1>1, FS_Subset
<1>3. QED
  BY <1>2, FS_CardinalityType, FS_EmptySet

LEMMA TurnsCount == IsFiniteSet(Woken) /\ Cardinality(Woken) \in Nat
<1>1. IsFiniteSet(Tasks) /\ Woken \subseteq Tasks
  BY BufferAssumption DEF Woken
<1>2. QED
  BY <1>1, FS_Subset, FS_CardinalityType

(* getFromHashTable finds a buffer of the block, if there is one.          *)
LEMMA FoundIs ==
  ASSUME CacheTypeOK, CacheQueues, NEW b, FoundFor(b) # {}
  PROVE  Found(b) \in Buffers /\ bufs[Found(b)].block = b
<1>1. hashed \in Seq(Buffers) /\ DOMAIN hashed = 1 .. Len(hashed) /\ Len(hashed) \in Nat
  BY DEF CacheTypeOK
<1>2. FoundFor(b) \in SUBSET Nat /\ FoundFor(b) \subseteq DOMAIN hashed
  BY <1>1 DEF FoundFor
<1>3. \E n \in FoundFor(b) : \A m \in FoundFor(b) : n <= m
  BY <1>2, LeastNat
<1>4. PICK n \in FoundFor(b) : Found(b) = hashed[n]
  BY <1>3 DEF Found
<1>5. QED
  BY <1>1, <1>4 DEF FoundFor

LEMMA NotFound ==
  ASSUME CacheQueues, NEW b, FoundFor(b) = {}
  PROVE  \A n \in Buffers : bufs[n].block # b
<1>1. SUFFICES ASSUME NEW n \in Buffers, bufs[n].block = b PROVE FALSE
  OBVIOUS
<1>2. PICK m \in 1 .. Len(hashed) : hashed[m] = n
  BY DEF CacheQueues, Lists
<1>3. hashed \in Seq(Buffers)
  BY DEF CacheQueues, Lists
<1>4. m \in FoundFor(b)
  BY <1>1, <1>2, <1>3 DEF FoundFor
<1>5. QED
  BY <1>4

LEMMA InitInv == CacheInit => CacheInv
<1> SUFFICES ASSUME CacheInit PROVE CacheInv
  OBVIOUS
<1>1. /\ Buffers = {} /\ Idle = {} /\ Waiting = {}
      /\ \A S : Lists(<<>>, {})
  BY DEF CacheInit, Buffers, Idle, Waiting, Lists
<1>2. CacheTypeOK
  <2>1. \A S : <<>> \in Seq(S)
    OBVIOUS
  <2>2. PICK v \in Values : disk = [b \in Blocks |-> v]
    BY DEF CacheInit
  <2>3. disk \in [Blocks -> Values]
    BY <2>2
  <2>4. QED
    BY <2>1, <2>3 DEF CacheInit, CacheTypeOK
<1>3. CacheQueues
  BY <1>1 DEF CacheInit, CacheQueues
<1>4. Counted /\ CachePhases /\ Reading /\ Filled /\ Promised /\ Clean
  BY <1>1 DEF CacheInit, Counted, CachePhases, Reading, Filled, Promised, Clean
<1>5. Turned
  <2>1. \A t \in Tasks : \A b \in Private : ~ Claims(t, b)
    BY BufferAssumption DEF CacheInit, Claims, Private
  <2>2. \A t \in Tasks : want[t] \notin Private
    BY BufferAssumption DEF CacheInit, Private
  <2>3. QED
    BY <1>1, <2>1, <2>2 DEF Turned
<1>6. QED
  BY <1>2, <1>3, <1>4, <1>5 DEF CacheInv

-----------------------------------------------------------------------------
\* Only header n changes, to r.
Edit(n, r) ==
    /\ Buffers' = Buffers /\ Room' = Room
    /\ bufs' \in Seq(Record)
    /\ \A m \in Buffers : bufs'[m] = IF m = n THEN r ELSE bufs[m]

LEMMA EditOne ==
  ASSUME CacheTypeOK, NEW n \in Buffers, NEW r \in Record, bufs' = [bufs EXCEPT ![n] = r]
  PROVE  Edit(n, r)
<1>1. /\ Len(bufs) \in Nat /\ Buffers = 1 .. Len(bufs) /\ bufs \in [Buffers -> Record]
  BY Shape
<1>2. bufs' \in [1 .. Len(bufs) -> Record]
  BY <1>1 DEF Record
<1>3. bufs' \in Seq(Record) /\ Len(bufs') = Len(bufs) /\ Buffers' = Buffers
  BY <1>1, <1>2 DEF Buffers
<1>4. Room' = Room
  BY <1>3 DEF Room, BufferPtr, BufferData
<1>5. \A m \in Buffers : bufs'[m] = IF m = n THEN r ELSE bufs[m]
  BY <1>1
<1>6. QED
  BY <1>3, <1>4, <1>5 DEF Edit

\* The headers keep what tasks can see of them, but for the data of n.
Kept(n) ==
    /\ Buffers' = Buffers
    /\ \A m \in Buffers :
         /\ bufs'[m].block = bufs[m].block /\ bufs'[m].valid = bufs[m].valid
         /\ m # n => bufs'[m].data = bufs[m].data

(* A hit: another user, and the buffer leaves the free list.               *)
LEMMA HitInv ==
  ASSUME CacheInv, NEW t \in Tasks, NEW b \in Blocks, Free(t), May(t, b), Hit(t, b)
  PROVE  CacheInv' /\ Kept(0)
<1>0. /\ CacheTypeOK /\ CacheQueues /\ Counted /\ CachePhases /\ Reading /\ Filled
      /\ Promised /\ Turned /\ Clean
  BY DEF CacheInv
<1>1. PICK n \in Buffers : n = Found(b) /\ bufs[n].block = b /\ bufs[n].valid
  BY <1>0, FoundIs DEF Hit
<1>2. /\ at[t] = "user" /\ buf[t] = 0 /\ n # 0 /\ want[t] = 0
      /\ at' = at /\ want' = want /\ disk' = disk /\ waitList' = waitList
      /\ hashed' = hashed /\ leaving' = leaving /\ halted' = halted
      /\ freeList' = RemoveFirst(freeList, n)
  BY <1>0, <1>1, Shape DEF Free, Hit, CachePhases
<1>3. \A u \in Tasks : buf'[u] = IF u = t THEN n ELSE buf[u]
  BY <1>0, <1>1 DEF Hit, CacheTypeOK
<1>4. \A m \in Buffers : bufs[m].count = Cardinality(Users(m)) /\ bufs[m].count \in Nat
  BY <1>0, UsersCount DEF Counted
<1>5. Edit(n, [bufs[n] EXCEPT !.count = @ + 1])
  <2>1. [bufs[n] EXCEPT !.count = @ + 1] \in Record
    BY <1>0, Shape DEF Record
  <2>2. bufs' = [bufs EXCEPT ![n] = [bufs[n] EXCEPT !.count = @ + 1]]
    BY <1>1 DEF Hit
  <2>3. QED
    BY <1>0, <2>1, <2>2, EditOne
<1>6. \A m \in Buffers :
         /\ bufs'[m].block = bufs[m].block /\ bufs'[m].valid = bufs[m].valid
         /\ bufs'[m].dirty = bufs[m].dirty /\ bufs'[m].data = bufs[m].data
         /\ bufs'[m].count = IF m = n THEN bufs[m].count + 1 ELSE bufs[m].count
  BY <1>0, <1>5, Shape DEF Edit, Record
<1>7. Buffers' = Buffers /\ Room' = Room /\ bufs' \in Seq(Record)
  BY <1>5 DEF Edit
<1>8. Idle' = Idle \ {n} /\ Waiting' = Waiting /\ Woken' = Woken
  BY <1>2, <1>4, <1>6, <1>7 DEF Idle, Waiting, Woken
<1>9. CacheQueues'
  <2>1. Lists(freeList', Idle')
    BY <1>0, <1>2, <1>8, RemoveFirstLists DEF CacheQueues
  <2>2. QED
    BY <1>0, <1>2, <1>7, <1>8, <2>1 DEF CacheQueues
<1>10. CacheTypeOK'
  <2>1. freeList' \in Seq(Buffers')
    <3>1. Lists(freeList', Idle') /\ Idle' \subseteq Buffers'
      BY <1>9 DEF CacheQueues, Idle
    <3>2. QED
      BY <3>1, ListsIn
  <2>2. buf' \in [Tasks -> Buffers \cup {0}]
    BY <1>0, <1>1 DEF Hit, CacheTypeOK
  <2>3. QED
    BY <1>0, <1>2, <1>7, <2>1, <2>2 DEF CacheTypeOK, Record
<1>11. Counted'
  <2>1. t \notin Users(n) /\ Users(n)' = Users(n) \cup {t}
    BY <1>2, <1>3 DEF Users
  <2>2. \A m \in Buffers : m # n => Users(m)' = Users(m)
    BY <1>2, <1>3, <1>0, Shape DEF Users
  <2>3. Cardinality(Users(n)') = Cardinality(Users(n)) + 1
    BY <2>1, UsersCount, FS_AddElement
  <2>4. QED
    BY <1>0, <1>4, <1>6, <1>7, <2>2, <2>3 DEF Counted
<1>12. CachePhases'
  BY <1>0, <1>2, <1>3 DEF CachePhases
<1>13. Reading'
  BY <1>0, <1>1, <1>2, <1>3, <1>6, Shape DEF Reading
<1>14. Filled'
  <2>1. \A m \in Buffers' : bufs'[m].valid => bufs'[m].data \in Values
    BY <1>0, <1>6, <1>7 DEF Filled
  <2>2. ASSUME NEW u \in Tasks, at'[u] = "filled" PROVE bufs'[buf'[u]].data \in Values
    <3>1. u # t /\ buf'[u] = buf[u] /\ at[u] = "filled"
      BY <1>2, <1>3, <2>2
    <3>2. buf[u] \in Buffers /\ bufs[buf[u]].data \in Values
      BY <1>0, <3>1, Shape DEF Filled, CachePhases
    <3>3. QED
      BY <1>6, <3>1, <3>2
  <2>3. QED
    BY <2>1, <2>2 DEF Filled
<1>15. Promised'
  <2>1. Len(freeList') <= Len(freeList) /\ Len(freeList') \in Nat /\ Len(freeList) \in Nat
    <3>1. /\ IsFiniteSet(Idle) /\ Cardinality(Idle) = Len(freeList)
          /\ Cardinality(Idle') = Len(freeList')
      BY <1>0, <1>9, ListsCount DEF CacheQueues
    <3>2. Idle' \subseteq Idle
      BY <1>8
    <3>3. QED
      BY <3>1, <3>2, FS_Subset, FS_CardinalityType
  <2>2. QED
    BY <1>0, <1>2, <1>7, <1>8, <2>1, TurnsCount DEF Promised
<1>16. Turned'
  <2>1. \A u \in Tasks : \A c \in Private : Claims(u, c)' <=> Claims(u, c) \/ (u = t /\ c = b)
    BY <1>0, <1>1, <1>2, <1>3, <1>6, Shape DEF Claims
  <2>2. b \in Private => \A u \in Tasks \ {t} : ~ Claims(u, b)
    BY DEF May, Private
  <2>3. QED
    BY <1>0, <1>2, <1>6, <1>7, <2>1, <2>2 DEF Turned
<1>17. Clean'
  <2>1. ASSUME NEW m \in Buffers', bufs'[m].block \in Private, bufs'[m].valid,
               ~ bufs'[m].dirty
        PROVE  bufs'[m].data = disk'[bufs'[m].block]
    BY <1>0, <1>2, <1>6, <1>7, <2>1 DEF Clean
  <2>2. ASSUME NEW u \in Tasks, at'[u] \in {"filled", "wrote"},
               bufs'[buf'[u]].block \in Private
        PROVE  bufs'[buf'[u]].data = disk'[bufs'[buf'[u]].block]
    <3>1. u # t /\ buf'[u] = buf[u] /\ at[u] \in {"filled", "wrote"}
      BY <1>2, <1>3, <2>2
    <3>2. buf[u] \in Buffers
      BY <1>0, <3>1, Shape DEF CachePhases
    <3>3. QED
      BY <1>0, <1>2, <1>6, <2>2, <3>1, <3>2 DEF Clean
  <2>3. QED
    BY <2>1, <2>2 DEF Clean
<1>18. Kept(0)
  BY <1>6, <1>7 DEF Kept
<1>19. QED
  BY <1>9, <1>10, <1>11, <1>12, <1>13, <1>14, <1>15, <1>16, <1>17, <1>18 DEF CacheInv

-----------------------------------------------------------------------------
\* A step that moves no buffer and no block: tasks neither start nor end to
\* wait, and the headers keep their blocks and counts.
Quiet ==
    /\ UNCHANGED <<hashed, freeList, waitList, buf, want>>
    /\ Buffers' = Buffers /\ Room' = Room /\ bufs' \in Seq(Record)
    /\ \A m \in Buffers : bufs'[m].block = bufs[m].block /\ bufs'[m].count = bufs[m].count
    /\ at' \in [Tasks -> {"user", "wait", "turn", "read", "filled", "write", "wrote"}]
    /\ \A u \in Tasks : \A w \in {"wait", "turn"} : at'[u] = w <=> at[u] = w
    /\ disk' \in [Blocks -> Values]
    /\ leaving' \in [Tasks -> BOOLEAN] /\ halted' \in BOOLEAN

LEMMA QuietInv ==
  ASSUME CacheInv, Quiet
  PROVE  /\ CacheTypeOK' /\ CacheQueues' /\ Promised' /\ Turned'
         /\ \A m \in Buffers : bufs'[m].count = Cardinality(Users(m))'
<1>0. CacheTypeOK /\ CacheQueues /\ Counted /\ Promised /\ Turned
  BY DEF CacheInv
<1>1. /\ hashed' = hashed /\ freeList' = freeList /\ waitList' = waitList
      /\ buf' = buf /\ want' = want
      /\ Buffers' = Buffers /\ Room' = Room /\ bufs' \in Seq(Record)
  BY DEF Quiet
<1>2. \A m \in Buffers : bufs'[m].block = bufs[m].block /\ bufs'[m].count = bufs[m].count
  BY DEF Quiet
<1>3. Idle' = Idle
  BY <1>1, <1>2 DEF Idle
<1>4. Waiting' = Waiting /\ Woken' = Woken
  BY DEF Quiet, Waiting, Woken
<1>5. CacheTypeOK'
  BY <1>0, <1>1 DEF CacheTypeOK, Record, Quiet
<1>6. CacheQueues'
  BY <1>0, <1>1, <1>3, <1>4 DEF CacheQueues
<1>7. Promised'
  BY <1>0, <1>1, <1>4 DEF Promised
<1>8. Turned'
  <2>1. \A u \in Tasks : \A c \in Private : Claims(u, c)' <=> Claims(u, c)
    BY <1>0, <1>1, <1>2, Shape DEF Claims
  <2>2. QED
    BY <1>0, <1>1, <1>2, <2>1 DEF Turned
<1>9. \A m \in Buffers : Users(m)' = Users(m)
  BY <1>1 DEF Users
<1>10. QED
  BY <1>0, <1>2, <1>5, <1>6, <1>7, <1>8, <1>9 DEF Counted

(* The steps that leave the headers alone: the failed assertion, and the   *)
(* start of a write.                                                       *)
LEMMA HitUnreadInv == ASSUME CacheInv, NEW b \in Blocks, HitUnread(b) PROVE CacheInv'
<1>0. CacheTypeOK /\ Counted /\ CachePhases /\ Reading /\ Filled /\ Clean
  BY DEF CacheInv
<1>1. /\ UNCHANGED <<bufs, hashed, freeList, waitList, disk, at, buf, want, leaving>>
      /\ halted'
  BY DEF HitUnread, cacheVars, taskVars
<1>2. Quiet
  <2>1. bufs \in Seq(Record)
    BY <1>0 DEF CacheTypeOK, Record
  <2>2. QED
    BY <1>0, <1>1, <2>1 DEF Quiet, CacheTypeOK, Buffers, Room, BufferPtr, BufferData
<1>3. CacheTypeOK' /\ CacheQueues' /\ Promised' /\ Turned'
  BY <1>2, QuietInv
<1>4. Counted' /\ CachePhases' /\ Reading' /\ Filled' /\ Clean'
  BY <1>0, <1>1 DEF Counted, CachePhases, Reading, Filled, Clean, Users, Buffers
<1>5. QED
  BY <1>3, <1>4 DEF CacheInv

LEMMA StartWriteInv ==
  ASSUME CacheInv, NEW t \in Tasks, NEW leave \in BOOLEAN, StartWrite(t, leave)
  PROVE  CacheInv'
<1>0. CacheTypeOK /\ Counted /\ CachePhases /\ Reading /\ Filled /\ Clean
  BY DEF CacheInv
<1>1. /\ UNCHANGED <<bufs, hashed, freeList, waitList, disk, buf, want, halted>>
      /\ at[t] = "user" /\ buf[t] # 0
      /\ \A u \in Tasks : at'[u] = IF u = t THEN "write" ELSE at[u]
  BY <1>0 DEF StartWrite, Using, cacheVars, CacheTypeOK
<1>2. Quiet
  <2>1. bufs \in Seq(Record)
    BY <1>0 DEF CacheTypeOK, Record
  <2>2. /\ at' \in [Tasks -> {"user", "wait", "turn", "read", "filled", "write", "wrote"}]
        /\ leaving' \in [Tasks -> BOOLEAN]
    BY <1>0 DEF StartWrite, CacheTypeOK
  <2>3. QED
    BY <1>0, <1>1, <2>1, <2>2 DEF Quiet, CacheTypeOK, Buffers, Room, BufferPtr, BufferData
<1>3. CacheTypeOK' /\ CacheQueues' /\ Promised' /\ Turned'
  BY <1>2, QuietInv
<1>4. Counted' /\ CachePhases'
  BY <1>0, <1>1 DEF Counted, CachePhases, Users, Buffers
<1>5. Reading' /\ Filled' /\ Clean'
  BY <1>0, <1>1 DEF Reading, Filled, Clean, Buffers
<1>6. QED
  BY <1>3, <1>4, <1>5 DEF CacheInv

(* The transfers.                                                          *)
LEMMA ReadTransferInv ==
  ASSUME CacheInv, NEW t \in Tasks, ReadTransfer(t)
  PROVE  CacheInv' /\ Kept(buf[t])
<1>0. CacheTypeOK /\ Counted /\ CachePhases /\ Reading /\ Filled /\ Turned /\ Clean
  BY DEF CacheInv
<1>1. PICK n \in Buffers : n = buf[t]
  BY <1>0, Shape DEF ReadTransfer, CachePhases
<1>2. /\ UNCHANGED <<hashed, freeList, waitList, disk, buf, want, leaving, halted>>
      /\ at[t] = "read" /\ n # 0
      /\ \A u \in Tasks : at'[u] = IF u = t THEN "filled" ELSE at[u]
  BY <1>0, <1>1, Shape DEF ReadTransfer, CacheTypeOK
<1>3. disk[bufs[n].block] \in Values
  BY <1>0, Fields DEF CacheTypeOK
<1>4. Edit(n, [bufs[n] EXCEPT !.data = disk[bufs[n].block]])
  <2>1. [bufs[n] EXCEPT !.data = disk[bufs[n].block]] \in Record
    BY <1>0, <1>3, Shape DEF Record
  <2>2. bufs' = [bufs EXCEPT ![n] = [bufs[n] EXCEPT !.data = disk[bufs[n].block]]]
    BY <1>1 DEF ReadTransfer
  <2>3. QED
    BY <1>0, <2>1, <2>2, EditOne
<1>5. \A m \in Buffers :
         /\ bufs'[m].block = bufs[m].block /\ bufs'[m].count = bufs[m].count
         /\ bufs'[m].dirty = bufs[m].dirty /\ bufs'[m].valid = bufs[m].valid
         /\ bufs'[m].data = IF m = n THEN disk[bufs[m].block] ELSE bufs[m].data
  BY <1>0, <1>4, Shape DEF Edit, Record
<1>6. Buffers' = Buffers /\ Room' = Room /\ bufs' \in Seq(Record)
  BY <1>4 DEF Edit
<1>7. Quiet
  <2>1. at' \in [Tasks -> {"user", "wait", "turn", "read", "filled", "write", "wrote"}]
    BY <1>0 DEF ReadTransfer, CacheTypeOK
  <2>2. QED
    BY <1>0, <1>2, <1>5, <1>6, <2>1 DEF Quiet, CacheTypeOK
<1>8. /\ CacheTypeOK' /\ CacheQueues' /\ Promised' /\ Turned'
      /\ \A m \in Buffers : bufs'[m].count = Cardinality(Users(m))'
  BY <1>7, QuietInv
<1>9. Counted'
  BY <1>0, <1>5, <1>6, <1>8 DEF Counted
<1>10. CachePhases'
  BY <1>0, <1>1, <1>2 DEF CachePhases
<1>11. ~ bufs[n].valid /\ \A u \in Tasks : buf[u] = n => u = t
  BY <1>0, <1>1, <1>2 DEF Reading
<1>12. Reading'
  BY <1>0, <1>1, <1>2, <1>5, <1>11, Shape DEF Reading
<1>13. Filled'
  <2>1. \A m \in Buffers' : bufs'[m].valid => bufs'[m].data \in Values
    BY <1>0, <1>3, <1>5, <1>6 DEF Filled
  <2>2. ASSUME NEW u \in Tasks, at'[u] = "filled" PROVE bufs'[buf'[u]].data \in Values
    <3>1. CASE u = t
      BY <1>1, <1>2, <1>3, <1>5, <3>1
    <3>2. CASE u # t
      <4>1. at[u] = "filled" /\ buf'[u] = buf[u] /\ buf[u] # 0
        BY <1>0, <1>2, <2>2, <3>2 DEF CachePhases
      <4>2. buf[u] \in Buffers /\ bufs[buf[u]].data \in Values
        BY <1>0, <4>1, Shape DEF Filled
      <4>3. buf[u] # n
        BY <1>11, <3>2
      <4>4. QED
        BY <1>5, <4>1, <4>2, <4>3
    <3>3. QED
      BY <3>1, <3>2
  <2>3. QED
    BY <2>1, <2>2 DEF Filled
<1>14. Clean'
  BY <1>0, <1>1, <1>2, <1>5, <1>6, <1>11, Shape DEF Clean, CachePhases
<1>15. Kept(buf[t])
  BY <1>1, <1>5, <1>6 DEF Kept
<1>16. QED
  BY <1>8, <1>9, <1>10, <1>12, <1>13, <1>14, <1>15 DEF CacheInv

LEMMA WriteTransferInv == ASSUME CacheInv, NEW t \in Tasks, WriteTransfer(t) PROVE CacheInv'
<1>0. CacheTypeOK /\ Counted /\ CachePhases /\ Reading /\ Filled /\ Turned /\ Clean
  BY DEF CacheInv
<1>1. PICK n \in Buffers : n = buf[t]
  BY <1>0, Shape DEF WriteTransfer, CachePhases
<1>2. /\ UNCHANGED <<bufs, hashed, freeList, waitList, buf, want, leaving, halted>>
      /\ at[t] = "write" /\ n # 0
      /\ \A u \in Tasks : at'[u] = IF u = t THEN "wrote" ELSE at[u]
  BY <1>0, <1>1, Shape DEF WriteTransfer, cacheVars, CacheTypeOK
<1>3. bufs[n].block \in Blocks /\ bufs[n].data \in Values /\ bufs[n].valid
  BY <1>0, <1>1, <1>2, Fields DEF Reading, Filled
<1>4. /\ disk' \in [Blocks -> Values]
      /\ \A c \in Blocks : disk'[c] = IF c = bufs[n].block THEN bufs[n].data ELSE disk[c]
  BY <1>0, <1>1, <1>3 DEF WriteTransfer, CacheTypeOK
<1>5. Quiet
  <2>1. bufs \in Seq(Record)
    BY <1>0 DEF CacheTypeOK, Record
  <2>2. at' \in [Tasks -> {"user", "wait", "turn", "read", "filled", "write", "wrote"}]
    BY <1>0 DEF WriteTransfer, CacheTypeOK
  <2>3. QED
    BY <1>0, <1>2, <1>4, <2>1, <2>2
       DEF Quiet, CacheTypeOK, Buffers, Room, BufferPtr, BufferData
<1>6. CacheTypeOK' /\ CacheQueues' /\ Promised' /\ Turned'
  BY <1>5, QuietInv
<1>7. Counted' /\ CachePhases'
  BY <1>0, <1>1, <1>2 DEF Counted, CachePhases, Users, Buffers
<1>8. Reading' /\ Filled'
  BY <1>0, <1>1, <1>2, <1>3 DEF Reading, Filled, Buffers
<1>9. Clean'
  <2>1. ASSUME NEW m \in Buffers, bufs[m].block \in Private,
               bufs[m].valid /\ ~ bufs[m].dirty
        PROVE  bufs[m].data = disk'[bufs[m].block]
    <3>1. bufs[m].block \in Blocks
      BY <1>0, Fields
    <3>2. bufs[m].block = bufs[n].block => m = n
      BY <1>0, <2>1 DEF Turned
    <3>3. QED
      BY <1>0, <1>4, <2>1, <3>1, <3>2 DEF Clean
  <2>2. ASSUME NEW u \in Tasks, at'[u] \in {"filled", "wrote"},
               bufs[buf[u]].block \in Private
        PROVE  bufs[buf[u]].data = disk'[bufs[buf[u]].block]
    <3>1. CASE u = t
      BY <1>1, <1>3, <1>4, <3>1
    <3>2. CASE u # t
      <4>1. at[u] \in {"filled", "wrote"} /\ buf[u] \in Buffers
        BY <1>0, <1>2, <2>2, <3>2, Shape DEF CachePhases
      <4>2. bufs[buf[u]].block # bufs[n].block
        <5>1. SUFFICES ASSUME bufs[buf[u]].block = bufs[n].block PROVE FALSE
          OBVIOUS
        <5>2. Claims(u, bufs[n].block) /\ Claims(t, bufs[n].block)
          BY <1>0, <1>1, <1>2, <4>1, <5>1, Shape DEF Claims
        <5>3. QED
          BY <1>0, <2>2, <3>2, <5>1, <5>2 DEF Turned
      <4>3. bufs[buf[u]].block \in Blocks
        BY <1>0, <4>1, Fields
      <4>4. QED
        BY <1>0, <1>4, <2>2, <4>1, <4>2, <4>3 DEF Clean
    <3>3. QED
      BY <3>1, <3>2
  <2>3. bufs' = bufs /\ buf' = buf /\ Buffers' = Buffers
    BY <1>2 DEF Buffers
  <2>4. QED
    BY <2>1, <2>2, <2>3 DEF Clean
<1>10. QED
  BY <1>6, <1>7, <1>8, <1>9 DEF CacheInv

-----------------------------------------------------------------------------
\* now is the headers, with n clean and valid: the end of bread and bwrite.
Cleared(now, n) ==
    /\ now \in Seq(Record) /\ Len(now) = Len(bufs)
    /\ \A m \in Buffers :
         /\ now[m].block = bufs[m].block /\ now[m].count = bufs[m].count
         /\ now[m].data = bufs[m].data
         /\ m = n => ~ now[m].dirty /\ now[m].valid
         /\ m # n => now[m].dirty = bufs[m].dirty /\ now[m].valid = bufs[m].valid

LEMMA ClearedIs ==
  ASSUME CacheTypeOK, NEW n \in Buffers
  PROVE  Cleared([bufs EXCEPT ![n].dirty = FALSE, ![n].valid = TRUE], n)
<1> DEFINE r == [bufs[n] EXCEPT !.dirty = FALSE, !.valid = TRUE]
           now == [bufs EXCEPT ![n] = r]
<1>1. /\ Len(bufs) \in Nat /\ Buffers = 1 .. Len(bufs) /\ bufs \in [Buffers -> Record]
  BY Shape
<1>2. [bufs EXCEPT ![n].dirty = FALSE, ![n].valid = TRUE] = now
  BY <1>1
<1>3. /\ r \in Record /\ r.block = bufs[n].block /\ r.count = bufs[n].count
      /\ r.data = bufs[n].data /\ r.dirty = FALSE /\ r.valid = TRUE
  BY <1>1 DEF Record
<1> HIDE DEF r
<1>4. now \in [1 .. Len(bufs) -> Record] /\ \A m \in Buffers : now[m] = IF m = n THEN r ELSE bufs[m]
  BY <1>1, <1>3
<1> HIDE DEF now
<1>5. now \in Seq(Record) /\ Len(now) = Len(bufs)
  BY <1>1, <1>4
<1>6. ASSUME NEW m \in Buffers
      PROVE  /\ now[m].block = bufs[m].block /\ now[m].count = bufs[m].count
             /\ now[m].data = bufs[m].data
             /\ m = n => ~ now[m].dirty /\ now[m].valid
             /\ m # n => now[m].dirty = bufs[m].dirty /\ now[m].valid = bufs[m].valid
  <2>1. CASE m = n
    BY <1>3, <1>4, <2>1
  <2>2. CASE m # n
    <3>1. now[m] = bufs[m] /\ bufs[m].dirty \in BOOLEAN /\ bufs[m].valid \in BOOLEAN
      BY <1>4, <2>2, Fields
    <3>2. QED
      BY <2>2, <3>1
  <2>3. QED
    BY <2>1, <2>2
<1>7. QED
  BY <1>2, <1>5, <1>6 DEF Cleared

(* A buffer that its one or last writer has, or a reader has filled, is    *)
(* clean when it is marked so: for a private block, the disk agrees.       *)
LEMMA ClearedInv ==
  ASSUME CacheInv, NEW t \in Tasks, at[t] \in {"filled", "wrote"},
         Cleared(bufs', buf[t]), Buffers' = Buffers, Room' = Room,
         at' = [at EXCEPT ![t] = "user"],
         UNCHANGED <<hashed, freeList, waitList, disk, buf, want, leaving, halted>>
  PROVE  CacheInv'
<1>0. CacheTypeOK /\ Counted /\ CachePhases /\ Reading /\ Filled /\ Turned /\ Clean
  BY DEF CacheInv
<1>1. PICK n \in Buffers : n = buf[t]
  BY <1>0, Shape DEF CachePhases
<1>2. /\ UNCHANGED <<hashed, freeList, waitList, disk, buf, want, leaving, halted>>
      /\ n # 0
      /\ \A u \in Tasks : at'[u] = IF u = t THEN "user" ELSE at[u]
  BY <1>0, <1>1, Shape DEF CacheTypeOK
<1>3. \A m \in Buffers :
         /\ bufs'[m].block = bufs[m].block /\ bufs'[m].count = bufs[m].count
         /\ bufs'[m].data = bufs[m].data
         /\ m = n => ~ bufs'[m].dirty /\ bufs'[m].valid
         /\ m # n => bufs'[m].dirty = bufs[m].dirty /\ bufs'[m].valid = bufs[m].valid
  BY <1>1 DEF Cleared
<1>4. Quiet
  <2>1. bufs' \in Seq(Record)
    BY DEF Cleared
  <2>2. at' \in [Tasks -> {"user", "wait", "turn", "read", "filled", "write", "wrote"}]
    BY <1>0 DEF CacheTypeOK
  <2>3. QED
    BY <1>0, <1>2, <1>3, <2>1, <2>2 DEF Quiet, CacheTypeOK
<1>5. /\ CacheTypeOK' /\ CacheQueues' /\ Promised' /\ Turned'
      /\ \A m \in Buffers : bufs'[m].count = Cardinality(Users(m))'
  BY <1>4, QuietInv
<1>6. Counted'
  BY <1>0, <1>3, <1>5 DEF Counted
<1>7. CachePhases'
  BY <1>0, <1>2 DEF CachePhases
<1>8. Reading'
  <2>1. ASSUME NEW u \in Tasks, buf[u] # 0
        PROVE  bufs'[buf[u]].valid <=> at'[u] \notin {"read", "filled"}
    <3>1. CASE buf[u] = n
      <4>1. at[u] \in {"read", "filled"} => u = t
        BY <1>0, <1>1, <1>2, <3>1 DEF Reading
      <4>2. QED
        BY <1>2, <1>3, <3>1, <4>1
    <3>2. CASE buf[u] # n
      BY <1>0, <1>1, <1>2, <1>3, <2>1, <3>2, Shape DEF Reading
    <3>3. QED
      BY <3>1, <3>2
  <2>2. ASSUME NEW u \in Tasks, buf[u] # 0, at'[u] \in {"read", "filled"}
        PROVE  \A w \in Tasks : buf[w] = buf[u] => w = u
    BY <1>0, <1>2, <2>2 DEF Reading
  <2>3. QED
    BY <1>2, <2>1, <2>2 DEF Reading
<1>9. bufs[n].data \in Values
  BY <1>0, <1>1, <1>2 DEF Filled, Reading
<1>10. Filled'
  BY <1>0, <1>2, <1>3, <1>9, Shape DEF Filled, CachePhases
<1>11. Clean'
  BY <1>0, <1>1, <1>2, <1>3, Shape DEF Clean, CachePhases
<1>12. QED
  BY <1>5, <1>6, <1>7, <1>8, <1>10, <1>11 DEF CacheInv

LEMMA ReadDoneInv ==
  ASSUME CacheInv, NEW t \in Tasks, ReadDone(t)
  PROVE  CacheInv' /\ Cleared(bufs', buf[t]) /\ Buffers' = Buffers
<1>1. PICK n \in Buffers : n = buf[t]
  BY Shape DEF CacheInv, ReadDone, CachePhases
<1>2. Cleared(bufs', buf[t])
  BY <1>1, ClearedIs DEF CacheInv, ReadDone
<1>3. Buffers' = Buffers /\ Room' = Room
  BY <1>2 DEF Cleared, CacheInv, CacheTypeOK, Buffers, Room, BufferPtr, BufferData
<1>4. QED
  BY <1>2, <1>3, ClearedInv DEF ReadDone

LEMMA WriteStayInv ==
  ASSUME CacheInv, NEW t \in Tasks, WriteDone(t), ~ leaving[t]
  PROVE  CacheInv' /\ Cleared(bufs', buf[t]) /\ Buffers' = Buffers
<1>1. PICK n \in Buffers : n = buf[t]
  BY Shape DEF CacheInv, WriteDone, CachePhases
<1>2. Cleared(bufs', buf[t])
  BY <1>1, ClearedIs DEF CacheInv, WriteDone
<1>3. Buffers' = Buffers /\ Room' = Room
  BY <1>2 DEF Cleared, CacheInv, CacheTypeOK, Buffers, Room, BufferPtr, BufferData
<1>4. QED
  BY <1>2, <1>3, ClearedInv DEF WriteDone

LEMMA ModifyInv ==
  ASSUME CacheInv, NEW t \in Tasks, NEW v \in Values, Modify(t, v)
  PROVE  CacheInv' /\ Kept(buf[t]) /\ bufs'[buf[t]].data = v
<1>0. CacheTypeOK /\ Counted /\ CachePhases /\ Reading /\ Filled /\ Turned /\ Clean
  BY DEF CacheInv
<1>1. PICK n \in Buffers : n = buf[t]
  BY <1>0, Shape DEF Modify, Using
<1>2. /\ UNCHANGED <<hashed, freeList, waitList, disk, at, buf, want, leaving, halted>>
      /\ at[t] = "user" /\ n # 0
  BY <1>0, <1>1, Shape DEF Modify, Using, taskVars
<1>3. Edit(n, [bufs[n] EXCEPT !.data = v, !.dirty = TRUE])
  <2>1. [bufs[n] EXCEPT !.data = v, !.dirty = TRUE] \in Record
    BY <1>0, Shape DEF Record
  <2>2. bufs' = [bufs EXCEPT ![n] = [bufs[n] EXCEPT !.data = v, !.dirty = TRUE]]
    BY <1>0, <1>1, Shape DEF Modify
  <2>3. QED
    BY <1>0, <2>1, <2>2, EditOne
<1>4. \A m \in Buffers :
         /\ bufs'[m].block = bufs[m].block /\ bufs'[m].count = bufs[m].count
         /\ bufs'[m].valid = bufs[m].valid
         /\ m # n => bufs'[m].dirty = bufs[m].dirty /\ bufs'[m].data = bufs[m].data
  <2> TAKE m \in Buffers
  <2>1. CASE m = n
    BY <1>0, <1>3, <2>1, Shape DEF Edit, Record
  <2>2. CASE m # n
    <3>1. bufs'[m] = bufs[m]
      BY <1>3, <2>2 DEF Edit
    <3>2. QED
      BY <2>2, <3>1
  <2>3. QED
    BY <2>1, <2>2
<1>5. bufs'[n].dirty /\ bufs'[n].data = v
  BY <1>0, <1>3, Shape DEF Edit, Record
<1>6. Buffers' = Buffers /\ Room' = Room /\ bufs' \in Seq(Record)
  BY <1>3 DEF Edit
<1>7. Quiet
  BY <1>0, <1>2, <1>4, <1>6 DEF Quiet, CacheTypeOK
<1>8. /\ CacheTypeOK' /\ CacheQueues' /\ Promised' /\ Turned'
      /\ \A m \in Buffers : bufs'[m].count = Cardinality(Users(m))'
  BY <1>7, QuietInv
<1>9. Counted'
  <2>1. bufs[n].count # 0
    <3>1. t \in Users(n)
      BY <1>1 DEF Users
    <3>2. QED
      BY <1>0, <3>1, UsersCount DEF Counted
  <2>2. QED
    BY <1>0, <1>4, <1>6, <1>8, <2>1 DEF Counted
<1>10. CachePhases' /\ Reading'
  BY <1>0, <1>2, <1>4, Shape DEF CachePhases, Reading
<1>11. Filled'
  BY <1>0, <1>2, <1>4, <1>5, <1>6, Shape DEF Filled, CachePhases
<1>12. Clean'
  <2>1. ASSUME NEW u \in Tasks, at[u] \in {"filled", "wrote"},
               bufs[buf[u]].block \in Private
        PROVE  buf[u] # n /\ buf[u] \in Buffers
    <3>1. buf[u] \in Buffers /\ buf[u] # 0
      BY <1>0, <2>1, Shape DEF CachePhases
    <3>2. SUFFICES ASSUME buf[u] = n PROVE FALSE
      BY <3>1
    <3>3. Claims(u, bufs[n].block) /\ Claims(t, bufs[n].block)
      BY <1>1, <1>2, <3>2 DEF Claims
    <3>4. QED
      BY <1>0, <1>2, <2>1, <3>2, <3>3 DEF Turned
  <2>2. \A u \in Tasks : at'[u] \in {"filled", "wrote"} /\ bufs'[buf'[u]].block \in Private
           => bufs'[buf'[u]].data = disk'[bufs'[buf'[u]].block]
    <3> SUFFICES ASSUME NEW u \in Tasks, at[u] \in {"filled", "wrote"},
                        bufs'[buf[u]].block \in Private
                 PROVE  bufs'[buf[u]].data = disk[bufs'[buf[u]].block]
      BY <1>2
    <3>1. buf[u] \in Buffers
      BY <1>0, Shape DEF CachePhases
    <3>2. bufs[buf[u]].block \in Private
      BY <1>4, <3>1
    <3>3. buf[u] # n
      BY <2>1, <3>2
    <3>4. QED
      BY <1>0, <1>4, <3>1, <3>2, <3>3 DEF Clean
  <2>3. \A m \in Buffers' : bufs'[m].block \in Private /\ bufs'[m].valid /\ ~ bufs'[m].dirty
          => bufs'[m].data = disk'[bufs'[m].block]
    BY <1>0, <1>2, <1>4, <1>5, <1>6 DEF Clean
  <2>4. QED
    BY <2>2, <2>3 DEF Clean
<1>13. Kept(buf[t]) /\ bufs'[buf[t]].data = v
  BY <1>1, <1>4, <1>5, <1>6 DEF Kept
<1>14. QED
  BY <1>8, <1>9, <1>10, <1>11, <1>12, <1>13 DEF CacheInv

-----------------------------------------------------------------------------
\* now is the headers when task t, whose buffer is clean, is about to leave it.
Leaves(now, t) ==
    /\ at[t] \in {"user", "wrote"} /\ buf[t] # 0
    /\ now \in Seq(Record) /\ Len(now) = Len(bufs)
    /\ \A m \in Buffers :
         /\ now[m].block = bufs[m].block /\ now[m].count = bufs[m].count
         /\ now[m].data = bufs[m].data /\ now[m].valid = bufs[m].valid
         /\ m # buf[t] => now[m].dirty = bufs[m].dirty
    /\ ~ now[buf[t]].dirty
    /\ bufs[buf[t]].block \in Private =>
          bufs[buf[t]].data = disk[bufs[buf[t]].block]

(* The end of brelse: one user less, perhaps a free buffer, and if so a    *)
(* woken task.                                                             *)
LEMMA PutInv ==
  ASSUME CacheInv, NEW t \in Tasks, NEW now, Leaves(now, t), Put(t, now)
  PROVE  /\ CacheInv' /\ Kept(0)
         /\ \A u \in Tasks : u # t =>
              at'[u] = at[u] \/ (at[u] = "wait" /\ at'[u] = "turn")
<1>0. /\ CacheTypeOK /\ CacheQueues /\ Counted /\ CachePhases /\ Reading /\ Filled
      /\ Promised /\ Turned /\ Clean
  BY DEF CacheInv
<1>1. PICK n \in Buffers : n = buf[t]
  BY <1>0, Shape DEF Leaves
<1>2. /\ hashed' = hashed /\ disk' = disk /\ want' = want /\ halted' = halted
      /\ at[t] \in {"user", "wrote"} /\ n # 0
      /\ leaving' \in [Tasks -> BOOLEAN] /\ buf' \in [Tasks -> Buffers \cup {0}]
      /\ \A u \in Tasks : buf'[u] = IF u = t THEN 0 ELSE buf[u]
  BY <1>0, <1>1 DEF Put, Leaves, CacheTypeOK
<1>3. \A m \in Buffers : bufs[m].count = Cardinality(Users(m)) /\ bufs[m].count \in Nat
  BY <1>0, UsersCount DEF Counted
<1>4. t \in Users(n) /\ bufs[n].count >= 1
  <2>1. t \in Users(n)
    BY <1>1 DEF Users
  <2>2. bufs[n].count # 0
    BY <1>3, <2>1, UsersCount
  <2>3. QED
    BY <1>3, <2>1, <2>2
\* The headers.
<1>5. /\ Buffers' = Buffers /\ Room' = Room /\ bufs' \in Seq(Record)
      /\ \A m \in Buffers :
           bufs'[m] = IF m = n THEN [now[n] EXCEPT !.count = @ - 1] ELSE now[m]
  <2>1. /\ Len(bufs) \in Nat /\ Buffers = 1 .. Len(bufs) /\ now \in [Buffers -> Record]
    BY <1>0, Shape DEF Leaves
  <2>2. bufs' = [now EXCEPT ![n] = [now[n] EXCEPT !.count = @ - 1]]
    BY <1>1 DEF Put
  <2>3. [now[n] EXCEPT !.count = @ - 1] \in Record
    BY <2>1 DEF Record
  <2> DEFINE r == [now[n] EXCEPT !.count = @ - 1]
  <2> HIDE DEF r
  <2>4. /\ bufs' \in [1 .. Len(bufs) -> Record]
        /\ \A m \in Buffers : bufs'[m] = IF m = n THEN r ELSE now[m]
    BY <2>1, <2>2, <2>3 DEF r
  <2>5. bufs' \in Seq(Record) /\ Len(bufs') = Len(bufs) /\ Buffers' = Buffers
    BY <2>1, <2>4 DEF Buffers
  <2>6. QED
    BY <2>4, <2>5 DEF r, Room, BufferPtr, BufferData
<1>6. \A m \in Buffers :
         /\ bufs'[m].block = bufs[m].block /\ bufs'[m].valid = bufs[m].valid
         /\ bufs'[m].data = bufs[m].data
         /\ bufs'[m].count = IF m = n THEN bufs[m].count - 1 ELSE bufs[m].count
         /\ m # n => bufs'[m].dirty = bufs[m].dirty
         /\ m = n => ~ bufs'[m].dirty
  <2> TAKE m \in Buffers
  <2>1. now[m] \in Record
    BY <1>0, Shape DEF Leaves
  <2>2. CASE m = n
    <3>1. bufs'[m] = [now[m] EXCEPT !.count = @ - 1]
      BY <1>5, <2>2
    <3>2. /\ bufs'[m].block = now[m].block /\ bufs'[m].valid = now[m].valid
          /\ bufs'[m].data = now[m].data /\ bufs'[m].dirty = now[m].dirty
          /\ bufs'[m].count = now[m].count - 1
      BY <2>1, <3>1 DEF Record
    <3>3. /\ bufs'[m].block = bufs[m].block /\ bufs'[m].valid = bufs[m].valid
          /\ bufs'[m].data = bufs[m].data /\ bufs'[m].count = bufs[m].count - 1
      BY <3>2 DEF Leaves
    <3>4. ~ bufs'[m].dirty
      BY <1>1, <2>2, <3>2 DEF Leaves
    <3>5. QED
      BY <2>2, <3>3, <3>4
  <2>3. CASE m # n
    <3>1. bufs'[m] = now[m]
      BY <1>5, <2>3
    <3>2. QED
      BY <1>1, <2>3, <3>1 DEF Leaves
  <2>4. QED
    BY <2>2, <2>3
<1>7. now[n].count = bufs[n].count
  BY DEF Leaves
\* The free list.
<1>8. /\ bufs[n].count = 1 => freeList' = <<n>> \o freeList /\ Idle' = Idle \cup {n}
      /\ bufs[n].count # 1 => freeList' = freeList /\ Idle' = Idle
  <2>1. /\ bufs[n].count = 1 => freeList' = <<n>> \o freeList
        /\ bufs[n].count # 1 => freeList' = freeList
    BY <1>1, <1>7 DEF Put
  <2>2. /\ bufs[n].count = 1 => Idle' = Idle \cup {n}
        /\ bufs[n].count # 1 => Idle' = Idle
    BY <1>3, <1>4, <1>5, <1>6 DEF Idle
  <2>3. QED
    BY <2>1, <2>2
<1>9. Lists(freeList', Idle')
  <2>1. Lists(freeList, Idle) /\ n \notin Idle
    BY <1>0, <1>4 DEF CacheQueues, Idle
  <2>2. Lists(<<n>> \o freeList, Idle \cup {n})
    BY <2>1, PushLists
  <2>3. QED
    BY <1>8, <2>1, <2>2
\* The task that is woken, if there is one.
<1>10. /\ Lists(waitList', Waiting') /\ Promised'
       /\ at' \in [Tasks -> {"user", "wait", "turn", "read", "filled", "write", "wrote"}]
       /\ at'[t] = "user"
       /\ \A u \in Tasks : u # t =>
            at'[u] = at[u] \/ (at[u] = "wait" /\ at'[u] = "turn")
  <2>1. CASE bufs[n].count = 1 /\ waitList # <<>>
    <3>1. PICK w : w = Last(waitList)
      OBVIOUS
    <3>2. w \in Waiting /\ Lists(Front(waitList), Waiting \ {w})
      BY <1>0, <2>1, <3>1, FrontLists DEF CacheQueues
    <3>3. /\ waitList' = Front(waitList)
          /\ at' = [u \in Tasks |-> IF u = w THEN "turn" ELSE IF u = t THEN "user" ELSE at[u]]
      BY <1>1, <1>7, <2>1, <3>1 DEF Put
    <3>4. w \in Tasks /\ at[w] = "wait" /\ w # t
      BY <1>2, <3>2 DEF Waiting
    <3>5. \A u \in Tasks : at'[u] = IF u = w THEN "turn" ELSE IF u = t THEN "user" ELSE at[u]
      BY <3>3
    <3>6. Waiting' = Waiting \ {w} /\ Woken' = Woken \cup {w} /\ w \notin Woken
      BY <1>2, <3>4, <3>5 DEF Waiting, Woken
    <3>7. at' \in [Tasks -> {"user", "wait", "turn", "read", "filled", "write", "wrote"}]
      BY <1>0, <3>3 DEF CacheTypeOK
    <3>8. Promised'
      <4>1. Cardinality(Woken') = Cardinality(Woken) + 1
        BY <3>6, TurnsCount, FS_AddElement
      <4>2. Len(freeList') = Len(freeList) + 1 /\ Len(freeList) \in Nat
        <5>1. freeList \in Seq(Buffers)
          BY <1>0 DEF CacheTypeOK
        <5>2. QED
          BY <1>8, <2>1, <5>1, Pushed
      <4>3. QED
        BY <1>0, <1>5, <2>1, <4>1, <4>2, TurnsCount DEF Promised
    <3>9. QED
      BY <3>2, <3>3, <3>4, <3>5, <3>6, <3>7, <3>8
  <2>2. CASE bufs[n].count # 1 \/ waitList = <<>>
    <3>1. /\ waitList' = waitList
          /\ at' = [u \in Tasks |-> IF u = t THEN "user" ELSE at[u]]
      BY <1>1, <1>7, <2>2 DEF Put
    <3>2. at' \in [Tasks -> {"user", "wait", "turn", "read", "filled", "write", "wrote"}]
      BY <1>0, <3>1 DEF CacheTypeOK
    <3>3. \A u \in Tasks : at'[u] = IF u = t THEN "user" ELSE at[u]
      BY <3>1
    <3>4. Waiting' = Waiting /\ Woken' = Woken
      BY <1>2, <3>3 DEF Waiting, Woken
    <3>5. Lists(waitList', Waiting')
      BY <1>0, <3>1, <3>4 DEF CacheQueues
    <3>6. Promised'
      BY <1>0, <1>5, <1>8, <2>2, <3>1, <3>4 DEF Promised
    <3>7. QED
      BY <3>2, <3>3, <3>5, <3>6
  <2>3. QED
    BY <2>1, <2>2
\* The parts of the invariant.
<1>11. CacheQueues'
  BY <1>0, <1>2, <1>5, <1>9, <1>10 DEF CacheQueues
<1>12. CacheTypeOK'
  <2>1. freeList' \in Seq(Buffers')
    <3>1. Idle' \subseteq Buffers'
      BY DEF Idle
    <3>2. QED
      BY <1>9, <3>1, ListsIn
  <2>2. waitList' \in Seq(Tasks)
    <3>1. Waiting' \subseteq Tasks
      BY DEF Waiting
    <3>2. QED
      BY <1>10, <3>1, ListsIn
  <2>3. QED
    BY <1>0, <1>2, <1>5, <1>10, <2>1, <2>2 DEF CacheTypeOK, Record
<1>13. Counted'
  <2>1. Users(n)' = Users(n) \ {t}
    BY <1>2 DEF Users
  <2>2. \A m \in Buffers : m # n => Users(m)' = Users(m)
    BY <1>0, <1>1, <1>2, Shape DEF Users
  <2>3. Cardinality(Users(n)') = Cardinality(Users(n)) - 1
    BY <1>4, <2>1, UsersCount, FS_RemoveElement
  <2>4. bufs[n].valid
    BY <1>0, <1>1, <1>2 DEF Reading
  <2>5. QED
    BY <1>0, <1>3, <1>5, <1>6, <2>2, <2>3, <2>4 DEF Counted
<1>14. CachePhases'
  BY <1>0, <1>2, <1>10 DEF CachePhases
<1>15. Reading'
  <2>1. \A u \in Tasks : u # t /\ buf[u] # 0 => at'[u] = at[u]
    BY <1>0, <1>10 DEF CachePhases
  <2>2. QED
    BY <1>0, <1>2, <1>6, <2>1, Shape DEF Reading
<1>a. \A u \in Tasks : at'[u] \in {"filled", "wrote"} =>
         u # t /\ at[u] = at'[u] /\ buf'[u] = buf[u] /\ buf[u] \in Buffers
  BY <1>0, <1>2, <1>10, Shape DEF CachePhases
<1>16. Filled'
  <2>1. \A m \in Buffers' : bufs'[m].valid => bufs'[m].data \in Values
    BY <1>0, <1>5, <1>6 DEF Filled
  <2>2. \A u \in Tasks : at'[u] = "filled" => bufs'[buf'[u]].data \in Values
    BY <1>0, <1>6, <1>a DEF Filled
  <2>3. QED
    BY <2>1, <2>2 DEF Filled
<1>17. Turned'
  <2>1. \A u \in Tasks : \A c \in Private : Claims(u, c)' => Claims(u, c)
    BY <1>0, <1>2, <1>6, Shape DEF Claims
  <2>2. QED
    BY <1>0, <1>2, <1>5, <1>6, <2>1 DEF Turned
<1>18. Clean'
  <2>1. bufs[n].block \in Private => bufs[n].data = disk[bufs[n].block]
    BY <1>1 DEF Leaves
  <2>2. \A m \in Buffers' : bufs'[m].block \in Private /\ bufs'[m].valid /\ ~ bufs'[m].dirty
          => bufs'[m].data = disk'[bufs'[m].block]
    BY <1>0, <1>2, <1>5, <1>6, <2>1 DEF Clean
  <2>3. QED
    BY <1>0, <1>2, <1>6, <1>a, <2>2 DEF Clean
<1>b. Kept(0)
  BY <1>5, <1>6 DEF Kept
<1>19. QED
  BY <1>b, <1>10, <1>11, <1>12, <1>13, <1>14, <1>15, <1>16, <1>17, <1>18 DEF CacheInv

-----------------------------------------------------------------------------
\* Task t, which has no buffer, may have one for block b.
Asking(t, b) ==
    /\ at[t] \in {"user", "turn"} /\ buf[t] = 0
    /\ b \in Private => /\ \A u \in Tasks \ {t} : ~ Claims(u, b)
                        /\ \A n \in Buffers : bufs[n].block # b

\* What memory or the free list give: n, that no task has, is for block b now.
Taken(t, b, n) ==
    /\ Users(n) = {} /\ n # 0
    /\ bufs' \in Seq(Record) /\ Buffers' = Buffers \cup {n}
    /\ bufs'[n] = Fresh(b)
    /\ \A m \in Buffers : m # n => bufs'[m] = bufs[m]
    /\ Lists(hashed', Buffers') /\ Lists(freeList', Idle \ {n})
    /\ Fill(t, b, n)

LEMMA TakenInv ==
  ASSUME CacheInv, NEW t \in Tasks, NEW b \in Blocks, NEW n, Asking(t, b), Taken(t, b, n),
         Promised'
  PROVE  CacheInv'
<1>0. /\ CacheTypeOK /\ CacheQueues /\ Counted /\ CachePhases /\ Reading /\ Filled /\ Turned /\ Clean
  BY DEF CacheInv
<1>1. /\ n # 0 /\ n \in Buffers' /\ Users(n) = {}
      /\ bufs' \in Seq(Record) /\ Buffers' = Buffers \cup {n}
      /\ \A m \in Buffers' : m # n => m \in Buffers /\ bufs'[m] = bufs[m]
  BY DEF Taken
<1>2. /\ bufs'[n].block = b /\ bufs'[n].count = 1 /\ ~ bufs'[n].dirty /\ ~ bufs'[n].valid
  BY DEF Taken, Fresh
<1>3. /\ waitList' = waitList /\ disk' = disk /\ leaving' = leaving /\ halted' = halted
      /\ at[t] \in {"user", "turn"} /\ buf[t] = 0
      /\ \A u \in Tasks : at'[u] = IF u = t THEN "read" ELSE at[u]
      /\ \A u \in Tasks : buf'[u] = IF u = t THEN n ELSE buf[u]
      /\ \A u \in Tasks : want'[u] = IF u = t THEN 0 ELSE want[u]
  BY <1>0 DEF Taken, Fill, Asking, CacheTypeOK
<1>4. /\ at' \in [Tasks -> {"user", "wait", "turn", "read", "filled", "write", "wrote"}]
      /\ buf' \in [Tasks -> Buffers' \cup {0}] /\ want' \in [Tasks -> Blocks \cup {0}]
  <2>1. /\ at' = [at EXCEPT ![t] = "read"] /\ buf' = [buf EXCEPT ![t] = n]
        /\ want' = [want EXCEPT ![t] = 0]
    BY DEF Taken, Fill
  <2>2. QED
    BY <1>0, <1>1, <2>1 DEF CacheTypeOK
<1>5. \A u \in Tasks : u # t => buf'[u] # n /\ buf'[u] = buf[u]
  BY <1>1, <1>3 DEF Users
<1>6. Idle' = Idle \ {n}
  BY <1>1, <1>2 DEF Idle
<1>7. CacheQueues'
  <2>1. Waiting' = Waiting
    BY <1>3 DEF Waiting
  <2>2. QED
    BY <1>0, <1>3, <1>6, <2>1 DEF CacheQueues, Taken
<1>8. CacheTypeOK'
  <2>1. Idle' \subseteq Buffers'
    BY DEF Idle
  <2>2. freeList' \in Seq(Buffers') /\ hashed' \in Seq(Buffers')
    BY <1>7, <2>1, ListsIn DEF CacheQueues
  <2>3. QED
    BY <1>0, <1>1, <1>3, <1>4, <2>2 DEF CacheTypeOK, Record
<1>9. Counted'
  <2>1. Users(n)' = {t}
    BY <1>3, <1>5 DEF Users
  <2>2. Cardinality(Users(n)') = 1
    BY <2>1, FS_Singleton
  <2>3. \A m \in Buffers : m # n => Users(m)' = Users(m)
    BY <1>0, <1>3, Shape DEF Users
  <2>4. \A m \in Buffers' : m # n =>
          /\ bufs'[m].count = Cardinality(Users(m)')
          /\ bufs'[m].count = 0 => bufs'[m].valid /\ ~ bufs'[m].dirty
    BY <1>0, <1>1, <2>3 DEF Counted
  <2>5. QED
    BY <1>2, <2>2, <2>4 DEF Counted
<1>10. CachePhases'
  BY <1>0, <1>1, <1>3 DEF CachePhases
<1>11. Reading'
  <2>1. ASSUME NEW u \in Tasks, u # t, buf[u] # 0
        PROVE  /\ bufs'[buf[u]].valid <=> at'[u] \notin {"read", "filled"}
               /\ at'[u] \in {"read", "filled"} =>
                    \A w \in Tasks : buf'[w] = buf[u] => w = u
    <3>1. buf[u] \in Buffers /\ buf[u] # n /\ bufs'[buf[u]] = bufs[buf[u]] /\ at'[u] = at[u]
      BY <1>0, <1>1, <1>3, <1>5, <2>1, Shape
    <3>2. \A w \in Tasks : buf'[w] = buf[u] => buf[w] = buf[u]
      BY <1>3, <3>1
    <3>3. QED
      BY <1>0, <2>1, <3>1, <3>2 DEF Reading
  <2>2. \A w \in Tasks : buf'[w] = n => w = t
    BY <1>5
  <2>3. QED
    BY <1>2, <1>3, <2>1, <2>2 DEF Reading
<1>12. \A u \in Tasks : at'[u] \in {"filled", "wrote"} =>
         /\ u # t /\ at[u] = at'[u] /\ buf'[u] = buf[u]
         /\ buf[u] \in Buffers /\ bufs'[buf[u]] = bufs[buf[u]]
  BY <1>0, <1>1, <1>3, <1>5, Shape DEF CachePhases
<1>13. Filled'
  <2>1. \A m \in Buffers' : bufs'[m].valid => bufs'[m].data \in Values
    BY <1>0, <1>1, <1>2 DEF Filled
  <2>2. \A u \in Tasks : at'[u] = "filled" => bufs'[buf'[u]].data \in Values
    BY <1>0, <1>12 DEF Filled
  <2>3. QED
    BY <2>1, <2>2 DEF Filled
<1>14. Clean'
  <2>1. \A m \in Buffers' : bufs'[m].block \in Private /\ bufs'[m].valid /\ ~ bufs'[m].dirty
          => bufs'[m].data = disk'[bufs'[m].block]
    BY <1>0, <1>1, <1>2, <1>3 DEF Clean
  <2>2. QED
    BY <1>0, <1>3, <1>12, <2>1 DEF Clean
<1>15. Turned'
  <2>1. \A u \in Tasks : \A c \in Private :
          Claims(u, c)' => Claims(u, c) \/ (u = t /\ c = b)
    <3> TAKE u \in Tasks
    <3> TAKE c \in Private
    <3>1. CASE u = t
      BY <1>1, <1>2, <1>3, <3>1, BufferAssumption DEF Claims, Private
    <3>2. CASE u # t
      BY <1>0, <1>1, <1>3, <1>5, <3>2, Shape DEF Claims
    <3>3. QED
      BY <3>1, <3>2
  <2>2. b \in Private => /\ \A u \in Tasks \ {t} : ~ Claims(u, b)
                         /\ \A m \in Buffers : bufs[m].block # b
    BY DEF Asking
  <2>3. \A u, w \in Tasks : \A c \in Private : Claims(u, c)' /\ Claims(w, c)' => u = w
    BY <1>0, <2>1, <2>2 DEF Turned
  <2>4. \A k, m \in Buffers' :
          bufs'[k].block = bufs'[m].block /\ bufs'[k].block \in Private => k = m
    BY <1>0, <1>1, <1>2, <2>2 DEF Turned
  <2>5. \A u \in Tasks : \A m \in Buffers' :
          want'[u] \in Private => bufs'[m].block # want'[u]
    <3> SUFFICES ASSUME NEW u \in Tasks, NEW m \in Buffers', want'[u] \in Private
                 PROVE  bufs'[m].block # want'[u]
      OBVIOUS
    <3>1. u # t /\ want'[u] = want[u]
      BY <1>3, BufferAssumption DEF Private
    <3>2. want[u] # b
      BY <2>2, <3>1 DEF Claims
    <3>3. QED
      BY <1>0, <1>1, <1>2, <3>1, <3>2 DEF Turned
  <2>6. QED
    BY <2>3, <2>4, <2>5 DEF Turned
<1>16. QED
  BY <1>7, <1>8, <1>9, <1>10, <1>11, <1>13, <1>14, <1>15 DEF CacheInv

LEMMA TakeNewInv ==
  ASSUME CacheInv, NEW t \in Tasks, NEW b \in Blocks, Asking(t, b), TakeNew(t, b)
  PROVE  /\ CacheInv'
         /\ \E n : n \notin Buffers /\ Taken(t, b, n)
<1>0. CacheTypeOK /\ CacheQueues /\ Counted /\ Promised
  BY DEF CacheInv
<1>1. /\ Len(bufs) \in Nat /\ Buffers = 1 .. Len(bufs) /\ bufs \in [Buffers -> Record]
  BY <1>0, Shape
<1>2. PICK n : n = Len(bufs) + 1
  OBVIOUS
<1>3. n \in Nat /\ n # 0 /\ n \notin Buffers /\ Buffers \cup {n} = 1 .. n
  BY <1>1, <1>2
<1>4. Users(n) = {}
  BY <1>0, <1>3 DEF Users, CacheTypeOK
<1>5. Fresh(b) \in Record
  BY DEF Fresh, Record
<1>6. /\ bufs' \in Seq(Record) /\ Buffers' = Buffers \cup {n}
      /\ bufs'[n] = Fresh(b)
      /\ \A m \in Buffers : m # n => bufs'[m] = bufs[m]
  <2> DEFINE r == Fresh(b)
  <2> HIDE DEF r
  <2>1. bufs \in Seq(Record) /\ r \in Record /\ bufs' = Append(bufs, r)
    BY <1>0, <1>5 DEF TakeNew, CacheTypeOK, Record, r
  <2> HIDE DEF Record
  <2>2. bufs' \in Seq(Record) /\ Len(bufs') = n
    BY <1>2, <2>1
  <2>3. Buffers' = 1 .. n
    BY <2>2 DEF Buffers
  <2>4. bufs'[n] = r /\ \A m \in 1 .. Len(bufs) : bufs'[m] = bufs[m]
    BY <1>2, <2>1
  <2>5. QED
    BY <1>1, <1>3, <2>2, <2>3, <2>4 DEF r
<1>7. Lists(hashed', Buffers')
  <2>1. Lists(<<n>> \o hashed, Buffers \cup {n})
    BY <1>0, <1>3, PushLists DEF CacheQueues
  <2>2. QED
    BY <1>2, <1>6, <2>1 DEF TakeNew
<1>8. Lists(freeList', Idle \ {n})
  <2>1. Idle \ {n} = Idle
    BY <1>3 DEF Idle
  <2>2. QED
    BY <1>0, <2>1 DEF TakeNew, CacheQueues
<1>9. Taken(t, b, n)
  BY <1>2, <1>3, <1>4, <1>6, <1>7, <1>8 DEF Taken, TakeNew
<1>10. Promised'
  BY <1>0 DEF Promised, TakeNew, Fill
<1>11. QED
  BY <1>3, <1>9, <1>10, TakenInv

LEMMA TakeFreeInv ==
  ASSUME CacheInv, NEW t \in Tasks, NEW b \in Blocks, Asking(t, b), TakeFree(t, b)
  PROVE  /\ CacheInv'
         /\ \E n \in Idle : Taken(t, b, n)
<1>0. CacheTypeOK /\ CacheQueues /\ Counted /\ Promised
  BY DEF CacheInv
<1>1. /\ Len(bufs) \in Nat /\ Buffers = 1 .. Len(bufs) /\ bufs \in [Buffers -> Record]
      /\ 0 \notin Buffers
  BY <1>0, Shape
<1>2. PICK n : n = Last(freeList)
  OBVIOUS
<1>3. n \in Idle /\ Lists(Front(freeList), Idle \ {n})
  BY <1>0, <1>2, FrontLists DEF CacheQueues, TakeFree
<1>4. n \in Buffers /\ n # 0 /\ Buffers \cup {n} = Buffers /\ (Buffers \ {n}) \cup {n} = Buffers
  BY <1>1, <1>3 DEF Idle
<1>5. Users(n) = {}
  BY <1>0, <1>3, <1>4, UsersCount DEF Counted, Idle
<1>6. Fresh(b) \in Record
  BY DEF Fresh, Record
<1>7. Edit(n, Fresh(b))
  BY <1>0, <1>2, <1>4, <1>6, EditOne DEF TakeFree
<1>8. /\ bufs' \in Seq(Record) /\ Buffers' = Buffers /\ Room' = Room
      /\ bufs'[n] = Fresh(b)
      /\ \A m \in Buffers : m # n => bufs'[m] = bufs[m]
  BY <1>4, <1>7 DEF Edit
<1>9. Lists(hashed', Buffers')
  <2>1. Lists(RemoveFirst(hashed, n), Buffers \ {n})
    BY <1>0, RemoveFirstLists DEF CacheQueues
  <2>2. Lists(<<n>> \o RemoveFirst(hashed, n), (Buffers \ {n}) \cup {n})
    BY <2>1, PushLists
  <2>3. QED
    BY <1>2, <1>4, <1>8, <2>2 DEF TakeFree
<1>10. freeList' = Front(freeList)
  BY DEF TakeFree
<1>11. Taken(t, b, n)
  BY <1>2, <1>3, <1>4, <1>5, <1>8, <1>9, <1>10 DEF Taken, TakeFree
<1>12. Promised'
  <2>1. SUFFICES ASSUME waitList # <<>> PROVE Promised'
    BY DEF Promised, TakeFree, Fill
  <2>2. Len(freeList') = Len(freeList) - 1 /\ Len(freeList) \in Nat
    <3>1. freeList \in Seq(Buffers) /\ freeList # <<>>
      BY <1>0 DEF CacheTypeOK, TakeFree
    <3>2. QED
      BY <1>10, <3>1, FrontShape
  <2>3. Woken' = Woken \ {t}
    BY <1>0 DEF Woken, TakeFree, Fill, CacheTypeOK
  <2>4. Cardinality(Woken') >= Cardinality(Woken) - 1
    <3>1. CASE t \in Woken
      <4>1. Cardinality(Woken \ {t}) = Cardinality(Woken) - 1
        BY <3>1, TurnsCount, FS_RemoveElement
      <4>2. QED
        BY <2>3, <4>1, TurnsCount
    <3>2. CASE t \notin Woken
      <4>1. Woken' = Woken
        BY <2>3, <3>2
      <4>2. QED
        BY <4>1, TurnsCount
    <3>3. QED
      BY <3>1, <3>2
  <2>5. Cardinality(Woken') \in Nat
    <3>1. IsFiniteSet(Woken')
      BY <2>3, TurnsCount, FS_Subset
    <3>2. QED
      BY <3>1, FS_CardinalityType
  <2>6. QED
    BY <1>0, <1>8, <2>1, <2>2, <2>4, <2>5, TurnsCount DEF Promised
<1>13. QED
  BY <1>3, <1>11, <1>12, TakenInv

(* No memory and no free buffer: the task waits.                           *)
LEMMA AwaitFreeInv ==
  ASSUME CacheInv, NEW t \in Tasks, NEW b \in Blocks, Asking(t, b), AwaitFree(t, b)
  PROVE  CacheInv'
<1>0. /\ CacheTypeOK /\ CacheQueues /\ Counted /\ CachePhases /\ Reading /\ Filled /\ Turned /\ Clean
  BY DEF CacheInv
<1>1. /\ UNCHANGED <<bufs, hashed, freeList, disk, buf, leaving, halted>>
      /\ freeList = <<>> /\ ~ Room /\ waitList' = <<t>> \o waitList
      /\ at[t] \in {"user", "turn"} /\ buf[t] = 0 /\ b # 0
      /\ \A u \in Tasks : at'[u] = IF u = t THEN "wait" ELSE at[u]
      /\ \A u \in Tasks : want'[u] = IF u = t THEN b ELSE want[u]
  BY <1>0, BufferAssumption DEF AwaitFree, Asking, CacheTypeOK
<1>2. /\ at' \in [Tasks -> {"user", "wait", "turn", "read", "filled", "write", "wrote"}]
      /\ want' \in [Tasks -> Blocks \cup {0}]
  BY <1>0 DEF AwaitFree, CacheTypeOK
<1>3. Buffers' = Buffers /\ Room' = Room /\ Idle' = Idle
  BY <1>1 DEF Buffers, Room, BufferPtr, BufferData, Idle
<1>4. Waiting' = Waiting \cup {t} /\ t \notin Waiting
  BY <1>1 DEF Waiting
<1>5. CacheQueues'
  <2>1. Lists(<<t>> \o waitList, Waiting \cup {t})
    BY <1>0, <1>4, PushLists DEF CacheQueues
  <2>2. QED
    BY <1>0, <1>1, <1>3, <1>4, <2>1 DEF CacheQueues
<1>6. CacheTypeOK'
  <2>1. Waiting' \subseteq Tasks
    BY DEF Waiting
  <2>2. waitList' \in Seq(Tasks)
    BY <1>5, <2>1, ListsIn DEF CacheQueues
  <2>3. QED
    BY <1>0, <1>1, <1>2, <1>3, <2>2 DEF CacheTypeOK
<1>7. Counted' /\ Filled' /\ CachePhases'
  BY <1>0, <1>1, <1>3 DEF Counted, Users, Filled, CachePhases
<1>8. Reading' /\ Clean'
  BY <1>0, <1>1, <1>3 DEF Reading, Clean
<1>9. Promised'
  <2>1. Len(freeList') = 0
    BY <1>1
  <2>2. Cardinality(Woken') \in Nat
    <3>1. Woken' \subseteq Tasks
      BY DEF Woken
    <3>2. QED
      BY <3>1, BufferAssumption, FS_Subset, FS_CardinalityType
  <2>3. QED
    BY <1>1, <1>3, <2>1, <2>2 DEF Promised
<1>10. Turned'
  <2>1. \A u \in Tasks : \A c \in Private :
          Claims(u, c)' => Claims(u, c) \/ (u = t /\ c = b)
    BY <1>1 DEF Claims
  <2>2. b \in Private => /\ \A u \in Tasks \ {t} : ~ Claims(u, b)
                         /\ \A m \in Buffers : bufs[m].block # b
    BY DEF Asking
  <2>3. QED
    BY <1>0, <1>1, <1>3, <2>1, <2>2 DEF Turned
<1>11. QED
  BY <1>5, <1>6, <1>7, <1>8, <1>9, <1>10 DEF CacheInv

(* Who asks: a task in bread that did not find the block, and a waiter     *)
(* that was woken.                                                         *)
LEMMA BreadAsks ==
  ASSUME CacheInv, NEW t \in Tasks, NEW b \in Blocks, Free(t), May(t, b), FoundFor(b) = {}
  PROVE  Asking(t, b)
<1>1. \A n \in Buffers : bufs[n].block # b
  BY NotFound DEF CacheInv
<1>2. QED
  BY <1>1 DEF Asking, Free, May, Private

LEMMA AgainAsks ==
  ASSUME CacheInv, NEW t \in Tasks, at[t] = "turn"
  PROVE  want[t] \in Blocks /\ Asking(t, want[t])
<1>1. want[t] \in Blocks /\ buf[t] = 0
  BY DEF CacheInv, CacheTypeOK, CachePhases
<1>2. want[t] \in Private =>
        /\ \A u \in Tasks \ {t} : ~ Claims(u, want[t])
        /\ \A n \in Buffers : bufs[n].block # want[t]
  <2>1. SUFFICES ASSUME want[t] \in Private
                 PROVE  /\ \A u \in Tasks \ {t} : ~ Claims(u, want[t])
                        /\ \A n \in Buffers : bufs[n].block # want[t]
    OBVIOUS
  <2>2. Claims(t, want[t])
    BY DEF Claims
  <2>3. QED
    BY <2>1, <2>2 DEF CacheInv, Turned
<1>3. QED
  BY <1>1, <1>2 DEF Asking

-----------------------------------------------------------------------------
(* The two ways to the end of brelse: the buffer was clean, or it has been *)
(* written.                                                                *)
LEMMA CleanLeaves ==
  ASSUME CacheInv, NEW t \in Tasks, Using(t), ~ bufs[buf[t]].dirty
  PROVE  Leaves(bufs, t)
<1>1. CacheTypeOK /\ Reading /\ Clean
  BY DEF CacheInv
<1>2. at[t] = "user" /\ buf[t] # 0 /\ buf[t] \in Buffers
  BY <1>1, Shape DEF Using
<1>3. bufs[buf[t]].valid
  BY <1>1, <1>2 DEF Reading
<1>4. bufs[buf[t]].block \in Private => bufs[buf[t]].data = disk[bufs[buf[t]].block]
  BY <1>1, <1>2, <1>3 DEF Clean
<1>5. bufs \in Seq(Record)
  BY <1>1 DEF CacheTypeOK, Record
<1>6. QED
  BY <1>2, <1>4, <1>5 DEF Leaves

LEMMA WroteLeaves ==
  ASSUME CacheInv, NEW t \in Tasks, at[t] = "wrote", NEW now, Cleared(now, buf[t])
  PROVE  Leaves(now, t)
<1>1. CacheTypeOK /\ CachePhases /\ Reading /\ Clean
  BY DEF CacheInv
<1>2. buf[t] # 0 /\ buf[t] \in Buffers
  BY <1>1, Shape DEF CachePhases
<1>3. bufs[buf[t]].valid /\ bufs[buf[t]].valid \in BOOLEAN
  BY <1>1, <1>2, Fields DEF Reading
<1>4. bufs[buf[t]].block \in Private => bufs[buf[t]].data = disk[bufs[buf[t]].block]
  BY <1>1 DEF Clean
<1>6. \A m \in Buffers :
         /\ now[m].block = bufs[m].block /\ now[m].count = bufs[m].count
         /\ now[m].data = bufs[m].data
         /\ m # buf[t] => now[m].dirty = bufs[m].dirty /\ now[m].valid = bufs[m].valid
         /\ m = buf[t] => ~ now[m].dirty /\ now[m].valid
  BY DEF Cleared
<1>7. now[buf[t]].valid = bufs[buf[t]].valid
  <2>1. now[buf[t]] \in Record
    <3>1. now \in Seq(Record) /\ Len(now) = Len(bufs)
      BY DEF Cleared
    <3>2. QED
      BY <1>1, <1>2, <3>1, Shape
  <2>2. now[buf[t]].valid \in BOOLEAN /\ now[buf[t]].valid
    BY <1>2, <1>6, <2>1 DEF Record
  <2>3. QED
    BY <1>3, <2>2
<1>8. \A m \in Buffers : now[m].valid = bufs[m].valid
  BY <1>6, <1>7
<1>9. now \in Seq(Record) /\ Len(now) = Len(bufs)
  BY DEF Cleared
<1>10. QED
  BY <1>2, <1>4, <1>6, <1>8, <1>9 DEF Leaves

LEMMA GetFreeBufferInv ==
  ASSUME CacheInv, NEW t \in Tasks, NEW b \in Blocks, Asking(t, b), GetFreeBuffer(t, b)
  PROVE  CacheInv'
BY TakeNewInv, TakeFreeInv, AwaitFreeInv DEF GetFreeBuffer

LEMMA StutterInv == ASSUME CacheInv, UNCHANGED bufferVars PROVE CacheInv'
<1>1. /\ UNCHANGED <<bufs, hashed, freeList, waitList, disk, at, buf, want, leaving, halted>>
  BY DEF bufferVars, cacheVars, taskVars
<1>2. CacheTypeOK' /\ CacheQueues'
  BY <1>1 DEF CacheInv, CacheTypeOK, CacheQueues, Buffers, Idle, Waiting
<1>3. Counted' /\ CachePhases' /\ Reading' /\ Filled'
  BY <1>1 DEF CacheInv, Counted, CachePhases, Reading, Filled, Buffers, Users
<1>4. Promised' /\ Turned' /\ Clean'
  BY <1>1 DEF CacheInv, Promised, Turned, Clean, Woken, Room, BufferPtr, BufferData,
              Claims, Buffers
<1>5. QED
  BY <1>2, <1>3, <1>4 DEF CacheInv

LEMMA StepInv == CacheInv /\ [CacheNext]_bufferVars => CacheInv'
<1> SUFFICES ASSUME CacheInv, [CacheNext]_bufferVars PROVE CacheInv'
  OBVIOUS
<1>1. CASE UNCHANGED bufferVars
  BY <1>1, StutterInv
<1>2. CASE CacheNext
  <2>1. PICK t \in Tasks :
          \/ \E b \in Blocks : Bread(t, b)
          \/ BreadAgain(t)
          \/ ReadTransfer(t)
          \/ ReadDone(t)
          \/ \E v \in Values : Modify(t, v)
          \/ BwriteDirty(t)
          \/ Brelse(t)
          \/ WriteTransfer(t)
          \/ WriteDone(t)
    BY <1>2 DEF CacheNext
  <2>2. ASSUME NEW b \in Blocks, Bread(t, b) PROVE CacheInv'
    <3>1. Free(t) /\ May(t, b)
      BY <2>2 DEF Bread
    <3>2. CASE Hit(t, b)
      BY <3>1, <3>2, HitInv
    <3>3. CASE HitUnread(b)
      BY <3>3, HitUnreadInv
    <3>4. CASE FoundFor(b) = {} /\ GetFreeBuffer(t, b)
      BY <3>1, <3>4, BreadAsks, GetFreeBufferInv
    <3>5. QED
      BY <2>2, <3>2, <3>3, <3>4 DEF Bread
  <2>3. ASSUME BreadAgain(t) PROVE CacheInv'
    BY <2>3, AgainAsks, GetFreeBufferInv DEF BreadAgain
  <2>4. ASSUME NEW v \in Values, Modify(t, v) PROVE CacheInv'
    BY <2>4, ModifyInv
  <2>5. ASSUME BwriteDirty(t) PROVE CacheInv'
    BY <2>5, StartWriteInv DEF BwriteDirty
  <2>6. ASSUME Brelse(t) PROVE CacheInv'
    <3>1. CASE StartWrite(t, TRUE)
      BY <3>1, StartWriteInv
    <3>2. CASE Using(t) /\ ~ bufs[buf[t]].dirty /\ Put(t, bufs)
      BY <3>2, CleanLeaves, PutInv
    <3>3. QED
      BY <2>6, <3>1, <3>2 DEF Brelse
  <2>7. ASSUME WriteDone(t) PROVE CacheInv'
    <3>1. CASE leaving[t]
      <4>1. PICK now : now = [bufs EXCEPT ![buf[t]].dirty = FALSE, ![buf[t]].valid = TRUE]
        OBVIOUS
      <4>2. at[t] = "wrote" /\ Put(t, now)
        BY <2>7, <3>1, <4>1 DEF WriteDone
      <4>3. buf[t] \in Buffers
        BY <4>2, Shape DEF CacheInv, CachePhases
      <4>4. Cleared(now, buf[t])
        BY <4>1, <4>3, ClearedIs DEF CacheInv
      <4>5. QED
        BY <4>2, <4>4, WroteLeaves, PutInv
    <3>2. CASE ~ leaving[t]
      BY <2>7, <3>2, WriteStayInv
    <3>3. QED
      BY <3>1, <3>2
  <2>8. QED
    BY <2>1, <2>2, <2>3, <2>4, <2>5, <2>6, <2>7,
       ReadTransferInv, ReadDoneInv, WriteTransferInv
<1>3. QED
  BY <1>1, <1>2

LEMMA CacheInvariance == CacheSpec => []CacheInv
BY InitInv, StepInv, PTL DEF CacheSpec

-----------------------------------------------------------------------------
LEMMA ListsSet ==
  ASSUME NEW S, NEW s, Lists(s, S)
  PROVE  ToSet(s) = S /\ Len(s) = Cardinality(ToSet(s))
<1>1. s \in Seq(S) /\ DOMAIN s = 1 .. Len(s)
  BY DEF Lists
<1>2. ToSet(s) = S
  BY <1>1 DEF Lists, ToSet
<1>3. QED
  BY <1>2, ListsCount

(* The counts, the lists and the headers agree in every reachable state.   *)
THEOREM BuffersSoundCorrect == CacheSpec => []BuffersSound
<1>1. CacheInv => BuffersSound
  <2> SUFFICES ASSUME CacheInv PROVE BuffersSound
    OBVIOUS
  <2>0. CacheTypeOK /\ CacheQueues /\ Counted
    BY DEF CacheInv
  <2>1. \A n \in Buffers : bufs[n].count = Cardinality({t \in Tasks : buf[t] = n})
    BY <2>0 DEF Counted, Users
  <2>2. /\ ToSet(freeList) = {n \in Buffers : bufs[n].count = 0}
        /\ Len(freeList) = Cardinality(ToSet(freeList))
    BY <2>0, ListsSet DEF CacheQueues, Idle
  <2>3. ToSet(hashed) = Buffers
    BY <2>0, ListsSet DEF CacheQueues
  <2>4. Len(hashed) = Len(bufs)
    <3>1. Len(hashed) = Cardinality(Buffers)
      BY <2>0, ListsCount DEF CacheQueues
    <3>2. Cardinality(1 .. Len(bufs)) = Len(bufs)
      BY <2>0, Shape, FS_Interval
    <3>3. QED
      BY <2>0, <3>1, <3>2, Shape
  <2>5. \A n \in ToSet(freeList) : bufs[n].valid /\ ~ bufs[n].dirty
    BY <2>0, <2>2 DEF Counted
  <2>6. QED
    BY <2>0, <2>1, <2>2, <2>3, <2>4, <2>5 DEF BuffersSound
<1>2. QED
  BY <1>1, CacheInvariance, PTL

(* No wake-up is lost: a free buffer is promised to a woken task, and      *)
(* while tasks wait, some task is to take or to give back a buffer.        *)
THEOREM NoBufferIdleCorrect == CacheSpec => []NoBufferIdle
<1>1. CacheInv => NoBufferIdle
  <2> SUFFICES ASSUME CacheInv, waitList # <<>> PROVE
                 /\ Len(freeList) <= Cardinality({t \in Tasks : at[t] = "turn"})
                 /\ \E t \in Tasks : at[t] = "turn" \/ buf[t] # 0
    BY DEF NoBufferIdle
  <2>0. CacheTypeOK /\ CacheQueues /\ Counted
    BY DEF CacheInv
  <2>1. ~ Room /\ Len(freeList) <= Cardinality(Woken)
    BY DEF CacheInv, Promised
  <2>2. Len(bufs) # 0
    BY <2>1, BufferAssumption DEF Room, BufferPtr, BufferData
  <2>3. 1 \in Buffers
    BY <2>0, <2>2, Shape
  <2>4. CASE bufs[1].count = 0
    <3>1. PICK i \in 1 .. Len(freeList) : freeList[i] = 1
      BY <2>0, <2>3, <2>4 DEF CacheQueues, Lists, Idle
    <3>2. Cardinality(Woken) # 0
      BY <2>0, <2>1, <3>1, TurnsCount DEF CacheTypeOK
    <3>3. Woken # {}
      BY <3>2, FS_EmptySet
    <3>4. QED
      BY <2>1, <3>3 DEF Woken
  <2>5. CASE bufs[1].count # 0
    <3>1. Users(1) # {}
      BY <2>0, <2>3, <2>5, UsersCount DEF Counted
    <3>2. QED
      BY <2>1, <3>1 DEF Users, Woken
  <2>6. QED
    BY <2>4, <2>5
<1>2. QED
  BY <1>1, CacheInvariance, PTL

-----------------------------------------------------------------------------
\* Nothing of what Buffer.tla substitutes for the variables of BlockStore.
Same == Store' = Store /\ Disk' = Disk /\ Opened' = Opened

\* The actions of BlockStore, in these words.
OpenAs(t, b) ==
    /\ Opened[t] = Closed
    /\ \A u \in Tasks : Opened[u] # Closed => Opened[u].block # b
    /\ Opened' = [Opened EXCEPT ![t] = [block |-> b, data |-> Store[b]]]
    /\ Store' = Store /\ Disk' = Disk
ChangeAs(t, v) ==
    /\ Opened[t] # Closed
    /\ Store' = [Store EXCEPT ![Opened[t].block] = v]
    /\ Opened' = [Opened EXCEPT ![t].data = v]
    /\ Disk' = Disk
SaveAs(t) ==
    /\ Opened[t] # Closed
    /\ Disk' = [Disk EXCEPT ![Opened[t].block] = Opened[t].data]
    /\ Store' = Store /\ Opened' = Opened
CloseAs(t) ==
    /\ Opened[t] # Closed
    /\ Disk[Opened[t].block] = Opened[t].data
    /\ Opened' = [Opened EXCEPT ![t] = Closed]
    /\ Store' = Store /\ Disk' = Disk

LEMMA StoreSteps ==
  ASSUME NEW t \in Tasks
  PROVE  /\ \A b \in Private : OpenAs(t, b) => B!Open(t, b)
         /\ \A v \in Values : ChangeAs(t, v) => B!Change(t, v)
         /\ SaveAs(t) => B!Save(t)
         /\ CloseAs(t) => B!Close(t)
<1>1. \A b \in Private : OpenAs(t, b) => B!Open(t, b)
  BY Zenon DEF OpenAs, B!Open, Store, Disk, Opened
<1>2. \A v \in Values : ChangeAs(t, v) => B!Change(t, v)
  BY Zenon DEF ChangeAs, B!Change, Store, Disk, Opened
<1>3. SaveAs(t) => B!Save(t)
  BY Zenon DEF SaveAs, B!Save, Store, Disk, Opened
<1>4. CloseAs(t) => B!Close(t)
  BY Zenon DEF CloseAs, B!Close, Store, Disk, Opened
<1>5. QED
  BY <1>1, <1>2, <1>3, <1>4

(* What the store holds of a block: the data of its one valid buffer, or   *)
(* what is on the disk.                                                    *)
Content(c, v) ==
    \/ \E n \in Buffers : bufs[n].block = c /\ bufs[n].valid /\ bufs[n].data = v
    \/ disk[c] = v /\ \A n \in Buffers : bufs[n].block = c => ~ bufs[n].valid

ContentRight == \A c \in Private : \A v : Content(c, v) <=> Store[c] = v

LEMMA StoreIs == CacheInv => ContentRight
<1> SUFFICES ASSUME CacheInv, NEW c \in Private, NEW v PROVE Content(c, v) <=> Store[c] = v
  BY DEF ContentRight
<1>1. CASE Cached(c) = {}
  BY <1>1 DEF Store, Cached, Content
<1>2. CASE Cached(c) # {}
  <2>1. PICK n \in Cached(c) : Store[c] = bufs[n].data
    BY <1>2 DEF Store
  <2>2. \A m \in Cached(c) : m = n
    BY DEF CacheInv, Turned, Cached
  <2>3. QED
    BY <2>1, <2>2 DEF Cached, Content
<1>3. QED
  BY <1>1, <1>2

LEMMA StoreKept ==
  ASSUME CacheInv, CacheInv',
         NEW c \in Private, NEW v, Content(c, v), Content(c, v)'
  PROVE  Store[c] = v /\ Store'[c] = v
<1>1. ContentRight
  BY StoreIs
<1>2. ContentRight'
  BY StoreIs, PTL
<1>3. QED
  BY <1>1, <1>2 DEF ContentRight

(* A task has a block open when it holds it, and then it sees a value.     *)
OpenedRight == \A t \in Tasks :
    /\ Opened[t] # Closed <=> Holding(t)
    /\ Holding(t) => /\ Opened[t].block = bufs[buf[t]].block
                     /\ Opened[t].data = bufs[buf[t]].data
                     /\ buf[t] \in Buffers /\ bufs[buf[t]].valid
                     /\ bufs[buf[t]].block \in Private
                     /\ bufs[buf[t]].data \in Values

LEMMA OpenedIs == CacheInv => OpenedRight
<1> SUFFICES ASSUME CacheInv, NEW t \in Tasks
             PROVE  /\ Opened[t] # Closed <=> Holding(t)
                    /\ Holding(t) => /\ Opened[t].block = bufs[buf[t]].block
                                     /\ Opened[t].data = bufs[buf[t]].data
                                     /\ buf[t] \in Buffers /\ bufs[buf[t]].valid
                                     /\ bufs[buf[t]].block \in Private
                                     /\ bufs[buf[t]].data \in Values
  BY DEF OpenedRight
<1>0. CacheTypeOK /\ Reading /\ Filled
  BY DEF CacheInv
<1>1. CASE Holding(t)
  <2>1. /\ buf[t] \in Buffers /\ bufs[buf[t]].valid /\ bufs[buf[t]].data \in Values
        /\ bufs[buf[t]].block \in Private /\ bufs[buf[t]].block \in Blocks
    BY <1>0, <1>1, Shape DEF Holding, Reading, Filled, Private
  <2>2. Opened[t] = [block |-> bufs[buf[t]].block, data |-> bufs[buf[t]].data]
    BY <1>1 DEF Opened
  <2>3. [block |-> bufs[buf[t]].block, data |-> bufs[buf[t]].data] \in
           [block : Blocks, data : Values]
    BY <2>1
  <2>4. Opened[t] # Closed
    BY <2>2, <2>3, BufferAssumption
  <2>5. QED
    BY <1>1, <2>1, <2>2, <2>4
<1>2. CASE ~ Holding(t)
  BY <1>2 DEF Opened
<1>3. QED
  BY <1>1, <1>2

(* A private block is open in one task at most.                            *)
LEMMA OneOpen ==
  ASSUME CacheInv, NEW t \in Tasks, NEW u \in Tasks, NEW c \in Private,
         Claims(t, c), Holding(u), bufs[buf[u]].block = c
  PROVE  u = t
BY DEF CacheInv, Turned, Claims, Holding

-----------------------------------------------------------------------------
LEMMA StoreSame ==
  ASSUME CacheInv, CacheInv', \A c \in Private : \A v : Content(c, v) => Content(c, v)'
  PROVE  Store' = Store
<1>1. ContentRight
  BY StoreIs
<1>2. ContentRight'
  BY StoreIs, PTL
<1>3. \A c \in Private : Store'[c] = Store[c]
  BY <1>1, <1>2 DEF ContentRight
<1>4. QED
  BY <1>3 DEF Store

\* Task u sees the same as before.
Sees(u) == (Holding(u)' <=> Holding(u))
    /\ (Holding(u) => /\ bufs'[buf'[u]].block = bufs[buf[u]].block
                      /\ bufs'[buf'[u]].data = bufs[buf[u]].data)

LEMMA SeesSame ==
  ASSUME NEW u \in Tasks, Sees(u)
  PROVE  Opened'[u] = Opened[u]
BY DEF Sees, Opened

LEMMA OpenedSame ==
  ASSUME \A u \in Tasks : Sees(u)
  PROVE  Opened' = Opened
<1>1. \A u \in Tasks : Opened'[u] = Opened[u]
  BY SeesSame
<1>2. QED
  BY <1>1 DEF Opened

\* All tasks but t see the same, and t has or loses a block.
LEMMA OpenedOther ==
  ASSUME NEW t \in Tasks, \A u \in Tasks : u # t => Sees(u), NEW e, Opened'[t] = e
  PROVE  Opened' = [Opened EXCEPT ![t] = e]
<1>1. \A u \in Tasks : u # t => Opened'[u] = Opened[u]
  BY SeesSame
<1>2. QED
  BY <1>1 DEF Opened

LEMMA DiskSame == ASSUME disk' = disk PROVE Disk' = Disk
BY DEF Disk

(* Where no header changes what is seen of it, nor the disk, the store     *)
(* stays, and so does what a task sees that does not move.                 *)
LEMMA KeptStore ==
  ASSUME CacheInv, CacheInv', NEW k, Kept(k), k \in Buffers => ~ bufs[k].valid, disk' = disk
  PROVE  Store' = Store /\ Disk' = Disk
<1>1. ASSUME NEW c \in Private, NEW v, Content(c, v) PROVE Content(c, v)'
  BY <1>1 DEF Content, Kept
<1>2. QED
  BY <1>1, StoreSame, DiskSame

LEMMA KeptSees ==
  ASSUME CacheInv, NEW k, Kept(k), NEW u \in Tasks, buf'[u] = buf[u], buf[u] # k,
         buf[u] # 0 => (at'[u] \in {"user", "write", "wrote"} <=>
                        at[u] \in {"user", "write", "wrote"})
  PROVE  Sees(u)
<1>1. buf[u] # 0 => buf[u] \in Buffers
  BY Shape DEF CacheInv
<1>2. buf[u] # 0 => /\ bufs'[buf[u]].block = bufs[buf[u]].block
                    /\ bufs'[buf[u]].data = bufs[buf[u]].data
  BY <1>1 DEF Kept
<1>3. QED
  BY <1>2 DEF Sees, Holding

\* What a step of Buffer is for BlockStore.
Maps == B!Next \/ Same

LEMMA HitMaps ==
  ASSUME CacheInv, NEW t \in Tasks, NEW b \in Blocks, Free(t), May(t, b), Hit(t, b)
  PROVE  Maps
<1>0. /\ CacheTypeOK /\ CacheQueues /\ OpenedRight /\ ContentRight
  BY OpenedIs, StoreIs DEF CacheInv
<1>1. PICK n \in Buffers : n = Found(b) /\ bufs[n].block = b /\ bufs[n].valid
  BY <1>0, FoundIs DEF Hit
<1>2. CacheInv' /\ Kept(0)
  BY HitInv
<1>3. /\ at' = at /\ disk' = disk /\ at[t] = "user" /\ buf[t] = 0 /\ n # 0
      /\ \A u \in Tasks : buf'[u] = IF u = t THEN n ELSE buf[u]
  BY <1>0, <1>1, Shape DEF Hit, Free, CacheTypeOK
<1>4. Store' = Store /\ Disk' = Disk
  BY <1>0, <1>2, <1>3, KeptStore, Shape
<1>5. \A u \in Tasks : u # t => Sees(u)
  <2> SUFFICES ASSUME NEW u \in Tasks, u # t PROVE Sees(u)
    OBVIOUS
  <2>1. CASE buf[u] # 0
    BY <1>2, <1>3, <2>1, KeptSees
  <2>2. CASE buf[u] = 0
    BY <1>3, <2>2 DEF Sees, Holding
  <2>3. QED
    BY <2>1, <2>2
<1>6. bufs'[n].block = b /\ bufs'[n].data = bufs[n].data
  BY <1>0, <1>1, <1>2, Shape DEF Kept
<1>7. CASE b \in Private
  <2>1. Store[b] = bufs[n].data
    BY <1>0, <1>1, <1>7 DEF ContentRight, Content
  <2>2. Opened'[t] = [block |-> b, data |-> Store[b]]
    BY <1>3, <1>6, <1>7, <2>1 DEF Opened, Holding
  <2>3. Opened' = [Opened EXCEPT ![t] = [block |-> b, data |-> Store[b]]]
    BY <1>5, <2>2, OpenedOther
  <2>4. Opened[t] = Closed
    BY <1>3 DEF Opened, Holding
  <2>5. \A u \in Tasks : Opened[u] # Closed => Opened[u].block # b
    <3> SUFFICES ASSUME NEW u \in Tasks, Opened[u] # Closed, Opened[u].block = b
                 PROVE  FALSE
      OBVIOUS
    <3>1. Holding(u) /\ bufs[buf[u]].block = b
      BY <1>0 DEF OpenedRight
    <3>2. u # t /\ Claims(u, b)
      BY <1>3, <3>1 DEF Holding, Claims
    <3>3. QED
      BY <1>7, <3>2 DEF May, Private
  <2>6. OpenAs(t, b)
    BY <1>4, <2>3, <2>4, <2>5 DEF OpenAs
  <2>7. QED
    BY <1>7, <2>6, StoreSteps DEF Maps, B!Next
<1>8. CASE b \notin Private
  <2>1. Sees(t)
    BY <1>3, <1>6, <1>8 DEF Sees, Holding
  <2>2. QED
    BY <1>4, <1>5, <2>1, OpenedSame DEF Maps, Same
<1>9. QED
  BY <1>7, <1>8

(* The steps that leave headers and disk alone.                            *)
LEMMA StillMaps ==
  ASSUME CacheInv, UNCHANGED <<bufs, disk, buf>>,
         \A u \in Tasks : buf[u] # 0 => (at'[u] \in {"user", "write", "wrote"} <=>
                                         at[u] \in {"user", "write", "wrote"})
  PROVE  Maps
<1>1. Store' = Store /\ Disk' = Disk
  BY DEF Store, Disk, Cached, Buffers
<1>2. \A u \in Tasks : Sees(u)
  BY DEF Sees, Holding
<1>3. QED
  BY <1>1, <1>2, OpenedSame DEF Maps, Same

LEMMA HitUnreadMaps == ASSUME CacheInv, NEW b \in Blocks, HitUnread(b) PROVE Maps
BY StillMaps DEF HitUnread, cacheVars, taskVars

LEMMA StartWriteMaps ==
  ASSUME CacheInv, NEW t \in Tasks, NEW leave \in BOOLEAN, StartWrite(t, leave)
  PROVE  Maps
<1>1. \A u \in Tasks : at'[u] = IF u = t THEN "write" ELSE at[u]
  BY DEF CacheInv, CacheTypeOK, StartWrite
<1>2. UNCHANGED <<bufs, disk, buf>> /\ at[t] = "user"
  BY DEF StartWrite, cacheVars, Using
<1>3. QED
  BY <1>1, <1>2, StillMaps

LEMMA AwaitFreeMaps ==
  ASSUME CacheInv, NEW t \in Tasks, NEW b \in Blocks, Asking(t, b), AwaitFree(t, b)
  PROVE  Maps
<1>1. \A u \in Tasks : at'[u] = IF u = t THEN "wait" ELSE at[u]
  BY DEF CacheInv, CacheTypeOK, AwaitFree
<1>2. UNCHANGED <<bufs, disk, buf>> /\ buf[t] = 0
  BY DEF AwaitFree, Asking
<1>3. QED
  BY <1>1, <1>2, StillMaps

(* A new use of a buffer: the block that it held is on the disk.           *)
LEMMA TakenMaps ==
  ASSUME CacheInv, CacheInv', NEW t \in Tasks, NEW b \in Blocks, Asking(t, b),
         NEW n, n \in Idle \/ n \notin Buffers, Taken(t, b, n)
  PROVE  Maps
<1>0. CacheTypeOK /\ Counted /\ Turned /\ Clean
  BY DEF CacheInv
<1>1. /\ n # 0 /\ Users(n) = {} /\ Buffers' = Buffers \cup {n} /\ ~ bufs'[n].valid
      /\ \A m \in Buffers : m # n => bufs'[m] = bufs[m]
  BY DEF Taken, Fresh
<1>2. /\ disk' = disk /\ buf[t] = 0
      /\ \A u \in Tasks : at'[u] = IF u = t THEN "read" ELSE at[u]
      /\ \A u \in Tasks : buf'[u] = IF u = t THEN n ELSE buf[u]
  BY <1>0 DEF Taken, Fill, Asking, CacheTypeOK
<1>3. ASSUME NEW c \in Private, NEW v, Content(c, v) PROVE Content(c, v)'
  <2>1. CASE \E m \in Buffers : m # n /\ bufs[m].block = c /\ bufs[m].valid /\ bufs[m].data = v
    BY <1>1, <2>1 DEF Content
  <2>2. CASE \A m \in Buffers \ {n} : bufs[m].block = c => ~ bufs[m].valid
    <3>1. \A m \in Buffers' : bufs'[m].block = c => ~ bufs'[m].valid
      BY <1>1, <2>2
    <3>2. disk[c] = v
      <4>1. CASE n \in Buffers /\ bufs[n].block = c /\ bufs[n].valid /\ bufs[n].data = v
        <5>1. ~ bufs[n].dirty
          BY <1>0, <4>1 DEF Counted, Idle
        <5>2. QED
          BY <1>0, <4>1, <5>1 DEF Clean
      <4>2. QED
        BY <1>3, <2>2, <4>1 DEF Content
    <3>3. QED
      BY <1>2, <3>1, <3>2 DEF Content
  <2>3. QED
    <3>1. CASE \E m \in Buffers : bufs[m].block = c /\ bufs[m].valid /\ m # n
      <4>1. PICK m \in Buffers : bufs[m].block = c /\ bufs[m].valid /\ m # n
        BY <3>1
      <4>2. bufs[m].data = v
        <5>1. PICK k \in Buffers : bufs[k].block = c /\ bufs[k].data = v
          BY <1>3, <4>1 DEF Content
        <5>2. k = m
          BY <1>0, <4>1, <5>1 DEF Turned
        <5>3. QED
          BY <5>1, <5>2
      <4>3. QED
        BY <2>1, <4>1, <4>2
    <3>2. QED
      BY <2>2, <3>1
<1>4. \A u \in Tasks : Sees(u)
  <2> SUFFICES ASSUME NEW u \in Tasks PROVE Sees(u)
    OBVIOUS
  <2>1. CASE u = t
    BY <1>2, <2>1 DEF Sees, Holding
  <2>2. CASE u # t
    <3>1. buf[u] # n /\ (buf[u] # 0 => buf[u] \in Buffers)
      BY <1>0, <1>1, Shape DEF Users
    <3>2. QED
      BY <1>1, <1>2, <2>2, <3>1 DEF Sees, Holding
  <2>3. QED
    BY <2>1, <2>2
<1>5. QED
  BY <1>2, <1>3, <1>4, StoreSame, DiskSame, OpenedSame DEF Maps, Same

LEMMA GetFreeBufferMaps ==
  ASSUME CacheInv, NEW t \in Tasks, NEW b \in Blocks, Asking(t, b), GetFreeBuffer(t, b)
  PROVE  Maps
<1>1. CacheInv'
  BY GetFreeBufferInv
<1>2. CASE TakeNew(t, b)
  BY <1>1, <1>2, TakeNewInv, TakenMaps
<1>3. CASE TakeFree(t, b)
  BY <1>1, <1>3, TakeFreeInv, TakenMaps
<1>4. CASE AwaitFree(t, b)
  BY <1>4, AwaitFreeMaps
<1>5. QED
  BY <1>2, <1>3, <1>4 DEF GetFreeBuffer

LEMMA ReadTransferMaps == ASSUME CacheInv, NEW t \in Tasks, ReadTransfer(t) PROVE Maps
<1>0. CacheTypeOK /\ CachePhases /\ Reading
  BY DEF CacheInv
<1>1. CacheInv' /\ Kept(buf[t])
  BY ReadTransferInv
<1>2. /\ disk' = disk /\ buf' = buf /\ at[t] = "read"
      /\ \A u \in Tasks : at'[u] = IF u = t THEN "filled" ELSE at[u]
  BY <1>0 DEF ReadTransfer, CacheTypeOK
<1>3. buf[t] \in Buffers /\ buf[t] # 0 /\ ~ bufs[buf[t]].valid
  BY <1>0, <1>2, Shape DEF CachePhases, Reading
<1>4. Store' = Store /\ Disk' = Disk
  BY <1>1, <1>2, <1>3, KeptStore
<1>5. ASSUME NEW u \in Tasks PROVE Sees(u)
  <2>1. CASE u = t
    BY <1>2, <2>1 DEF Sees, Holding
  <2>2. CASE u # t
    <3>1. buf[u] # buf[t]
      BY <1>0, <1>2, <1>3, <2>2 DEF Reading
    <3>2. QED
      BY <1>1, <1>2, <2>2, <3>1, KeptSees
  <2>3. QED
    BY <2>1, <2>2
<1>6. QED
  BY <1>4, <1>5, OpenedSame DEF Maps, Same

(* A block that has been read is open, and what is read is what the store  *)
(* has.                                                                    *)
LEMMA ReadDoneMaps == ASSUME CacheInv, NEW t \in Tasks, ReadDone(t) PROVE Maps
<1>0. CacheTypeOK /\ CachePhases /\ Reading /\ Turned /\ Clean /\ OpenedRight
  BY OpenedIs DEF CacheInv
<1>1. CacheInv' /\ Cleared(bufs', buf[t]) /\ Buffers' = Buffers
  BY ReadDoneInv
<1>2. /\ disk' = disk /\ buf' = buf /\ at[t] = "filled"
      /\ \A u \in Tasks : at'[u] = IF u = t THEN "user" ELSE at[u]
  BY <1>0 DEF ReadDone, CacheTypeOK
<1>3. PICK n \in Buffers : n = buf[t]
  BY <1>0, <1>2, Shape DEF CachePhases
<1>4. n # 0 /\ ~ bufs[n].valid /\ \A u \in Tasks : buf[u] = n => u = t
  BY <1>0, <1>2, <1>3, Shape DEF Reading
<1>5. \A m \in Buffers :
         /\ bufs'[m].block = bufs[m].block /\ bufs'[m].data = bufs[m].data
         /\ m = n => bufs'[m].valid
         /\ m # n => bufs'[m].valid = bufs[m].valid
  BY <1>1, <1>3 DEF Cleared
<1>6. bufs[n].block \in Private => bufs[n].data = disk[bufs[n].block]
  BY <1>0, <1>2, <1>3 DEF Clean
<1>7. ASSUME NEW c \in Private, NEW v, Content(c, v) PROVE Content(c, v)'
  <2>1. CASE bufs[n].block = c
    <3>1. \A m \in Buffers : bufs[m].block = c => m = n
      BY <1>0, <2>1 DEF Turned
    <3>2. disk[c] = v
      BY <1>4, <1>7, <3>1 DEF Content
    <3>3. QED
      BY <1>1, <1>5, <1>6, <2>1, <3>2 DEF Content
  <2>2. CASE bufs[n].block # c
    BY <1>1, <1>2, <1>5, <1>7, <2>2 DEF Content
  <2>3. QED
    BY <2>1, <2>2
<1>8. Store' = Store /\ Disk' = Disk
  BY <1>1, <1>2, <1>7, StoreSame, DiskSame
<1>9. \A u \in Tasks : u # t => Sees(u)
  <2> SUFFICES ASSUME NEW u \in Tasks, u # t PROVE Sees(u)
    OBVIOUS
  <2>1. buf[u] # 0 => buf[u] \in Buffers
    BY <1>0, Shape
  <2>2. QED
    BY <1>2, <1>5, <2>1 DEF Sees, Holding
<1>10. CASE bufs[n].block \in Private
  <2>1. PICK b \in Private : b = bufs[n].block
    BY <1>10
  <2>2. ContentRight'
    BY <1>1, StoreIs, PTL
  <2>3. PICK v : v = bufs[n].data
    OBVIOUS
  <2>a. Content(b, v)'
    BY <1>1, <1>5, <2>1, <2>3 DEF Content
  <2>4. Store[b] = v
    BY <1>8, <2>2, <2>a DEF ContentRight
  <2>5. Opened'[t] = [block |-> b, data |-> Store[b]]
    BY <1>2, <1>3, <1>4, <1>5, <2>1, <2>3, <2>4 DEF Opened, Holding
  <2>6. Opened' = [Opened EXCEPT ![t] = [block |-> b, data |-> Store[b]]]
    BY <1>9, <2>5, OpenedOther
  <2>7. Opened[t] = Closed
    BY <1>2 DEF Opened, Holding
  <2>8. \A u \in Tasks : Opened[u] # Closed => Opened[u].block # b
    <3> SUFFICES ASSUME NEW u \in Tasks, Opened[u] # Closed, Opened[u].block = b
                 PROVE  FALSE
      OBVIOUS
    <3>1. Holding(u) /\ bufs[buf[u]].block = b
      BY <1>0 DEF OpenedRight
    <3>2. Claims(t, b)
      BY <1>3, <1>4, <2>1 DEF Claims
    <3>3. u = t
      BY <3>1, <3>2, OneOpen
    <3>4. QED
      BY <1>2, <3>1, <3>3 DEF Holding
  <2>9. OpenAs(t, b)
    BY <1>8, <2>6, <2>7, <2>8 DEF OpenAs
  <2>10. QED
    BY <2>9, StoreSteps DEF Maps, B!Next
<1>11. CASE bufs[n].block \notin Private
  <2>1. Sees(t)
    BY <1>2, <1>3, <1>5, <1>11 DEF Sees, Holding
  <2>2. QED
    BY <1>8, <1>9, <2>1, OpenedSame DEF Maps, Same
<1>12. QED
  BY <1>10, <1>11

LEMMA WriteStayMaps ==
  ASSUME CacheInv, NEW t \in Tasks, WriteDone(t), ~ leaving[t]
  PROVE  Maps
<1>0. CacheTypeOK /\ CachePhases /\ Reading
  BY DEF CacheInv
<1>1. CacheInv' /\ Cleared(bufs', buf[t]) /\ Buffers' = Buffers
  BY WriteStayInv
<1>2. /\ disk' = disk /\ buf' = buf /\ at[t] = "wrote"
      /\ \A u \in Tasks : at'[u] = IF u = t THEN "user" ELSE at[u]
  BY <1>0 DEF WriteDone, CacheTypeOK
<1>3. PICK n \in Buffers : n = buf[t]
  BY <1>0, <1>2, Shape DEF CachePhases
<1>4. n # 0 /\ bufs[n].valid
  BY <1>0, <1>2, <1>3, Shape DEF Reading
<1>5. \A m \in Buffers :
         /\ bufs'[m].block = bufs[m].block /\ bufs'[m].data = bufs[m].data
         /\ m = n => bufs'[m].valid
         /\ m # n => bufs'[m].valid = bufs[m].valid
  BY <1>1, <1>3 DEF Cleared
<1>6. ASSUME NEW c \in Private, NEW v, Content(c, v) PROVE Content(c, v)'
  BY <1>1, <1>2, <1>4, <1>5, <1>6 DEF Content
<1>7. \A u \in Tasks : Sees(u)
  <2> SUFFICES ASSUME NEW u \in Tasks PROVE Sees(u)
    OBVIOUS
  <2>1. buf[u] # 0 => buf[u] \in Buffers
    BY <1>0, Shape
  <2>2. QED
    BY <1>2, <1>5, <2>1 DEF Sees, Holding
<1>8. QED
  BY <1>1, <1>2, <1>6, <1>7, StoreSame, DiskSame, OpenedSame DEF Maps, Same

(* What the holder of a private buffer writes there, it writes to the      *)
(* store; with a shared one it does nothing that the others can see.       *)
LEMMA ModifyMaps ==
  ASSUME CacheInv, NEW t \in Tasks, NEW v \in Values, Modify(t, v)
  PROVE  Maps
<1>0. CacheTypeOK /\ Reading /\ Turned /\ OpenedRight /\ ContentRight
  BY OpenedIs, StoreIs DEF CacheInv
<1>1. CacheInv' /\ Kept(buf[t]) /\ bufs'[buf[t]].data = v
  BY ModifyInv
<1>2. ContentRight'
  BY <1>1, StoreIs, PTL
<1>3. PICK n \in Buffers : n = buf[t]
  BY <1>0, Shape DEF Modify, Using
<1>4. /\ at' = at /\ buf' = buf /\ disk' = disk
      /\ at[t] = "user" /\ n # 0 /\ bufs[n].valid
  BY <1>0, <1>3, Shape DEF Modify, Using, taskVars, Reading
<1>5. /\ Buffers' = Buffers /\ bufs'[n].data = v
      /\ \A m \in Buffers :
           /\ bufs'[m].block = bufs[m].block /\ bufs'[m].valid = bufs[m].valid
           /\ m # n => bufs'[m].data = bufs[m].data
  BY <1>1, <1>3 DEF Kept
<1>6. ASSUME NEW c \in Private, bufs[n].block # c PROVE Store'[c] = Store[c]
  <2>1. PICK w : w = Store[c]
    OBVIOUS
  <2>2. Content(c, w)
    BY <1>0, <2>1 DEF ContentRight
  <2>3. Content(c, w)'
    BY <1>4, <1>5, <1>6, <2>2 DEF Content
  <2>4. QED
    BY <1>2, <2>1, <2>3 DEF ContentRight
<1>7. Disk' = Disk
  BY <1>4, DiskSame
<1>8. ASSUME NEW u \in Tasks, bufs[n].block \notin Private \/ u # t PROVE Sees(u)
  <2>1. CASE Holding(u)
    <3>1. buf[u] \in Buffers /\ bufs[buf[u]].block \in Private
      BY <1>0, <2>1 DEF OpenedRight
    <3>2. buf[u] # n
      <4>1. SUFFICES ASSUME buf[u] = n PROVE FALSE
        OBVIOUS
      <4>2. Claims(t, bufs[n].block)
        BY <1>3, <1>4 DEF Claims
      <4>3. QED
        BY <1>8, <2>1, <3>1, <4>1, <4>2, OneOpen
    <3>3. QED
      BY <1>4, <1>5, <3>1, <3>2 DEF Sees, Holding
  <2>2. CASE ~ Holding(u)
    <3>1. buf[u] # 0 => buf[u] \in Buffers
      BY <1>0, Shape
    <3>2. QED
      BY <1>4, <1>5, <2>2, <3>1 DEF Sees, Holding
  <2>3. QED
    BY <2>1, <2>2
<1>9. CASE bufs[n].block \in Private
  <2>1. PICK b \in Private : b = bufs[n].block
    BY <1>9
  <2>2. Holding(t)
    BY <1>3, <1>4, <1>9 DEF Holding
  <2>3. Opened[t] = [block |-> b, data |-> bufs[n].data] /\ Opened[t] # Closed
    BY <1>0, <1>3, <2>1, <2>2 DEF Opened, OpenedRight
  <2>4. Opened'[t] = [block |-> b, data |-> v]
    BY <1>3, <1>4, <1>5, <2>1 DEF Opened, Holding
  <2>5. Opened' = [Opened EXCEPT ![t] = [block |-> b, data |-> v]]
    BY <1>8, <2>4, OpenedOther
  <2>6. [Opened EXCEPT ![t].data = v] = [Opened EXCEPT ![t] = [block |-> b, data |-> v]]
    <3>1. [Opened[t] EXCEPT !.data = v] = [block |-> b, data |-> v]
      BY <2>3
    <3>2. QED
      BY <3>1, Zenon
  <2>7. Content(b, v)'
    BY <1>4, <1>5, <2>1 DEF Content
  <2>8. Store'[b] = v
    BY <1>2, <2>7 DEF ContentRight
  <2>9. Store' = [Store EXCEPT ![b] = v]
    <3>1. \A c \in Private : Store'[c] = IF c = b THEN v ELSE Store[c]
      BY <1>6, <2>1, <2>8
    <3>2. QED
      BY <3>1 DEF Store
  <2>10. ChangeAs(t, v)
    BY <1>7, <2>3, <2>5, <2>6, <2>9 DEF ChangeAs
  <2>11. QED
    BY <2>10, StoreSteps DEF Maps, B!Next
<1>10. CASE bufs[n].block \notin Private
  <2>1. \A c \in Private : Store'[c] = Store[c]
    BY <1>6, <1>10
  <2>2. Store' = Store
    BY <2>1 DEF Store
  <2>3. QED
    BY <1>7, <1>8, <1>10, <2>2, OpenedSame DEF Maps, Same
<1>11. QED
  BY <1>9, <1>10

LEMMA WriteTransferMaps == ASSUME CacheInv, NEW t \in Tasks, WriteTransfer(t) PROVE Maps
<1>0. CacheTypeOK /\ CachePhases /\ Reading /\ OpenedRight
  BY OpenedIs DEF CacheInv
<1>1. PICK n \in Buffers : n = buf[t]
  BY <1>0, Shape DEF WriteTransfer, CachePhases
<1>2. /\ bufs' = bufs /\ buf' = buf /\ Buffers' = Buffers
      /\ at[t] = "write" /\ n # 0 /\ bufs[n].valid
      /\ \A u \in Tasks : at'[u] = IF u = t THEN "wrote" ELSE at[u]
  BY <1>0, <1>1, Shape DEF WriteTransfer, cacheVars, CacheTypeOK, Buffers, Reading
<1>3. \A c \in Blocks : disk'[c] = IF c = bufs[n].block THEN bufs[n].data ELSE disk[c]
  BY <1>0, <1>1 DEF WriteTransfer, CacheTypeOK
<1>4. CacheInv'
  BY WriteTransferInv
<1>5. ASSUME NEW c \in Private, NEW v, Content(c, v) PROVE Content(c, v)'
  <2>1. CASE c = bufs[n].block
    BY <1>2, <1>5, <2>1 DEF Content
  <2>2. CASE c # bufs[n].block
    BY <1>2, <1>3, <1>5, <2>2 DEF Content, Private
  <2>3. QED
    BY <2>1, <2>2
<1>6. Store' = Store
  BY <1>4, <1>5, StoreSame
<1>7. \A u \in Tasks : Sees(u)
  BY <1>2 DEF Sees, Holding
<1>8. Opened' = Opened
  BY <1>7, OpenedSame
<1>9. CASE bufs[n].block \in Private
  <2>1. Holding(t)
    BY <1>1, <1>2, <1>9 DEF Holding
  <2>2. /\ Opened[t] # Closed
        /\ Opened[t].block = bufs[n].block /\ Opened[t].data = bufs[n].data
    BY <1>0, <1>1, <2>1 DEF OpenedRight
  <2>3. Disk' = [Disk EXCEPT ![Opened[t].block] = Opened[t].data]
    BY <1>3, <1>9, <2>2 DEF Disk, Private
  <2>4. SaveAs(t)
    BY <1>6, <1>8, <2>2, <2>3 DEF SaveAs
  <2>5. QED
    BY <2>4, StoreSteps DEF Maps, B!Next
<1>10. CASE bufs[n].block \notin Private
  <2>1. Disk' = Disk
    BY <1>3, <1>10 DEF Disk, Private
  <2>2. QED
    BY <1>6, <1>8, <2>1 DEF Maps, Same
<1>11. QED
  BY <1>9, <1>10

(* A block is closed when it is on the disk.                               *)
LEMMA PutMaps ==
  ASSUME CacheInv, NEW t \in Tasks, NEW now, Leaves(now, t), Put(t, now)
  PROVE  Maps
<1>0. CacheTypeOK /\ OpenedRight
  BY OpenedIs DEF CacheInv
<1>1. /\ CacheInv' /\ Kept(0)
      /\ \A u \in Tasks : u # t =>
           at'[u] = at[u] \/ (at[u] = "wait" /\ at'[u] = "turn")
  BY PutInv
<1>2. /\ disk' = disk /\ at[t] \in {"user", "wrote"} /\ buf[t] # 0
      /\ \A u \in Tasks : buf'[u] = IF u = t THEN 0 ELSE buf[u]
  BY <1>0 DEF Put, Leaves, CacheTypeOK
<1>3. Store' = Store /\ Disk' = Disk
  BY <1>0, <1>1, <1>2, KeptStore, Shape
<1>4. ASSUME NEW u \in Tasks, u # t PROVE Sees(u)
  <2>1. CASE buf[u] # 0
    <3>1. at'[u] \in {"user", "write", "wrote"} <=> at[u] \in {"user", "write", "wrote"}
      BY <1>1, <1>4
    <3>2. QED
      BY <1>1, <1>2, <1>4, <2>1, <3>1, KeptSees
  <2>2. CASE buf[u] = 0
    BY <1>2, <1>4, <2>2 DEF Sees, Holding
  <2>3. QED
    BY <2>1, <2>2
<1>5. CASE bufs[buf[t]].block \in Private
  <2>1. Holding(t)
    BY <1>2, <1>5 DEF Holding
  <2>2. /\ Opened[t] # Closed
        /\ Opened[t].block = bufs[buf[t]].block /\ Opened[t].data = bufs[buf[t]].data
    BY <1>0, <2>1 DEF OpenedRight
  <2>3. Disk[Opened[t].block] = Opened[t].data
    BY <1>5, <2>2 DEF Leaves, Disk
  <2>4. Opened'[t] = Closed
    BY <1>2 DEF Opened, Holding
  <2>5. Opened' = [Opened EXCEPT ![t] = Closed]
    BY <1>4, <2>4, OpenedOther
  <2>6. CloseAs(t)
    BY <1>3, <2>2, <2>3, <2>5 DEF CloseAs
  <2>7. QED
    BY <2>6, StoreSteps DEF Maps, B!Next
<1>6. CASE bufs[buf[t]].block \notin Private
  <2>1. Sees(t)
    BY <1>2, <1>6 DEF Sees, Holding
  <2>2. QED
    BY <1>3, <1>4, <2>1, OpenedSame DEF Maps, Same
<1>7. QED
  BY <1>5, <1>6

LEMMA StepMaps == ASSUME CacheInv, CacheNext PROVE Maps
<1>1. PICK t \in Tasks :
        \/ \E b \in Blocks : Bread(t, b)
        \/ BreadAgain(t)
        \/ ReadTransfer(t)
        \/ ReadDone(t)
        \/ \E v \in Values : Modify(t, v)
        \/ BwriteDirty(t)
        \/ Brelse(t)
        \/ WriteTransfer(t)
        \/ WriteDone(t)
  BY DEF CacheNext
<1>2. ASSUME NEW b \in Blocks, Bread(t, b) PROVE Maps
  <2>1. Free(t) /\ May(t, b)
    BY <1>2 DEF Bread
  <2>2. CASE Hit(t, b)
    BY <2>1, <2>2, HitMaps
  <2>3. CASE HitUnread(b)
    BY <2>3, HitUnreadMaps
  <2>4. CASE FoundFor(b) = {} /\ GetFreeBuffer(t, b)
    BY <2>1, <2>4, BreadAsks, GetFreeBufferMaps
  <2>5. QED
    BY <1>2, <2>2, <2>3, <2>4 DEF Bread
<1>3. ASSUME BreadAgain(t) PROVE Maps
  BY <1>3, AgainAsks, GetFreeBufferMaps DEF BreadAgain
<1>4. ASSUME NEW v \in Values, Modify(t, v) PROVE Maps
  BY <1>4, ModifyMaps
<1>5. ASSUME BwriteDirty(t) PROVE Maps
  BY <1>5, StartWriteMaps DEF BwriteDirty
<1>6. ASSUME Brelse(t) PROVE Maps
  <2>1. CASE StartWrite(t, TRUE)
    BY <2>1, StartWriteMaps
  <2>2. CASE Using(t) /\ ~ bufs[buf[t]].dirty /\ Put(t, bufs)
    BY <2>2, CleanLeaves, PutMaps
  <2>3. QED
    BY <1>6, <2>1, <2>2 DEF Brelse
<1>7. ASSUME WriteDone(t) PROVE Maps
  <2>1. CASE leaving[t]
    <3>1. PICK now : now = [bufs EXCEPT ![buf[t]].dirty = FALSE, ![buf[t]].valid = TRUE]
      OBVIOUS
    <3>2. at[t] = "wrote" /\ Put(t, now)
      BY <1>7, <2>1, <3>1 DEF WriteDone
    <3>3. buf[t] \in Buffers
      BY <3>2, Shape DEF CacheInv, CachePhases
    <3>4. Cleared(now, buf[t])
      BY <3>1, <3>3, ClearedIs DEF CacheInv
    <3>5. QED
      BY <3>2, <3>4, WroteLeaves, PutMaps
  <2>2. CASE ~ leaving[t]
    BY <1>7, <2>2, WriteStayMaps
  <2>3. QED
    BY <2>1, <2>2
<1>8. QED
  BY <1>1, <1>2, <1>3, <1>4, <1>5, <1>6, <1>7,
     ReadTransferMaps, ReadDoneMaps, WriteTransferMaps

LEMMA InitMaps == CacheInit => B!Init
<1> SUFFICES ASSUME CacheInit PROVE B!Init
  OBVIOUS
<1>1. PICK v \in Values : disk = [b \in Blocks |-> v]
  BY DEF CacheInit
<1>2. Buffers = {} /\ \A t \in Tasks : buf[t] = 0
  BY DEF CacheInit, Buffers
<1>3. \A c \in Private : Cached(c) = {} /\ disk[c] \in Values
  BY <1>1, <1>2 DEF Cached, Private
<1>4. Store \in [Private -> Values] /\ Disk = Store
  BY <1>3 DEF Store, Disk
<1>5. Opened = [t \in Tasks |-> Closed]
  BY <1>2 DEF Opened, Holding
<1>6. QED
  BY <1>4, <1>5 DEF B!Init, Store, Disk, Opened

(* For those who take turns with a block there is no cache: they find what *)
(* the one before has left, and what was given back is on the disk.        *)
THEOREM BufferImplementsStore == CacheSpec => StoreSpec
<1>1. CacheInv /\ [CacheNext]_bufferVars => Maps
  <2>1. ASSUME UNCHANGED bufferVars PROVE Same
    BY <2>1 DEF bufferVars, cacheVars, taskVars, Same, Store, Disk, Opened, Cached, Holding, Buffers
  <2>2. QED
    BY <2>1, StepMaps DEF Maps
<1>2. Maps => [B!Next]_<<Store, Disk, Opened>>
  BY DEF Maps, Same
<1>3. QED
  BY <1>1, <1>2, InitMaps, CacheInvariance, PTL DEF CacheSpec, StoreSpec, B!Spec

=============================================================================
