-------------------------- MODULE SchedulerProofs ---------------------------
(***************************************************************************)
(* Proofs about Scheduler.tla, for any number of tasks, any priorities,    *)
(* any lengths of sleep and any bound on the clock.                        *)
(***************************************************************************)
EXTENDS Scheduler, DataLemmas

-----------------------------------------------------------------------------
(* The scan of taskSearch satisfies the recursion that defines it.         *)
LEMMA ScanUnfold ==
  ASSUME NEW st, NEW tk
  PROVE  \A i \in 0 .. NrTasks : Scan(st, tk)[i] =
            IF i = 0 THEN None
            ELSE IF /\ Candidate(st, i - 1)
                    /\ Scan(st, tk)[i - 1] # None =>
                          \/ tk[Scan(st, tk)[i - 1]] < tk[i - 1]
                          \/ lastRun[i - 1] < lastRun[Scan(st, tk)[i - 1]]
                 THEN i - 1
                 ELSE Scan(st, tk)[i - 1]
<1> DEFINE B == 0 .. NrTasks + 1
           take(t, b) == /\ Candidate(st, t)
                         /\ b # None => tk[b] < tk[t] \/ lastRun[t] < lastRun[b]
           step == [t \in 0 .. NrTasks - 1 |->
                       [b \in B |-> IF take(t, b) THEN t ELSE b]]
           body(f) == [i \in 0 .. NrTasks |->
                          IF i = 0 THEN None
                          ELSE IF take(i - 1, f[i - 1]) THEN i - 1 ELSE f[i - 1]]
<1>1. NrTasks \in Nat /\ None \in B
  BY SchedulerAssumption DEF None
<1>2. step \in [0 .. NrTasks - 1 -> [B -> B]]
  BY <1>1
<1>3. PICK f : Recursion(f, NrTasks, B, None, step)
  <2> HIDE DEF step, B
  <2> QED BY <1>1, <1>2, RecursionTo, Zenon
<1>4. \A i \in 0 .. NrTasks :
         f[i] = IF i = 0 THEN None
                ELSE IF take(i - 1, f[i - 1]) THEN i - 1 ELSE f[i - 1]
  <2> TAKE i \in 0 .. NrTasks
  <2>1. CASE i = 0
    BY <2>1, <1>3 DEF Recursion
  <2>2. CASE i # 0
    <3>1. i - 1 \in 0 .. NrTasks - 1 /\ i - 1 \in 0 .. NrTasks /\ f[i - 1] \in B
      BY <2>2, <1>1, <1>3 DEF Recursion
    <3> HIDE DEF take, B
    <3>2. step[i - 1][f[i - 1]] = IF take(i - 1, f[i - 1]) THEN i - 1 ELSE f[i - 1]
      BY <3>1
    <3> HIDE DEF step
    <3>3. f[i] = step[i - 1][f[i - 1]]
      BY <2>2, <1>3 DEF Recursion
    <3> QED BY <2>2, <3>2, <3>3
  <2> QED BY <2>1, <2>2
<1>5. f = body(f)
  <2> HIDE DEF take, step, B
  <2> QED BY <1>3, <1>4 DEF Recursion
<1>6. Scan(st, tk) = CHOOSE g : g = body(g)
  BY Zenon DEF Scan
<1>7. Scan(st, tk) = body(Scan(st, tk))
  <2> HIDE DEF body
  <2> QED BY <1>5, <1>6
<1>8. QED
  <2> DEFINE s == Scan(st, tk)
  <2>1. s = body(s)
    BY <1>7
  <2> HIDE DEF s, take
  <2>2. \A i \in 0 .. NrTasks : s[i] =
            IF i = 0 THEN None
            ELSE IF take(i - 1, s[i - 1]) THEN i - 1 ELSE s[i - 1]
    BY <2>1
  <2> QED BY <2>2, Zenon DEF s, take

(* The scan finds a candidate among the slots it has seen if there is one. *)
LEMMA ScanFinds ==
  ASSUME NEW st, NEW tk
  PROVE  \A i \in 0 .. NrTasks :
            LET seen == {t \in 0 .. i - 1 : Candidate(st, t)}
            IN  \/ Scan(st, tk)[i] \in seen
                \/ Scan(st, tk)[i] = None /\ seen = {}
<1> DEFINE s == Scan(st, tk)
           good(i) == \/ s[i] \in {t \in 0 .. i - 1 : Candidate(st, t)}
                      \/ s[i] = None /\ {t \in 0 .. i - 1 : Candidate(st, t)} = {}
           S == {i \in 0 .. NrTasks : good(i)}
<1>1. NrTasks \in Nat
  BY SchedulerAssumption
<1> HIDE DEF s
<1>2. \A i \in 0 .. NrTasks :
         \/ i = 0 /\ s[i] = None
         \/ i # 0 /\ Candidate(st, i - 1) /\ s[i] = i - 1
         \/ i # 0 /\ s[i] = s[i - 1] /\ (s[i - 1] = None => ~ Candidate(st, i - 1))
  BY ScanUnfold, Zenon DEF s
<1>3. 0 \in S
  BY <1>1, <1>2
<1>4. ASSUME NEW i \in 0 .. NrTasks - 1, i \in S
      PROVE  i + 1 \in S
  <2>1. i + 1 \in 0 .. NrTasks /\ i + 1 # 0 /\ (i + 1) - 1 = i
    BY <1>1
  <2>2. \A t : t \in 0 .. (i + 1) - 1 <=> t \in 0 .. i - 1 \/ t = i
    BY <1>1
  <2>3. good(i)
    BY <1>4
  <2>4. \/ Candidate(st, i) /\ s[i + 1] = i
        \/ s[i + 1] = s[i] /\ (s[i] = None => ~ Candidate(st, i))
    BY <1>2, <2>1
  <2>5. CASE Candidate(st, i) /\ s[i + 1] = i
    BY <2>1, <2>2, <2>5
  <2>6. CASE s[i + 1] = s[i] /\ (s[i] = None => ~ Candidate(st, i))
    <3>1. i - 1 < None /\ None \in Nat
      BY <1>1 DEF None
    <3>2. CASE s[i] = None
      BY <2>1, <2>2, <2>3, <2>6, <3>1, <3>2
    <3>3. CASE s[i] # None
      BY <2>1, <2>2, <2>3, <2>6, <3>3
    <3> QED BY <3>2, <3>3
  <2>7. QED
    BY <2>4, <2>5, <2>6
<1>5. 0 .. NrTasks \subseteq S
  <2> HIDE DEF S
  <2> QED BY <1>1, <1>3, <1>4, InductionTo
<1>6. QED
  BY <1>5 DEF s

(* taskSearch returns a ready task other than the current one if there is  *)
(* one, and the idle task otherwise.                                       *)
LEMMA SearchResult ==
  ASSUME NEW st, NEW tk
  PROVE  LET ready == {t \in Threads : Candidate(st, t)}
         IN  TaskSearch(st, tk) \in IF ready = {} THEN {Idle} ELSE ready
<1>1. NrTasks \in Nat /\ NrTasks \in 0 .. NrTasks /\ None \notin Threads
  BY SchedulerAssumption DEF None, Threads
<1>2. \/ Scan(st, tk)[NrTasks] \in {t \in Threads : Candidate(st, t)}
      \/ Scan(st, tk)[NrTasks] = None /\ {t \in Threads : Candidate(st, t)} = {}
  BY <1>1, ScanFinds DEF Threads
<1>3. QED
  BY <1>1, <1>2 DEF TaskSearch

-----------------------------------------------------------------------------
(* listInsertSort always finds a place, with nothing greater before it and *)
(* the first greater key after it.                                         *)
LEMMA InsertionPointFound ==
  ASSUME TypeOK, NEW key \in Nat
  PROVE  LET p == InsertionPoint(key)
         IN  /\ p \in 1 .. Len(sleepList) + 1
             /\ \A i \in 1 .. p - 1 : ticks[sleepList[i]] <= key
             /\ p <= Len(sleepList) => ticks[sleepList[p]] > key
<1> DEFINE L == Len(sleepList)
           T == {p \in 1 .. L + 1 : p <= L => ticks[sleepList[p]] > key}
<1>1. L \in Nat /\ \A i \in 1 .. L : ticks[sleepList[i]] \in Int
  BY DEF TypeOK
<1>2. T \in SUBSET Nat /\ T # {}
  <2>1. L + 1 \in T
    BY <1>1
  <2> QED BY <2>1, <1>1
<1>3. PICK m \in T : \A k \in T : m <= k
  <2> HIDE DEF T
  <2> QED BY <1>2, LeastNat
<1>4. \A i \in 1 .. m - 1 : ticks[sleepList[i]] <= key
  <2> TAKE i \in 1 .. m - 1
  <2>1. i \in 1 .. L /\ i \notin T
    BY <1>3, <1>1
  <2> QED BY <2>1, <1>1
<1>5. \E p \in 1 .. Len(sleepList) + 1 :
         /\ \A i \in 1 .. p - 1 : ticks[sleepList[i]] <= key
         /\ p <= Len(sleepList) => ticks[sleepList[p]] > key
  BY <1>4
<1>6. QED
  BY <1>5, Zenon DEF InsertionPoint

-----------------------------------------------------------------------------
(* The invariant: the properties of Scheduler.tla need each other, and the *)
(* fact that the idle task never leaves the processor but to be ready.     *)
IdleRunnable == state[Idle] \in {"READY", "RUNNING"}

IInv ==
    /\ TypeOK
    /\ SoleRunner
    /\ IdleRunnable
    /\ SleepListed
    /\ SleepOrdered
    /\ NoOversleep
    /\ SliceBounded

\* What WokenOnTime says of a step.
OnTime ==
    \A t \in Threads : state[t] = "SLEEPING" /\ state'[t] # "SLEEPING"
        => jiffies = ticks[t] /\ jiffies' = jiffies + 1

(* schedule(), from any table in which no task but the current one may be  *)
(* running: who runs next, and what becomes of the states and the ticks.   *)
LEMMA ScheduleEffect ==
  ASSUME NEW st \in [Threads -> States], NEW tk \in [Threads -> Int],
         \A t \in Threads : st[t] = "RUNNING" => t = current,
         st[Idle] = "READY" \/ st[Idle] = "RUNNING",
         Schedule(st, tk)
  PROVE  /\ current' \in Threads
         /\ st[current'] \in {"READY", "RUNNING"}
         /\ state' \in [Threads -> States]
         /\ ticks' \in [Threads -> Int]
         /\ \A t \in Threads : state'[t] = "RUNNING" <=> t = current'
         /\ \A t \in Threads : state'[t] = "SLEEPING" <=> st[t] = "SLEEPING"
         /\ state'[Idle] \in {"READY", "RUNNING"}
         /\ \A t \in Threads :
               ticks'[t] = IF t = current /\ tk[t] = 0 THEN Priority[t] ELSE tk[t]
<1> DEFINE ready == {t \in Threads : Candidate(st, t)}
<1>1. Idle \in Threads /\ Priority \in [Threads -> Int]
  BY SchedulerAssumption DEF Idle, Threads
<1>2. current' \in IF ready = {} THEN {Idle} ELSE ready
  BY SearchResult, Zenon DEF Schedule
<1>3. current' \in Threads /\ st[current'] \in {"READY", "RUNNING"}
  BY <1>1, <1>2 DEF Candidate
<1>4. state' = [t \in Threads |->
                  IF t = current' THEN "RUNNING"
                  ELSE IF t = current /\ st[t] = "RUNNING" THEN "READY"
                  ELSE st[t]]
  BY DEF Schedule, Switched
<1>5. \A t \in Threads : st[t] \in States
  OBVIOUS
<1>6. state' \in [Threads -> States]
  BY <1>4, <1>5 DEF States
<1>7. \A t \in Threads : state'[t] = "RUNNING" <=> t = current'
  BY <1>4
<1>8. \A t \in Threads : state'[t] = "SLEEPING" <=> st[t] = "SLEEPING"
  BY <1>3, <1>4
<1>9. state'[Idle] \in {"READY", "RUNNING"}
  BY <1>1, <1>4
<1>10. ticks' = [t \in Threads |->
                   IF t = current /\ tk[t] = 0 THEN Priority[t] ELSE tk[t]]
  BY DEF Schedule
<1>11. ticks' \in [Threads -> Int]
  BY <1>1, <1>10
<1>12. QED
  BY <1>3, <1>6, <1>7, <1>8, <1>9, <1>10, <1>11

-----------------------------------------------------------------------------
LEMMA InitIInv == Init => IInv
<1> SUFFICES ASSUME Init PROVE IInv
  OBVIOUS
<1> USE SchedulerAssumption DEF Init
<1>1. Idle \in Threads /\ Boot \notin Threads
  BY DEF Idle, Boot, Threads
<1>2. TypeOK
  BY DEF TypeOK, States
<1>3. SoleRunner /\ IdleRunnable
  BY <1>1 DEF SoleRunner, IdleRunnable
<1>4. SleepListed /\ SleepOrdered
  BY DEF SleepListed, SleepOrdered, Contains
<1>5. NoOversleep /\ SliceBounded
  BY DEF NoOversleep, SliceBounded
<1>6. QED
  BY <1>2, <1>3, <1>4, <1>5 DEF IInv

\* The parts of the invariant that only speak of states, ticks and the list,
\* in the form in which the steps use them.
LEMMA RunnerFacts ==
  ASSUME IInv
  PROVE  /\ Idle \in Threads /\ Boot \notin Threads
         /\ state \in [Threads -> States] /\ ticks \in [Threads -> Int]
         /\ \A t \in Threads : state[t] = "RUNNING" => t = current
         /\ current # Boot => current \in Threads /\ state[current] = "RUNNING"
         /\ state[Idle] = "READY" \/ state[Idle] = "RUNNING"
<1>1. Idle \in Threads /\ Boot \notin Threads
  BY SchedulerAssumption DEF Idle, Boot, Threads
<1>2. QED
  BY <1>1 DEF IInv, TypeOK, SoleRunner, IdleRunnable

(* A schedule() that leaves the clock and the sleepers alone.              *)
LEMMA PlainSchedule ==
  ASSUME IInv, current # Boot,
         NEW st \in [Threads -> States],
         \A t \in Threads : st[t] = "RUNNING" => t = current,
         st[Idle] = "READY" \/ st[Idle] = "RUNNING",
         \A t \in Threads : st[t] = "SLEEPING" <=> state[t] = "SLEEPING",
         Schedule(st, ticks),
         UNCHANGED <<lastRun, jiffies, sleepList>>
  PROVE  IInv' /\ OnTime
<1>1. /\ Idle \in Threads /\ Boot \notin Threads
      /\ ticks \in [Threads -> Int]
      /\ current \in Threads /\ state[current] = "RUNNING"
  BY RunnerFacts
<1>2. /\ current' \in Threads
      /\ state' \in [Threads -> States]
      /\ ticks' \in [Threads -> Int]
      /\ \A t \in Threads : state'[t] = "RUNNING" <=> t = current'
      /\ \A t \in Threads : state'[t] = "SLEEPING" <=> state[t] = "SLEEPING"
      /\ state'[Idle] \in {"READY", "RUNNING"}
      /\ \A t \in Threads :
            ticks'[t] = IF t = current /\ ticks[t] = 0 THEN Priority[t] ELSE ticks[t]
  BY <1>1, ScheduleEffect
<1>3. \A t \in Threads : state[t] = "SLEEPING" => ticks'[t] = ticks[t]
  BY <1>1, <1>2
<1>4. TypeOK'
  BY <1>2 DEF IInv, TypeOK
<1>5. SoleRunner' /\ IdleRunnable'
  BY <1>1, <1>2 DEF SoleRunner, IdleRunnable
<1>6. SleepListed'
  BY <1>2 DEF IInv, SleepListed, Contains
<1>7. SleepOrdered'
  <2>1. \A i \in DOMAIN sleepList : ticks'[sleepList[i]] = ticks[sleepList[i]]
    <3>1. ASSUME NEW i \in DOMAIN sleepList
          PROVE  sleepList[i] \in Threads /\ Contains(sleepList, sleepList[i])
      BY <3>1 DEF IInv, TypeOK, Contains
    <3>2. \A t \in Threads : Contains(sleepList, t) => ticks'[t] = ticks[t]
      BY <1>3 DEF IInv, SleepListed
    <3>3. QED
      BY <3>1, <3>2
  <2>2. QED
    BY <1>2, <2>1 DEF IInv, SleepOrdered
<1>8. NoOversleep'
  BY <1>2, <1>3 DEF IInv, NoOversleep
<1>9. SliceBounded'
  <2>1. \A t \in Threads : Priority[t] \in Int
    BY SchedulerAssumption
  <2>2. QED
    BY <1>2, <2>1 DEF IInv, SliceBounded
<1>10. OnTime
  BY <1>2 DEF OnTime
<1>11. QED
  BY <1>4, <1>5, <1>6, <1>7, <1>8, <1>9, <1>10 DEF IInv

LEMMA YieldStep ==
  ASSUME IInv, Yield
  PROVE  IInv' /\ OnTime
<1>1. QED
  BY RunnerFacts, PlainSchedule DEF Yield

LEMMA BlockStep ==
  ASSUME IInv, Block
  PROVE  IInv' /\ OnTime
<1> DEFINE st == [state EXCEPT ![current] = "BLOCKED"]
<1>1. /\ current \in Threads \ {Idle} /\ current # Boot /\ Idle \in Threads
      /\ state \in [Threads -> States] /\ state[current] = "RUNNING"
      /\ \A t \in Threads : state[t] = "RUNNING" => t = current
      /\ state[Idle] = "READY" \/ state[Idle] = "RUNNING"
  BY RunnerFacts DEF Block, Worker
<1>2. Schedule(st, ticks) /\ UNCHANGED <<lastRun, jiffies, sleepList>>
  BY DEF Block
<1>3. /\ st \in [Threads -> States]
      /\ \A t \in Threads : st[t] = IF t = current THEN "BLOCKED" ELSE state[t]
  BY <1>1 DEF States
<1> HIDE DEF st
<1>4. /\ \A t \in Threads : st[t] = "RUNNING" => t = current
      /\ st[Idle] = "READY" \/ st[Idle] = "RUNNING"
      /\ \A t \in Threads : st[t] = "SLEEPING" <=> state[t] = "SLEEPING"
  BY <1>1, <1>3
<1>5. QED
  BY <1>1, <1>2, <1>3, <1>4, PlainSchedule

LEMMA UnblockStep ==
  ASSUME IInv, NEW t \in Threads, Unblock(t)
  PROVE  IInv' /\ OnTime
<1>1. /\ state[t] = "BLOCKED"
      /\ state' = [state EXCEPT ![t] = "READY"]
      /\ UNCHANGED <<current, ticks, lastRun, jiffies, sleepList>>
  BY DEF Unblock
<1>2. /\ state' \in [Threads -> States]
      /\ \A u \in Threads : state'[u] = IF u = t THEN "READY" ELSE state[u]
  BY <1>1 DEF IInv, TypeOK, States
<1>3. TypeOK'
  BY <1>1, <1>2 DEF IInv, TypeOK
<1>4. SoleRunner' /\ IdleRunnable'
  <2>1. Idle \in Threads
    BY RunnerFacts
  <2>2. QED
    BY <1>1, <1>2, <2>1 DEF IInv, SoleRunner, IdleRunnable
<1>5. SleepListed' /\ SleepOrdered'
  BY <1>1, <1>2 DEF IInv, SleepListed, SleepOrdered, Contains
<1>6. NoOversleep' /\ SliceBounded'
  BY <1>1, <1>2 DEF IInv, NoOversleep, SliceBounded
<1>7. OnTime
  BY <1>1, <1>2 DEF OnTime
<1>8. QED
  BY <1>3, <1>4, <1>5, <1>6, <1>7 DEF IInv

LEMMA SleepStep ==
  ASSUME IInv, NEW ms \in Millis, Sleep(ms)
  PROVE  IInv' /\ OnTime
<1> DEFINE nap == IF ms \div Jiffy > 0 THEN ms \div Jiffy ELSE 1
           deadline == jiffies + nap
           p == InsertionPoint(deadline)
           st == [state EXCEPT ![current] = "SLEEPING"]
           tk == [ticks EXCEPT ![current] = deadline]
<1>1. /\ jiffies \in Nat /\ deadline \in Nat /\ deadline > jiffies
      /\ deadline \in Int /\ deadline # 0
  <2>1. jiffies \in Nat /\ ms \in Nat /\ Jiffy \in Nat \ {0}
    BY SchedulerAssumption DEF IInv, TypeOK
  <2>2. ms \div Jiffy \in Int
    BY <2>1
  <2>3. nap \in Nat /\ nap > 0
    BY <2>2
  <2>4. QED
    BY <2>1, <2>3
<1>2. /\ Idle \in Threads /\ Boot \notin Threads
      /\ current \in Threads \ {Idle} /\ state[current] = "RUNNING"
      /\ state \in [Threads -> States] /\ ticks \in [Threads -> Int]
      /\ \A t \in Threads : state[t] = "RUNNING" => t = current
      /\ state[Idle] = "READY" \/ state[Idle] = "RUNNING"
  BY RunnerFacts DEF Sleep, Worker
<1>3. /\ sleepList' = InsertAt(sleepList, p, current)
      /\ Schedule(st, tk)
      /\ UNCHANGED <<lastRun, jiffies>>
  BY DEF Sleep
<1> HIDE DEF deadline, p
<1>4. /\ st \in [Threads -> States] /\ tk \in [Threads -> Int]
      /\ \A t \in Threads : st[t] = IF t = current THEN "SLEEPING" ELSE state[t]
      /\ \A t \in Threads : tk[t] = IF t = current THEN deadline ELSE ticks[t]
  BY <1>1, <1>2 DEF States
<1> HIDE DEF st, tk
<1>5. /\ \A t \in Threads : st[t] = "RUNNING" => t = current
      /\ st[Idle] = "READY" \/ st[Idle] = "RUNNING"
  BY <1>2, <1>4
<1>6. /\ current' \in Threads
      /\ state' \in [Threads -> States]
      /\ ticks' \in [Threads -> Int]
      /\ \A t \in Threads : state'[t] = "RUNNING" <=> t = current'
      /\ \A t \in Threads : state'[t] = "SLEEPING" <=> st[t] = "SLEEPING"
      /\ state'[Idle] \in {"READY", "RUNNING"}
      /\ \A t \in Threads :
            ticks'[t] = IF t = current /\ tk[t] = 0 THEN Priority[t] ELSE tk[t]
  BY <1>3, <1>4, <1>5, ScheduleEffect
<1>7. \A t \in Threads : ticks'[t] = IF t = current THEN deadline ELSE ticks[t]
  BY <1>1, <1>4, <1>6
<1>8. \A t \in Threads :
         state'[t] = "SLEEPING" <=> t = current \/ state[t] = "SLEEPING"
  BY <1>4, <1>6
<1>9. /\ sleepList \in Seq(Threads)
      /\ p \in 1 .. Len(sleepList) + 1
      /\ \A i \in 1 .. p - 1 : ticks[sleepList[i]] <= deadline
      /\ p <= Len(sleepList) => ticks[sleepList[p]] > deadline
  BY <1>1, InsertionPointFound DEF IInv, TypeOK, p
<1>10. /\ sleepList' \in Seq(Threads)
       /\ Len(sleepList') = Len(sleepList) + 1
       /\ \A i \in 1 .. Len(sleepList) + 1 : sleepList'[i] =
             IF i < p THEN sleepList[i]
             ELSE IF i = p THEN current ELSE sleepList[i - 1]
  <2>1. Inserted(InsertAt(sleepList, p, current), Threads, sleepList, p, current)
    <3>1. current \in Threads
      BY <1>2
    <3>2. QED
      BY <3>1, <1>9, InsertAtShape, Zenon
  <2>2. QED
    BY <1>3, <2>1 DEF Inserted
<1>11. /\ \A i \in 1 .. Len(sleepList) :
             sleepList[i] \in Threads /\ sleepList[i] # current
       /\ Len(sleepList) \in Nat /\ p \in Nat
  BY <1>2, <1>9 DEF IInv, SleepListed, Contains
<1>12. TypeOK'
  BY <1>3, <1>6, <1>10 DEF IInv, TypeOK
<1>13. SoleRunner' /\ IdleRunnable'
  BY <1>2, <1>6 DEF SoleRunner, IdleRunnable
<1>14. SleepListed'
  <2>1. ASSUME NEW t \in Threads
        PROVE  state'[t] = "SLEEPING" <=> Contains(sleepList', t)
    <3>1. Contains(sleepList', t) <=> t = current \/ Contains(sleepList, t)
      <4>1. ASSUME t = current PROVE Contains(sleepList', t)
        <5>1. sleepList'[p] = t /\ p \in 1 .. Len(sleepList')
          BY <4>1, <1>9, <1>10, <1>11
        <5>2. QED
          BY <5>1 DEF Contains
      <4>2. ASSUME NEW i \in 1 .. Len(sleepList), sleepList[i] = t
            PROVE  Contains(sleepList', t)
        <5>1. CASE i < p
          BY <5>1, <4>2, <1>10, <1>11 DEF Contains
        <5>2. CASE i >= p
          <6>1. /\ i + 1 \in 1 .. Len(sleepList) + 1 /\ ~ (i + 1 < p)
                /\ i + 1 # p /\ (i + 1) - 1 = i
            BY <5>2, <1>11
          <6>2. sleepList'[i + 1] = t
            BY <6>1, <4>2, <1>10
          <6>3. QED
            BY <6>1, <6>2, <1>10 DEF Contains
        <5>3. QED
          BY <5>1, <5>2, <1>11
      <4>3. ASSUME NEW i \in 1 .. Len(sleepList'), sleepList'[i] = t, t # current
            PROVE  Contains(sleepList, t)
        <5>1. CASE i < p
          BY <5>1, <4>3, <1>9, <1>10, <1>11 DEF Contains
        <5>2. CASE i > p
          <6>1. i - 1 \in 1 .. Len(sleepList) /\ sleepList[i - 1] = t
            BY <5>2, <4>3, <1>9, <1>10, <1>11
          <6>2. QED
            BY <6>1 DEF Contains
        <5>3. QED
          BY <5>1, <5>2, <4>3, <1>10, <1>11
      <4>4. QED
        BY <4>1, <4>2, <4>3 DEF Contains
    <3>2. state[t] = "SLEEPING" <=> Contains(sleepList, t)
      BY DEF IInv, SleepListed
    <3>3. QED
      BY <1>8, <3>1, <3>2
  <2>2. ASSUME NEW i \in DOMAIN sleepList', NEW j \in DOMAIN sleepList',
               sleepList'[i] = sleepList'[j]
        PROVE  i = j
    <3>1. \A a, b \in 1 .. Len(sleepList) : sleepList[a] = sleepList[b] => a = b
      BY <1>9 DEF IInv, SleepListed
    <3>2. i \in 1 .. Len(sleepList) + 1 /\ j \in 1 .. Len(sleepList) + 1
      BY <1>10
    <3> DEFINE pos(k) == IF k < p THEN k ELSE k - 1
    <3>3. \A k \in 1 .. Len(sleepList) + 1 : k # p =>
             pos(k) \in 1 .. Len(sleepList) /\ sleepList'[k] = sleepList[pos(k)]
      BY <1>9, <1>10, <1>11
    <3>4. sleepList'[p] = current
      BY <1>9, <1>10
    <3>5. CASE i = p \/ j = p
      <4> HIDE DEF pos
      <4> QED BY <3>2, <3>3, <3>4, <3>5, <2>2, <1>11
    <3>6. CASE i # p /\ j # p
      <4>1. pos(i) = pos(j)
        <5> HIDE DEF pos
        <5> QED BY <3>1, <3>2, <3>3, <3>6, <2>2
      <4>2. QED
        BY <3>2, <3>6, <4>1, <1>11
    <3>7. QED
      BY <3>5, <3>6
  <2>3. QED
    BY <2>1, <2>2 DEF SleepListed
<1>15. SleepOrdered'
  <2> DEFINE key(k) == ticks'[sleepList'[k]]
  <2>0. DOMAIN sleepList = 1 .. Len(sleepList)
    BY <1>9
  <2>1. \A a, b \in 1 .. Len(sleepList) :
           a < b => ticks[sleepList[a]] <= ticks[sleepList[b]]
    BY <2>0 DEF IInv, SleepOrdered
  <2>2. \A k \in 1 .. Len(sleepList) : ticks[sleepList[k]] \in Int
    BY <1>2, <1>11
  <2>3. \A k \in 1 .. Len(sleepList) :
           /\ k < p => ticks[sleepList[k]] <= deadline
           /\ k >= p => ticks[sleepList[k]] > deadline
    <3> TAKE k \in 1 .. Len(sleepList)
    <3>1. CASE k < p
      BY <3>1, <1>9
    <3>2. CASE k >= p
      <4>1. p \in 1 .. Len(sleepList)
        BY <3>2, <1>9
      <4>2. ticks[sleepList[p]] > deadline /\ ticks[sleepList[p]] <= ticks[sleepList[k]]
        BY <3>2, <4>1, <1>9, <2>1, <2>2
      <4> QED BY <3>2, <4>1, <4>2, <2>2, <1>1
    <3> QED BY <3>1, <3>2, <1>11
  <2>4. \A k \in 1 .. Len(sleepList) + 1 :
           key(k) = IF k < p THEN ticks[sleepList[k]]
                    ELSE IF k = p THEN deadline ELSE ticks[sleepList[k - 1]]
    <3> TAKE k \in 1 .. Len(sleepList) + 1
    <3>1. CASE k < p
      <4>1. sleepList'[k] = sleepList[k] /\ k \in 1 .. Len(sleepList)
        BY <3>1, <1>9, <1>10, <1>11
      <4> QED BY <3>1, <4>1, <1>7, <1>11
    <3>2. CASE k = p
      BY <3>2, <1>2, <1>7, <1>10, <1>11
    <3>3. CASE k > p
      <4>1. sleepList'[k] = sleepList[k - 1] /\ k - 1 \in 1 .. Len(sleepList)
        BY <3>3, <1>9, <1>10, <1>11
      <4> QED BY <3>3, <4>1, <1>7, <1>11
    <3> QED BY <3>1, <3>2, <3>3, <1>11
  <2>5. ASSUME NEW a \in 1 .. Len(sleepList) + 1, NEW b \in 1 .. Len(sleepList) + 1,
               a < b
        PROVE  key(a) <= key(b)
    <3> HIDE DEF key
    <3>0. /\ p \in Int /\ a \in Int /\ b \in Int /\ Len(sleepList) \in Int
          /\ 1 <= p /\ p <= Len(sleepList) + 1
          /\ 1 <= a /\ b <= Len(sleepList) + 1
      BY <1>9, <1>11
    <3>1. ASSUME a < p
          PROVE  key(a) = ticks[sleepList[a]] /\ a \in 1 .. Len(sleepList)
      BY <3>0, <3>1, <2>4
    <3>2. ASSUME b > p
          PROVE  key(b) = ticks[sleepList[b - 1]] /\ b - 1 \in 1 .. Len(sleepList)
      BY <3>0, <3>2, <2>4
    <3>3. CASE b < p
      <4>1. b \in 1 .. Len(sleepList) /\ a < p /\ key(b) = ticks[sleepList[b]]
        BY <3>0, <3>3, <2>4, <2>5
      <4>2. QED
        BY <3>1, <4>1, <2>1, <2>5
    <3>4. CASE a < p /\ ~ (b < p)
      <4>1. key(a) \in Int /\ key(a) <= deadline
        BY <3>1, <3>4, <2>2, <2>3
      <4>2. CASE b = p
        BY <4>1, <4>2, <2>4, <3>0
      <4>3. CASE b > p
        <5>1. key(b) \in Int /\ key(b) > deadline
          BY <3>0, <3>2, <4>3, <2>2, <2>3
        <5>2. QED
          BY <4>1, <5>1, <1>1
      <4>4. QED
        BY <3>0, <3>4, <4>2, <4>3
    <3>5. CASE a = p
      <4>1. b > p /\ key(a) = deadline
        BY <3>0, <3>5, <2>4, <2>5
      <4>2. key(b) \in Int /\ key(b) > deadline
        BY <3>0, <3>2, <4>1, <2>2, <2>3
      <4>3. QED
        BY <4>1, <4>2, <1>1
    <3>6. CASE a > p
      <4>1. /\ a - 1 \in 1 .. Len(sleepList) /\ key(a) = ticks[sleepList[a - 1]]
            /\ b > p /\ a - 1 < b - 1
        BY <3>0, <3>6, <2>4, <2>5
      <4>2. QED
        BY <3>2, <4>1, <2>1
    <3>7. QED
      BY <3>0, <3>3, <3>4, <3>5, <3>6, <2>5
  <2>6. QED
    BY <2>5, <1>10 DEF SleepOrdered
<1>16. NoOversleep'
  BY <1>1, <1>3, <1>7, <1>8 DEF IInv, NoOversleep
<1>17. SliceBounded'
  BY <1>7, <1>8 DEF IInv, SliceBounded
<1>18. OnTime
  BY <1>8 DEF OnTime
<1>19. QED
  BY <1>12, <1>13, <1>14, <1>15, <1>16, <1>17, <1>18 DEF IInv

-----------------------------------------------------------------------------
LEMMA ClockTickStep ==
  ASSUME IInv, ClockTick
  PROVE  IInv' /\ OnTime
<1> DEFINE st(n) == [t \in Threads |-> IF t \in Woken(n) THEN "READY" ELSE state[t]]
<1>1. PICK n \in 0 .. Len(sleepList) :
         /\ \A i \in 1 .. n : Due(i)
         /\ n < Len(sleepList) => ~ Due(n + 1)
         /\ sleepList' = SubSeq(sleepList, n + 1, Len(sleepList))
         /\ IF current = Boot \/ TicksAfter(Woken(n))[current] = 0
            THEN Schedule(st(n), TicksAfter(Woken(n)))
            ELSE state' = st(n) /\ ticks' = TicksAfter(Woken(n)) /\ UNCHANGED current
  BY Zenon DEF ClockTick
<1>2. /\ jiffies < MaxJiffies /\ jiffies' = jiffies + 1 /\ jiffies \in 0 .. MaxJiffies
      /\ lastRun' = [t \in Threads |-> IF t = current THEN jiffies + 1 ELSE lastRun[t]]
      /\ MaxJiffies \in Nat
  BY SchedulerAssumption DEF ClockTick, IInv, TypeOK
<1> DEFINE W == Woken(n)
           S == st(n)
           T == TicksAfter(W)
<1>3. /\ Idle \in Threads /\ Boot \notin Threads
      /\ state \in [Threads -> States] /\ ticks \in [Threads -> Int]
      /\ \A t \in Threads : state[t] = "RUNNING" => t = current
      /\ current # Boot => current \in Threads /\ state[current] = "RUNNING"
      /\ state[Idle] = "READY" \/ state[Idle] = "RUNNING"
  BY RunnerFacts
<1>4. /\ sleepList \in Seq(Threads) /\ Len(sleepList) \in Nat
      /\ \A i \in 1 .. Len(sleepList) : sleepList[i] \in Threads
      /\ \A i, j \in 1 .. Len(sleepList) : sleepList[i] = sleepList[j] => i = j
      /\ \A t \in Threads :
            state[t] = "SLEEPING" <=> \E i \in 1 .. Len(sleepList) : sleepList[i] = t
      /\ \A i, j \in 1 .. Len(sleepList) :
            i < j => ticks[sleepList[i]] <= ticks[sleepList[j]]
  <2>1. sleepList \in Seq(Threads)
    BY DEF IInv, TypeOK
  <2>2. /\ Len(sleepList) \in Nat /\ DOMAIN sleepList = 1 .. Len(sleepList)
        /\ \A i \in 1 .. Len(sleepList) : sleepList[i] \in Threads
    BY <2>1
  <2>3. /\ \A i, j \in 1 .. Len(sleepList) : sleepList[i] = sleepList[j] => i = j
        /\ \A i, j \in 1 .. Len(sleepList) :
              i < j => ticks[sleepList[i]] <= ticks[sleepList[j]]
    BY <2>2 DEF IInv, SleepListed, SleepOrdered
  <2>4. \A t \in Threads :
           state[t] = "SLEEPING" <=> \E i \in 1 .. Len(sleepList) : sleepList[i] = t
    BY DEF IInv, SleepListed, Contains
  <2>5. QED
    BY <2>1, <2>2, <2>3, <2>4
<1>5. /\ \A t \in Threads : t \in W <=> \E i \in 1 .. n : sleepList[i] = t
      /\ \A t \in W : t \in Threads /\ state[t] = "SLEEPING"
      /\ current \notin W
  <2>1. W = {sleepList[i] : i \in 1 .. n}
    BY DEF Woken
  <2> HIDE DEF W
  <2>2. \A t \in W : t \in Threads /\ state[t] = "SLEEPING"
    BY <1>4, <2>1
  <2>3. current \notin W
    BY <1>3, <2>2
  <2>4. \A t \in Threads : t \in W <=> \E i \in 1 .. n : sleepList[i] = t
    BY <2>1
  <2>5. QED
    BY <2>2, <2>3, <2>4
<1>6. /\ S \in [Threads -> States]
      /\ \A t \in Threads : S[t] = IF t \in W THEN "READY" ELSE state[t]
      /\ \A t \in Threads : S[t] = "RUNNING" => t = current
      /\ S[Idle] = "READY" \/ S[Idle] = "RUNNING"
  <2>1. /\ S \in [Threads -> States]
        /\ \A t \in Threads : S[t] = IF t \in W THEN "READY" ELSE state[t]
    <3> HIDE DEF W
    <3> QED BY <1>3 DEF States, W
  <2> HIDE DEF S, W
  <2>2. QED
    BY <1>3, <1>5, <2>1
<1>7. /\ T \in [Threads -> Int]
      /\ \A t \in Threads : T[t] = IF t \in W THEN 0
                                   ELSE IF t = current THEN ticks[t] - 1
                                   ELSE ticks[t]
  <2> HIDE DEF W
  <2> QED BY <1>3 DEF TicksAfter
<1>8. IF current = Boot \/ T[current] = 0
      THEN Schedule(S, T)
      ELSE state' = S /\ ticks' = T /\ UNCHANGED current
  BY <1>1
<1> HIDE DEF S, T, W
<1>9. /\ current' \in Threads
      /\ state' \in [Threads -> States]
      /\ ticks' \in [Threads -> Int]
      /\ \A t \in Threads : state'[t] = "RUNNING" <=> t = current'
      /\ \A t \in Threads : state'[t] = "SLEEPING" <=> S[t] = "SLEEPING"
      /\ state'[Idle] \in {"READY", "RUNNING"}
      /\ \A t \in Threads :
            \/ ticks'[t] = T[t]
            \/ t = current /\ ticks'[t] = Priority[t]
  <2>1. CASE current = Boot \/ T[current] = 0
    <3>1. Schedule(S, T)
      BY <1>8, <2>1
    <3>2. QED
      BY <1>6, <1>7, <3>1, ScheduleEffect
  <2>2. CASE ~ (current = Boot \/ T[current] = 0)
    <3>1. /\ state' = S /\ ticks' = T /\ current' = current
          /\ current \in Threads /\ state[current] = "RUNNING"
      BY <1>3, <1>8, <2>2
    <3>2. S[current] = "RUNNING"
      BY <1>5, <1>6, <3>1
    <3>3. QED
      BY <1>6, <1>7, <3>1, <3>2
  <2>3. QED
    BY <2>1, <2>2
<1>10. \A t \in Threads :
          /\ state'[t] = "SLEEPING" <=> state[t] = "SLEEPING" /\ t \notin W
          /\ state'[t] = "SLEEPING" => ticks'[t] = ticks[t] /\ t # current
  <2> TAKE t \in Threads
  <2>1. state'[t] = "SLEEPING" <=> state[t] = "SLEEPING" /\ t \notin W
    BY <1>6, <1>9
  <2>2. ASSUME state'[t] = "SLEEPING" PROVE ticks'[t] = ticks[t] /\ t # current
    <3>1. t # current
      BY <1>3, <2>1, <2>2
    <3>2. QED
      BY <1>7, <1>9, <2>1, <2>2, <3>1
  <2>3. QED
    BY <2>1, <2>2
<1>11. /\ sleepList' \in Seq(Threads)
       /\ Len(sleepList') = Len(sleepList) - n
       /\ \A i \in 1 .. Len(sleepList) - n : sleepList'[i] = sleepList[n + i]
  BY <1>1, <1>4
<1>12. TypeOK'
  <2>1. jiffies' \in 0 .. MaxJiffies
    BY <1>2
  <2>2. lastRun' \in [Threads -> Nat]
    BY <1>2 DEF IInv, TypeOK
  <2>3. QED
    BY <1>9, <1>11, <2>1, <2>2 DEF TypeOK
<1>13. SoleRunner' /\ IdleRunnable'
  BY <1>3, <1>9 DEF SoleRunner, IdleRunnable
<1>14. SleepListed'
  <2>1. ASSUME NEW t \in Threads
        PROVE  state'[t] = "SLEEPING" <=> Contains(sleepList', t)
    <3>1. ASSUME state'[t] = "SLEEPING" PROVE Contains(sleepList', t)
      <4>1. PICK i \in 1 .. Len(sleepList) : sleepList[i] = t
        BY <1>4, <1>10, <3>1
      <4>2. ~ (i \in 1 .. n)
        BY <1>5, <1>10, <3>1, <4>1
      <4>3. i - n \in 1 .. Len(sleepList) - n /\ n + (i - n) = i
        BY <4>2, <1>4
      <4>4. sleepList'[i - n] = t
        BY <1>11, <4>1, <4>3
      <4>5. QED
        BY <1>11, <4>3, <4>4 DEF Contains
    <3>2. ASSUME NEW i \in 1 .. Len(sleepList'), sleepList'[i] = t
          PROVE  state'[t] = "SLEEPING"
      <4>1. n + i \in 1 .. Len(sleepList) /\ n + i > n /\ sleepList[n + i] = t
        BY <1>4, <1>11, <3>2
      <4>2. state[t] = "SLEEPING"
        BY <1>4, <4>1
      <4>3. t \notin W
        <5>1. SUFFICES ASSUME NEW j \in 1 .. n, sleepList[j] = t PROVE FALSE
          BY <1>5
        <5>2. j \in 1 .. Len(sleepList)
          BY <1>4
        <5>3. j = n + i
          BY <1>4, <4>1, <5>1, <5>2
        <5>4. QED
          BY <4>1, <5>3, <1>4
      <4>4. QED
        BY <1>10, <4>2, <4>3
    <3>3. QED
      BY <3>1, <3>2 DEF Contains
  <2>2. ASSUME NEW i \in DOMAIN sleepList', NEW j \in DOMAIN sleepList',
               sleepList'[i] = sleepList'[j]
        PROVE  i = j
    <3>1. i \in 1 .. Len(sleepList) - n /\ j \in 1 .. Len(sleepList) - n
      BY <1>11
    <3>2. n + i \in 1 .. Len(sleepList) /\ n + j \in 1 .. Len(sleepList)
      BY <1>4, <3>1
    <3>3. n + i = n + j
      <4>1. sleepList[n + i] = sleepList[n + j]
        BY <1>11, <2>2, <3>1
      <4>2. QED
        BY <1>4, <3>2, <4>1
    <3>4. QED
      BY <3>1, <3>3
  <2>3. QED
    BY <2>1, <2>2 DEF SleepListed
<1>15. SleepOrdered'
  <2>1. ASSUME NEW i \in DOMAIN sleepList', NEW j \in DOMAIN sleepList', i < j
        PROVE  ticks'[sleepList'[i]] <= ticks'[sleepList'[j]]
    <3>1. i \in 1 .. Len(sleepList) - n /\ j \in 1 .. Len(sleepList) - n
      BY <1>11
    <3>2. /\ n + i \in 1 .. Len(sleepList) /\ n + j \in 1 .. Len(sleepList)
          /\ n + i < n + j
      BY <1>4, <3>1, <2>1
    <3>3. /\ sleepList'[i] = sleepList[n + i] /\ sleepList'[j] = sleepList[n + j]
          /\ sleepList'[i] \in Threads /\ sleepList'[j] \in Threads
      BY <1>4, <1>11, <3>1, <3>2
    <3>4. /\ Contains(sleepList', sleepList'[i])
          /\ Contains(sleepList', sleepList'[j])
      BY <1>11, <3>1 DEF Contains
    <3>5. /\ ticks'[sleepList'[i]] = ticks[sleepList'[i]]
          /\ ticks'[sleepList'[j]] = ticks[sleepList'[j]]
      BY <1>10, <1>14, <3>3, <3>4 DEF SleepListed
    <3>6. QED
      BY <1>4, <3>2, <3>3, <3>5
  <2>2. QED
    BY <2>1 DEF SleepOrdered
<1>16. NoOversleep'
  <2>1. ASSUME NEW t \in Threads, state'[t] = "SLEEPING"
        PROVE  jiffies' <= ticks'[t]
    <3>1. state[t] = "SLEEPING" /\ t \notin W /\ ticks'[t] = ticks[t]
      BY <1>10, <2>1
    <3>2. PICK k \in 1 .. Len(sleepList) : sleepList[k] = t
      BY <1>4, <3>1
    <3>3. ~ (k \in 1 .. n)
      BY <1>5, <3>1, <3>2
    <3>4. n + 1 \in 1 .. Len(sleepList) /\ n + 1 <= k /\ n < Len(sleepList)
      BY <3>3, <1>4
    <3>5. ticks[sleepList[n + 1]] > jiffies /\ ticks[sleepList[n + 1]] \in Int
      <4>1. ticks[sleepList[n + 1]] \in Int
        BY <1>3, <1>4, <3>4
      <4>2. ~ (ticks[sleepList[n + 1]] <= jiffies)
        BY <1>1, <3>4 DEF Due
      <4>3. QED
        BY <4>1, <4>2, <1>2
    <3>6. ticks[sleepList[n + 1]] <= ticks[t] /\ ticks[t] \in Int
      <4>1. CASE n + 1 = k
        BY <4>1, <3>2, <3>5
      <4>2. CASE n + 1 < k
        BY <4>2, <1>3, <1>4, <3>2, <3>4
      <4>3. QED
        BY <3>4, <4>1, <4>2, <1>4
    <3>7. QED
      BY <1>2, <3>1, <3>5, <3>6
  <2>2. QED
    BY <2>1 DEF NoOversleep
<1>17. SliceBounded'
  <2>1. ASSUME NEW t \in Threads, state'[t] # "SLEEPING"
        PROVE  ticks'[t] <= Priority[t]
    <3>1. Priority[t] \in Nat \ {0}
      BY SchedulerAssumption
    <3>2. CASE t \in W
      BY <1>7, <1>9, <3>1, <3>2
    <3>3. CASE t \notin W
      <4>1. ticks[t] <= Priority[t] /\ ticks[t] \in Int
        BY <1>3, <1>10, <2>1, <3>3 DEF IInv, SliceBounded
      <4> HIDE DEF W, S, T
      <4>2. QED
        BY <1>7, <1>9, <3>1, <3>3, <4>1
    <3>4. QED
      BY <3>2, <3>3
  <2>2. QED
    BY <2>1 DEF SliceBounded
<1>18. OnTime
  <2>1. ASSUME NEW t \in Threads, state[t] = "SLEEPING", state'[t] # "SLEEPING"
        PROVE  jiffies = ticks[t] /\ jiffies' = jiffies + 1
    <3>1. PICK i \in 1 .. n : sleepList[i] = t
      BY <1>5, <1>10, <2>1
    <3>2. ticks[t] <= jiffies /\ ticks[t] \in Int
      BY <1>1, <1>3, <3>1 DEF Due
    <3>3. jiffies <= ticks[t]
      BY <2>1 DEF IInv, NoOversleep
    <3>4. QED
      BY <1>2, <3>2, <3>3
  <2>2. QED
    BY <2>1 DEF OnTime
<1>19. QED
  BY <1>12, <1>13, <1>14, <1>15, <1>16, <1>17, <1>18 DEF IInv

LEMMA NextStep ==
  ASSUME IInv, [Next]_vars
  PROVE  IInv' /\ [OnTime]_vars
<1>1. CASE ClockTick
  BY <1>1, ClockTickStep
<1>2. CASE Yield
  BY <1>2, YieldStep
<1>3. CASE Block
  BY <1>3, BlockStep
<1>4. ASSUME NEW ms \in Millis, Sleep(ms)
      PROVE  IInv' /\ OnTime
  BY <1>4, SleepStep
<1>5. ASSUME NEW t \in Threads, Unblock(t)
      PROVE  IInv' /\ OnTime
  BY <1>5, UnblockStep
<1>6. CASE UNCHANGED vars
  <2>1. IInv'
    BY <1>6 DEF vars, IInv, TypeOK, SoleRunner, IdleRunnable, SleepListed,
                SleepOrdered, NoOversleep, SliceBounded, Contains
  <2>2. QED
    BY <1>6, <2>1
<1>7. QED
  BY <1>1, <1>2, <1>3, <1>4, <1>5, <1>6 DEF Next

LEMMA Invariance == Spec => []IInv
<1>1. Init => IInv
  BY InitIInv
<1>2. IInv /\ [Next]_vars => IInv'
  BY NextStep
<1>3. QED
  BY <1>1, <1>2, PTL DEF Spec

(* The table, the clock and the sleep list stay within their types.        *)
THEOREM TypeCorrect == Spec => []TypeOK
<1>1. IInv => TypeOK
  BY DEF IInv
<1>2. QED
  BY <1>1, Invariance, PTL

(* At every point where another task or a handler could look, the task on  *)
(* the processor is the one whose state is RUNNING, whatever the table     *)
(* holds and whichever tasks taskSearch compares.                          *)
THEOREM SoleRunnerCorrect == Spec => []SoleRunner
<1>1. IInv => SoleRunner
  BY DEF IInv
<1>2. QED
  BY <1>1, Invariance, PTL

(* The sleepers are the tasks on sleepList, each once, in the order of the *)
(* ticks they wait for, and none of them is overdue.                       *)
THEOREM SleepCorrect == Spec => []SleepSound
<1>1. IInv => SleepSound
  BY DEF IInv, SleepSound
<1>2. QED
  BY <1>1, Invariance, PTL

(* A wake-up time never serves as a time slice.                            *)
THEOREM SliceCorrect == Spec => []SliceBounded
<1>1. IInv => SliceBounded
  BY DEF IInv
<1>2. QED
  BY <1>1, Invariance, PTL

(* Every sleeper is woken by the clock interrupt of its tick.              *)
THEOREM WakeCorrect == Spec => WokenOnTime
<1>1. IInv /\ [Next]_vars => [OnTime]_vars
  BY NextStep
<1>2. QED
  BY <1>1, Invariance, PTL DEF Spec, WokenOnTime, OnTime

-----------------------------------------------------------------------------
(* The scheduler implements Dispatch: a schedule() picks a task that the   *)
(* abstract one may pick.                                                  *)
LEMMA ScheduleRefines ==
  ASSUME NEW st, NEW tk, Schedule(st, tk)
  PROVE  Abstract!Reschedule(st)
<1>1. {t \in Threads : Candidate(st, t)} = Abstract!Ready(st)
  BY DEF Candidate, Abstract!Ready
<1>2. current' \in Abstract!Eligible(st)
  BY <1>1, SearchResult DEF Schedule, Abstract!Eligible
<1>3. state' = Switched(current', st)
  BY DEF Schedule
<1>4. Abstract!SwitchTo(current', st)
  BY <1>3 DEF Switched, Abstract!SwitchTo
<1>5. QED
  BY <1>2, <1>4 DEF Abstract!Reschedule

LEMMA UnblockedNone ==
  ASSUME state \in [Threads -> States]
  PROVE  Abstract!Unblocked({}) = state
BY DEF Abstract!Unblocked

LEMMA StepRefines ==
  ASSUME IInv, [Next]_vars
  PROVE  [Abstract!Next]_(Abstract!vars)
<1>1. /\ Idle \in Threads /\ Boot \notin Threads
      /\ state \in [Threads -> States]
      /\ current # Boot => current \in Threads
  BY RunnerFacts
<1>2. CASE ClockTick
  <2>1. PICK n \in 0 .. Len(sleepList) :
           LET st == [t \in Threads |-> IF t \in Woken(n) THEN "READY" ELSE state[t]]
           IN  IF current = Boot \/ TicksAfter(Woken(n))[current] = 0
               THEN Schedule(st, TicksAfter(Woken(n)))
               ELSE state' = st /\ UNCHANGED current
    BY <1>2, Zenon DEF ClockTick
  <2>2. Woken(n) \in SUBSET Abstract!Sleepers
    <3>1. sleepList \in Seq(Threads)
      BY DEF IInv, TypeOK
    <3>2. ASSUME NEW i \in 1 .. n PROVE sleepList[i] \in Abstract!Sleepers
      <4>1. i \in 1 .. Len(sleepList) /\ sleepList[i] \in Threads
        BY <3>1
      <4>2. state[sleepList[i]] = "SLEEPING"
        BY <4>1 DEF IInv, SleepListed, Contains
      <4>3. QED
        BY <4>1, <4>2 DEF Abstract!Sleepers, Abstract!Suspended
    <3>3. QED
      BY <3>2 DEF Woken
  <2>3. \/ Abstract!Reschedule(Abstract!Unblocked(Woken(n)))
        \/ state' = Abstract!Unblocked(Woken(n)) /\ UNCHANGED current
    BY <2>1, ScheduleRefines, Zenon DEF Abstract!Unblocked
  <2>4. QED
    BY <2>2, <2>3 DEF Abstract!Next, Abstract!Resume
<1>3. CASE Yield
  <2>1. Abstract!Reschedule(Abstract!Unblocked({}))
    BY <1>1, <1>3, ScheduleRefines, UnblockedNone DEF Yield
  <2>2. QED
    BY <2>1 DEF Abstract!Next, Abstract!Resume
<1>4. ASSUME NEW s \in {"BLOCKED", "SLEEPING"}, NEW tk,
             current \in Threads \ {Idle},
             Schedule([state EXCEPT ![current] = s], tk)
      PROVE  Abstract!Next
  <2>1. Abstract!Reschedule([Abstract!Unblocked({}) EXCEPT ![current] = s])
    BY <1>1, <1>4, ScheduleRefines, UnblockedNone
  <2>2. s \in Abstract!Suspended \cup {"DIED"} /\ {} \in SUBSET Abstract!Sleepers
    BY DEF Abstract!Suspended
  <2>3. Abstract!Leave
    BY <1>4, <2>1, <2>2, Zenon DEF Abstract!Leave
  <2>4. QED
    BY <2>3 DEF Abstract!Next
<1>5. CASE Block
  BY <1>4, <1>5 DEF Block, Worker
<1>6. CASE \E ms \in Millis : Sleep(ms)
  <2>1. PICK tk : Schedule([state EXCEPT ![current] = "SLEEPING"], tk)
    BY <1>6 DEF Sleep
  <2>2. current \in Threads \ {Idle}
    BY <1>6 DEF Sleep, Worker
  <2>3. QED
    BY <1>4, <2>1, <2>2
<1>7. CASE \E t \in Threads : Unblock(t)
  <2>1. PICK t \in Threads : Unblock(t)
    BY <1>7
  <2>2. {t} \in SUBSET Abstract!Sleepers
    BY <2>1 DEF Unblock, Abstract!Sleepers, Abstract!Suspended
  <2>3. state' = Abstract!Unblocked({t}) /\ UNCHANGED current
    BY <1>1, <2>1 DEF Unblock, Abstract!Unblocked
  <2>4. QED
    BY <2>2, <2>3 DEF Abstract!Next, Abstract!Resume
<1>8. CASE UNCHANGED vars
  BY <1>8 DEF vars, Abstract!vars
<1>9. QED
  BY <1>2, <1>3, <1>5, <1>6, <1>7, <1>8 DEF Next

(* The scheduler implements what Dispatch.tla promises, for any number of  *)
(* tasks: each of its steps is a step of the abstract dispatcher.          *)
THEOREM SchedulerImplementsDispatch == Spec => DispatchSpec
<1>1. Init => Abstract!Init
  BY SchedulerAssumption DEF Init, Abstract!Init, Idle, Threads
<1>2. IInv /\ [Next]_vars => [Abstract!Next]_(Abstract!vars)
  BY StepRefines
<1>3. QED
  BY <1>1, <1>2, Invariance, PTL DEF Spec, DispatchSpec, Abstract!Spec
=============================================================================
