----------------------------- MODULE LockProofs -----------------------------
(***************************************************************************)
(* Proofs about Lock.tla, for any number of tasks and any depth.           *)
(***************************************************************************)
EXTENDS Lock, DataLemmas

(* The invariant: besides the properties, that schedule() can do its work. *)
Runner ==
    /\ \A t \in Threads : state[t] = "RUNNING" <=> t = current
    /\ state[Idle] \in {"READY", "RUNNING"}
    /\ ~ inLoop[Idle]

IInv ==
    /\ TypeOK
    /\ Runner
    /\ Exclusive
    /\ QueueSound
    /\ NoLostWakeup

TaskStates == {"RUNNING", "READY", "BLOCKED"}

LEMMA Slots ==
    Idle \in Threads /\ Boot \notin Threads /\ None \notin Threads
BY LockAssumption DEF Threads, Idle, Boot, None

-----------------------------------------------------------------------------
(* What the queue holds after a push and after a removal.                  *)
LEMMA PushedContains ==
  ASSUME NEW S, NEW s \in Seq(S), NEW e \in S
  PROVE  \A t : Contains(<<e>> \o s, t) <=> t = e \/ Contains(s, t)
<1> DEFINE r == <<e>> \o s
<1>1. /\ r \in Seq(S) /\ Len(r) = Len(s) + 1 /\ r[1] = e
      /\ \A i \in 1 .. Len(s) : r[i + 1] = s[i]
  BY Pushed
<1> HIDE DEF r
<1>2. Len(s) \in Nat /\ DOMAIN s = 1 .. Len(s) /\ DOMAIN r = 1 .. Len(s) + 1
  BY <1>1
<1> SUFFICES ASSUME NEW t PROVE Contains(r, t) <=> t = e \/ Contains(s, t)
  BY DEF r
<1>3. ASSUME Contains(r, t) PROVE t = e \/ Contains(s, t)
  <2>1. PICK i \in 1 .. Len(s) + 1 : r[i] = t
    BY <1>2, <1>3 DEF Contains
  <2>2. CASE i = 1
    BY <1>1, <2>1, <2>2
  <2>3. CASE i # 1
    <3>1. i - 1 \in 1 .. Len(s) /\ (i - 1) + 1 = i
      BY <1>2, <2>1, <2>3
    <3>2. s[i - 1] = t
      BY <1>1, <2>1, <3>1
    <3>3. QED
      BY <1>2, <3>1, <3>2 DEF Contains
  <2>4. QED
    BY <2>2, <2>3
<1>4. ASSUME Contains(s, t) PROVE Contains(r, t)
  <2>1. PICK i \in 1 .. Len(s) : s[i] = t
    BY <1>2, <1>4 DEF Contains
  <2>2. i + 1 \in 1 .. Len(s) + 1 /\ r[i + 1] = t
    BY <1>1, <1>2, <2>1
  <2>3. QED
    BY <1>2, <2>2 DEF Contains
<1>5. Contains(r, e)
  BY <1>1, <1>2 DEF Contains
<1>6. QED
  BY <1>3, <1>4, <1>5

LEMMA FrontContains ==
  ASSUME NEW S, NEW s \in Seq(S), s # <<>>,
         \A i, j \in DOMAIN s : s[i] = s[j] => i = j
  PROVE  \A t : Contains(Front(s), t) <=> t # Last(s) /\ Contains(s, t)
<1> DEFINE f == Front(s)
<1>1. /\ Len(s) \in Nat /\ Len(s) >= 1 /\ Last(s) = s[Len(s)]
      /\ f \in Seq(S) /\ Len(f) = Len(s) - 1
      /\ \A i \in 1 .. Len(s) - 1 : f[i] = s[i]
  BY FrontShape
<1> HIDE DEF f
<1>2. DOMAIN s = 1 .. Len(s) /\ DOMAIN f = 1 .. Len(s) - 1
  BY <1>1
<1> SUFFICES ASSUME NEW t
             PROVE  Contains(f, t) <=> t # Last(s) /\ Contains(s, t)
  BY DEF f
<1>3. ASSUME Contains(f, t) PROVE t # Last(s) /\ Contains(s, t)
  <2>1. PICK i \in 1 .. Len(s) - 1 : f[i] = t
    BY <1>2, <1>3 DEF Contains
  <2>2. i \in DOMAIN s /\ s[i] = t /\ i # Len(s) /\ Len(s) \in DOMAIN s
    BY <1>1, <1>2, <2>1
  <2>3. QED
    BY <1>1, <2>2 DEF Contains
<1>4. ASSUME t # Last(s), Contains(s, t) PROVE Contains(f, t)
  <2>1. PICK i \in 1 .. Len(s) : s[i] = t
    BY <1>2, <1>4 DEF Contains
  <2>2. i \in 1 .. Len(s) - 1
    BY <1>1, <1>4, <2>1
  <2>3. QED
    BY <1>1, <1>2, <2>1, <2>2 DEF Contains
<1>5. QED
  BY <1>3, <1>4

-----------------------------------------------------------------------------
(* schedule() moves tasks between READY and RUNNING only.                  *)
LEMMA RescheduleEffect ==
  ASSUME NEW st \in [Threads -> TaskStates],
         \A t \in Threads : st[t] = "RUNNING" => t = current,
         st[Idle] \in {"READY", "RUNNING"},
         D!Reschedule(st)
  PROVE  /\ current' \in Threads
         /\ state' \in [Threads -> TaskStates]
         /\ \A t \in Threads : state'[t] = "RUNNING" <=> t = current'
         /\ \A t \in Threads : state'[t] = "BLOCKED" <=> st[t] = "BLOCKED"
<1>1. PICK next \in D!Eligible(st) : D!SwitchTo(next, st)
  BY DEF D!Reschedule
<1>2. next \in Threads /\ st[next] \in {"READY", "RUNNING"}
  BY <1>1, Slots DEF D!Eligible, D!Ready
<1>3. /\ current' = next
      /\ state' = [t \in Threads |->
                     IF t = next THEN "RUNNING"
                     ELSE IF t = current /\ st[t] = "RUNNING" THEN "READY"
                     ELSE st[t]]
  BY <1>1 DEF D!SwitchTo
<1>4. state' \in [Threads -> TaskStates]
  BY <1>3 DEF TaskStates
<1>5. QED
  BY <1>2, <1>3, <1>4

LEMMA CurrentRuns ==
  ASSUME IInv, current # Boot
  PROVE  current \in Threads /\ state[current] = "RUNNING"
BY DEF IInv, TypeOK, Runner

LEMMA InitIInv == Init => IInv
<1> SUFFICES ASSUME Init PROVE IInv
  OBVIOUS
<1>1. TypeOK
  <2>1. <<>> \in Seq(Threads) /\ 0 \in Nat
    OBVIOUS
  <2>2. /\ [t \in Threads |-> "READY"] \in [Threads -> {"RUNNING", "READY", "BLOCKED"}]
        /\ [t \in Threads |-> FALSE] \in [Threads -> BOOLEAN]
        /\ [t \in Threads |-> 0] \in [Threads -> Nat]
    OBVIOUS
  <2>3. QED
    BY <2>1, <2>2, Zenon DEF Init, TypeOK
<1>a. Runner
  BY Slots DEF Init, Runner
<1>b. Exclusive
  BY Slots DEF Init, Exclusive
<1>2. QueueSound /\ NoLostWakeup
  BY DEF Init, QueueSound, NoLostWakeup, Contains
<1>3. QED
  BY <1>1, <1>a, <1>b, <1>2 DEF IInv

(* A step that leaves the lock alone and neither blocks nor frees a task   *)
(* of its queue.                                                           *)
LEMMA AsideStep ==
  ASSUME IInv, UNCHANGED lockVars,
         current' \in Threads \cup {Boot},
         state' \in [Threads -> TaskStates],
         \A t \in Threads : state'[t] = "RUNNING" <=> t = current',
         state'[Idle] \in {"READY", "RUNNING"},
         \A t \in Threads : inLoop[t] =>
            (state'[t] = "BLOCKED" <=> state[t] = "BLOCKED")
  PROVE  IInv'
<1>1. TypeOK' /\ Runner' /\ Exclusive'
  BY DEF IInv, TypeOK, Runner, Exclusive, lockVars, TaskStates
<1>2. QueueSound'
  BY DEF IInv, QueueSound, lockVars
<1>3. NoLostWakeup'
  BY DEF IInv, NoLostWakeup, lockVars
<1>4. QED
  BY <1>1, <1>2, <1>3 DEF IInv

LEMMA PreemptStep ==
  ASSUME IInv, Preempt
  PROVE  IInv'
<1>1. /\ state \in [Threads -> TaskStates]
      /\ \A t \in Threads : state[t] = "RUNNING" => t = current
      /\ state[Idle] \in {"READY", "RUNNING"}
  BY DEF IInv, TypeOK, Runner, TaskStates
<1>2. D!Reschedule(state) /\ UNCHANGED lockVars
  BY DEF Preempt
<1>3. /\ current' \in Threads
      /\ state' \in [Threads -> TaskStates]
      /\ \A t \in Threads : state'[t] = "RUNNING" <=> t = current'
      /\ \A t \in Threads : state'[t] = "BLOCKED" <=> state[t] = "BLOCKED"
  BY <1>1, <1>2, RescheduleEffect
<1>4. state'[Idle] \in {"READY", "RUNNING"}
  BY <1>1, <1>3, Slots DEF TaskStates
<1>5. QED
  BY <1>2, <1>3, <1>4, AsideStep

LEMMA BlockStep ==
  ASSUME IInv, Block
  PROVE  IInv'
<1> DEFINE st == [state EXCEPT ![current] = "BLOCKED"]
<1>1. /\ current \in Threads /\ current # Idle /\ ~ inLoop[current]
      /\ D!Reschedule(st) /\ UNCHANGED lockVars
  BY CurrentRuns DEF Block, Worker, Computing
<1>2. /\ st \in [Threads -> TaskStates]
      /\ \A t \in Threads : st[t] = IF t = current THEN "BLOCKED" ELSE state[t]
  BY <1>1 DEF IInv, TypeOK, TaskStates
<1> HIDE DEF st
<1>3. /\ \A t \in Threads : st[t] = "RUNNING" => t = current
      /\ st[Idle] \in {"READY", "RUNNING"}
  BY <1>1, <1>2, Slots DEF IInv, Runner
<1>4. /\ current' \in Threads
      /\ state' \in [Threads -> TaskStates]
      /\ \A t \in Threads : state'[t] = "RUNNING" <=> t = current'
      /\ \A t \in Threads : state'[t] = "BLOCKED" <=> st[t] = "BLOCKED"
  BY <1>1, <1>2, <1>3, RescheduleEffect
<1>5. state'[Idle] \in {"READY", "RUNNING"}
  BY <1>3, <1>4, Slots DEF TaskStates
<1>6. QED
  BY <1>1, <1>2, <1>4, <1>5, AsideStep

LEMMA UnblockStep ==
  ASSUME IInv, NEW t \in Threads, Unblock(t)
  PROVE  IInv'
<1>1. /\ state' \in [Threads -> TaskStates]
      /\ \A u \in Threads : state'[u] = IF u = t THEN "READY" ELSE state[u]
      /\ state[t] = "BLOCKED" /\ ~ inLoop[t]
      /\ UNCHANGED <<current, lockVars>>
  BY DEF Unblock, IInv, TypeOK, TaskStates, QueueSound
<1>2. /\ current' \in Threads \cup {Boot}
      /\ \A u \in Threads : state'[u] = "RUNNING" <=> u = current'
      /\ state'[Idle] \in {"READY", "RUNNING"}
  BY <1>1, Slots DEF IInv, TypeOK, Runner
<1>3. QED
  BY <1>1, <1>2, AsideStep

LEMMA TakeStep ==
  ASSUME IInv, current \in Threads \ {Idle}, Take
  PROVE  IInv'
<1>1. holder = None /\ repeat = 0 /\ \A t \in Threads : ~ (depth[t] > 0)
  <2>1. holder = None
    BY DEF Take, IInv, Exclusive
  <2>2. QED
    BY <2>1, Slots DEF IInv, Exclusive
<1>2. /\ \A t \in Threads : depth'[t] = IF t = current THEN depth[t] + 1 ELSE depth[t]
      /\ \A t \in Threads : inLoop'[t] = (inLoop[t] /\ t # current)
      /\ value' = TRUE /\ holder' = current /\ repeat' = 1
      /\ UNCHANGED <<current, state, waiters>>
  BY DEF Take, IInv, TypeOK
<1>3. \A t \in Threads : depth[t] = 0
  BY <1>1 DEF IInv, TypeOK
<1>4. TypeOK'
  BY <1>2 DEF Take, IInv, TypeOK
<1>5. Runner'
  BY <1>2, Slots DEF IInv, Runner
<1>6. Exclusive'
  BY <1>2, <1>3, Slots DEF Exclusive
<1>7. QueueSound'
  <2>1. state[current] = "RUNNING"
    BY DEF IInv, Runner
  <2>2. QED
    BY <1>2, <1>3, <2>1 DEF IInv, QueueSound
<1>8. NoLostWakeup'
  BY <1>2 DEF NoLostWakeup
<1>9. QED
  BY <1>4, <1>5, <1>6, <1>7, <1>8 DEF IInv

LEMMA QueueStep ==
  ASSUME IInv, current \in Threads \ {Idle}, holder # current, Queue
  PROVE  IInv'
<1> DEFINE st == [state EXCEPT ![current] = "BLOCKED"]
<1>1. /\ value /\ waiters' = <<current>> \o waiters
      /\ D!Reschedule(st) /\ UNCHANGED <<value, holder, repeat, depth>>
      /\ \A t \in Threads : inLoop'[t] = (inLoop[t] \/ t = current)
      /\ inLoop' \in [Threads -> BOOLEAN]
  BY DEF Queue, IInv, TypeOK
<1>2. /\ st \in [Threads -> TaskStates]
      /\ \A t \in Threads : st[t] = IF t = current THEN "BLOCKED" ELSE state[t]
  BY DEF IInv, TypeOK, TaskStates
<1> HIDE DEF st
<1>3. /\ \A t \in Threads : st[t] = "RUNNING" => t = current
      /\ st[Idle] \in {"READY", "RUNNING"}
  BY <1>2, Slots DEF IInv, Runner
<1>4. /\ current' \in Threads
      /\ state' \in [Threads -> TaskStates]
      /\ \A t \in Threads : state'[t] = "RUNNING" <=> t = current'
      /\ \A t \in Threads : state'[t] = "BLOCKED" <=> st[t] = "BLOCKED"
  BY <1>1, <1>2, <1>3, RescheduleEffect
<1>5. state'[Idle] \in {"READY", "RUNNING"}
  BY <1>3, <1>4, Slots DEF TaskStates
<1>6. /\ waiters \in Seq(Threads) /\ Len(waiters) \in Nat
      /\ DOMAIN waiters = 1 .. Len(waiters)
  BY DEF IInv, TypeOK
<1>7. /\ waiters' \in Seq(Threads) /\ Len(waiters') = Len(waiters) + 1
      /\ waiters'[1] = current
      /\ \A i \in 1 .. Len(waiters) : waiters'[i + 1] = waiters[i]
  BY <1>1, <1>6, Pushed
<1>8. \A t : Contains(waiters', t) <=> t = current \/ Contains(waiters, t)
  BY <1>1, <1>6, PushedContains
<1>9. TypeOK'
  BY <1>1, <1>4, <1>7 DEF IInv, TypeOK, TaskStates
<1>10. Runner'
  BY <1>1, <1>4, <1>5, Slots DEF IInv, Runner
<1>11. Exclusive'
  BY <1>1 DEF IInv, Exclusive
<1>12. state[current] = "RUNNING" /\ depth[current] = 0
  BY DEF IInv, Runner, Exclusive, TypeOK
<1>13. QueueSound'
  <2>1. \A t \in Threads :
           Contains(waiters', t) <=> inLoop'[t] /\ state'[t] = "BLOCKED"
    BY <1>1, <1>2, <1>4, <1>8 DEF IInv, QueueSound
  <2>2. \A i \in 1 .. Len(waiters) : waiters[i] # current
    BY <1>6, <1>12 DEF IInv, QueueSound, Contains
  <2>3. ASSUME NEW i \in DOMAIN waiters', NEW j \in DOMAIN waiters',
               waiters'[i] = waiters'[j]
        PROVE  i = j
    <3>1. i \in 1 .. Len(waiters) + 1 /\ j \in 1 .. Len(waiters) + 1
      BY <1>7, <1>6
    <3>2. ASSUME NEW k \in 1 .. Len(waiters) + 1, k # 1
          PROVE  k - 1 \in 1 .. Len(waiters) /\ waiters'[k] = waiters[k - 1]
      <4>1. k - 1 \in 1 .. Len(waiters) /\ (k - 1) + 1 = k
        BY <1>6, <3>2
      <4>2. QED
        BY <4>1, <1>7
    <3>3. CASE i = 1 \/ j = 1
      BY <1>7, <2>2, <2>3, <3>1, <3>2, <3>3
    <3>4. CASE i # 1 /\ j # 1
      <4>1. /\ i - 1 \in DOMAIN waiters /\ j - 1 \in DOMAIN waiters
            /\ waiters[i - 1] = waiters[j - 1]
        BY <1>6, <2>3, <3>1, <3>2, <3>4
      <4>2. i - 1 = j - 1
        BY <4>1 DEF IInv, QueueSound
      <4>3. QED
        BY <3>1, <4>2, <1>6
    <3>5. QED
      BY <3>3, <3>4
  <2>4. \A t \in Threads : inLoop'[t] => depth'[t] = 0
    BY <1>1, <1>12 DEF IInv, QueueSound
  <2>5. QED
    BY <2>1, <2>3, <2>4 DEF QueueSound
<1>14. NoLostWakeup'
  BY <1>1 DEF NoLostWakeup
<1>15. QED
  BY <1>9, <1>10, <1>11, <1>13, <1>14 DEF IInv

-----------------------------------------------------------------------------
LEMMA ReacquireStep ==
  ASSUME IInv, Reacquire
  PROVE  IInv'
<1>1. current \in Threads /\ holder = current
  BY CurrentRuns DEF Reacquire, Worker, Computing
<1>2. /\ \A t \in Threads : depth'[t] = IF t = current THEN depth[t] + 1 ELSE depth[t]
      /\ depth' \in [Threads -> Nat]
      /\ repeat' = repeat + 1
      /\ UNCHANGED <<current, state, value, waiters, holder, inLoop>>
  BY <1>1 DEF Reacquire, IInv, TypeOK
<1>3. repeat = depth[current] /\ depth[current] > 0 /\ depth[current] \in Nat
      /\ ~ inLoop[current]
  BY <1>1, Slots DEF IInv, Exclusive, TypeOK, Reacquire, Worker, Computing
<1>4. TypeOK' /\ Runner'
  BY <1>2, <1>3 DEF IInv, TypeOK, Runner
<1>5. Exclusive'
  BY <1>1, <1>2, <1>3, Slots DEF IInv, Exclusive
<1>6. QueueSound' /\ NoLostWakeup'
  BY <1>2, <1>3 DEF IInv, QueueSound, NoLostWakeup
<1>7. QED
  BY <1>4, <1>5, <1>6 DEF IInv

LEMMA ReleaseInnerStep ==
  ASSUME IInv, Release, ReleaseInner
  PROVE  IInv'
<1>1. current \in Threads /\ depth[current] > 0 /\ holder = current
  BY CurrentRuns DEF Release, Worker, Computing, IInv, Exclusive
<1>2. /\ \A t \in Threads : depth'[t] = IF t = current THEN depth[t] - 1 ELSE depth[t]
      /\ repeat = depth[current] /\ repeat > 1 /\ repeat' = repeat - 1
      /\ repeat \in Nat
      /\ UNCHANGED <<current, state, value, waiters, holder, inLoop>>
  BY <1>1, Slots DEF Release, ReleaseInner, IInv, TypeOK, Exclusive
<1>3. depth' \in [Threads -> Nat]
  <2>1. depth' = [depth EXCEPT ![current] = @ - 1] /\ depth[current] - 1 \in Nat
    BY <1>1, <1>2 DEF Release
  <2>2. QED
    BY <2>1 DEF IInv, TypeOK
<1>4. TypeOK' /\ Runner'
  BY <1>2, <1>3 DEF IInv, TypeOK, Runner
<1>5. Exclusive'
  BY <1>1, <1>2, Slots DEF IInv, Exclusive
<1>6. QueueSound' /\ NoLostWakeup'
  <2>1. ~ inLoop[current]
    BY DEF Release, Worker, Computing
  <2>2. QED
    BY <1>2, <2>1 DEF IInv, QueueSound, NoLostWakeup
<1>7. QED
  BY <1>4, <1>5, <1>6 DEF IInv

(* The outermost release: the queue gives up its oldest task, who becomes  *)
(* the one that must not be forgotten.                                     *)
LEMMA WakeEffect ==
  ASSUME IInv, waiters # <<>>, current \in Threads, ~ inLoop[current], Wake
  PROVE  /\ current' \in Threads
         /\ state' \in [Threads -> TaskStates]
         /\ \A t \in Threads : state'[t] = "RUNNING" <=> t = current'
         /\ \A t \in Threads : state'[t] = "BLOCKED" <=>
               state[t] = "BLOCKED" /\ t # Last(waiters)
         /\ state'[Idle] \in {"READY", "RUNNING"}
         /\ waiters' \in Seq(Threads)
         /\ \A t : Contains(waiters', t) <=> t # Last(waiters) /\ Contains(waiters, t)
         /\ \A i, j \in DOMAIN waiters' : waiters'[i] = waiters'[j] => i = j
         /\ Last(waiters) \in Threads /\ inLoop[Last(waiters)]
<1> DEFINE w  == Last(waiters)
           st == [state EXCEPT ![w] = "READY"]
<1>1. waiters \in Seq(Threads) /\ DOMAIN waiters = 1 .. Len(waiters)
  BY DEF IInv, TypeOK
<1>2. /\ Len(waiters) \in Nat /\ Len(waiters) >= 1
      /\ w = waiters[Len(waiters)] /\ w \in Threads
      /\ Front(waiters) \in Seq(Threads)
      /\ Len(Front(waiters)) = Len(waiters) - 1
      /\ \A i \in 1 .. Len(waiters) - 1 : Front(waiters)[i] = waiters[i]
  BY <1>1, FrontShape
<1>3. waiters' = Front(waiters) /\ D!Reschedule(st)
  BY DEF Wake
<1>4. Contains(waiters, w)
  BY <1>1, <1>2 DEF Contains
<1> HIDE DEF w
<1>5. inLoop[w] /\ state[w] = "BLOCKED" /\ w # current
  BY <1>2, <1>4 DEF IInv, QueueSound
<1>6. /\ st \in [Threads -> TaskStates]
      /\ \A t \in Threads : st[t] = IF t = w THEN "READY" ELSE state[t]
  BY <1>2 DEF IInv, TypeOK, TaskStates
<1> HIDE DEF st
<1>7. /\ \A t \in Threads : st[t] = "RUNNING" => t = current
      /\ st[Idle] \in {"READY", "RUNNING"}
  BY <1>6, Slots DEF IInv, Runner
<1>8. /\ current' \in Threads
      /\ state' \in [Threads -> TaskStates]
      /\ \A t \in Threads : state'[t] = "RUNNING" <=> t = current'
      /\ \A t \in Threads : state'[t] = "BLOCKED" <=> st[t] = "BLOCKED"
  BY <1>3, <1>6, <1>7, RescheduleEffect
<1>9. state'[Idle] \in {"READY", "RUNNING"}
  BY <1>7, <1>8, Slots DEF TaskStates
<1>10. \A t \in Threads : state'[t] = "BLOCKED" <=> state[t] = "BLOCKED" /\ t # w
  BY <1>6, <1>8
<1>11. \A i, j \in DOMAIN waiters : waiters[i] = waiters[j] => i = j
  BY DEF IInv, QueueSound
<1>12. \A t : Contains(waiters', t) <=> t # w /\ Contains(waiters, t)
  BY <1>1, <1>3, <1>11, FrontContains DEF w
<1>13. \A i, j \in DOMAIN waiters' : waiters'[i] = waiters'[j] => i = j
  <2>1. DOMAIN waiters' = 1 .. Len(waiters) - 1
    BY <1>2, <1>3
  <2>2. \A i \in 1 .. Len(waiters) - 1 : i \in DOMAIN waiters
    BY <1>1, <1>2
  <2>3. QED
    BY <2>1, <2>2, <1>2, <1>3, <1>11
<1>14. QED
  BY <1>2, <1>3, <1>5, <1>8, <1>9, <1>10, <1>12, <1>13 DEF w

LEMMA ReleaseOuterStep ==
  ASSUME IInv, Release, ReleaseOuter
  PROVE  IInv'
<1>1. /\ current \in Threads /\ depth[current] > 0 /\ holder = current
      /\ ~ inLoop[current]
  BY CurrentRuns DEF Release, Worker, Computing, IInv, Exclusive
<1>2. /\ \A t \in Threads : depth'[t] = IF t = current THEN depth[t] - 1 ELSE depth[t]
      /\ repeat = depth[current] /\ repeat = 1 /\ repeat' = 0
      /\ holder' = None /\ value' = FALSE
      /\ UNCHANGED inLoop
  BY <1>1, Slots DEF Release, ReleaseOuter, IInv, TypeOK, Exclusive
<1>3. \A t \in Threads : depth'[t] = 0
  <2>1. \A t \in Threads : ~ (depth[t] > 0) \/ t = current
    BY <1>1 DEF IInv, Exclusive
  <2>2. depth \in [Threads -> Nat]
    BY DEF IInv, TypeOK
  <2>3. ASSUME NEW t \in Threads PROVE depth'[t] = 0
    <3>1. depth[t] \in Nat
      BY <2>2
    <3>2. CASE t = current
      <4>1. depth'[t] = depth[t] - 1 /\ depth[t] = 1
        BY <1>2, <3>2, Zenon
      <4>2. QED
        BY <4>1
    <3>3. CASE t # current
      <4>1. depth'[t] = depth[t] /\ ~ (depth[t] > 0)
        BY <1>2, <2>1, <3>3
      <4>2. QED
        BY <3>1, <4>1
    <3>4. QED
      BY <3>2, <3>3
  <2>4. QED
    BY <2>3
<1>4. depth' \in [Threads -> Nat]
  <2>1. depth' = [depth EXCEPT ![current] = @ - 1] /\ depth[current] - 1 \in Nat
    BY <1>1, <1>2 DEF Release
  <2>2. QED
    BY <2>1 DEF IInv, TypeOK
<1>5. Exclusive'
  BY <1>2, <1>3, Slots DEF Exclusive
<1>6. CASE waiters = <<>>
  <2>1. UNCHANGED <<current, state, waiters>>
    BY <1>6 DEF ReleaseOuter
  <2>2. TypeOK' /\ Runner'
    BY <1>2, <1>4, <2>1 DEF IInv, TypeOK, Runner
  <2>3. QueueSound' /\ NoLostWakeup'
    BY <1>2, <1>3, <1>6, <2>1 DEF IInv, QueueSound, NoLostWakeup
  <2>4. QED
    BY <1>5, <2>2, <2>3 DEF IInv
<1>7. CASE waiters # <<>>
  <2>1. Wake
    BY <1>7 DEF ReleaseOuter
  <2>2. /\ current' \in Threads
        /\ state' \in [Threads -> TaskStates]
        /\ \A t \in Threads : state'[t] = "RUNNING" <=> t = current'
        /\ \A t \in Threads : state'[t] = "BLOCKED" <=>
              state[t] = "BLOCKED" /\ t # Last(waiters)
        /\ state'[Idle] \in {"READY", "RUNNING"}
        /\ waiters' \in Seq(Threads)
        /\ \A t : Contains(waiters', t) <=> t # Last(waiters) /\ Contains(waiters, t)
        /\ \A i, j \in DOMAIN waiters' : waiters'[i] = waiters'[j] => i = j
        /\ Last(waiters) \in Threads /\ inLoop[Last(waiters)]
    BY <1>1, <1>7, <2>1, WakeEffect
  <2>3. TypeOK' /\ Runner'
    BY <1>2, <1>4, <2>2 DEF IInv, TypeOK, Runner, TaskStates
  <2>4. QueueSound'
    BY <1>2, <1>3, <2>2 DEF IInv, QueueSound
  <2>5. NoLostWakeup'
    BY <1>2, <2>2 DEF NoLostWakeup
  <2>6. QED
    BY <1>5, <2>3, <2>4, <2>5 DEF IInv
<1>8. QED
  BY <1>6, <1>7

LEMMA NextStep == IInv /\ [Next]_vars => IInv'
<1> SUFFICES ASSUME IInv, [Next]_vars PROVE IInv'
  OBVIOUS
<1>1. CASE Preempt
  BY <1>1, PreemptStep
<1>2. CASE Block
  BY <1>2, BlockStep
<1>3. ASSUME NEW t \in Threads, Unblock(t) PROVE IInv'
  BY <1>3, UnblockStep
<1>4. CASE Acquire
  <2>1. current \in Threads \ {Idle} /\ holder # current /\ (Take \/ Queue)
    BY <1>4, CurrentRuns DEF Acquire, Worker, Computing
  <2>2. QED
    BY <2>1, TakeStep, QueueStep
<1>5. CASE AcquireAgain
  <2>1. current \in Threads \ {Idle} /\ inLoop[current] /\ (Take \/ Queue)
    BY <1>5, CurrentRuns DEF AcquireAgain, IInv, Runner
  <2>2. holder # current
    BY <2>1 DEF IInv, QueueSound, Exclusive
  <2>3. QED
    BY <2>1, <2>2, TakeStep, QueueStep
<1>6. CASE Reacquire
  BY <1>6, ReacquireStep
<1>7. CASE Release
  BY <1>7, ReleaseInnerStep, ReleaseOuterStep DEF Release
<1>8. CASE UNCHANGED vars
  <2>1. UNCHANGED <<current, state, value, waiters, holder, repeat, inLoop, depth>>
    BY <1>8 DEF vars, lockVars
  <2>2. QED
    BY <2>1 DEF IInv, TypeOK, Runner, Exclusive, QueueSound, NoLostWakeup
<1>9. QED
  BY <1>1, <1>2, <1>3, <1>4, <1>5, <1>6, <1>7, <1>8 DEF Next

LEMMA Invariance == Spec => []IInv
<1>1. QED
  BY InitIInv, NextStep, PTL DEF Spec

(* The lock stays within its types.                                        *)
THEOREM TypeCorrect == Spec => []TypeOK
<1>1. IInv => TypeOK
  BY DEF IInv
<1>2. QED
  BY <1>1, Invariance, PTL

(* Mutual exclusion, and the holder and its count are what they say, for   *)
(* any number of tasks, any nesting and any scheduling.                    *)
THEOREM ExclusiveCorrect == Spec => []Exclusive
<1>1. IInv => Exclusive
  BY DEF IInv
<1>2. QED
  BY <1>1, Invariance, PTL

(* The queue holds the tasks blocked in mutexLock, each once.              *)
THEOREM QueueCorrect == Spec => []QueueSound
<1>1. IInv => QueueSound
  BY DEF IInv
<1>2. QED
  BY <1>1, Invariance, PTL

(* A released mutex never leaves tasks in its queue with no one awake to   *)
(* take it.                                                                *)
THEOREM WakeupCorrect == Spec => []NoLostWakeup
<1>1. IInv => NoLostWakeup
  BY DEF IInv
<1>2. QED
  BY <1>1, Invariance, PTL

-----------------------------------------------------------------------------
(* For those who use the lock: what the invariant says of the tasks, and   *)
(* what its steps do to who sleeps, who is in the loop, and who holds it.  *)
Asleep(t) == state[t] = "BLOCKED"

LEMMA LockFacts ==
  ASSUME IInv
  PROVE  /\ TypeOK
         /\ current \in Threads \cup {Boot}
         /\ holder \in Threads \cup {None}
         /\ state \in [Threads -> {"RUNNING", "READY", "BLOCKED"}]
         /\ \A t \in Threads : state[t] = "RUNNING" <=> t = current
         /\ ~ Asleep(Idle) /\ ~ inLoop[Idle]
         /\ \A t \in Threads : depth[t] > 0 <=> holder = t
         /\ \A t \in Threads : depth[t] \in Nat
         /\ holder # None => repeat = depth[holder]
         /\ value <=> holder # None
         /\ \A t \in Threads : inLoop[t] => depth[t] = 0
         /\ \A t \in Threads : Contains(waiters, t) <=> inLoop[t] /\ Asleep(t)
<1>1. /\ TypeOK /\ Exclusive /\ QueueSound
      /\ \A t \in Threads : state[t] = "RUNNING" <=> t = current
      /\ state[Idle] \in {"READY", "RUNNING"} /\ ~ inLoop[Idle]
  BY DEF IInv, Runner
<1>2. /\ \A t \in Threads : depth[t] > 0 <=> holder = t
      /\ holder # None => repeat = depth[holder]
      /\ value <=> holder # None
  BY <1>1 DEF Exclusive
<1>3. /\ \A t \in Threads : inLoop[t] => depth[t] = 0
      /\ \A t \in Threads : Contains(waiters, t) <=> inLoop[t] /\ Asleep(t)
  BY <1>1 DEF QueueSound, Asleep
<1>4. QED
  BY <1>1, <1>2, <1>3, Slots DEF TypeOK, Asleep

LEMMA RescheduleAsleep ==
  ASSUME IInv, NEW st \in [Threads -> {"RUNNING", "READY", "BLOCKED"}],
         \A t \in Threads : st[t] = "RUNNING" => t = current,
         st[Idle] \in {"READY", "RUNNING"},
         D!Reschedule(st)
  PROVE  current' \in Threads
         /\ \A t \in Threads : Asleep(t)' <=> st[t] = "BLOCKED"
BY RescheduleEffect DEF TaskStates, Asleep

LEMMA PreemptEffect ==
  ASSUME IInv, Preempt
  PROVE  /\ current' \in Threads
         /\ \A t \in Threads : Asleep(t)' <=> Asleep(t)
         /\ UNCHANGED <<value, waiters, holder, repeat, inLoop, depth>>
<1>1. /\ state \in [Threads -> {"RUNNING", "READY", "BLOCKED"}]
      /\ \A t \in Threads : state[t] = "RUNNING" => t = current
      /\ state[Idle] \in {"READY", "RUNNING"}
  BY LockFacts, Slots DEF Asleep
<1>2. D!Reschedule(state) /\ UNCHANGED <<value, waiters, holder, repeat, inLoop, depth>>
  BY DEF Preempt, lockVars
<1>3. QED
  BY <1>1, <1>2, RescheduleAsleep DEF Asleep

LEMMA SleepEffect ==
  ASSUME IInv, current \in Threads, current # Idle,
         D!Reschedule([state EXCEPT ![current] = "BLOCKED"])
  PROVE  /\ current' \in Threads
         /\ \A t \in Threads : Asleep(t)' <=> Asleep(t) \/ t = current
<1> DEFINE st == [state EXCEPT ![current] = "BLOCKED"]
<1>1. /\ st \in [Threads -> {"RUNNING", "READY", "BLOCKED"}]
      /\ \A t \in Threads : st[t] = IF t = current THEN "BLOCKED" ELSE state[t]
  BY LockFacts
<1>2. /\ \A t \in Threads : st[t] = "RUNNING" => t = current
      /\ st[Idle] \in {"READY", "RUNNING"}
  <2> HIDE DEF st
  <2> QED BY <1>1, LockFacts, Slots DEF Asleep
<1> HIDE DEF st
<1>3. /\ current' \in Threads
      /\ \A t \in Threads : Asleep(t)' <=> st[t] = "BLOCKED"
  BY <1>1, <1>2, RescheduleAsleep DEF st
<1>4. QED
  BY <1>1, <1>3 DEF Asleep

LEMMA BlockEffect ==
  ASSUME IInv, Block
  PROVE  /\ current' \in Threads
         /\ \A t \in Threads : Asleep(t)' <=> Asleep(t) \/ t = current
         /\ UNCHANGED <<value, waiters, holder, repeat, inLoop, depth>>
<1>1. current \in Threads /\ current # Idle
  BY LockFacts DEF Block, Worker, Computing
<1>2. QED
  BY <1>1, SleepEffect DEF Block, lockVars

LEMMA TakeEffect ==
  ASSUME IInv, Take, current \in Threads
  PROVE  /\ holder = None /\ holder' = current
         /\ UNCHANGED <<current, state>>
         /\ \A t \in Threads : Asleep(t)' <=> Asleep(t)
         /\ \A t \in Threads : inLoop'[t] <=> inLoop[t] /\ t # current
         /\ \A t \in Threads : depth'[t] <= 1
<1>1. /\ holder = None /\ holder' = current /\ UNCHANGED <<current, state>>
      /\ \A t \in Threads : inLoop'[t] = (inLoop[t] /\ t # current)
      /\ \A t \in Threads : depth'[t] = IF t = current THEN depth[t] + 1 ELSE depth[t]
  BY LockFacts DEF Take, TypeOK, Threads
<1>2. \A t \in Threads : depth[t] = 0
  BY <1>1, LockFacts, Slots
<1>3. \A t \in Threads : depth'[t] <= 1
  BY <1>1, <1>2
<1>4. \A t \in Threads : Asleep(t)' <=> Asleep(t)
  BY <1>1 DEF Asleep
<1>5. \A t \in Threads : inLoop'[t] <=> inLoop[t] /\ t # current
  BY <1>1, Zenon
<1>6. QED
  BY <1>1, <1>3, <1>4, <1>5, Zenon

LEMMA QueueEffect ==
  ASSUME IInv, Queue, current \in Threads, current # Idle
  PROVE  /\ current' \in Threads
         /\ UNCHANGED <<holder, depth>>
         /\ \A t \in Threads : Asleep(t)' <=> Asleep(t) \/ t = current
         /\ \A t \in Threads : inLoop'[t] <=> inLoop[t] \/ t = current
<1>1. /\ UNCHANGED <<holder, depth>>
      /\ \A t \in Threads : inLoop'[t] = (inLoop[t] \/ t = current)
      /\ D!Reschedule([state EXCEPT ![current] = "BLOCKED"])
  BY LockFacts DEF Queue, TypeOK, Threads
<1>2. QED
  BY <1>1, SleepEffect

LEMMA ReleaseEffect ==
  ASSUME IInv, Release, \A t \in Threads : depth[t] <= 1
  PROVE  /\ current \in Threads /\ holder = current /\ holder' = None
         /\ current' \in Threads
         /\ UNCHANGED inLoop
         /\ \A t \in Threads : depth'[t] <= 1
         /\ \A t \in Threads : Asleep(t)' => Asleep(t)
         /\ \A t \in Threads : Asleep(t) /\ ~ Asleep(t)' => inLoop[t]
<1>1. /\ current \in Threads /\ depth[current] = 1 /\ holder = current
      /\ ~ inLoop[current] /\ repeat = 1
  <2>1. current \in Threads /\ ~ inLoop[current] /\ depth[current] > 0
    BY LockFacts DEF Release, Worker, Computing
  <2>2. holder = current /\ depth[current] \in Nat /\ depth[current] <= 1
    BY <2>1, LockFacts
  <2>3. depth[current] = 1
    BY <2>1, <2>2
  <2>4. repeat = depth[current]
    BY <2>1, <2>2, LockFacts, Slots
  <2>5. QED
    BY <2>1, <2>2, <2>3, <2>4
<1>2. ReleaseOuter /\ UNCHANGED inLoop
  BY <1>1 DEF Release, ReleaseInner
<1>3. \A t \in Threads : depth'[t] = IF t = current THEN depth[t] - 1 ELSE depth[t]
  BY LockFacts DEF Release, TypeOK, Threads
<1>4. \A t \in Threads : depth'[t] <= 1
  BY <1>1, <1>3, LockFacts
<1>5. CASE waiters = <<>>
  BY <1>1, <1>2, <1>4, <1>5 DEF ReleaseOuter, Asleep
<1>6. CASE waiters # <<>>
  <2>1. Wake
    BY <1>2, <1>6 DEF ReleaseOuter
  <2>3. /\ current' \in Threads
        /\ \A t \in Threads : state'[t] = "BLOCKED" <=>
              state[t] = "BLOCKED" /\ t # Last(waiters)
        /\ inLoop[Last(waiters)]
    BY <1>1, <1>6, <2>1, WakeEffect
  <2>4. QED
    BY <1>1, <1>2, <1>4, <2>3 DEF ReleaseOuter, Asleep
<1>7. QED
  BY <1>5, <1>6
=============================================================================
