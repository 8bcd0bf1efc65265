--------------------------- MODULE ProcessProofs ----------------------------
(***************************************************************************)
(* Proofs about what the kernel does for its processes.  First their life  *)
(* cycle, Process.tla, for a task table of any size.  Then the time of day *)
(* they are told, TimeOfDay.tla, for any rate of the timer and any date on *)
(* which the machine is switched on.                                       *)
(***************************************************************************)
EXTENDS Process, TimeOfDay, DataLemmas

(* The slot or the child the code's loops stop at, the first one, exists.  *)
LEMMA MinInSet ==
  ASSUME NEW S \in SUBSET Threads, S # {}
  PROVE  Min(S) \in S
<1>1. S \in SUBSET Nat
  BY ProcessAssumption DEF Threads
<1>2. PICK m \in S : \A k \in S : m <= k
  BY <1>1, LeastNat, Zenon
<1>3. QED
  BY <1>2, Zenon DEF Min

-----------------------------------------------------------------------------
(* The invariant.  Besides the properties it says that idle and init keep  *)
(* their slots and stay children of idle, and that idle is never away.     *)
Roots ==
    /\ state[Idle] \in {"READY", "RUNNING"}
    /\ ~ inWait[Idle]
    /\ state[1] # "FREE"
    /\ ppid[0] = Idle /\ ppid[1] = Idle

Runner == \A t \in Threads : state[t] = "RUNNING" <=> t = current

IInv ==
    /\ TypeOK
    /\ Roots
    /\ Runner
    /\ ParentAlive
    /\ NoMissedExit
    /\ FamilyTree

LEMMA Slots ==
    /\ NrTasks \in Nat
    /\ Idle \in Threads /\ 1 \in Threads /\ 2 \in Threads
    /\ Boot \notin Threads /\ AnyPid \notin Threads
    /\ Threads \subseteq Nat
BY ProcessAssumption DEF Threads, Idle, Boot, AnyPid

(* What schedule() does to the table: ready and running tasks stay among   *)
(* those two states, and the one that is picked is the only one running.   *)
LEMMA RescheduleEffect ==
  ASSUME NEW st \in [Threads -> D!States],
         \A t \in Threads : st[t] = "RUNNING" => t = current,
         st[Idle] \in {"READY", "RUNNING"},
         D!Reschedule(st)
  PROVE  /\ current' \in Threads
         /\ state' \in [Threads -> D!States]
         /\ \A t \in Threads : state'[t] = "RUNNING" <=> t = current'
         /\ \A t \in Threads :
               \/ state'[t] = st[t]
               \/ {state'[t], st[t]} \subseteq {"READY", "RUNNING"}
<1>1. PICK next \in D!Eligible(st) : D!SwitchTo(next, st)
  BY DEF D!Reschedule
<1>2. next \in Threads /\ st[next] \in {"READY", "RUNNING"}
  BY <1>1, Slots DEF D!Eligible, D!Ready
<1>3. /\ current' = next
      /\ state' = [t \in Threads |->
                     IF t = next THEN "RUNNING"
                     ELSE IF t = current /\ st[t] = "RUNNING" THEN "READY"
                     ELSE st[t]]
  BY <1>1 DEF D!SwitchTo
<1>4. state' \in [Threads -> D!States]
  BY <1>3 DEF D!States
<1>5. QED
  BY <1>2, <1>3, <1>4

LEMMA InitIInv == Init => IInv
<1> SUFFICES ASSUME Init PROVE IInv
  OBVIOUS
<1>1. TypeOK
  BY Slots DEF Init, TypeOK, Idle, D!States, D!Suspended
<1>2. Roots /\ Runner
  BY Slots DEF Init, Roots, Runner, Idle
<1>3. ParentAlive /\ NoMissedExit
  BY Slots DEF Init, ParentAlive, NoMissedExit, Used, Idle
<1>4. FamilyTree
  BY Slots DEF Init, FamilyTree, Used, Idle
<1>5. QED
  BY <1>1, <1>2, <1>3, <1>4 DEF IInv

(* A step that reschedules and leaves the family alone: only the running   *)
(* and ready tasks change, and the caller may go to sleep on something.    *)
LEMMA SwitchStep ==
  ASSUME IInv, NEW st \in [Threads -> D!States],
         \A t \in Threads :
            \/ st[t] = state[t]
            \/ t = current /\ t # Idle /\ st[t] = "BLOCKED" /\ state[t] = "RUNNING",
         D!Reschedule(st), UNCHANGED procVars
  PROVE  IInv'
<1>1. \A t \in Threads : st[t] = "RUNNING" => t = current
  BY DEF IInv, Runner
<1>2. st[Idle] \in {"READY", "RUNNING"}
  BY Slots DEF IInv, Roots
<1>3. /\ current' \in Threads
      /\ state' \in [Threads -> D!States]
      /\ \A t \in Threads : state'[t] = "RUNNING" <=> t = current'
      /\ \A t \in Threads :
            \/ state'[t] = st[t]
            \/ {state'[t], st[t]} \subseteq {"READY", "RUNNING"}
  BY <1>1, <1>2, RescheduleEffect
<1>4. \A t \in Threads :
         \/ state'[t] = state[t]
         \/ /\ state'[t] \in {"READY", "RUNNING", "BLOCKED"}
            /\ state[t] \in {"READY", "RUNNING"}
  BY <1>3
<1>5. Used' = Used
  BY <1>4 DEF Used
<1>6. \A p, pid : Matching(p, pid)' = Matching(p, pid)
  BY <1>5 DEF Matching, procVars
<1>7. TypeOK'
  BY <1>3 DEF IInv, TypeOK, procVars
<1>8. Roots' /\ Runner'
  <2>1. state'[Idle] \in {"READY", "RUNNING"}
    BY <1>2, <1>3, Slots
  <2>2. QED
    BY <1>3, <1>4, <2>1, Slots DEF IInv, Roots, Runner, procVars
<1>9. ParentAlive'
  <2>1. \A t \in Threads : ppid[t] \in Threads
    BY DEF IInv, TypeOK
  <2>2. QED
    BY <1>4, <1>5, <2>1 DEF IInv, ParentAlive, procVars, Used
<1>10. NoMissedExit'
  <2>1. ASSUME NEW p \in Threads, state'[p] = "WAITING"
        PROVE  /\ Matching(p, waitpid[p]) # {}
               /\ \A t \in Matching(p, waitpid[p]) : state'[t] # "DIED"
    <3>1. state[p] = "WAITING"
      BY <1>4, <2>1
    <3>2. QED
      BY <1>4, <3>1 DEF IInv, NoMissedExit, Matching, Used
  <2>2. QED
    BY <1>6, <2>1 DEF NoMissedExit, procVars
<1>11. FamilyTree'
  BY <1>5 DEF IInv, FamilyTree, procVars
<1>12. QED
  BY <1>7, <1>8, <1>9, <1>10, <1>11 DEF IInv

LEMMA CurrentRuns ==
  ASSUME IInv, current # Boot
  PROVE  current \in Threads /\ state[current] = "RUNNING" /\ current \in Used
BY DEF IInv, TypeOK, Runner, Used

LEMMA PreemptStep ==
  ASSUME IInv, Preempt
  PROVE  IInv'
BY SwitchStep DEF Preempt, IInv, TypeOK

LEMMA BlockStep ==
  ASSUME IInv, Block
  PROVE  IInv'
<1> DEFINE st == [state EXCEPT ![current] = "BLOCKED"]
<1>1. current \in Threads /\ current # Idle /\ state[current] = "RUNNING"
  BY CurrentRuns DEF Block, InSyscall, Computing
<1>2. /\ st \in [Threads -> D!States]
      /\ \A t \in Threads : st[t] = IF t = current THEN "BLOCKED" ELSE state[t]
  BY <1>1 DEF IInv, TypeOK, D!States, D!Suspended
<1>3. D!Reschedule(st) /\ UNCHANGED procVars
  BY DEF Block
<1> HIDE DEF st
<1>4. QED
  BY <1>1, <1>2, <1>3, SwitchStep

LEMMA UnblockStep ==
  ASSUME IInv, NEW t \in Threads, Unblock(t)
  PROVE  IInv'
<1>1. /\ state' \in [Threads -> D!States]
      /\ \A u \in Threads : state'[u] = IF u = t THEN "READY" ELSE state[u]
      /\ state[t] = "BLOCKED"
      /\ UNCHANGED <<current, ppid, waitpid, inWait, panicked>>
  BY DEF Unblock, procVars, IInv, TypeOK, D!States
<1>2. Used' = Used
  BY <1>1 DEF Used
<1>3. TypeOK' /\ Roots' /\ Runner'
  BY <1>1, Slots DEF IInv, TypeOK, Roots, Runner
<1>4. ParentAlive'
  <2>1. \A u \in Threads : ppid[u] \in Threads
    BY DEF IInv, TypeOK
  <2>2. QED
    BY <1>1, <1>2, <2>1 DEF IInv, ParentAlive, Used
<1>5. NoMissedExit'
  BY <1>1, <1>2 DEF IInv, NoMissedExit, Matching, Used
<1>6. FamilyTree'
  BY <1>1, <1>2 DEF IInv, FamilyTree
<1>7. QED
  BY <1>3, <1>4, <1>5, <1>6 DEF IInv

LEMMA ForkStep ==
  ASSUME IInv, Fork
  PROVE  IInv'
<1> DEFINE child == Min(Threads \ Used)
<1>1. child \in Threads /\ child \notin Used
  <2>1. Threads \ Used \in SUBSET Threads /\ Threads \ Used # {}
    BY DEF Fork, Used
  <2>2. QED
    BY <2>1, MinInSet
<1>2. /\ state' = [state EXCEPT ![child] = "READY"]
      /\ ppid' = [ppid EXCEPT ![child] = current]
      /\ waitpid' = [waitpid EXCEPT ![child] = waitpid[current]]
      /\ inWait' = [inWait EXCEPT ![child] = FALSE]
      /\ UNCHANGED <<current, panicked>>
  BY DEF Fork
<1> HIDE DEF child
<1>3. /\ current \in Threads /\ current # Idle /\ state[current] = "RUNNING"
      /\ current \in Used /\ current # child
  BY <1>1, CurrentRuns DEF Fork, InSyscall, Computing
<1>4. /\ state[child] = "FREE" /\ child # Idle /\ child # 1 /\ child # 0
  BY <1>1, Slots DEF IInv, Roots, Used, Idle
<1>5. /\ \A t \in Threads : state'[t] = IF t = child THEN "READY" ELSE state[t]
      /\ \A t \in Threads : ppid'[t] = IF t = child THEN current ELSE ppid[t]
      /\ \A t \in Threads : t # child => waitpid'[t] = waitpid[t]
      /\ \A t \in Threads : ppid[t] \in Threads
  BY <1>1, <1>2 DEF IInv, TypeOK
<1>6. Used' = Used \cup {child}
  BY <1>1, <1>5 DEF Used
<1>7. TypeOK'
  BY <1>1, <1>2, <1>3 DEF IInv, TypeOK, D!States
<1>8. Roots' /\ Runner'
  BY <1>1, <1>2, <1>4, Slots DEF IInv, TypeOK, Roots, Runner, Idle
<1>9. \A t \in Used : ppid[t] # child
  BY <1>4 DEF IInv, ParentAlive
<1>10. ParentAlive'
  BY <1>3, <1>5, <1>6, <1>9 DEF IInv, ParentAlive, Used
<1>11. NoMissedExit'
  <2>1. ASSUME NEW p \in Threads, state'[p] = "WAITING"
        PROVE  /\ Matching(p, waitpid[p])' # {}
               /\ \A t \in Matching(p, waitpid[p])' : state'[t] # "DIED"
    <3>1. p # child /\ p # current /\ state[p] = "WAITING" /\ waitpid'[p] = waitpid[p]
      BY <1>3, <1>5, <2>1
    <3>2. Matching(p, waitpid[p])' = Matching(p, waitpid[p])
      BY <1>1, <1>5, <1>6, <3>1 DEF Matching, Used
    <3>3. QED
      BY <1>1, <1>5, <3>1, <3>2 DEF IInv, NoMissedExit, Matching, Used
  <2>2. QED
    BY <2>1 DEF NoMissedExit
<1>12. FamilyTree'
  <2>1. ASSUME NEW S \in SUBSET (Used' \ {Idle}), S # {},
               \A t \in S : ppid'[t] \in S
        PROVE  FALSE
    <3> DEFINE R == S \ {child}
    <3>1. R \in SUBSET (Used \ {Idle})
      BY <1>6
    <3>2. ASSUME NEW t \in R PROVE ppid[t] \in R
      BY <1>5, <1>6, <1>9, <2>1, <3>1 DEF Used
    <3>3. R # {}
      BY <1>3, <1>5, <1>6, <2>1 DEF Used
    <3>4. QED
      BY <3>1, <3>2, <3>3 DEF IInv, FamilyTree
  <2>2. QED
    BY <2>1 DEF FamilyTree
<1>13. QED
  BY <1>7, <1>8, <1>10, <1>11, <1>12 DEF IInv

LEMMA ExitStep ==
  ASSUME IInv, Exit
  PROVE  IInv'
<1> DEFINE x  == current
           g  == ppid[x]
           st == [t \in Threads |-> IF t = current THEN "DIED"
                                    ELSE IF t \in Awaited(current) THEN "READY"
                                    ELSE state[t]]
<1>1. /\ x \in Threads /\ x # Idle /\ state[x] = "RUNNING" /\ x \in Used
      /\ g \in Threads
  BY CurrentRuns DEF Exit, InSyscall, Computing, IInv, TypeOK
<1>2. g # x /\ g \in Used /\ state[g] # "DIED"
  <2>1. g # x
    <3>1. {x} \in SUBSET (Used \ {Idle})
      BY <1>1
    <3>2. QED
      BY <3>1 DEF IInv, FamilyTree
  <2>2. QED
    BY <1>1, <2>1 DEF IInv, ParentAlive, Used
<1>3. /\ ppid' = Adopt(x) /\ D!Reschedule(st)
      /\ UNCHANGED <<waitpid, inWait, panicked>>
  BY DEF Exit
<1>4. /\ st \in [Threads -> D!States]
      /\ \A t \in Threads :
            st[t] = IF t = x THEN "DIED"
                    ELSE IF t \in Awaited(x) THEN "READY" ELSE state[t]
  BY DEF IInv, TypeOK, D!States
<1>5. Awaited(x) \subseteq {g} /\ (Awaited(x) # {} => state[g] = "WAITING")
  BY DEF Awaited
<1> HIDE DEF st
<1>6. /\ \A t \in Threads : st[t] = "RUNNING" => t = current
      /\ st[Idle] \in {"READY", "RUNNING"}
  BY <1>1, <1>4, Slots DEF IInv, Runner, Roots
<1>7. /\ current' \in Threads
      /\ state' \in [Threads -> D!States]
      /\ \A t \in Threads : state'[t] = "RUNNING" <=> t = current'
      /\ \A t \in Threads :
            \/ state'[t] = st[t]
            \/ {state'[t], st[t]} \subseteq {"READY", "RUNNING"}
  BY <1>3, <1>4, <1>6, RescheduleEffect
<1>8. /\ state'[x] = "DIED"
      /\ \A t \in Threads \ {x} :
            \/ state'[t] = state[t]
            \/ /\ state'[t] \in {"READY", "RUNNING"}
               /\ state[t] \in {"READY", "RUNNING", "WAITING"}
      /\ \A t \in Threads \ {x} : state'[t] = "WAITING" =>
            state[t] = "WAITING" /\ t \notin Awaited(x)
  BY <1>1, <1>4, <1>5, <1>7
<1>9. Used' = Used
  BY <1>1, <1>8 DEF Used
<1>10. /\ ppid' \in [Threads -> Threads]
       /\ \A t \in Used : ppid'[t] = IF t >= 2 /\ ppid[t] = x THEN g ELSE ppid[t]
       /\ \A t \in Threads : ~ (t >= 2) => ppid'[t] = ppid[t]
  <2>1. ppid' = [t \in Threads |->
                   IF t \in Used /\ t >= 2 /\ ppid[t] = x THEN g ELSE ppid[t]]
    BY <1>3 DEF Adopt
  <2>2. \A t \in Threads : ppid[t] \in Threads
    BY DEF IInv, TypeOK
  <2> HIDE DEF g, x
  <2>3. ppid' \in [Threads -> Threads]
    BY <1>1, <2>1, <2>2
  <2>4. \A t \in Used : t \in Threads
    BY DEF Used
  <2>5. QED
    BY <2>1, <2>3, <2>4
<1>11. \A t \in Used : ~ (t >= 2) => ppid[t] # x
  BY <1>1, Slots DEF IInv, Roots, Idle, Used
<1>12. \A t \in Used : ppid'[t] = IF ppid[t] = x THEN g ELSE ppid[t]
  BY <1>10, <1>11, Slots DEF Used
<1>13. TypeOK'
  BY <1>3, <1>7, <1>10 DEF IInv, TypeOK
<1>14. Roots' /\ Runner'
  <2>1. st[Idle] \in {"READY", "RUNNING"} /\ state'[Idle] \in {"READY", "RUNNING"}
    BY <1>6, <1>7, Slots
  <2>2. 0 < 2 /\ 1 < 2 /\ 0 \in Threads /\ 1 \in Threads
    BY Slots DEF Idle
  <2>3. state'[1] # "FREE"
    BY <1>9, <2>2 DEF IInv, Roots, Used
  <2>4. QED
    BY <1>3, <1>7, <1>10, <2>1, <2>2, <2>3 DEF IInv, Roots, Runner
<1>15. ParentAlive'
  <2>1. ASSUME NEW p \in Threads \ {x}, state[p] \notin {"FREE", "DIED"}
        PROVE  state'[p] \notin {"FREE", "DIED"}
    BY <1>8, <2>1
  <2>2. ASSUME NEW t \in Used
        PROVE  state'[ppid'[t]] \notin {"FREE", "DIED"}
    <3>1. CASE ppid[t] = x
      BY <1>1, <1>2, <1>12, <2>1, <3>1 DEF Used
    <3>2. CASE ppid[t] # x
      <4>1. ppid[t] \in Threads \ {x} /\ state[ppid[t]] \notin {"FREE", "DIED"}
        BY <3>2 DEF IInv, TypeOK, ParentAlive, Used
      <4>2. QED
        BY <1>12, <2>1, <3>2, <4>1
    <3>3. QED
      BY <3>1, <3>2
  <2>3. QED
    BY <1>9, <2>2 DEF ParentAlive
<1>16. NoMissedExit'
  <2>1. ASSUME NEW p \in Threads, state'[p] = "WAITING"
        PROVE  /\ Matching(p, waitpid[p])' # {}
               /\ \A t \in Matching(p, waitpid[p])' : state'[t] # "DIED"
    <3>1. p # x /\ state[p] = "WAITING" /\ p \notin Awaited(x)
      BY <1>8, <2>1
    <3>2. /\ Matching(p, waitpid[p]) # {}
          /\ \A t \in Matching(p, waitpid[p]) : state[t] # "DIED"
      BY <3>1 DEF IInv, NoMissedExit
    <3>3. CASE p # g
      <4>1. Matching(p, waitpid[p])' = Matching(p, waitpid[p])
        BY <1>3, <1>9, <1>12, <3>1, <3>3 DEF Matching
      <4>2. x \notin Matching(p, waitpid[p])
        BY <3>3 DEF Matching
      <4>3. QED
        BY <1>8, <3>2, <4>1, <4>2 DEF Matching, Used
    <3>4. CASE p = g
      <4>1. waitpid[p] # x /\ waitpid[p] # AnyPid
        BY <1>1, <3>1, <3>4 DEF Awaited
      <4>2. Matching(p, waitpid[p]) = {waitpid[p]}
        BY <3>2, <4>1 DEF Matching
      <4> DEFINE q == waitpid[p]
      <4>3. q \in Used /\ q >= 2 /\ ppid[q] = p /\ q # x
        BY <4>1, <4>2 DEF Matching
      <4>4. ppid'[q] = p
        BY <1>12, <3>1, <4>3
      <4>5. Matching(p, waitpid[p])' = {q}
        BY <1>3, <1>9, <4>1, <4>3, <4>4 DEF Matching
      <4>6. state'[q] # "DIED"
        BY <1>8, <3>2, <4>2, <4>3 DEF Used
      <4>7. QED
        BY <4>5, <4>6
    <3>5. QED
      BY <3>3, <3>4
  <2>2. QED
    BY <2>1 DEF NoMissedExit
<1>17. FamilyTree'
  <2>1. ASSUME NEW S \in SUBSET (Used \ {Idle}), S # {},
               \A t \in S : ppid'[t] \in S
        PROVE  FALSE
    <3>1. CASE g \in S
      <4> DEFINE R == S \cup {x}
      <4>1. R \in SUBSET (Used \ {Idle}) /\ R # {}
        BY <1>1, <2>1
      <4>2. \A t \in R : ppid[t] \in R
        BY <1>12, <2>1, <3>1
      <4>3. QED
        BY <4>1, <4>2 DEF IInv, FamilyTree
    <3>2. CASE g \notin S
      <4>1. \A t \in S : ppid[t] \in S
        BY <1>12, <2>1, <3>2
      <4>2. QED
        BY <2>1, <4>1 DEF IInv, FamilyTree
    <3>3. QED
      BY <3>1, <3>2
  <2>2. QED
    BY <1>9, <2>1 DEF FamilyTree
<1>18. QED
  BY <1>13, <1>14, <1>15, <1>16, <1>17 DEF IInv

-----------------------------------------------------------------------------
LEMMA ReapStep ==
  ASSUME IInv, current \in Threads, NEW pid, Reap(pid)
  PROVE  IInv'
<1> DEFINE dead == {t \in Matching(current, pid) : state[t] \in Dead}
           c    == Min(dead)
<1>1. c \in dead
  <2>1. dead \in SUBSET Threads /\ dead # {}
    BY DEF Reap, Matching, Used
  <2>2. QED
    BY <2>1, MinInSet
<1>2. /\ state' = [state EXCEPT ![c] = "FREE"]
      /\ ppid' = [ppid EXCEPT ![c] = 0]
      /\ waitpid' = [waitpid EXCEPT ![c] = 0]
      /\ inWait' = [inWait EXCEPT ![current] = FALSE]
      /\ UNCHANGED <<current, panicked>>
  BY DEF Reap
<1>3. /\ c \in Threads /\ c \in Used /\ c >= 2 /\ ppid[c] = current
      /\ state[c] = "DIED"
  BY <1>1 DEF Matching, Dead, Used
<1> HIDE DEF dead, c
<1>4. /\ \A t \in Threads : state'[t] = IF t = c THEN "FREE" ELSE state[t]
      /\ \A t \in Threads : t # c => ppid'[t] = ppid[t] /\ waitpid'[t] = waitpid[t]
      /\ \A t \in Threads : ppid[t] \in Threads
  BY <1>2 DEF IInv, TypeOK
<1>5. Used' = Used \ {c}
  BY <1>3, <1>4 DEF Used
<1>6. TypeOK'
  BY <1>2, <1>3, Slots DEF IInv, TypeOK, Idle, D!States
<1>7. Roots' /\ Runner'
  <2>1. c # Idle /\ c # 1 /\ c # 0
    BY <1>3 DEF Idle
  <2>2. inWait'[Idle] = inWait[Idle] \/ ~ inWait'[Idle]
    BY <1>2, Slots DEF IInv, TypeOK
  <2>3. QED
    BY <1>2, <1>3, <1>4, <2>1, <2>2, Slots DEF IInv, Roots, Runner, Idle
<1>8. \A t \in Used : ppid[t] # c
  BY <1>3 DEF IInv, ParentAlive
<1>9. ParentAlive'
  BY <1>4, <1>5, <1>8 DEF IInv, ParentAlive, Used
<1>10. NoMissedExit'
  <2>1. ASSUME NEW p \in Threads, state'[p] = "WAITING"
        PROVE  /\ Matching(p, waitpid[p])' # {}
               /\ \A t \in Matching(p, waitpid[p])' : state'[t] # "DIED"
    <3>1. /\ p # c /\ state[p] = "WAITING" /\ waitpid'[p] = waitpid[p]
          /\ p # ppid[c]
      BY <1>3, <1>4, <2>1 DEF IInv, Runner
    <3>2. Matching(p, waitpid[p])' = Matching(p, waitpid[p])
      BY <1>4, <1>5, <3>1 DEF Matching, Used
    <3>3. QED
      BY <1>4, <3>1, <3>2 DEF IInv, NoMissedExit, Matching, Used
  <2>2. QED
    BY <2>1 DEF NoMissedExit
<1>11. FamilyTree'
  <2>1. \A t \in Used' : ppid'[t] = ppid[t]
    BY <1>4, <1>5 DEF Used
  <2>2. ASSUME NEW S \in SUBSET (Used' \ {Idle}), S # {}
        PROVE  \E t \in S : ppid'[t] \notin S
    BY <1>5, <2>1, <2>2 DEF IInv, FamilyTree
  <2>3. QED
    BY <2>2 DEF FamilyTree
<1>12. QED
  BY <1>6, <1>7, <1>9, <1>10, <1>11 DEF IInv

LEMMA AwaitChildStep ==
  ASSUME IInv, current \in Threads \ {Idle}, state[current] = "RUNNING",
         NEW pid \in Threads \cup {AnyPid}, AwaitChild(pid)
  PROVE  IInv'
<1> DEFINE st == [state EXCEPT ![current] = "WAITING"]
<1>1. /\ st \in [Threads -> D!States]
      /\ \A t \in Threads : st[t] = IF t = current THEN "WAITING" ELSE state[t]
  BY DEF IInv, TypeOK, D!States, D!Suspended
<1>2. /\ Matching(current, pid) # {}
      /\ \A t \in Matching(current, pid) : state[t] # "DIED"
      /\ waitpid' = [waitpid EXCEPT ![current] = pid]
      /\ inWait' = [inWait EXCEPT ![current] = TRUE]
      /\ D!Reschedule(st)
      /\ UNCHANGED <<ppid, panicked>>
  BY DEF AwaitChild, Dead
<1> HIDE DEF st
<1>3. /\ \A t \in Threads : st[t] = "RUNNING" => t = current
      /\ st[Idle] \in {"READY", "RUNNING"}
  BY <1>1, Slots DEF IInv, Runner, Roots
<1>4. /\ current' \in Threads
      /\ state' \in [Threads -> D!States]
      /\ \A t \in Threads : state'[t] = "RUNNING" <=> t = current'
      /\ \A t \in Threads :
            \/ state'[t] = st[t]
            \/ {state'[t], st[t]} \subseteq {"READY", "RUNNING"}
  BY <1>1, <1>2, <1>3, RescheduleEffect
<1>5. \A t \in Threads :
         /\ state'[t] = "FREE" <=> state[t] = "FREE"
         /\ state'[t] = "DIED" <=> state[t] = "DIED"
         /\ state'[t] = "WAITING" => t = current \/ state[t] = "WAITING"
  BY <1>1, <1>4
<1>6. Used' = Used
  BY <1>5 DEF Used
<1>7. TypeOK'
  BY <1>2, <1>4 DEF IInv, TypeOK
<1>8. Roots' /\ Runner'
  <2>1. state'[Idle] \in {"READY", "RUNNING"} /\ inWait'[Idle] = inWait[Idle]
    BY <1>2, <1>3, <1>4, Slots DEF IInv, TypeOK
  <2>2. QED
    BY <1>2, <1>4, <1>5, <2>1, Slots DEF IInv, Roots, Runner
<1>9. ParentAlive'
  <2>1. \A t \in Threads : ppid[t] \in Threads
    BY DEF IInv, TypeOK
  <2>2. QED
    BY <1>2, <1>5, <1>6, <2>1 DEF IInv, ParentAlive, Used
<1>10. NoMissedExit'
  <2>1. ASSUME NEW p \in Threads, state'[p] = "WAITING"
        PROVE  /\ Matching(p, waitpid'[p]) # {}
               /\ \A t \in Matching(p, waitpid'[p]) : state'[t] # "DIED"
    <3>1. CASE p = current
      <4>1. waitpid'[p] = pid
        BY <1>2, <3>1 DEF IInv, TypeOK
      <4>2. QED
        BY <1>2, <1>5, <3>1, <4>1 DEF Matching, Used
    <3>2. CASE p # current
      <4>1. waitpid'[p] = waitpid[p] /\ state[p] = "WAITING"
        BY <1>2, <1>5, <2>1, <3>2 DEF IInv, TypeOK
      <4>2. QED
        BY <1>5, <4>1 DEF IInv, NoMissedExit, Matching, Used
    <3>3. QED
      BY <3>1, <3>2
  <2>2. \A p, q : Matching(p, q)' = Matching(p, q)
    BY <1>2, <1>6 DEF Matching
  <2>3. QED
    BY <2>1, <2>2 DEF NoMissedExit
<1>11. FamilyTree'
  BY <1>2, <1>6 DEF IInv, FamilyTree
<1>12. QED
  BY <1>7, <1>8, <1>9, <1>10, <1>11 DEF IInv

LEMMA RestStep ==
  ASSUME IInv, inWait' \in [Threads -> BOOLEAN], ~ inWait'[Idle],
         panicked' \in BOOLEAN, UNCHANGED <<current, state, ppid, waitpid>>
  PROVE  IInv'
<1>1. Used' = Used /\ \A p, pid : Matching(p, pid)' = Matching(p, pid)
  BY DEF Used, Matching
<1>2. QED
  BY <1>1 DEF IInv, TypeOK, Roots, Runner, ParentAlive, NoMissedExit, FamilyTree

LEMMA RoundStep ==
  ASSUME IInv, current \in Threads \ {Idle}, state[current] = "RUNNING",
         NEW pid \in Threads \cup {AnyPid}, Round(pid)
  PROVE  IInv'
<1>1. CASE Reap(pid)
  BY <1>1, ReapStep
<1>2. CASE AwaitChild(pid)
  BY <1>2, AwaitChildStep
<1>3. CASE NoChild(pid)
  <2>1. inWait' \in [Threads -> BOOLEAN] /\ ~ inWait'[Idle]
    BY <1>3, Slots DEF NoChild, IInv, TypeOK, Roots
  <2>2. QED
    BY <1>3, <2>1, RestStep DEF NoChild, IInv, TypeOK
<1>4. QED
  BY <1>1, <1>2, <1>3 DEF Round

LEMMA NextStep == IInv /\ [Next]_vars => IInv'
<1> SUFFICES ASSUME IInv, [Next]_vars PROVE IInv'
  OBVIOUS
<1>1. CASE Preempt
  BY <1>1, PreemptStep
<1>2. CASE Block
  BY <1>2, BlockStep
<1>3. ASSUME NEW t \in Threads, Unblock(t) PROVE IInv'
  BY <1>3, UnblockStep
<1>4. CASE Fork
  BY <1>4, ForkStep
<1>5. CASE ForkPanic
  BY <1>5, RestStep DEF ForkPanic, IInv, TypeOK, Roots
<1>6. CASE Exit
  BY <1>6, ExitStep
<1>7. ASSUME NEW pid \in Threads \cup {AnyPid}, Waitpid(pid) PROVE IInv'
  <2>1. current \in Threads \ {Idle} /\ state[current] = "RUNNING" /\ Round(pid)
    BY <1>7, CurrentRuns DEF Waitpid, InSyscall, Computing
  <2>2. QED
    BY <2>1, RoundStep
<1>8. CASE WaitpidAgain
  <2>1. current \in Threads /\ state[current] = "RUNNING" /\ current # Idle
    BY <1>8, CurrentRuns DEF WaitpidAgain, IInv, Roots
  <2>2. waitpid[current] \in Threads \cup {AnyPid} /\ Round(waitpid[current])
    BY <1>8, <2>1 DEF WaitpidAgain, IInv, TypeOK
  <2>3. QED
    BY <2>1, <2>2, RoundStep
<1>9. CASE UNCHANGED vars
  BY <1>9, RestStep DEF vars, IInv, TypeOK, Roots
<1>10. QED
  BY <1>1, <1>2, <1>3, <1>4, <1>5, <1>6, <1>7, <1>8, <1>9 DEF Next

LEMMA Invariance == Spec => []IInv
<1>1. QED
  BY InitIInv, NextStep, PTL DEF Spec

(* The task table stays within its types.                                  *)
THEOREM TypeCorrect == Spec => []TypeOK
<1>1. IInv => TypeOK
  BY DEF IInv
<1>2. QED
  BY <1>1, Invariance, PTL

(* The parent that taskExit looks up is always there and alive, for any    *)
(* number of tasks and any order of forks, exits and waits.                *)
THEOREM ParentAliveCorrect == Spec => []ParentAlive
<1>1. IInv => ParentAlive
  BY DEF IInv
<1>2. QED
  BY <1>1, Invariance, PTL

(* No exit is missed by a parent in waitpid.                               *)
THEOREM NoMissedExitCorrect == Spec => []NoMissedExit
<1>1. IInv => NoMissedExit
  BY DEF IInv
<1>2. QED
  BY <1>1, Invariance, PTL

(* Every task descends from the idle task.                                 *)
THEOREM FamilyTreeCorrect == Spec => []FamilyTree
<1>1. IInv => FamilyTree
  BY DEF IInv
<1>2. QED
  BY <1>1, Invariance, PTL

-----------------------------------------------------------------------------
(* The refinement, step by step.                                           *)
LEMMA InitDispatch == Init => D!Init
BY Slots DEF Init, D!Init, Idle

LEMMA Leaves ==
  ASSUME NEW s \in D!Suspended \cup {"DIED"}, NEW W \in SUBSET D!Sleepers,
         current \in Threads \ {Idle},
         D!Reschedule([D!Unblocked(W) EXCEPT ![current] = s])
  PROVE  D!Next
BY DEF D!Next, D!Leave

LEMMA LeaveAlone ==
  ASSUME TypeOK, NEW s \in D!Suspended \cup {"DIED"},
         current \in Threads \ {Idle},
         D!Reschedule([state EXCEPT ![current] = s])
  PROVE  D!Next
<1>1. {} \in SUBSET D!Sleepers /\ D!Unblocked({}) = state
  BY DEF D!Unblocked, TypeOK
<1>2. D!Reschedule([D!Unblocked({}) EXCEPT ![current] = s])
  BY <1>1
<1>3. QED
  BY <1>1, <1>2, Leaves

LEMMA RoundDispatch ==
  ASSUME IInv, current \in Threads \ {Idle}, NEW pid, Round(pid)
  PROVE  D!Next \/ UNCHANGED D!vars
<1>1. CASE Reap(pid)
  <2> DEFINE dead == {t \in Matching(current, pid) : state[t] \in Dead}
             c    == Min(dead)
  <2>1. dead \in SUBSET Threads /\ dead # {}
    BY <1>1 DEF Reap, Matching, Used
  <2>2. c \in dead
    BY <2>1, MinInSet
  <2>3. c \in Threads /\ state[c] = "DIED"
    BY <2>2 DEF Matching, Used, Dead
  <2>4. state' = [state EXCEPT ![c] = "FREE"] /\ UNCHANGED current
    BY <1>1 DEF Reap
  <2> HIDE DEF c
  <2>5. D!Reap
    BY <2>3, <2>4, Slots DEF D!Reap
  <2>6. QED
    BY <2>5 DEF D!Next
<1>2. CASE AwaitChild(pid)
  BY <1>2, LeaveAlone DEF AwaitChild, D!Suspended, IInv
<1>3. CASE NoChild(pid)
  BY <1>3 DEF NoChild, D!vars
<1>4. QED
  BY <1>1, <1>2, <1>3 DEF Round

LEMMA ExitDispatch ==
  ASSUME IInv, Exit
  PROVE  D!Next
<1> DEFINE W == Awaited(current)
<1>1. current \in Threads \ {Idle} /\ ppid[current] \in Threads
  BY CurrentRuns DEF Exit, InSyscall, Computing, IInv, TypeOK
<1>2. W \in SUBSET D!Sleepers
  BY <1>1 DEF Awaited, D!Sleepers, D!Suspended
<1>3. D!Reschedule([t \in Threads |-> IF t = current THEN "DIED"
                                      ELSE IF t \in W THEN "READY"
                                      ELSE state[t]])
  BY DEF Exit
<1> HIDE DEF W
<1>4. [t \in Threads |-> IF t = current THEN "DIED"
                         ELSE IF t \in W THEN "READY" ELSE state[t]]
      = [D!Unblocked(W) EXCEPT ![current] = "DIED"]
  BY <1>1 DEF D!Unblocked
<1>5. QED
  BY <1>1, <1>2, <1>3, <1>4, Leaves

LEMMA StepDispatch ==
  ASSUME IInv, [Next]_vars
  PROVE  D!Next \/ UNCHANGED D!vars
<1>1. CASE Preempt
  <2>1. {} \in SUBSET D!Sleepers /\ D!Unblocked({}) = state
    BY DEF D!Unblocked, IInv, TypeOK
  <2>2. D!Reschedule(D!Unblocked({}))
    BY <1>1, <2>1 DEF Preempt
  <2>3. QED
    BY <2>1, <2>2 DEF D!Next, D!Resume
<1>2. CASE Block
  <2>1. current \in Threads \ {Idle}
    BY <1>2, CurrentRuns DEF Block, InSyscall, Computing
  <2>2. QED
    BY <1>2, <2>1, LeaveAlone DEF Block, D!Suspended, IInv
<1>3. ASSUME NEW t \in Threads, Unblock(t) PROVE D!Next
  <2>1. {t} \in SUBSET D!Sleepers
    BY <1>3 DEF Unblock, D!Sleepers, D!Suspended
  <2>2. state' = D!Unblocked({t}) /\ UNCHANGED current
    BY <1>3 DEF Unblock, D!Unblocked, IInv, TypeOK
  <2>3. QED
    BY <2>1, <2>2 DEF D!Next, D!Resume
<1>4. CASE Fork
  <2> DEFINE child == Min(Threads \ Used)
  <2>1. Threads \ Used \in SUBSET Threads /\ Threads \ Used # {}
    BY <1>4 DEF Fork, Used
  <2>2. child \in Threads \ Used
    BY <2>1, MinInSet
  <2>3. state[child] = "FREE" /\ child \in Threads
    BY <2>2 DEF Used
  <2>4. /\ state' = [state EXCEPT ![child] = "READY"]
        /\ UNCHANGED current /\ current # Boot
    BY <1>4 DEF Fork, InSyscall, Computing
  <2> HIDE DEF child
  <2>5. D!Create
    BY <2>3, <2>4 DEF D!Create
  <2>6. QED
    BY <2>5 DEF D!Next
<1>5. CASE ForkPanic
  BY <1>5 DEF ForkPanic, D!vars
<1>6. CASE Exit
  BY <1>6, ExitDispatch
<1>7. ASSUME NEW pid \in Threads \cup {AnyPid}, Waitpid(pid)
      PROVE  D!Next \/ UNCHANGED D!vars
  <2>1. current \in Threads \ {Idle} /\ Round(pid)
    BY <1>7, CurrentRuns DEF Waitpid, InSyscall, Computing
  <2>2. QED
    BY <2>1, RoundDispatch
<1>8. CASE WaitpidAgain
  <2>1. current \in Threads \ {Idle} /\ Round(waitpid[current])
    BY <1>8, CurrentRuns DEF WaitpidAgain, IInv, Roots
  <2>2. QED
    BY <2>1, RoundDispatch
<1>9. CASE UNCHANGED vars
  BY <1>9 DEF vars, D!vars
<1>10. QED
  BY <1>1, <1>2, <1>3, <1>4, <1>5, <1>6, <1>7, <1>8, <1>9 DEF Next

(* Fork, exit and waitpid keep to the scheduler's abstract life cycle: a   *)
(* slot is filled only when free and emptied only when its task has died.  *)
THEOREM ProcessImplementsDispatch == Spec => DispatchSpec
<1>1. IInv /\ [Next]_vars => [D!Next]_D!vars
  BY StepDispatch
<1>2. QED
  BY <1>1, InitDispatch, Invariance, PTL DEF Spec, DispatchSpec, D!Spec

(* The task on the processor is the one task that is RUNNING, after every  *)
(* system call and every preemption.                                       *)
THEOREM SoleRunnerCorrect == Spec => []D!SoleRunner
<1>1. IInv => D!SoleRunner
  BY Slots DEF IInv, TypeOK, Runner, D!SoleRunner
<1>2. QED
  BY <1>1, Invariance, PTL

-----------------------------------------------------------------------------
(* What a step of the abstract scheduler may do to the dead and the free.  *)
Buried(st) == \A t \in Threads :
    /\ state[t] = "DIED" => st[t] = "DIED"
    /\ state[t] = "FREE" => st[t] = "FREE"

LEMMA RescheduleBuried ==
  ASSUME IInv, NEW st \in [Threads -> D!States], Buried(st),
         \A t \in Threads : st[t] = "RUNNING" => t = current,
         st[Idle] \in {"READY", "RUNNING"},
         D!Reschedule(st)
  PROVE  Buried(state')
BY RescheduleEffect DEF Buried

LEMMA UnblockedBuried ==
  ASSUME IInv, NEW W \in SUBSET D!Sleepers
  PROVE  /\ D!Unblocked(W) \in [Threads -> D!States]
         /\ Buried(D!Unblocked(W))
         /\ \A t \in Threads : D!Unblocked(W)[t] = "RUNNING" => t = current
         /\ D!Unblocked(W)[Idle] \in {"READY", "RUNNING"}
BY Slots DEF IInv, TypeOK, Roots, Runner, Buried, D!Unblocked, D!Sleepers,
             D!Suspended, D!States

LEMMA LeaveBuried ==
  ASSUME IInv, D!Leave
  PROVE  Buried(state')
<1>1. PICK s \in D!Suspended \cup {"DIED"}, W \in SUBSET D!Sleepers :
         /\ current \in Threads \ {Idle}
         /\ D!Reschedule([D!Unblocked(W) EXCEPT ![current] = s])
  BY DEF D!Leave
<1> DEFINE st == [D!Unblocked(W) EXCEPT ![current] = s]
<1>2. /\ D!Unblocked(W) \in [Threads -> D!States]
      /\ Buried(D!Unblocked(W))
      /\ \A t \in Threads : D!Unblocked(W)[t] = "RUNNING" => t = current
      /\ D!Unblocked(W)[Idle] \in {"READY", "RUNNING"}
  BY UnblockedBuried
<1>3. \A t \in Threads : st[t] = IF t = current THEN s ELSE D!Unblocked(W)[t]
  BY <1>1, <1>2
<1>4. s \in D!States /\ s # "RUNNING"
  BY DEF D!States, D!Suspended
<1>5. st \in [Threads -> D!States]
  BY <1>1, <1>2, <1>4
<1>6. D!Reschedule(st)
  BY <1>1
<1>7. state[current] = "RUNNING"
  BY <1>1 DEF IInv, Runner
<1> HIDE DEF st
<1>8. Buried(st)
  BY <1>2, <1>3, <1>7 DEF Buried
<1>9. /\ \A t \in Threads : st[t] = "RUNNING" => t = current
      /\ st[Idle] \in {"READY", "RUNNING"}
  BY <1>1, <1>2, <1>3, <1>4, Slots
<1>10. QED
  BY <1>5, <1>6, <1>8, <1>9, RescheduleBuried

(* A dead task never runs again: its slot can only be emptied, and it is   *)
(* filled before it runs.                                                  *)
THEOREM DeadStayDeadCorrect == Spec => D!DeadStayDead
<1> DEFINE Kept == \A t \in Threads :
       /\ state[t] = "DIED" => state'[t] \in {"DIED", "FREE"}
       /\ state[t] = "FREE" => state'[t] \in {"FREE", "READY"}
<1>1. ASSUME IInv, [Next]_vars PROVE [Kept]_D!vars
  <2>1. CASE D!Resume
    <3>1. PICK W \in SUBSET D!Sleepers :
             \/ D!Reschedule(D!Unblocked(W))
             \/ state' = D!Unblocked(W) /\ UNCHANGED current
      BY <2>1 DEF D!Resume
    <3>2. Buried(state')
      BY <1>1, <3>1, UnblockedBuried, RescheduleBuried
    <3>3. QED
      BY <3>2 DEF Buried
  <2>2. CASE D!Leave
    BY <1>1, <2>2, LeaveBuried DEF Buried
  <2>3. CASE D!Create \/ D!Reap
    BY <1>1, <2>3 DEF D!Create, D!Reap, IInv, TypeOK
  <2>4. QED
    BY <1>1, <2>1, <2>2, <2>3, StepDispatch DEF D!Next
<1>2. QED
  BY <1>1, Invariance, PTL DEF Spec, D!DeadStayDead

-----------------------------------------------------------------------------
(* The calendar.                                                           *)

LEMMA TimeUnits ==
    /\ Minute \in 2 .. 100 /\ MinutesInHour \in 1 .. 100 /\ HoursInDay \in 1 .. 100
    /\ Hour \in Nat \ {0} /\ Day \in Nat \ {0} /\ Year \in Nat
    /\ Hour = MinutesInHour * Minute /\ Day = HoursInDay * Hour /\ Year = 365 * Day
    /\ Hz \in Nat \ {0} /\ MaxPulses \in Nat /\ MaxPulses <= Hz * Year
<1>1. /\ Minute \in 2 .. 100 /\ MinutesInHour \in 1 .. 100 /\ HoursInDay \in 1 .. 100
      /\ Hz \in Nat \ {0} /\ MaxPulses \in Nat /\ MaxPulses <= Hz * Year
  BY TimeAssumption DEF TimeAssumption
<1>2. ASSUME NEW a \in Nat \ {0}, NEW b \in Nat \ {0} PROVE a * b \in Nat \ {0}
  <2>1. CASE a = 1
    BY <2>1
  <2>2. CASE a > 1
    <3>1. a * b = (a - 1) * b + b /\ (a - 1) * b \in Nat
      BY <2>2
    <3>2. QED
      BY <3>1
  <2>3. QED
    BY <2>1, <2>2
<1>3. Hour \in Nat \ {0}
  BY <1>1, <1>2 DEF Hour
<1>4. Day \in Nat \ {0}
  BY <1>1, <1>2, <1>3 DEF Day
<1>5. QED
  BY <1>1, <1>3, <1>4 DEF Hour, Day, Year

\* The years of the chip, and the one after.
LEMMA LeapYears ==
  ASSUME NEW y \in Nat, y >= 1970, y <= 2070
  PROVE  IsLeap(y) <=> y % 4 = 0
<1>1. y % 100 = 0 <=> y = 2000
  OBVIOUS
<1>2. 2000 % 400 = 0
  OBVIOUS
<1>3. QED
  BY <1>1, <1>2 DEF IsLeap

(* The table of the kernel holds the days before each month of a leap      *)
(* year.                                                                   *)
LEMMA MonthTable ==
  ASSUME NEW y \in Int, NEW m \in 1 .. 12
  PROVE  DaysBefore(y)[m] = month[m] - IF m > 2 /\ ~ IsLeap(y) THEN 1 ELSE 0
<1> DEFINE less(k) == IF k > 2 /\ ~ IsLeap(y) THEN 1 ELSE 0
           g == [k \in 1 .. 12 |-> month[k] - less(k)]
           Step(h) == [k \in 1 .. 12 |-> IF k = 1 THEN 0
                                         ELSE h[k - 1] + MonthLength(y, k - 1)]
           d == DaysBefore(y)
<1>1. \A k \in 1 .. 12 : g[k] = IF k = 1 THEN 0 ELSE g[k - 1] + MonthLength(y, k - 1)
  <2>1. month[1] = 0 /\ \A k \in 2 .. 12 :
            month[k] = month[k - 1] + IF k = 3 THEN 29
                                      ELSE IF k \in {5, 7, 10, 12} THEN 30 ELSE 31
    BY DEF month
  <2>2. \A k \in 2 .. 12 : MonthLength(y, k - 1) =
            IF k = 3 THEN IF IsLeap(y) THEN 29 ELSE 28
            ELSE IF k \in {5, 7, 10, 12} THEN 30 ELSE 31
    BY DEF MonthLength
  <2>3. \A k \in 1 .. 12 : month[k] \in Nat
    BY DEF month
  <2>4. QED
    BY <2>1, <2>2, <2>3
<1>2. g = Step(g)
  BY <1>1
<1>3. d = Step(d)
  <2>1. d = CHOOSE h : h = Step(h)
    BY DEF DaysBefore
  <2> HIDE DEF g, Step, d
  <2>2. QED
    BY <1>2, <2>1
<1>4. \A k \in 1 .. 12 : d[k] = IF k = 1 THEN 0 ELSE d[k - 1] + MonthLength(y, k - 1)
  <2> HIDE DEF d
  <2>1. QED
    BY <1>3
<1> HIDE DEF g, d
<1>5. ASSUME NEW k \in 1 .. 12, k > 1 => d[k - 1] = g[k - 1]
      PROVE  d[k] = g[k]
  BY <1>1, <1>4, <1>5
<1>6. d[1] = g[1] /\ d[2] = g[2] /\ d[3] = g[3] /\ d[4] = g[4]
  <2>1. d[1] = g[1]
    BY <1>5
  <2>2. d[2] = g[2]
    BY <1>5, <2>1
  <2>3. d[3] = g[3]
    BY <1>5, <2>2
  <2>4. QED
    BY <1>5, <2>1, <2>2, <2>3
<1>7. d[5] = g[5] /\ d[6] = g[6] /\ d[7] = g[7] /\ d[8] = g[8]
  <2>1. d[5] = g[5]
    BY <1>5, <1>6
  <2>2. d[6] = g[6]
    BY <1>5, <2>1
  <2>3. d[7] = g[7]
    BY <1>5, <2>2
  <2>4. QED
    BY <1>5, <2>1, <2>2, <2>3
<1>8. d[9] = g[9] /\ d[10] = g[10] /\ d[11] = g[11] /\ d[12] = g[12]
  <2>1. d[9] = g[9]
    BY <1>5, <1>7
  <2>2. d[10] = g[10]
    BY <1>5, <2>1
  <2>3. d[11] = g[11]
    BY <1>5, <2>2
  <2>4. QED
    BY <1>5, <2>1, <2>2, <2>3
<1>9. d[m] = g[m]
  BY <1>6, <1>7, <1>8
<1>10. QED
  BY <1>9 DEF g, d

\* The leap years before 1970 + n.
LeapSet(n) == {y \in 1970 .. 1970 + n - 1 : IsLeap(y)}

LEMMA LeapCount ==
  ASSUME NEW n \in 0 .. 100
  PROVE  Cardinality(LeapSet(n)) = LeapDays(n)
<1> DEFINE S == {k \in 0 .. 100 : /\ IsFiniteSet(LeapSet(k))
                                  /\ Cardinality(LeapSet(k)) = LeapDays(k)}
<1>1. 0 \in S
  <2>1. LeapSet(0) = {}
    BY DEF LeapSet
  <2>2. LeapDays(0) = 0
    BY DEF LeapDays
  <2>3. QED
    BY <2>1, <2>2, FS_EmptySet
<1>2. ASSUME NEW k \in 0 .. 99, k \in S PROVE k + 1 \in S
  <2> DEFINE A == LeapSet(k)   y == 1970 + k
  <2>1. IsFiniteSet(A) /\ Cardinality(A) = LeapDays(k) /\ y \in 1970 .. 2070
    BY <1>2
  <2>2. y \notin A
    BY DEF LeapSet
  <2>3. CASE IsLeap(y)
    <3>1. LeapSet(k + 1) = A \cup {y}
      BY <2>3 DEF LeapSet
    <3>2. y % 4 = 0
      BY <2>1, <2>3, LeapYears
    <3>3. LeapDays(k + 1) = LeapDays(k) + 1
      BY <3>2 DEF LeapDays
    <3> HIDE DEF A, y
    <3>4. IsFiniteSet(A \cup {y}) /\ Cardinality(A \cup {y}) = Cardinality(A) + 1
      BY <2>1, <2>2, FS_AddElement
    <3>5. QED
      BY <3>1, <3>3, <3>4, <2>1
  <2>4. CASE ~ IsLeap(y)
    <3>1. LeapSet(k + 1) = A
      BY <2>4 DEF LeapSet
    <3>2. y % 4 # 0
      BY <2>1, <2>4, LeapYears
    <3>3. LeapDays(k + 1) = LeapDays(k)
      BY <3>2 DEF LeapDays
    <3>4. QED
      BY <3>1, <3>3, <2>1
  <2>5. QED
    BY <2>3, <2>4
<1>3. 0 .. 100 \subseteq S
  <2> HIDE DEF S
  <2>1. QED
    BY <1>1, <1>2, InductionTo
<1>4. QED
  BY <1>3

\* The days of n years from 1970, the leap day of a year, the days of a year
\* before a month, and those from 1970 up to a day.
DaysTo(n) == 365 * n + LeapDays(n)
Extra(y) == IF IsLeap(y) THEN 1 ELSE 0
MonthStart(y, m) == month[m] - IF m > 2 /\ ~ IsLeap(y) THEN 1 ELSE 0
DayNumber(y, m, k) == DaysTo(y - 1970) + MonthStart(y, m) + (k - 1)

LEMMA Months ==
  ASSUME NEW y \in Nat, y >= 1970, y <= 2069, NEW m \in 1 .. 12
  PROVE  /\ MonthStart(y, m) \in 0 .. 335 /\ MonthLength(y, m) \in 28 .. 31
         /\ Extra(y) \in 0 .. 1
         /\ MonthStart(y, 1) = 0 /\ MonthStart(y, 12) = 334 + Extra(y)
         /\ MonthLength(y, 12) = 31
         /\ DaysBefore(y)[m] = MonthStart(y, m)
         /\ m < 12 => MonthStart(y, m + 1) = MonthStart(y, m) + MonthLength(y, m)
<1>1. month[m] \in 0 .. 335 /\ month[1] = 0 /\ month[12] = 335 /\ (m > 2 => month[m] > 0)
  BY DEF month
<1>2. MonthLength(y, m) \in 28 .. 31 /\ MonthLength(y, 12) = 31
  BY DEF MonthLength
<1>3. m < 12 => month[m + 1] = month[m] + IF m = 2 THEN 29
                                 ELSE IF m \in {4, 6, 9, 11} THEN 30 ELSE 31
  BY DEF month
<1>4. m < 12 => MonthLength(y, m) = IF m = 2 THEN IF IsLeap(y) THEN 29 ELSE 28
                                 ELSE IF m \in {4, 6, 9, 11} THEN 30 ELSE 31
  BY DEF MonthLength
<1>5. Extra(y) \in 0 .. 1 /\ MonthStart(y, 1) = 0 /\ MonthStart(y, 12) = 334 + Extra(y)
  BY <1>1 DEF Extra, MonthStart
<1>6. MonthStart(y, m) \in 0 .. 335
  BY <1>1 DEF MonthStart
<1>7. DaysBefore(y)[m] = MonthStart(y, m)
  BY MonthTable DEF MonthStart
<1>8. m < 12 => MonthStart(y, m + 1) = MonthStart(y, m) + MonthLength(y, m)
  BY <1>1, <1>3, <1>4 DEF MonthStart
<1>9. QED
  BY <1>2, <1>5, <1>6, <1>7, <1>8

LEMMA LeapDay ==
  ASSUME NEW n \in 0 .. 99
  PROVE  /\ LeapDays(n) \in Nat
         /\ LeapDays(n + 1) = LeapDays(n) + Extra(1970 + n)
<1>1. IsLeap(1970 + n) <=> (1970 + n) % 4 = 0
  BY LeapYears
<1>2. QED
  BY <1>1 DEF LeapDays, Extra

\* The days of the years before y, as the calendar counts them.
DaysOfYears(y) == 365 * (y - 1970) + Cardinality({x \in 1970 .. y - 1 : IsLeap(x)})

LEMMA YearsAre ==
  ASSUME NEW y \in Nat, y >= 1970, y <= 2069
  PROVE  /\ DaysTo(y - 1970) \in Nat
         /\ DaysOfYears(y) = DaysTo(y - 1970)
         /\ DaysTo(y + 1 - 1970) = DaysTo(y - 1970) + 365 + Extra(y)
<1> DEFINE n == y - 1970
<1>1. n \in 0 .. 99 /\ y = 1970 + n /\ y + 1 - 1970 = n + 1 /\ y - 1970 = n
  OBVIOUS
<1>2. {x \in 1970 .. y - 1 : IsLeap(x)} = LeapSet(n)
  BY <1>1 DEF LeapSet
<1> HIDE DEF n
<1>3. LeapDays(n) \in Nat /\ LeapDays(n + 1) = LeapDays(n) + Extra(1970 + n)
  BY <1>1, LeapDay
<1>4. DaysTo(n) = 365 * n + LeapDays(n) /\ DaysTo(n + 1) = 365 * (n + 1) + LeapDays(n + 1)
  BY DEF DaysTo
<1>5. Cardinality(LeapSet(n)) = LeapDays(n)
  BY <1>1, LeapCount
<1>6. Extra(y) \in 0 .. 1
  BY DEF Extra
<1>7. DaysTo(n) \in Nat
  BY <1>1, <1>3, <1>4
<1>8. DaysOfYears(y) = DaysTo(n)
  BY <1>1, <1>2, <1>4, <1>5 DEF DaysOfYears
<1>9. DaysTo(n + 1) = DaysTo(n) + 365 + Extra(y)
  BY <1>1, <1>3, <1>4, <1>6
<1>10. QED
  BY <1>1, <1>7, <1>8, <1>9

LEMMA DaysAre ==
  ASSUME NEW d \in Dates
  PROVE  /\ DayOfYear(d) = MonthStart(d.year, d.mon) + d.mday
         /\ DaysSince1970(d) = DayNumber(d.year, d.mon, d.mday)
         /\ DaysSince1970(d) \in Nat
<1>1. /\ d.year \in Nat /\ d.year >= 1970 /\ d.year <= 2069
      /\ d.mon \in 1 .. 12 /\ d.mday \in 1 .. 31
  BY DEF Dates
<1> DEFINE Y == d.year   M == d.mon   K == d.mday
<1>2. DaysBefore(Y)[M] = MonthStart(Y, M)
  BY <1>1, Months
<1>3. DayOfYear(d) = DaysBefore(Y)[M] + K
  BY DEF DayOfYear
<1>4. DaysSince1970(d) = DaysOfYears(Y) + DayOfYear(d) - 1
  BY DEF DaysSince1970, DaysOfYears
<1>5. Y \in Nat /\ Y >= 1970 /\ Y <= 2069 /\ M \in 1 .. 12 /\ K \in 1 .. 31
  BY <1>1
<1> HIDE DEF Y, M, K
<1>6. DayNumber(Y, M, K) \in Nat
  <2>1. MonthStart(Y, M) \in 0 .. 335
    BY <1>5, Months
  <2>2. DaysTo(Y - 1970) \in Nat
    BY <1>5, YearsAre
  <2>3. QED
    BY <1>5, <2>1, <2>2 DEF DayNumber
<1>7. DaysOfYears(Y) + (MonthStart(Y, M) + K) - 1 = DayNumber(Y, M, K)
  <2>1. MonthStart(Y, M) \in 0 .. 335
    BY <1>5, Months
  <2>2. DaysTo(Y - 1970) \in Nat
    BY <1>5, YearsAre
  <2>3. DaysOfYears(Y) = DaysTo(Y - 1970)
    BY <1>5, YearsAre
  <2> DEFINE a == DaysOfYears(Y)   b == MonthStart(Y, M)
  <2>4. DayNumber(Y, M, K) = a + b + (K - 1)
    BY <2>3 DEF DayNumber
  <2>5. a \in Nat /\ b \in Nat /\ K \in Nat
    BY <1>5, <2>1, <2>2, <2>3
  <2> HIDE DEF a, b
  <2>6. a + (b + K) - 1 = a + b + (K - 1)
    BY <2>5
  <2>7. QED
    BY <2>4, <2>6 DEF a, b
<1>8. DayOfYear(d) = MonthStart(Y, M) + K
  BY <1>2, <1>3
<1>9. DaysSince1970(d) = DayNumber(Y, M, K)
  BY <1>4, <1>7, <1>8
<1>10. QED
  BY <1>6, <1>8, <1>9 DEF Y, M, K

\* The day after the last of a month, and after the last of a year.
LEMMA NextMonth ==
  ASSUME NEW y \in Nat, y >= 1970, y <= 2069, NEW m \in 1 .. 12, m < 12
  PROVE  DayNumber(y, m + 1, 1) = DayNumber(y, m, MonthLength(y, m)) + 1
<1>1. DaysTo(y - 1970) \in Nat
  BY YearsAre
<1>3. MonthStart(y, m) \in 0 .. 335
  BY Months
<1>4. MonthLength(y, m) \in 28 .. 31
  BY Months
<1>5. MonthStart(y, m + 1) = MonthStart(y, m) + MonthLength(y, m)
  BY Months
<1>6. QED
  BY <1>1, <1>3, <1>4, <1>5 DEF DayNumber

LEMMA NextYear ==
  ASSUME NEW y \in Nat, y >= 1970, y <= 2069
  PROVE  /\ DayNumber(y, 12, 31) + 1 = DaysTo(y + 1 - 1970)
         /\ DayNumber(y + 1, 1, 1) = DaysTo(y + 1 - 1970)
         /\ DaysTo(y + 1 - 1970) \in Nat
<1>1. /\ DaysTo(y - 1970) \in Nat
      /\ DaysTo(y + 1 - 1970) = DaysTo(y - 1970) + 365 + Extra(y)
  BY YearsAre
<1>2. MonthStart(y, 12) = 334 + Extra(y) /\ Extra(y) \in 0 .. 1
  BY Months
<1>3. MonthStart(y + 1, 1) = 0
  BY DEF MonthStart, month
<1>4. DaysTo(y + 1 - 1970) \in Nat
  BY <1>1, <1>2
<1>5. QED
  BY <1>1, <1>2, <1>3, <1>4 DEF DayNumber

-----------------------------------------------------------------------------
(* The clock chip.                                                         *)

\* The seconds of a day that have gone by.
TimeOf(t) == Hour * t.hour + Minute * t.min + t.sec

LEMMA Multiples ==
  ASSUME NEW a \in Nat, NEW b \in Nat
  PROVE  /\ a * b \in Nat /\ a * (b + 1) = a * b + a
         /\ b > 0 => a * (b - 1) + a = a * b
<1>1. a * b \in Nat /\ a * (b + 1) = a * b + a
  OBVIOUS
<1>2. b > 0 => a * (b - 1) + a = a * b
  OBVIOUS
<1>3. QED
  BY <1>1, <1>2

LEMMA Factors ==
  ASSUME NEW a \in Nat, NEW b \in Nat, NEW c \in Nat, b <= c
  PROVE  a * b <= a * c
<1>1. c = b + (c - b) /\ c - b \in Nat
  OBVIOUS
<1>2. PICK e \in Nat : c = b + e
  BY <1>1
<1>3. a * (b + e) = a * b + a * e /\ a * e \in Nat /\ a * b \in Nat
  OBVIOUS
<1>4. QED
  BY <1>2, <1>3

(* A time of day lies within the day, and its last second ends it.         *)
LEMMA WithinDay ==
  ASSUME NEW h \in 0 .. HoursInDay - 1, NEW m \in 0 .. MinutesInHour - 1,
         NEW s \in 0 .. Minute - 1
  PROVE  /\ Hour * h \in Nat /\ Minute * m \in Nat
         /\ Minute * m + s \in 0 .. Hour - 1
         /\ Hour * h + Minute * m + s \in 0 .. Day - 1
         /\ Minute * (MinutesInHour - 1) + Minute = Hour
         /\ Hour * (HoursInDay - 1) + Hour = Day
<1>1. /\ Minute \in Nat /\ Minute > 0 /\ MinutesInHour \in Nat /\ MinutesInHour > 0
      /\ HoursInDay \in Nat /\ HoursInDay > 0 /\ Hour \in Nat /\ Hour > 0 /\ Day \in Nat
  BY TimeUnits
<1>2. Hour = Minute * MinutesInHour /\ Day = Hour * HoursInDay
  <2>1. \A a, b \in Nat : a * b = b * a
    OBVIOUS
  <2>2. QED
    BY <1>1, <2>1, TimeUnits
<1>3. /\ Minute * (MinutesInHour - 1) + Minute = Hour
      /\ Hour * (HoursInDay - 1) + Hour = Day
  BY <1>1, <1>2, Multiples
<1>4. /\ m \in Nat /\ h \in Nat /\ s \in Nat /\ s < Minute
      /\ MinutesInHour - 1 \in Nat /\ m <= MinutesInHour - 1
      /\ HoursInDay - 1 \in Nat /\ h <= HoursInDay - 1
  BY <1>1
<1>5. /\ Minute * m \in Nat /\ Hour * h \in Nat
      /\ Minute * (MinutesInHour - 1) \in Nat /\ Hour * (HoursInDay - 1) \in Nat
  BY <1>1, <1>4, Multiples
<1>6. Minute * m <= Minute * (MinutesInHour - 1)
  BY <1>1, <1>4, Factors
<1>7. Hour * h <= Hour * (HoursInDay - 1)
  BY <1>1, <1>4, Factors
<1> DEFINE mm == Minute * m   hh == Hour * h
           mx == Minute * (MinutesInHour - 1)   hx == Hour * (HoursInDay - 1)
<1>8. /\ mm \in Nat /\ hh \in Nat /\ mx \in Nat /\ hx \in Nat
      /\ mm <= mx /\ hh <= hx /\ mx + Minute = Hour /\ hx + Hour = Day
  BY <1>3, <1>5, <1>6, <1>7
<1> HIDE DEF mm, hh, mx, hx
<1>9. mm + s \in 0 .. Hour - 1 /\ hh + mm + s \in 0 .. Day - 1
  BY <1>1, <1>4, <1>8
<1>10. QED
  BY <1>3, <1>5, <1>9 DEF mm, hh

LEMMA SecondsAre ==
  ASSUME NEW d \in Dates
  PROVE  /\ Seconds(d) = Day * DaysSince1970(d) + TimeOf(d)
         /\ Day * DaysSince1970(d) \in Nat /\ TimeOf(d) \in 0 .. Day - 1
<1>1. /\ d.hour \in 0 .. HoursInDay - 1 /\ d.min \in 0 .. MinutesInHour - 1
      /\ d.sec \in 0 .. Minute - 1
  BY DEF Dates
<1>2. TimeOf(d) \in 0 .. Day - 1
  BY <1>1, WithinDay DEF TimeOf
<1>3. Hour * d.hour \in Nat /\ Minute * d.min \in Nat
  BY <1>1, WithinDay
<1>4. DaysSince1970(d) \in Nat
  BY DaysAre
<1>5. Day * DaysSince1970(d) \in Nat
  <2>1. Day \in Nat
    BY TimeUnits
  <2>2. QED
    BY <1>4, <2>1, Multiples
<1>6. d.sec \in Nat
  <2>1. Minute \in Nat
    BY TimeUnits
  <2>2. QED
    BY <1>1, <2>1
<1> DEFINE a == Day * DaysSince1970(d)   h == Hour * d.hour   m == Minute * d.min
<1>7. Seconds(d) = a + h + m + d.sec
  BY DEF Seconds
<1>8. TimeOf(d) = h + m + d.sec
  BY DEF TimeOf
<1>9. a \in Nat /\ h \in Nat /\ m \in Nat
  BY <1>3, <1>5
<1> HIDE DEF a, h, m
<1>10. Seconds(d) = a + TimeOf(d)
  BY <1>6, <1>7, <1>8, <1>9
<1>11. QED
  BY <1>2, <1>5, <1>10 DEF a

LEMMA SameDay ==
  ASSUME NEW d \in Dates, NEW e \in Dates,
         e.year = d.year, e.mon = d.mon, e.mday = d.mday, TimeOf(e) = TimeOf(d) + 1
  PROVE  Seconds(e) = Seconds(d) + 1
<1>1. DaysSince1970(e) = DaysSince1970(d)
  <2>1. DaysSince1970(d) = DayNumber(d.year, d.mon, d.mday)
    BY DaysAre
  <2>2. DaysSince1970(e) = DayNumber(e.year, e.mon, e.mday)
    BY DaysAre
  <2>3. QED
    BY <2>1, <2>2
<1>2. Seconds(d) = Day * DaysSince1970(d) + TimeOf(d)
  BY SecondsAre
<1>3. Seconds(e) = Day * DaysSince1970(e) + TimeOf(e)
  BY SecondsAre
<1>4. Day * DaysSince1970(d) \in Nat /\ TimeOf(d) \in 0 .. Day - 1 /\ Day \in Nat
  BY SecondsAre, TimeUnits
<1> DEFINE a == Day * DaysSince1970(d)
<1>5. Seconds(d) = a + TimeOf(d) /\ Seconds(e) = a + TimeOf(e)
  BY <1>1, <1>2, <1>3
<1>6. a \in Nat
  BY <1>4
<1> HIDE DEF a
<1>7. QED
  BY <1>4, <1>5, <1>6

LEMMA NewDay ==
  ASSUME NEW d \in Dates, NEW e \in Dates,
         DaysSince1970(e) = DaysSince1970(d) + 1,
         TimeOf(d) = Day - 1, TimeOf(e) = 0
  PROVE  Seconds(e) = Seconds(d) + 1
<1>1. Seconds(d) = Day * DaysSince1970(d) + TimeOf(d)
  BY SecondsAre
<1>2. Seconds(e) = Day * DaysSince1970(e) + TimeOf(e)
  BY SecondsAre
<1>3. DaysSince1970(d) \in Nat
  BY DaysAre
<1>4. Day \in Nat
  BY TimeUnits
<1> DEFINE n == DaysSince1970(d)   a == Day * n   b == Day * (n + 1)
<1>5. a \in Nat /\ b = a + Day
  BY <1>3, <1>4, Multiples
<1>6. Seconds(d) = a + TimeOf(d) /\ Seconds(e) = b + TimeOf(e)
  BY <1>1, <1>2
<1> HIDE DEF n, a, b
<1>7. QED
  BY <1>4, <1>5, <1>6

LEMMA DateParts ==
  ASSUME NEW d \in Dates
  PROVE  /\ d.year \in Nat /\ d.year >= 1970 /\ d.year <= 2069
         /\ d.mon \in 1 .. 12 /\ d.mday \in 1 .. 31
         /\ d.mday <= MonthLength(d.year, d.mon)
         /\ d.hour \in 0 .. HoursInDay - 1 /\ d.min \in 0 .. MinutesInHour - 1
         /\ d.sec \in 0 .. Minute - 1
BY DEF Dates

\* The date y/m/k at n:i:s.
DateOf(y, m, k, n, i, s) ==
    [year |-> y, mon |-> m, mday |-> k, hour |-> n, min |-> i, sec |-> s]

LEMMA DateIs ==
  ASSUME NEW y \in Nat, y >= 1970, y <= 2069, NEW m \in 1 .. 12,
         NEW k \in 1 .. 31, k <= MonthLength(y, m),
         NEW n \in 0 .. HoursInDay - 1, NEW i \in 0 .. MinutesInHour - 1,
         NEW s \in 0 .. Minute - 1
  PROVE  DateOf(y, m, k, n, i, s) \in Dates
BY DEF DateOf, Dates

\* Records like a date.
DateRecs == [year : Int, mon : Int, mday : Int, hour : Int, min : Int, sec : Int]

LEMMA RecordIs ==
  ASSUME NEW e \in DateRecs
  PROVE  e = DateOf(e.year, e.mon, e.mday, e.hour, e.min, e.sec)
BY DEF DateRecs, DateOf

\* A date with some fields set.
WithSecond(d, s) == [d EXCEPT !.sec = s]
WithMinute(d, s, i) == [d EXCEPT !.sec = s, !.min = i]
WithHour(d, s, i, n) == [d EXCEPT !.sec = s, !.min = i, !.hour = n]
WithDay(d, k) == [d EXCEPT !.mday = k]
WithMonth(d, k, m) == [d EXCEPT !.mday = k, !.mon = m]
WithYear(d, k, m, y) == [d EXCEPT !.mday = k, !.mon = m, !.year = y]

LEMMA RecordWith ==
  ASSUME NEW d \in DateRecs
  PROVE  /\ \A s \in Int : WithSecond(d, s) = DateOf(d.year, d.mon, d.mday, d.hour, d.min, s)
         /\ \A s, i \in Int : WithMinute(d, s, i) =
                DateOf(d.year, d.mon, d.mday, d.hour, i, s)
         /\ \A s, i, n \in Int : WithHour(d, s, i, n) =
                DateOf(d.year, d.mon, d.mday, n, i, s)
         /\ \A k \in Int : WithDay(d, k) = DateOf(d.year, d.mon, k, d.hour, d.min, d.sec)
         /\ \A k, m \in Int : WithMonth(d, k, m) = DateOf(d.year, m, k, d.hour, d.min, d.sec)
         /\ \A k, m, y \in Int : WithYear(d, k, m, y) =
                DateOf(y, m, k, d.hour, d.min, d.sec)
<1>1. ASSUME NEW s \in Int
      PROVE  WithSecond(d, s) = DateOf(d.year, d.mon, d.mday, d.hour, d.min, s)
  <2> DEFINE e == WithSecond(d, s)
  <2>1. /\ e \in DateRecs /\ e.year = d.year /\ e.mon = d.mon /\ e.mday = d.mday
        /\ e.hour = d.hour /\ e.min = d.min /\ e.sec = s
    BY DEF DateRecs, WithSecond
  <2> HIDE DEF e
  <2>2. e = DateOf(d.year, d.mon, d.mday, d.hour, d.min, s)
    BY <2>1, RecordIs
  <2>3. QED
    BY <2>2 DEF e
<1>2. ASSUME NEW s \in Int, NEW i \in Int
      PROVE  WithMinute(d, s, i) = DateOf(d.year, d.mon, d.mday, d.hour, i, s)
  <2> DEFINE e == WithMinute(d, s, i)
  <2>1. /\ e \in DateRecs /\ e.year = d.year /\ e.mon = d.mon /\ e.mday = d.mday
        /\ e.hour = d.hour /\ e.min = i /\ e.sec = s
    BY DEF DateRecs, WithMinute
  <2> HIDE DEF e
  <2>2. e = DateOf(d.year, d.mon, d.mday, d.hour, i, s)
    BY <2>1, RecordIs
  <2>3. QED
    BY <2>2 DEF e
<1>3. ASSUME NEW s \in Int, NEW i \in Int, NEW n \in Int
      PROVE  WithHour(d, s, i, n) =
          DateOf(d.year, d.mon, d.mday, n, i, s)
  <2> DEFINE e == WithHour(d, s, i, n)
  <2>1. /\ e \in DateRecs /\ e.year = d.year /\ e.mon = d.mon /\ e.mday = d.mday
        /\ e.hour = n /\ e.min = i /\ e.sec = s
    BY DEF DateRecs, WithHour
  <2> HIDE DEF e
  <2>2. e = DateOf(d.year, d.mon, d.mday, n, i, s)
    BY <2>1, RecordIs
  <2>3. QED
    BY <2>2 DEF e
<1>4. ASSUME NEW k \in Int
      PROVE  WithDay(d, k) = DateOf(d.year, d.mon, k, d.hour, d.min, d.sec)
  <2> DEFINE e == WithDay(d, k)
  <2>1. /\ e \in DateRecs /\ e.year = d.year /\ e.mon = d.mon /\ e.mday = k
        /\ e.hour = d.hour /\ e.min = d.min /\ e.sec = d.sec
    BY DEF DateRecs, WithDay
  <2> HIDE DEF e
  <2>2. e = DateOf(d.year, d.mon, k, d.hour, d.min, d.sec)
    BY <2>1, RecordIs
  <2>3. QED
    BY <2>2 DEF e
<1>5. ASSUME NEW k \in Int, NEW m \in Int
      PROVE  WithMonth(d, k, m) = DateOf(d.year, m, k, d.hour, d.min, d.sec)
  <2> DEFINE e == WithMonth(d, k, m)
  <2>1. /\ e \in DateRecs /\ e.year = d.year /\ e.mon = m /\ e.mday = k
        /\ e.hour = d.hour /\ e.min = d.min /\ e.sec = d.sec
    BY DEF DateRecs, WithMonth
  <2> HIDE DEF e
  <2>2. e = DateOf(d.year, m, k, d.hour, d.min, d.sec)
    BY <2>1, RecordIs
  <2>3. QED
    BY <2>2 DEF e
<1>6. ASSUME NEW k \in Int, NEW m \in Int, NEW y \in Int
      PROVE  WithYear(d, k, m, y) =
          DateOf(y, m, k, d.hour, d.min, d.sec)
  <2> DEFINE e == WithYear(d, k, m, y)
  <2>1. /\ e \in DateRecs /\ e.year = y /\ e.mon = m /\ e.mday = k
        /\ e.hour = d.hour /\ e.min = d.min /\ e.sec = d.sec
    BY DEF DateRecs, WithYear
  <2> HIDE DEF e
  <2>2. e = DateOf(y, m, k, d.hour, d.min, d.sec)
    BY <2>1, RecordIs
  <2>3. QED
    BY <2>2 DEF e
<1>7. QED
  BY <1>1, <1>2, <1>3, <1>4, <1>5, <1>6

LEMMA MidnightIs ==
  ASSUME NEW d \in DateRecs
  PROVE  LET e == Midnight(d) IN
         /\ e \in DateRecs /\ e.year = d.year /\ e.mon = d.mon /\ e.mday = d.mday
         /\ e.hour = 0 /\ e.min = 0 /\ e.sec = 0
<1>1. Midnight(d) = WithHour(d, 0, 0, 0)
  BY DEF Midnight, WithHour
<1>2. Midnight(d) = DateOf(d.year, d.mon, d.mday, 0, 0, 0)
  BY <1>1, RecordWith
<1>3. QED
  BY <1>2 DEF DateOf, DateRecs

LEMMA DateWith ==
  ASSUME NEW d \in Dates
  PROVE  /\ [d EXCEPT !.sec = @ + 1] =
                DateOf(d.year, d.mon, d.mday, d.hour, d.min, d.sec + 1)
         /\ [d EXCEPT !.sec = 0, !.min = @ + 1] =
                DateOf(d.year, d.mon, d.mday, d.hour, d.min + 1, 0)
         /\ [d EXCEPT !.sec = 0, !.min = 0, !.hour = @ + 1] =
                DateOf(d.year, d.mon, d.mday, d.hour + 1, 0, 0)
         /\ [Midnight(d) EXCEPT !.mday = @ + 1] =
                DateOf(d.year, d.mon, d.mday + 1, 0, 0, 0)
         /\ [Midnight(d) EXCEPT !.mday = 1, !.mon = @ + 1] =
                DateOf(d.year, d.mon + 1, 1, 0, 0, 0)
         /\ [Midnight(d) EXCEPT !.mday = 1, !.mon = 1, !.year = @ + 1] =
                DateOf(d.year + 1, 1, 1, 0, 0, 0)
<1>1. d \in DateRecs
  BY TimeUnits DEF Dates, DateRecs
<1>2. /\ d.sec + 1 \in Int /\ d.min + 1 \in Int /\ d.hour + 1 \in Int
      /\ d.mday + 1 \in Int /\ d.mon + 1 \in Int /\ d.year + 1 \in Int
  BY <1>1 DEF DateRecs
<1> DEFINE e == Midnight(d)
<1>3. /\ e \in DateRecs /\ e.year = d.year /\ e.mon = d.mon /\ e.mday = d.mday
      /\ e.hour = 0 /\ e.min = 0 /\ e.sec = 0
  BY <1>1, MidnightIs
<1>4. WithSecond(d, d.sec + 1) = DateOf(d.year, d.mon, d.mday, d.hour, d.min, d.sec + 1)
  BY <1>1, <1>2, RecordWith
<1>5. WithMinute(d, 0, d.min + 1) =
          DateOf(d.year, d.mon, d.mday, d.hour, d.min + 1, 0)
  BY <1>1, <1>2, RecordWith
<1>6. WithHour(d, 0, 0, d.hour + 1) =
          DateOf(d.year, d.mon, d.mday, d.hour + 1, 0, 0)
  BY <1>1, <1>2, RecordWith
<1> HIDE DEF e
<1>7. WithDay(e, e.mday + 1) = DateOf(d.year, d.mon, d.mday + 1, 0, 0, 0)
  BY <1>2, <1>3, RecordWith
<1>8. WithMonth(e, 1, e.mon + 1) = DateOf(d.year, d.mon + 1, 1, 0, 0, 0)
  BY <1>2, <1>3, RecordWith
<1>9. WithYear(e, 1, 1, e.year + 1) =
          DateOf(d.year + 1, 1, 1, 0, 0, 0)
  BY <1>2, <1>3, RecordWith
<1>10. QED
  BY <1>4, <1>5, <1>6, <1>7, <1>8, <1>9
     DEF e, WithSecond, WithMinute, WithHour, WithDay, WithMonth, WithYear

(* What the chip shows next.                                               *)
LEMMA AfterIs ==
  ASSUME NEW d \in Dates
  PROVE  /\ d.sec + 1 < Minute =>
                After(d) = DateOf(d.year, d.mon, d.mday, d.hour, d.min, d.sec + 1)
         /\ ~ (d.sec + 1 < Minute) /\ d.min + 1 < MinutesInHour =>
                After(d) = DateOf(d.year, d.mon, d.mday, d.hour, d.min + 1, 0)
         /\ ~ (d.sec + 1 < Minute) /\ ~ (d.min + 1 < MinutesInHour)
            /\ d.hour + 1 < HoursInDay =>
                After(d) = DateOf(d.year, d.mon, d.mday, d.hour + 1, 0, 0)
         /\ ~ (d.sec + 1 < Minute) /\ ~ (d.min + 1 < MinutesInHour)
            /\ ~ (d.hour + 1 < HoursInDay) =>
                After(d) = IF d.mday < MonthLength(d.year, d.mon)
                           THEN DateOf(d.year, d.mon, d.mday + 1, 0, 0, 0)
                           ELSE IF d.mon < 12 THEN DateOf(d.year, d.mon + 1, 1, 0, 0, 0)
                           ELSE DateOf(d.year + 1, 1, 1, 0, 0, 0)
<1> DEFINE a == d.sec + 1 < Minute   b == d.min + 1 < MinutesInHour
           c == d.hour + 1 < HoursInDay
           p == DateOf(d.year, d.mon, d.mday, d.hour, d.min, d.sec + 1)
           q == DateOf(d.year, d.mon, d.mday, d.hour, d.min + 1, 0)
           r == DateOf(d.year, d.mon, d.mday, d.hour + 1, 0, 0)
           x == DateOf(d.year, d.mon, d.mday + 1, 0, 0, 0)
           y == DateOf(d.year, d.mon + 1, 1, 0, 0, 0)
           z == DateOf(d.year + 1, 1, 1, 0, 0, 0)
           e == d.mday < MonthLength(d.year, d.mon)   f == d.mon < 12
<1>1. /\ [d EXCEPT !.sec = @ + 1] = p
      /\ [d EXCEPT !.sec = 0, !.min = @ + 1] = q
      /\ [d EXCEPT !.sec = 0, !.min = 0, !.hour = @ + 1] = r
  BY DateWith
<1>2. /\ [Midnight(d) EXCEPT !.mday = @ + 1] = x
      /\ [Midnight(d) EXCEPT !.mday = 1, !.mon = @ + 1] = y
      /\ [Midnight(d) EXCEPT !.mday = 1, !.mon = 1, !.year = @ + 1] = z
  BY DateWith
<1>3. After(d) = IF a THEN p ELSE IF b THEN q ELSE IF c THEN r
                 ELSE IF e THEN x ELSE IF f THEN y ELSE z
  BY <1>1, <1>2 DEF After
<1> HIDE DEF a, b, c, p, q, r, x, y, z, e, f
<1>4. /\ a => After(d) = p
      /\ ~ a /\ b => After(d) = q
      /\ ~ a /\ ~ b /\ c => After(d) = r
      /\ ~ a /\ ~ b /\ ~ c => After(d) = IF e THEN x ELSE IF f THEN y ELSE z
  BY <1>3
<1>5. QED
  BY <1>4 DEF a, b, c, p, q, r, x, y, z, e, f

(* The second after the last of a day.                                     *)
LEMMA LastSecond ==
  ASSUME NEW d \in Dates, d.hour + 1 >= HoursInDay, d.min + 1 >= MinutesInHour,
         d.sec + 1 >= Minute
  PROVE  TimeOf(d) = Day - 1
<1>1. /\ HoursInDay \in Nat /\ MinutesInHour \in Nat /\ Minute \in Nat
  BY TimeUnits
<1>2. /\ d.hour \in 0 .. HoursInDay - 1 /\ d.min \in 0 .. MinutesInHour - 1
      /\ d.sec \in 0 .. Minute - 1
  BY DateParts
<1>3. d.hour = HoursInDay - 1 /\ d.min = MinutesInHour - 1 /\ d.sec = Minute - 1
  BY <1>1, <1>2
<1>4. /\ Hour * (HoursInDay - 1) \in Nat /\ Minute * (MinutesInHour - 1) \in Nat
      /\ Minute * (MinutesInHour - 1) + Minute = Hour
      /\ Hour * (HoursInDay - 1) + Hour = Day
  BY <1>2, <1>3, WithinDay
<1>5. TimeOf(d) = Hour * (HoursInDay - 1) + Minute * (MinutesInHour - 1) + (Minute - 1)
  BY <1>3 DEF TimeOf
<1> DEFINE a == Hour * (HoursInDay - 1)   b == Minute * (MinutesInHour - 1)
<1>6. a \in Nat /\ b \in Nat /\ b + Minute = Hour /\ a + Hour = Day
      /\ TimeOf(d) = a + b + (Minute - 1)
  BY <1>4, <1>5
<1> HIDE DEF a, b
<1>7. QED
  BY <1>1, <1>6

LEMMA Midnights ==
  ASSUME NEW d, d.hour = 0, d.min = 0, d.sec = 0
  PROVE  TimeOf(d) = 0
<1>1. Hour * 0 = 0 /\ Minute * 0 = 0
  BY TimeUnits
<1>2. QED
  BY <1>1 DEF TimeOf

(* The chip counts the seconds of the calendar.                            *)
LEMMA AfterSecond ==
  ASSUME NEW d \in Dates, d.sec + 1 < Minute
  PROVE  /\ After(d) \in Dates /\ Seconds(After(d)) = Seconds(d) + 1
         /\ After(d).sec # d.sec
<1> DEFINE e == DateOf(d.year, d.mon, d.mday, d.hour, d.min, d.sec + 1)
<1>1. d.sec + 1 \in 0 .. Minute - 1 /\ d.sec + 1 # d.sec /\ d.sec \in Nat
  BY DateParts, TimeUnits
<1>2. e \in Dates
  BY <1>1 DEF DateOf, Dates
<1>3. After(d) = e
  BY AfterIs
<1>4. TimeOf(e) = TimeOf(d) + 1
  <2> DEFINE h == Hour * d.hour   m == Minute * d.min
  <2>1. h \in Nat /\ m \in Nat
    BY DateParts, WithinDay
  <2>2. TimeOf(d) = h + m + d.sec /\ TimeOf(e) = h + m + (d.sec + 1)
    BY DEF TimeOf, DateOf
  <2> HIDE DEF h, m, e
  <2>3. QED
    BY <1>1, <2>1, <2>2
<1>5. e.year = d.year /\ e.mon = d.mon /\ e.mday = d.mday /\ e.sec = d.sec + 1
  BY DEF DateOf
<1> HIDE DEF e
<1>6. Seconds(e) = Seconds(d) + 1
  BY <1>2, <1>4, <1>5, SameDay
<1>7. QED
  BY <1>1, <1>2, <1>3, <1>5, <1>6

LEMMA AfterMinute ==
  ASSUME NEW d \in Dates, d.sec + 1 >= Minute, d.min + 1 < MinutesInHour
  PROVE  /\ After(d) \in Dates /\ Seconds(After(d)) = Seconds(d) + 1
         /\ After(d).sec # d.sec
<1> DEFINE e == DateOf(d.year, d.mon, d.mday, d.hour, d.min + 1, 0)
<1>1. /\ d.min + 1 \in 0 .. MinutesInHour - 1 /\ d.min \in Nat /\ Minute \in Nat
      /\ d.sec = Minute - 1 /\ d.sec # 0 /\ 0 \in 0 .. Minute - 1
  BY DateParts, TimeUnits
<1>2. e \in Dates
  BY <1>1 DEF DateOf, Dates
<1>3. After(d) = e
  <2>1. ~ (d.sec + 1 < Minute)
    BY <1>1
  <2>2. QED
    BY <2>1, AfterIs
<1>4. TimeOf(e) = TimeOf(d) + 1
  <2> DEFINE h == Hour * d.hour   m == Minute * d.min   n == Minute * (d.min + 1)
  <2>1. h \in Nat /\ m \in Nat
    BY DateParts, WithinDay
  <2>2. n = m + Minute
    BY <1>1, Multiples
  <2>3. TimeOf(d) = h + m + d.sec /\ TimeOf(e) = h + n + 0
    BY DEF TimeOf, DateOf
  <2> HIDE DEF h, m, n, e
  <2>4. QED
    BY <1>1, <2>1, <2>2, <2>3
<1>5. e.year = d.year /\ e.mon = d.mon /\ e.mday = d.mday /\ e.sec = 0
  BY DEF DateOf
<1> HIDE DEF e
<1>6. Seconds(e) = Seconds(d) + 1
  BY <1>2, <1>4, <1>5, SameDay
<1>7. QED
  BY <1>1, <1>2, <1>3, <1>5, <1>6

LEMMA AfterHour ==
  ASSUME NEW d \in Dates, d.sec + 1 >= Minute, d.min + 1 >= MinutesInHour,
         d.hour + 1 < HoursInDay
  PROVE  /\ After(d) \in Dates /\ Seconds(After(d)) = Seconds(d) + 1
         /\ After(d).sec # d.sec
<1> DEFINE e == DateOf(d.year, d.mon, d.mday, d.hour + 1, 0, 0)
<1>1. /\ d.hour + 1 \in 0 .. HoursInDay - 1 /\ d.hour \in Nat
      /\ Hour \in Nat /\ Minute \in Nat /\ MinutesInHour \in Nat
      /\ d.min = MinutesInHour - 1 /\ 0 \in 0 .. MinutesInHour - 1
      /\ d.sec = Minute - 1 /\ d.sec # 0 /\ 0 \in 0 .. Minute - 1
  BY DateParts, TimeUnits
<1>2. e \in Dates
  BY <1>1 DEF DateOf, Dates
<1>3. After(d) = e
  <2>1. ~ (d.sec + 1 < Minute) /\ ~ (d.min + 1 < MinutesInHour)
    BY <1>1
  <2>2. QED
    BY <2>1, AfterIs
<1>4. TimeOf(e) = TimeOf(d) + 1
  <2> DEFINE h == Hour * d.hour   g == Hour * (d.hour + 1)
             m == Minute * (MinutesInHour - 1)
  <2>1. h \in Nat /\ m \in Nat /\ m + Minute = Hour
    <3>1. /\ d.hour \in 0 .. HoursInDay - 1 /\ MinutesInHour - 1 \in 0 .. MinutesInHour - 1
          /\ 0 \in 0 .. Minute - 1
      BY <1>1, DateParts
    <3>2. QED
      BY <3>1, WithinDay
  <2>2. g = h + Hour
    BY <1>1, Multiples
  <2>3. Minute * 0 = 0
    BY <1>1
  <2>4. TimeOf(d) = h + m + d.sec /\ TimeOf(e) = g + 0 + 0
    BY <1>1, <2>3 DEF TimeOf, DateOf
  <2> HIDE DEF h, m, g, e
  <2>5. QED
    BY <1>1, <2>1, <2>2, <2>4
<1>5. e.year = d.year /\ e.mon = d.mon /\ e.mday = d.mday /\ e.sec = 0
  BY DEF DateOf
<1> HIDE DEF e
<1>6. Seconds(e) = Seconds(d) + 1
  BY <1>2, <1>4, <1>5, SameDay
<1>7. QED
  BY <1>1, <1>2, <1>3, <1>5, <1>6

\* At the end of a day.
DayEnds(d) == d.sec + 1 >= Minute /\ d.min + 1 >= MinutesInHour /\ d.hour + 1 >= HoursInDay

LEMMA AfterDay ==
  ASSUME NEW d \in Dates, DayEnds(d), NEW e \in Dates,
         e.hour = 0, e.min = 0, e.sec = 0,
         DayNumber(e.year, e.mon, e.mday) = DayNumber(d.year, d.mon, d.mday) + 1
  PROVE  Seconds(e) = Seconds(d) + 1 /\ e.sec # d.sec
<1>1. TimeOf(d) = Day - 1
  BY LastSecond DEF DayEnds
<1>2. TimeOf(e) = 0
  BY Midnights
<1>3. DaysSince1970(e) = DaysSince1970(d) + 1
  <2>1. DaysSince1970(d) = DayNumber(d.year, d.mon, d.mday)
    BY DaysAre
  <2>2. DaysSince1970(e) = DayNumber(e.year, e.mon, e.mday)
    BY DaysAre
  <2>3. QED
    BY <2>1, <2>2
<1>4. Seconds(e) = Seconds(d) + 1
  BY <1>1, <1>2, <1>3, NewDay
<1>5. d.sec # 0
  BY DateParts, TimeUnits DEF DayEnds
<1>6. QED
  BY <1>4, <1>5

LEMMA NextDay ==
  ASSUME NEW y \in Nat, y >= 1970, y <= 2069, NEW m \in 1 .. 12, NEW k \in 1 .. 31
  PROVE  DayNumber(y, m, k + 1) = DayNumber(y, m, k) + 1
<1>1. DaysTo(y - 1970) \in Nat
  BY YearsAre
<1>2. MonthStart(y, m) \in 0 .. 335
  BY Months
<1> DEFINE a == DaysTo(y - 1970)   b == MonthStart(y, m)
<1>3. DayNumber(y, m, k + 1) = a + b + (k + 1 - 1) /\ DayNumber(y, m, k) = a + b + (k - 1)
  BY DEF DayNumber
<1>4. a \in Nat /\ b \in Nat /\ k \in Nat
  BY <1>1, <1>2
<1> HIDE DEF a, b
<1>5. a + b + (k + 1 - 1) = a + b + (k - 1) + 1
  BY <1>4
<1>6. QED
  BY <1>3, <1>5

\* The day y/m/k comes after d.
Follows(d, y, m, k) ==
    /\ y \in Nat /\ y >= 1970 /\ y <= 2069 /\ m \in 1 .. 12 /\ k \in 1 .. 31
    /\ k <= MonthLength(y, m)
    /\ DayNumber(y, m, k) = DayNumber(d.year, d.mon, d.mday) + 1
Succeeds(d, e) == e \in Dates /\ Seconds(e) = Seconds(d) + 1 /\ e.sec # d.sec

LEMMA NewDate ==
  ASSUME NEW d \in Dates, DayEnds(d), NEW y, NEW m, NEW k, Follows(d, y, m, k)
  PROVE  Succeeds(d, DateOf(y, m, k, 0, 0, 0))
<1> DEFINE e == DateOf(y, m, k, 0, 0, 0)
<1>1. 0 \in 0 .. HoursInDay - 1 /\ 0 \in 0 .. MinutesInHour - 1 /\ 0 \in 0 .. Minute - 1
  BY TimeUnits
<1>2. e \in Dates
  BY <1>1 DEF DateOf, Dates, Follows
<1>3. /\ e.year = y /\ e.mon = m /\ e.mday = k
      /\ e.hour = 0 /\ e.min = 0 /\ e.sec = 0
  BY DEF DateOf
<1> HIDE DEF e
<1>4. DayNumber(e.year, e.mon, e.mday) = DayNumber(d.year, d.mon, d.mday) + 1
  BY <1>3 DEF Follows
<1>5. Seconds(e) = Seconds(d) + 1 /\ e.sec # d.sec
  BY <1>2, <1>3, <1>4, AfterDay
<1>6. QED
  BY <1>2, <1>5 DEF e, Succeeds

LEMMA LastDay ==
  ASSUME NEW d \in Dates, DayEnds(d), Seconds(d) + 1 < Day * DaysTo(100),
         d.mon = 12, d.mday = 31
  PROVE  d.year < 2069
<1>1. SUFFICES ASSUME d.year = 2069 PROVE FALSE
  BY DateParts
<1>2. DaysSince1970(d) = DayNumber(2069, 12, 31)
  BY <1>1, DaysAre
<1>3. DayNumber(2069, 12, 31) + 1 = DaysTo(2069 + 1 - 1970)
  BY NextYear
<1> DEFINE n == DaysSince1970(d)
<1>4. n \in Nat /\ n + 1 = DaysTo(100)
  <2>1. n \in Nat
    BY DaysAre
  <2>2. 2069 + 1 - 1970 = 100
    OBVIOUS
  <2>3. QED
    BY <1>2, <1>3, <2>1, <2>2
<1>5. Seconds(d) = Day * n + TimeOf(d) /\ Day * n \in Nat
  BY SecondsAre
<1>6. TimeOf(d) = Day - 1 /\ Day \in Nat
  BY LastSecond, TimeUnits DEF DayEnds
<1>7. Day * (n + 1) = Day * n + Day
  BY <1>4, <1>6, Multiples
<1>8. Seconds(d) + 1 < Day * (n + 1)
  BY <1>4
<1> DEFINE p == Day * n   q == Day * (n + 1)
<1>9. Seconds(d) = p + TimeOf(d) /\ p \in Nat /\ q = p + Day /\ Seconds(d) + 1 < q
  BY <1>5, <1>7, <1>8
<1> HIDE DEF n, p, q
<1>10. QED
  BY <1>6, <1>9

(* The chip shows the seconds of the calendar, until its century ends.     *)
LEMMA AfterDate ==
  ASSUME NEW d \in Dates, Seconds(d) + 1 < Day * DaysTo(100)
  PROVE  /\ After(d) \in Dates /\ Seconds(After(d)) = Seconds(d) + 1
         /\ After(d).sec # d.sec
<1> DEFINE y == d.year   m == d.mon   k == d.mday
<1>1. y \in Nat /\ y >= 1970 /\ y <= 2069 /\ m \in 1 .. 12 /\ k \in 1 .. 31
      /\ k <= MonthLength(y, m)
  BY DateParts
<1>2. Minute \in Nat /\ MinutesInHour \in Nat /\ HoursInDay \in Nat
  BY TimeUnits
<1>3. d.sec \in Nat /\ d.min \in Nat /\ d.hour \in Nat
  BY DateParts, <1>2
<1>4. CASE d.sec + 1 < Minute
  BY <1>4, AfterSecond
<1>5. CASE ~ (d.sec + 1 < Minute) /\ d.min + 1 < MinutesInHour
  <2>1. d.sec + 1 >= Minute
    BY <1>2, <1>3, <1>5
  <2>2. QED
    BY <2>1, <1>5, AfterMinute
<1>6. CASE /\ ~ (d.sec + 1 < Minute) /\ ~ (d.min + 1 < MinutesInHour)
           /\ d.hour + 1 < HoursInDay
  <2>1. d.sec + 1 >= Minute /\ d.min + 1 >= MinutesInHour
    BY <1>2, <1>3, <1>6
  <2>2. QED
    BY <2>1, <1>6, AfterHour
<1>7. CASE /\ ~ (d.sec + 1 < Minute) /\ ~ (d.min + 1 < MinutesInHour)
           /\ ~ (d.hour + 1 < HoursInDay)
  <2>1. DayEnds(d)
    BY <1>2, <1>3, <1>7 DEF DayEnds
  <2>2. After(d) = IF k < MonthLength(y, m) THEN DateOf(y, m, k + 1, 0, 0, 0)
                   ELSE IF m < 12 THEN DateOf(y, m + 1, 1, 0, 0, 0)
                   ELSE DateOf(y + 1, 1, 1, 0, 0, 0)
    BY <1>7, AfterIs
  <2>3. MonthLength(y, m) \in 28 .. 31
    BY <1>1, Months
  <2>4. CASE k < MonthLength(y, m)
    <3>1. DayNumber(y, m, k + 1) = DayNumber(y, m, k) + 1
      BY <1>1, NextDay
    <3>2. k + 1 \in 1 .. 31 /\ k + 1 <= MonthLength(y, m)
      BY <1>1, <2>3, <2>4
    <3>3. Follows(d, y, m, k + 1)
      BY <1>1, <3>1, <3>2 DEF Follows
    <3>4. Succeeds(d, DateOf(y, m, k + 1, 0, 0, 0))
      BY <2>1, <3>3, NewDate
    <3>5. QED
      BY <2>2, <2>4, <3>4 DEF Succeeds
  <2>5. CASE ~ (k < MonthLength(y, m)) /\ m < 12
    <3>1. k = MonthLength(y, m)
      BY <1>1, <2>3, <2>5
    <3>2. DayNumber(y, m + 1, 1) = DayNumber(y, m, k) + 1
      BY <1>1, <2>5, <3>1, NextMonth
    <3>3. m + 1 \in 1 .. 12 /\ 1 \in 1 .. 31
      BY <1>1, <2>5
    <3>4. 1 <= MonthLength(y, m + 1)
      BY DEF MonthLength
    <3>5. Follows(d, y, m + 1, 1)
      BY <1>1, <3>2, <3>3, <3>4 DEF Follows
    <3>6. Succeeds(d, DateOf(y, m + 1, 1, 0, 0, 0))
      BY <2>1, <3>5, NewDate
    <3>7. QED
      BY <2>2, <2>5, <3>6 DEF Succeeds
  <2>6. CASE ~ (k < MonthLength(y, m)) /\ ~ (m < 12)
    <3>1. m = 12 /\ k = 31
      <4>1. m = 12
        BY <1>1, <2>6
      <4>2. MonthLength(y, 12) = 31
        BY <1>1, Months
      <4>3. QED
        BY <1>1, <2>6, <4>1, <4>2
    <3>2. y + 1 \in Nat /\ y + 1 >= 1970 /\ y + 1 <= 2069
      <4>1. d.year < 2069
        BY <2>1, <3>1, LastDay
      <4>2. QED
        BY <1>1, <4>1
    <3>3. DayNumber(y + 1, 1, 1) = DayNumber(y, m, k) + 1
      <4>1. DayNumber(y, 12, 31) + 1 = DaysTo(y + 1 - 1970)
            /\ DayNumber(y + 1, 1, 1) = DaysTo(y + 1 - 1970)
        BY <1>1, NextYear
      <4>2. QED
        BY <3>1, <4>1
    <3>4. 1 \in 1 .. 12 /\ 1 \in 1 .. 31 /\ 1 <= MonthLength(y + 1, 1)
      BY DEF MonthLength
    <3>5. Follows(d, y + 1, 1, 1)
      BY <3>2, <3>3, <3>4 DEF Follows
    <3>6. Succeeds(d, DateOf(y + 1, 1, 1, 0, 0, 0))
      BY <2>1, <3>5, NewDate
    <3>7. QED
      BY <2>2, <2>6, <3>6 DEF Succeeds
  <2>7. QED
    BY <2>4, <2>5, <2>6
<1>8. QED
  BY <1>4, <1>5, <1>6, <1>7

-----------------------------------------------------------------------------
(* What the kernel makes of the registers.                                 *)

LEMMA Bcd ==
  ASSUME NEW v \in 0 .. 99
  PROVE  binToBcd(v) \in 0 .. 255 /\ bcdToBin(binToBcd(v)) = v
<1> DEFINE q == v \div 10   r == v % 10
<1>1. q \in 0 .. 9 /\ r \in 0 .. 9 /\ v = 10 * q + r
  OBVIOUS
<1> HIDE DEF q, r
<1>2. (q * 16 + r) % 16 = r /\ (q * 16 + r) \div 16 = q /\ q * 16 + r \in 0 .. 255
  BY <1>1
<1>3. binToBcd(v) = q * 16 + r
  BY DEF binToBcd, q, r
<1>4. bcdToBin(q * 16 + r) = r + q * 10
  BY <1>2 DEF bcdToBin
<1>5. QED
  BY <1>1, <1>2, <1>3, <1>4

LEMMA NamesAre ==
  /\ Names = {"sec", "min", "hour", "mday", "mon", "year", "century"}
  /\ Len(Registers) = 7 /\ DOMAIN Registers = 1 .. 7
  /\ Registers[1] = "sec"
  /\ \A k \in 1 .. 7 : Registers[k] \in Names
  /\ \A f \in Names : \E k \in 1 .. 7 : Registers[k] = f
<1>1. Len(Registers) = 7 /\ DOMAIN Registers = 1 .. 7
  BY DEF Registers
<1>2. /\ Registers[1] = "sec" /\ Registers[2] = "min" /\ Registers[3] = "hour"
      /\ Registers[4] = "mday" /\ Registers[5] = "mon" /\ Registers[6] = "year"
      /\ Registers[7] = "century"
  BY DEF Registers
<1>3. Names = {"sec", "min", "hour", "mday", "mon", "year", "century"}
  <2>1. \A k \in 1 .. 7 : k = 1 \/ k = 2 \/ k = 3 \/ k = 4 \/ k = 5 \/ k = 6 \/ k = 7
    OBVIOUS
  <2>2. QED
    BY <1>1, <1>2, <2>1 DEF Names
<1>4. \A k \in 1 .. 7 : Registers[k] \in Names
  BY <1>1 DEF Names
<1>5. \A f \in Names : \E k \in 1 .. 7 : Registers[k] = f
  BY <1>1 DEF Names
<1>6. QED
  BY <1>1, <1>2, <1>3, <1>4, <1>5

LEMMA ShownIs ==
  ASSUME date \in Dates
  PROVE  /\ \A f \in Names : Shown(f) \in 0 .. 99
         /\ Shown("sec") = date.sec /\ Shown("min") = date.min
         /\ Shown("hour") = date.hour /\ Shown("mday") = date.mday
         /\ Shown("mon") = date.mon
         /\ Shown("year") = date.year % 100 /\ Shown("century") = date.year \div 100
<1>1. /\ Shown("sec") = date.sec /\ Shown("min") = date.min
      /\ Shown("hour") = date.hour /\ Shown("mday") = date.mday
      /\ Shown("mon") = date.mon
      /\ Shown("year") = date.year % 100 /\ Shown("century") = date.year \div 100
  BY DEF Shown
<1>2. date.sec \in 0 .. 99 /\ date.min \in 0 .. 99 /\ date.hour \in 0 .. 99
  BY DateParts, TimeUnits
<1>3. date.mday \in 0 .. 99 /\ date.mon \in 0 .. 99
  BY DateParts
<1>4. date.year % 100 \in 0 .. 99 /\ date.year \div 100 \in 0 .. 99
  <2>1. date.year \in Nat /\ date.year <= 2069
    BY DateParts
  <2>2. QED
    BY <2>1
<1>5. QED
  BY <1>1, <1>2, <1>3, <1>4, NamesAre

\* What timeRead returns.
Taken == [f \in Names |-> bcdToBin(raw[f])]

LEMMA TakenIs ==
  ASSUME date \in Dates, \A k \in 1 .. 7 : raw[Registers[k]] = Chip(Registers[k])
  PROVE  /\ \A f \in Names : Taken[f] = Shown(f)
         /\ Taken.sec = date.sec /\ Taken.min = date.min /\ Taken.hour = date.hour
         /\ Taken.mday = date.mday /\ Taken.mon = date.mon
         /\ Taken.year = date.year % 100 /\ Taken.century = date.year \div 100
<1>1. ASSUME NEW f \in Names PROVE Taken[f] = Shown(f)
  <2>1. raw[f] = Chip(f)
    BY NamesAre
  <2>2. raw[f] = binToBcd(Shown(f))
    BY <2>1 DEF Chip
  <2>3. bcdToBin(binToBcd(Shown(f))) = Shown(f)
    BY ShownIs, Bcd
  <2>4. QED
    BY <2>2, <2>3 DEF Taken
<1>2. /\ "sec" \in Names /\ "min" \in Names /\ "hour" \in Names /\ "mday" \in Names
      /\ "mon" \in Names /\ "year" \in Names /\ "century" \in Names
  BY NamesAre
<1>3. /\ Taken["sec"] = Shown("sec") /\ Taken["min"] = Shown("min")
      /\ Taken["hour"] = Shown("hour") /\ Taken["mday"] = Shown("mday")
      /\ Taken["mon"] = Shown("mon") /\ Taken["year"] = Shown("year")
      /\ Taken["century"] = Shown("century")
  BY <1>1, <1>2
<1>4. QED
  BY <1>1, <1>3, ShownIs

(* The kernel's calendar agrees with the chip's, and mktime counts as the  *)
(* chip does.                                                              *)
LEMMA YearIs ==
  ASSUME NEW t, NEW y \in Nat, y >= 1970, y <= 2069, t.year = y % 100
  PROVE  Elapsed(t) = y - 1970
<1> DEFINE c == y \div 100   r == y % 100
<1>1. c \in 19 .. 20 /\ r \in 0 .. 99 /\ y = 100 * c + r /\ t.year = r
  OBVIOUS
<1> HIDE DEF c, r
<1>2. r >= 70 => y = 1900 + r
  BY <1>1
<1>3. r < 70 => y = 2000 + r
  BY <1>1
<1>4. Elapsed(t) = IF r >= 70 THEN r - 70 ELSE r - 70 + 100
  BY <1>1 DEF Elapsed
<1>5. QED
  BY <1>1, <1>2, <1>3, <1>4

LEMMA FebruaryIs ==
  ASSUME NEW t, NEW y \in Nat, y >= 1970, y <= 2069, t.year = y % 100,
         NEW m \in 1 .. 12, t.mon = m
  PROVE  month[t.mon] - (IF AfterFebruary(t) THEN 1 ELSE 0) = MonthStart(y, m)
<1>1. Elapsed(t) = y - 1970
  BY YearIs
<1>2. IsLeap(y) <=> y % 4 = 0
  BY LeapYears
<1>3. (y - 1970 + 2) % 4 = 0 <=> y % 4 = 0
  OBVIOUS
<1>4. AfterFebruary(t) <=> m > 2 /\ ~ IsLeap(y)
  BY <1>1, <1>2, <1>3 DEF AfterFebruary
<1>5. month[t.mon] = month[m]
  OBVIOUS
<1>6. QED
  BY <1>4, <1>5 DEF MonthStart

LEMMA Products ==
  ASSUME NEW a \in Nat, NEW b \in Nat, NEW c \in Nat
  PROVE  a * (b + c) = a * b + a * c /\ a * b \in Nat /\ a * c \in Nat
OBVIOUS

LEMMA DatesCounted ==
  ASSUME NEW d \in Dates, NEW t, t.sec = d.sec, t.min = d.min, t.hour = d.hour,
         t.mday = d.mday, t.mon = d.mon, t.year = d.year % 100
  PROVE  getYday(t) = DayOfYear(d) /\ mktime(t) = Seconds(d)
<1> DEFINE y == d.year   m == d.mon   k == d.mday
           s == month[t.mon] - IF AfterFebruary(t) THEN 1 ELSE 0
<1>1. y \in Nat /\ y >= 1970 /\ y <= 2069 /\ m \in 1 .. 12 /\ k \in 1 .. 31
  BY DateParts
<1>2. s = MonthStart(y, m) /\ s \in 0 .. 335
  <2>1. t.year = y % 100 /\ t.mon = m
    OBVIOUS
  <2> HIDE DEF y, m
  <2>2. s = MonthStart(y, m)
    BY <1>1, <2>1, FebruaryIs
  <2>3. MonthStart(y, m) \in 0 .. 335
    BY <1>1, Months
  <2>4. QED
    BY <2>2, <2>3
<1>3. Elapsed(t) = y - 1970
  BY <1>1, YearIs
<1>4. DayOfYear(d) = MonthStart(y, m) + k
  BY DaysAre
<1>5. getYday(t) = DayOfYear(d)
  <2>1. getYday(t) = month[t.mon] + t.mday - IF AfterFebruary(t) THEN 1 ELSE 0
    BY DEF getYday
  <2>2. month[t.mon] \in Int
    BY <1>1 DEF month
  <2>3. QED
    BY <1>1, <1>2, <1>4, <2>1, <2>2
<1> DEFINE n == y - 1970
<1>6. n \in 0 .. 99 /\ LeapDays(n) \in Nat
  <2>1. n \in 0 .. 99
    BY <1>1
  <2>2. QED
    BY <2>1, LeapDay
<1>7. mktime(t) = Year * n + Day * LeapDays(n) + Day * s + Day * (k - 1)
                  + Hour * d.hour + Minute * d.min + d.sec
  BY <1>3 DEF mktime
<1>8. DaysSince1970(d) = 365 * n + LeapDays(n) + s + (k - 1)
  <2>1. DaysSince1970(d) = DayNumber(y, m, k)
    BY DaysAre
  <2>2. DayNumber(y, m, k) = DaysTo(n) + MonthStart(y, m) + (k - 1)
    BY DEF DayNumber
  <2>3. DaysTo(n) = 365 * n + LeapDays(n)
    BY DEF DaysTo
  <2>4. QED
    BY <1>2, <2>1, <2>2, <2>3
<1> DEFINE l == LeapDays(n)   j == k - 1
<1>9. /\ n \in Nat /\ l \in Nat /\ s \in Nat /\ j \in Nat /\ Day \in Nat
      /\ 365 * n \in Nat /\ Year = 365 * Day
  BY <1>1, <1>2, <1>6, TimeUnits
<1>10. /\ d.hour \in 0 .. HoursInDay - 1 /\ d.min \in 0 .. MinutesInHour - 1
       /\ d.sec \in 0 .. Minute - 1 /\ Minute \in Nat
  BY DateParts, TimeUnits
<1>11. Hour * d.hour \in Nat /\ Minute * d.min \in Nat /\ d.sec \in Nat
  BY <1>10, WithinDay
<1> HIDE DEF l, j, s, y, m, k, n
<1>12. Year * n = Day * (365 * n)
  BY <1>9
<1>13. Day * (365 * n + l + s + j) = Day * (365 * n) + Day * l + Day * s + Day * j
  <2> DEFINE a == 365 * n
  <2>1. Day * (a + l) = Day * a + Day * l
    BY <1>9, Products
  <2>2. Day * ((a + l) + s) = Day * (a + l) + Day * s
    <3>1. a + l \in Nat
      BY <1>9
    <3>2. QED
      BY <1>9, <3>1, Products
  <2>3. Day * ((a + l + s) + j) = Day * (a + l + s) + Day * j
    <3>1. a + l + s \in Nat
      BY <1>9
    <3>2. QED
      BY <1>9, <3>1, Products
  <2>4. QED
    BY <2>1, <2>2, <2>3
<1>14. mktime(t) = Day * (365 * n) + Day * l + Day * s + Day * j
                   + Hour * d.hour + Minute * d.min + d.sec
  BY <1>7, <1>12 DEF l, j
<1>15. Seconds(d) = Day * (365 * n + l + s + j) + Hour * d.hour + Minute * d.min + d.sec
  BY <1>8 DEF Seconds, l, j
<1>16. mktime(t) = Seconds(d)
  BY <1>13, <1>14, <1>15
<1>17. QED
  BY <1>5, <1>16

-----------------------------------------------------------------------------
(* The alarm.                                                              *)

LEMMA DividedBy ==
  ASSUME NEW d \in Nat \ {0}, NEW x \in Nat
  PROVE  x \div d \in Nat /\ x % d \in 0 .. d - 1 /\ x = d * (x \div d) + (x % d)
OBVIOUS

(* A number of seconds in hours, minutes and seconds.                      *)
LEMMA InHours ==
  ASSUME NEW secs \in Nat
  PROVE  LET x == (secs \div Minute) % MinutesInHour   v == secs % Minute IN
         /\ v \in 0 .. Minute - 1 /\ x \in 0 .. MinutesInHour - 1
         /\ secs \div Hour \in Nat
         /\ secs = Hour * (secs \div Hour) + Minute * x + v
<1> DEFINE u == secs \div Minute   v == secs % Minute
           w == u \div MinutesInHour   x == u % MinutesInHour
<1>1. Minute \in Nat \ {0} /\ MinutesInHour \in Nat \ {0} /\ Hour \in Nat \ {0}
      /\ Hour = MinutesInHour * Minute /\ 0 \in 0 .. HoursInDay - 1
  BY TimeUnits
<1>2. u \in Nat /\ v \in 0 .. Minute - 1 /\ secs = Minute * u + v
  BY <1>1, DividedBy
<1>3. w \in Nat /\ x \in 0 .. MinutesInHour - 1 /\ u = MinutesInHour * w + x
  <2> HIDE DEF u
  <2>1. QED
    BY <1>1, <1>2, DividedBy
<1> HIDE DEF u, v, w, x
<1>4. Minute * x + v \in 0 .. Hour - 1
  BY <1>1, <1>2, <1>3, WithinDay
<1>5. secs = Hour * w + (Minute * x + v)
  <2>1. x \in Nat /\ MinutesInHour * w \in Nat
    BY <1>1, <1>3
  <2>2. Minute * (MinutesInHour * w + x) = Minute * (MinutesInHour * w) + Minute * x
    BY <1>1, <2>1, Products
  <2>3. Minute * (MinutesInHour * w) = Hour * w
    BY <1>1, <1>3
  <2>4. Minute * x \in Nat /\ Hour * w \in Nat /\ v \in Nat
    BY <1>1, <1>2, <1>3, <2>1
  <2> DEFINE a == Hour * w   b == Minute * x   c == Minute * u
  <2>5. secs = c + v /\ c = a + b /\ a \in Nat /\ b \in Nat
    BY <1>2, <1>3, <2>2, <2>3, <2>4
  <2> HIDE DEF a, b, c
  <2>6. secs = a + (b + v)
    BY <2>4, <2>5
  <2>7. QED
    BY <2>6 DEF a, b
<1>6. secs \div Hour = w
  BY <1>1, <1>3, <1>4, <1>5, QuotientIs
<1>7. secs = Hour * w + Minute * x + v
  <2>1. Minute * x \in Nat /\ Hour * w \in Nat /\ v \in Nat
    BY <1>1, <1>2, <1>3
  <2> DEFINE a == Hour * w   b == Minute * x
  <2>2. secs = a + (b + v) /\ a \in Nat /\ b \in Nat
    BY <1>5, <2>1
  <2> HIDE DEF a, b
  <2>3. secs = a + b + v
    BY <2>1, <2>2
  <2>4. QED
    BY <2>3 DEF a, b
<1>8. QED
  BY <1>2, <1>3, <1>6, <1>7 DEF u, v, w, x

(* The carries of setAlarm give the time of day of that later moment.      *)
LEMMA LaterIs ==
  ASSUME NEW t, t.hour \in 0 .. HoursInDay - 1, t.min \in 0 .. MinutesInHour - 1,
         t.sec \in 0 .. Minute - 1, NEW secs \in Nat
  PROVE  TimeOf(Later(t, secs)) = (TimeOf(t) + secs) % Day
<1> DEFINE v == secs % Minute   x == (secs \div Minute) % MinutesInHour
           w == secs \div Hour
           sec == t.sec + v   min == t.min + x + (sec \div Minute)
           hour == t.hour + w + (min \div MinutesInHour)
           c == sec \div Minute      s == sec % Minute
           e == min \div MinutesInHour   n == min % MinutesInHour
           g == hour \div HoursInDay     h == hour % HoursInDay
<1>1. /\ Minute \in Nat \ {0} /\ MinutesInHour \in Nat \ {0}
      /\ HoursInDay \in Nat \ {0} /\ Hour \in Nat \ {0} /\ Day \in Nat \ {0}
      /\ Hour = MinutesInHour * Minute /\ Day = HoursInDay * Hour
  BY TimeUnits
<1>2. t.hour \in Nat /\ t.min \in Nat /\ t.sec \in Nat
  BY <1>1
<1>3. /\ v \in Nat /\ x \in Nat /\ w \in Nat
      /\ secs = Hour * w + Minute * x + v
  <2>1. v \in 0 .. Minute - 1 /\ x \in 0 .. MinutesInHour - 1 /\ w \in Nat
    BY InHours
  <2>2. secs = Hour * w + Minute * x + v
    BY InHours
  <2> HIDE DEF v, x, w
  <2>3. QED
    BY <1>1, <2>1, <2>2
<1> HIDE DEF v, x, w
<1>4. sec \in Nat
  BY <1>2, <1>3
<1> HIDE DEF sec
<1>5. c \in Nat /\ s \in 0 .. Minute - 1 /\ sec = Minute * c + s
  BY <1>1, <1>4, DividedBy
<1>6. min = t.min + x + c /\ min \in Nat
  BY <1>2, <1>3, <1>5
<1> HIDE DEF min
<1>7. e \in Nat /\ n \in 0 .. MinutesInHour - 1 /\ min = MinutesInHour * e + n
  BY <1>1, <1>6, DividedBy
<1>8. hour = t.hour + w + e /\ hour \in Nat
  BY <1>2, <1>3, <1>7
<1> HIDE DEF hour
<1>9. g \in Nat /\ h \in 0 .. HoursInDay - 1 /\ hour = HoursInDay * g + h
  BY <1>1, <1>8, DividedBy
<1>10. Later(t, secs) = [sec |-> s, min |-> n, hour |-> h]
  BY DEF Later, sec, min, hour, v, x, w
<1> HIDE DEF c, s, e, n, g, h
<1>11. TimeOf(Later(t, secs)) = Hour * h + Minute * n + s
  BY <1>10 DEF TimeOf
<1>12. Hour * h + Minute * n + s \in 0 .. Day - 1
  BY <1>5, <1>7, <1>9, WithinDay
<1>13. s \in Nat /\ n \in Nat /\ h \in Nat
  BY <1>1, <1>5, <1>7, <1>9
<1>14. Minute * min = Minute * t.min + Minute * x + Minute * c
  <2>1. Minute * (t.min + x) = Minute * t.min + Minute * x
    BY <1>1, <1>2, <1>3, Products
  <2>2. t.min + x \in Nat
    BY <1>2, <1>3
  <2>3. Minute * ((t.min + x) + c) = Minute * (t.min + x) + Minute * c
    BY <1>1, <1>5, <2>2, Products
  <2>4. QED
    BY <1>6, <2>1, <2>3
<1>15. Minute * min = Hour * e + Minute * n
  <2>1. MinutesInHour * e \in Nat
    BY <1>1, <1>7
  <2>2. Minute * (MinutesInHour * e + n) = Minute * (MinutesInHour * e) + Minute * n
    BY <1>1, <1>13, <2>1, Products
  <2>3. Minute * (MinutesInHour * e) = Hour * e
    BY <1>1, <1>7
  <2>4. QED
    BY <1>7, <2>2, <2>3
<1>16. Hour * hour = Hour * t.hour + Hour * w + Hour * e
  <2>1. Hour * (t.hour + w) = Hour * t.hour + Hour * w
    BY <1>1, <1>2, <1>3, Products
  <2>2. t.hour + w \in Nat
    BY <1>2, <1>3
  <2>3. Hour * ((t.hour + w) + e) = Hour * (t.hour + w) + Hour * e
    BY <1>1, <1>7, <2>2, Products
  <2>4. QED
    BY <1>8, <2>1, <2>3
<1>17. Hour * hour = Day * g + Hour * h
  <2>1. HoursInDay * g \in Nat
    BY <1>1, <1>9
  <2>2. Hour * (HoursInDay * g + h) = Hour * (HoursInDay * g) + Hour * h
    BY <1>1, <1>13, <2>1, Products
  <2>3. Hour * (HoursInDay * g) = Day * g
    BY <1>1, <1>9
  <2>4. QED
    BY <1>9, <2>2, <2>3
<1> DEFINE ht == Hour * t.hour   hw == Hour * w   he == Hour * e   hh == Hour * h
           mt == Minute * t.min  mx == Minute * x  mc == Minute * c  mn == Minute * n
           dg == Day * g
<1>18. /\ ht \in Nat /\ hw \in Nat /\ he \in Nat /\ hh \in Nat /\ mt \in Nat
       /\ mx \in Nat /\ mc \in Nat /\ mn \in Nat /\ dg \in Nat
  BY <1>1, <1>2, <1>3, <1>5, <1>7, <1>9, <1>13
<1>19. /\ secs = hw + mx + v /\ t.sec + v = mc + s
       /\ mt + mx + mc = he + mn /\ ht + hw + he = dg + hh
  BY <1>3, <1>5, <1>14, <1>15, <1>16, <1>17 DEF sec
<1>20. TimeOf(t) = ht + mt + t.sec
  BY DEF TimeOf
<1>21. hh + mn + s \in 0 .. Day - 1
  BY <1>12
<1> HIDE DEF ht, hw, he, hh, mt, mx, mc, mn, dg
<1>22. TimeOf(t) + secs = dg + (hh + mn + s)
  BY <1>2, <1>3, <1>13, <1>18, <1>19, <1>20
<1>23. (TimeOf(t) + secs) % Day = hh + mn + s
  <2> DEFINE a == TimeOf(t) + secs   r == hh + mn + s
  <2>1. a = Day * g + r /\ r \in 0 .. Day - 1
    BY <1>21, <1>22 DEF dg
  <2>2. Day \in Nat \ {0} /\ g \in Nat
    BY <1>1, <1>9
  <2> HIDE DEF a, r
  <2>3. a % Day = r
    BY <2>1, <2>2, QuotientIs
  <2>4. QED
    BY <2>3 DEF a, r
<1>24. QED
  BY <1>11, <1>23 DEF hh, mn

-----------------------------------------------------------------------------
(* The invariant.  The machine is switched off before the chip's century   *)
(* ends.  The registers that have been read are those of this second,      *)
(* unless it ended since, which the register of the seconds then shows.    *)
(* The ticks that came are counted, waiting or lost, but for those of the  *)
(* second in which the registers were read.                                *)

Bounded == now * Hz + phase + (MaxPulses - pulses) < Hz * (Day * DaysTo(100))

SoFarRead == \A k \in 1 .. at - 1 : raw[Registers[k]] = Chip(Registers[k])
Outdated == turned /\ at > 1 /\ raw["sec"] # Chip("sec")
Reading == at # 0 => SoFarRead \/ Outdated

Gone == (now - startupTime) * Hz + phase
Held == IF pending THEN 1 ELSE 0
Counting ==
    /\ now > 0 /\ (enabled => ~ pending)
    /\ startupTime = 0 => at # 0 /\ task = StartUp /\ jiffies = 0 /\ ~ enabled
    /\ startupTime # 0 /\ at # 0 => task # StartUp
    /\ startupTime # 0 =>
        /\ jiffies + Held <= Gone + 1
        /\ Gone <= jiffies + lost + Held + Hz - 1

TimeInvariant == TimeTypeOK /\ Bounded /\ Reading /\ Counting /\ AlarmRight

(* A day lies within its year, and the year within the century.            *)
LEMMA WithinYear ==
  ASSUME NEW y \in Nat, y >= 1970, y <= 2068, NEW m \in 1 .. 12,
         NEW k \in 1 .. 31, k <= MonthLength(y, m)
  PROVE  DayNumber(y, m, k) + 1 + 365 <= DaysTo(100)
<1> DEFINE n == y - 1970
<1>1. n \in 0 .. 98
  OBVIOUS
<1>2. MonthStart(y, m) + k <= 365 + Extra(y)
  <2>1. Extra(y) \in 0 .. 1 /\ MonthStart(y, m) \in 0 .. 335 /\ MonthLength(y, m) \in 28 .. 31
    BY Months
  <2>2. CASE m = 12
    <3>1. MonthStart(y, 12) = 334 + Extra(y)
      BY Months
    <3>2. QED
      BY <2>1, <2>2, <3>1
  <2>3. CASE m < 12
    <3>1. MonthStart(y, m + 1) = MonthStart(y, m) + MonthLength(y, m)
      BY <2>3, Months
    <3>2. m + 1 \in 1 .. 12
      BY <2>3
    <3>3. MonthStart(y, m + 1) \in 0 .. 335
      BY <3>2, Months
    <3>4. QED
      BY <2>1, <3>1, <3>3
  <2>4. QED
    BY <2>2, <2>3
<1>3. /\ DaysTo(n) \in Nat /\ DaysTo(n + 1) = DaysTo(n) + 365 + Extra(y)
      /\ Extra(y) \in 0 .. 1 /\ MonthStart(y, m) \in 0 .. 335
  <2>1. DaysTo(y - 1970) \in Nat /\ DaysTo(y + 1 - 1970) = DaysTo(y - 1970) + 365 + Extra(y)
    BY YearsAre
  <2>2. y + 1 - 1970 = n + 1
    OBVIOUS
  <2>3. QED
    BY <2>1, <2>2, Months
<1>4. DayNumber(y, m, k) = DaysTo(n) + MonthStart(y, m) + (k - 1)
  BY DEF DayNumber
<1> HIDE DEF n
<1>5. DayNumber(y, m, k) + 1 <= DaysTo(n + 1)
  BY <1>2, <1>3, <1>4
<1>6. DaysTo(n + 1) + 365 <= DaysTo(100) /\ DaysTo(100) \in Nat /\ DaysTo(n + 1) \in Nat
  BY <1>1 DEF DaysTo, LeapDays
<1>7. DayNumber(y, m, k) \in Nat
  BY <1>3, <1>4
<1> DEFINE a == DayNumber(y, m, k)   b == DaysTo(n + 1)   c == DaysTo(100)
<1>8. a \in Nat /\ b \in Nat /\ c \in Nat /\ a + 1 <= b /\ b + 365 <= c
  BY <1>5, <1>6, <1>7
<1> HIDE DEF a, b, c
<1>9. a + 1 + 365 <= c
  BY <1>8
<1>10. QED
  BY <1>9 DEF a, c

LEMMA InitTypes ==
  ASSUME TimeInit
  PROVE  /\ TimeTypeOK /\ date.year <= 2068 /\ pulses = 0
         /\ date.sec = Minute - 1
<1>1. PICK y \in Years, m \in 1 .. 12, d \in Days :
          /\ d <= MonthLength(y, m)
          /\ date = [year |-> y, mon |-> m, mday |-> d, hour |-> HoursInDay - 1,
                     min |-> MinutesInHour - 1, sec |-> Minute - 1]
  BY DEF TimeInit
<1>2. y \in 1970 .. 2068 /\ d \in 1 .. 31
  BY TimeAssumption DEF TimeAssumption
<1>3. /\ HoursInDay - 1 \in 0 .. HoursInDay - 1
      /\ MinutesInHour - 1 \in 0 .. MinutesInHour - 1
      /\ Minute - 1 \in 0 .. Minute - 1
  BY TimeUnits
<1>4. date \in Dates
  BY <1>1, <1>2, <1>3 DEF Dates
<1>5. date.year <= 2068 /\ date.sec = Minute - 1
  BY <1>1, <1>2
<1>6. raw \in [Names -> 0 .. 255]
  BY DEF TimeInit, NoTime
<1>7. /\ now = Seconds(date) /\ phase \in 0 .. Hz - 1 /\ pulses \in 0 .. MaxPulses
      /\ at \in 0 .. Len(Registers) + 1 /\ turned \in BOOLEAN
      /\ task \in Delays \cup {StartUp} /\ {startupTime, jiffies, lost, due} \subseteq Nat
      /\ enabled \in BOOLEAN /\ pending \in BOOLEAN /\ pulses = 0
  <2>1. now = Seconds(date) /\ phase \in 0 .. Hz - 1 /\ pulses = 0 /\ turned = FALSE
    BY DEF TimeInit
  <2>2. at = 1 /\ task = StartUp
    BY DEF TimeInit
  <2>3. startupTime = 0 /\ jiffies = 0 /\ lost = 0 /\ due = 0
    BY DEF TimeInit
  <2>4. enabled = FALSE /\ pending \in BOOLEAN
    BY DEF TimeInit
  <2>5. at \in 0 .. Len(Registers) + 1
    BY <2>2, NamesAre
  <2>6. MaxPulses \in Nat
    BY TimeUnits
  <2>7. pulses \in 0 .. MaxPulses /\ turned \in BOOLEAN /\ enabled \in BOOLEAN
    <3>1. pulses \in 0 .. MaxPulses
      BY <2>6 DEF TimeInit
    <3>2. turned \in BOOLEAN
      BY <2>1
    <3>3. enabled \in BOOLEAN
      BY <2>4
    <3>4. QED
      BY <3>1, <3>2, <3>3
  <2>8. {startupTime, jiffies, lost, due} \subseteq Nat
    BY <2>3
  <2>9. QED
    BY <2>1, <2>2, <2>4, <2>5, <2>7, <2>8
<1>8. QED
  BY <1>4, <1>5, <1>6, <1>7 DEF TimeTypeOK

LEMMA InitBounded ==
  ASSUME TimeInit
  PROVE  Bounded /\ now > 0 /\ now \in Nat
<1> DEFINE n == DaysSince1970(date)   b == DaysTo(100)
<1>1. /\ date \in Dates /\ now = Seconds(date) /\ phase \in 0 .. Hz - 1 /\ pulses = 0
      /\ date.sec = Minute - 1 /\ date.year <= 2068
  BY InitTypes DEF TimeTypeOK
<1>2. n \in Nat /\ b \in Nat /\ n + 1 + 365 <= b
  <2>1. DaysSince1970(date) = DayNumber(date.year, date.mon, date.mday)
    BY <1>1, DaysAre
  <2>2. DaysSince1970(date) \in Nat
    BY <1>1, DaysAre
  <2>3. DayNumber(date.year, date.mon, date.mday) + 1 + 365 <= DaysTo(100)
    <3> DEFINE y == date.year   m == date.mon   k == date.mday
    <3>1. /\ y \in Nat /\ y >= 1970 /\ y <= 2068 /\ m \in 1 .. 12 /\ k \in 1 .. 31
          /\ k <= MonthLength(y, m)
      BY <1>1, DateParts
    <3> HIDE DEF y, m, k
    <3>2. DayNumber(y, m, k) + 1 + 365 <= DaysTo(100)
      BY <3>1, WithinYear
    <3>3. QED
      BY <3>2 DEF y, m, k
  <2>4. DaysTo(100) \in Nat
    BY DEF DaysTo, LeapDays
  <2>5. QED
    BY <2>1, <2>2, <2>3, <2>4
<1>3. now = Day * n + TimeOf(date) /\ TimeOf(date) \in 0 .. Day - 1
  BY <1>1, SecondsAre
<1>4. /\ Day \in Nat /\ Hz \in Nat /\ Hz > 0 /\ MaxPulses \in Nat /\ Year = 365 * Day
      /\ MaxPulses <= Hz * Year
  BY TimeUnits
<1>5. TimeOf(date) > 0
  <2>1. /\ date.hour \in 0 .. HoursInDay - 1 /\ date.min \in 0 .. MinutesInHour - 1
        /\ date.sec \in 0 .. Minute - 1
    BY <1>1, DateParts
  <2>2. Hour * date.hour \in Nat /\ Minute * date.min \in Nat
    BY <2>1, WithinDay
  <2>3. date.sec \in Nat /\ date.sec > 0
    BY <1>1, TimeUnits
  <2> DEFINE h == Hour * date.hour   m == Minute * date.min
  <2>4. h \in Nat /\ m \in Nat /\ TimeOf(date) = h + m + date.sec
    BY <2>2 DEF TimeOf
  <2> HIDE DEF h, m
  <2>5. QED
    BY <2>3, <2>4
<1> HIDE DEF n, b
<1>6. Day * n \in Nat /\ Day * (n + 1) = Day * n + Day /\ Day * (n + 1) \in Nat
  BY <1>2, <1>4
<1>7. now \in Nat /\ now > 0 /\ now + 1 <= Day * (n + 1)
  <2> DEFINE c == Day * n   e == Day * (n + 1)
  <2>1. c \in Nat /\ e = c + Day /\ now = c + TimeOf(date)
    BY <1>3, <1>6
  <2> HIDE DEF c, e
  <2>2. now \in Nat /\ now > 0 /\ now + 1 <= e
    BY <1>3, <1>4, <1>5, <2>1
  <2>3. QED
    BY <2>2 DEF e
<1>8. Day * (n + 1) + Year <= Day * b /\ Day * b \in Nat /\ Year \in Nat
  <2>1. Day * (n + 1 + 365) <= Day * b
    BY <1>2, <1>4, Factors
  <2>2. Day * ((n + 1) + 365) = Day * (n + 1) + Day * 365
    BY <1>2, <1>4, Products
  <2>3. Day * 365 = Year /\ Day * b \in Nat /\ Year \in Nat
    BY <1>2, <1>4
  <2>4. QED
    BY <1>6, <2>1, <2>2, <2>3
<1>9. Hz * (now + 1 + Year) <= Hz * (Day * b)
  <2> DEFINE c == Day * (n + 1)   e == Day * b
  <2>1. c \in Nat /\ e \in Nat /\ now + 1 <= c /\ c + Year <= e
    BY <1>6, <1>7, <1>8
  <2> HIDE DEF c, e
  <2>2. now + 1 + Year \in Nat /\ now + 1 + Year <= e
    BY <1>7, <1>8, <2>1
  <2>3. Hz * (now + 1 + Year) <= Hz * e
    BY <1>4, <2>1, <2>2, Factors
  <2>4. QED
    BY <2>3 DEF e
<1>10. /\ Hz * (now + 1 + Year) = now * Hz + Hz + Hz * Year
       /\ now * Hz \in Nat /\ Hz * Year \in Nat
  <2>1. Hz * ((now + 1) + Year) = Hz * (now + 1) + Hz * Year
    BY <1>4, <1>7, <1>8, Products
  <2>2. Hz * (now + 1) = Hz * now + Hz
    BY <1>4, <1>7, Multiples
  <2>3. Hz * now = now * Hz /\ now * Hz \in Nat /\ Hz * Year \in Nat
    BY <1>4, <1>7, <1>8
  <2>4. QED
    BY <2>1, <2>2, <2>3
<1>11. Hz * (Day * b) \in Nat
  <2> DEFINE e == Day * b
  <2>1. e \in Nat
    BY <1>8
  <2> HIDE DEF e
  <2>2. Hz * e \in Nat
    BY <1>4, <2>1
  <2>3. QED
    BY <2>2 DEF e
<1> DEFINE w == now * Hz   z == Hz * (Day * b)   x == Hz * Year
<1>12. w \in Nat /\ z \in Nat /\ x \in Nat /\ w + Hz + x <= z /\ MaxPulses <= x
  BY <1>4, <1>9, <1>10, <1>11
<1> HIDE DEF w, z, x
<1>13. w + phase + (MaxPulses - pulses) < z
  BY <1>1, <1>4, <1>12
<1>14. QED
  BY <1>7, <1>13 DEF Bounded, w, z, b

LEMMA InitTime ==
  TimeInit => TimeInvariant
<1> SUFFICES ASSUME TimeInit PROVE TimeInvariant
  OBVIOUS
<1>1. TimeTypeOK /\ Bounded /\ now > 0
  BY InitTypes, InitBounded
<1>2. at = 1 /\ task = StartUp /\ startupTime = 0
  BY DEF TimeInit
<1>3. jiffies = 0 /\ enabled = FALSE /\ due = 0
  BY DEF TimeInit
<1>4. Reading
  BY <1>2 DEF Reading, SoFarRead
<1>5. Counting
  BY <1>1, <1>2, <1>3 DEF Counting
<1>6. AlarmRight
  BY <1>3 DEF AlarmRight
<1>7. QED
  BY <1>1, <1>4, <1>5, <1>6 DEF TimeInvariant

-----------------------------------------------------------------------------
(* The steps.                                                              *)

LEMMA Typed ==
  ASSUME TimeInvariant
  PROVE  /\ date \in Dates /\ now = Seconds(date) /\ now \in Nat
         /\ phase \in Nat /\ phase < Hz /\ phase \in Int
         /\ pulses \in Nat /\ pulses <= MaxPulses /\ MaxPulses \in Nat
         /\ at \in 0 .. 8 /\ raw \in [Names -> 0 .. 255]
         /\ task \in Delays \cup {StartUp} /\ startupTime \in Nat /\ jiffies \in Nat
         /\ lost \in Nat /\ due \in Nat
         /\ Hz \in Nat /\ Hz > 0 /\ Held \in 0 .. 1
<1>1. TimeTypeOK
  BY DEF TimeInvariant
<1>2. date \in Dates /\ now = Seconds(date)
  BY <1>1 DEF TimeTypeOK
<1>3. now \in Nat
  <2>1. Seconds(date) = Day * DaysSince1970(date) + TimeOf(date)
    BY <1>2, SecondsAre
  <2>2. Day * DaysSince1970(date) \in Nat /\ TimeOf(date) \in 0 .. Day - 1
    BY <1>2, SecondsAre
  <2> DEFINE a == Day * DaysSince1970(date)
  <2>3. now = a + TimeOf(date) /\ a \in Nat /\ TimeOf(date) \in Nat
    BY <1>2, <2>1, <2>2, TimeUnits
  <2> HIDE DEF a
  <2>4. QED
    BY <2>3
<1>4. Hz \in Nat /\ Hz > 0 /\ MaxPulses \in Nat
  BY TimeUnits
<1>5. phase \in 0 .. Hz - 1 /\ pulses \in 0 .. MaxPulses
  BY <1>1 DEF TimeTypeOK
<1>6. at \in 0 .. 8 /\ raw \in [Names -> 0 .. 255]
  BY <1>1, NamesAre DEF TimeTypeOK
<1>7. /\ task \in Delays \cup {StartUp} /\ startupTime \in Nat /\ jiffies \in Nat
      /\ lost \in Nat /\ due \in Nat
  BY <1>1 DEF TimeTypeOK
<1>8. Held \in 0 .. 1
  BY DEF Held
<1>9. QED
  BY <1>2, <1>3, <1>4, <1>5, <1>6, <1>7, <1>8

LEMMA DelaysAre ==
  Delays \subseteq Nat /\ StartUp \notin Delays
BY TimeAssumption DEF TimeAssumption, StartUp

(* The ticks and the seconds that have gone by.                            *)
LEMMA GoneNext ==
  ASSUME NEW a \in Nat, NEW b \in Nat, NEW h \in Nat
  PROVE  /\ (a + 1 - b) * h = (a - b) * h + h
         /\ (a - b) * h \in Int /\ (a + 1) * h = a * h + h /\ a * h \in Nat
<1>1. PICK c \in Int : c = a - b
  OBVIOUS
<1>2. (c + 1) * h = c * h + h /\ c * h \in Int
  OBVIOUS
<1>3. a + 1 - b = c + 1
  BY <1>1
<1>4. (a + 1) * h = a * h + h /\ a * h \in Nat
  OBVIOUS
<1>5. QED
  BY <1>1, <1>2, <1>3, <1>4

\* The chip goes on by a tick.
LEMMA PulseChip ==
  ASSUME TimeInvariant, Pulse
  PROVE  /\ date' \in Dates /\ now' = Seconds(date') /\ Bounded' /\ Gone' = Gone + 1
         /\ phase' \in 0 .. Hz - 1 /\ pulses' \in 0 .. MaxPulses /\ now' \in Nat /\ now' > 0
         /\ Turns => date'.sec # date.sec
         /\ ~ Turns => date' = date
<1> DEFINE z == Hz * (Day * DaysTo(100))   w == now * Hz
<1>1. /\ date \in Dates /\ now = Seconds(date) /\ now \in Nat /\ phase \in Nat
      /\ phase < Hz /\ pulses \in Nat /\ Hz \in Nat /\ Hz > 0
      /\ startupTime \in Nat /\ MaxPulses \in Nat
  BY Typed
<1>2. /\ pulses < MaxPulses /\ pulses' = pulses + 1 /\ phase' = (phase + 1) % Hz
      /\ now' = (IF Turns THEN now + 1 ELSE now)
      /\ date' = (IF Turns THEN After(date) ELSE date)
      /\ startupTime' = startupTime
  BY DEF Pulse
<1>3. now > 0 /\ w + phase + (MaxPulses - pulses) < z
  BY DEF TimeInvariant, Counting, Bounded
<1>4. /\ (now + 1) * Hz = w + Hz /\ w \in Nat
      /\ (now + 1 - startupTime) * Hz = (now - startupTime) * Hz + Hz
      /\ (now - startupTime) * Hz \in Int
  BY <1>1, GoneNext
<1>5. z \in Nat
  <2>1. Day \in Nat /\ DaysTo(100) \in Nat
    BY TimeUnits DEF DaysTo, LeapDays
  <2>2. Day * DaysTo(100) \in Nat
    BY <2>1, Multiples
  <2>3. QED
    BY <1>1, <2>2, Multiples
<1>6. CASE Turns
  <2>1. phase = Hz - 1
    BY <1>6 DEF Turns
  <2>2. phase' = 0
    <3>1. phase + 1 = Hz
      BY <1>1, <2>1
    <3>2. Hz % Hz = 0
      BY <1>1
    <3>3. QED
      BY <1>2, <3>1, <3>2
  <2>3. now' = now + 1 /\ date' = After(date)
    BY <1>2, <1>6
  <2>4. Seconds(date) + 1 < Day * DaysTo(100)
    <3> DEFINE b == Day * DaysTo(100)
    <3>1. b \in Nat
      <4>1. Day \in Nat /\ DaysTo(100) \in Nat
        BY TimeUnits DEF DaysTo, LeapDays
      <4>2. QED
        BY <4>1, Multiples
    <3>2. SUFFICES ASSUME b <= now + 1 PROVE FALSE
      BY <1>1, <3>1
    <3> HIDE DEF b
    <3>3. Hz * b <= Hz * (now + 1)
      BY <1>1, <3>1, <3>2, Factors
    <3>4. Hz * (now + 1) = (now + 1) * Hz
      BY <1>1
    <3>5. z = Hz * b
      BY DEF b
    <3>6. z <= w + Hz
      BY <1>4, <3>3, <3>4, <3>5
    <3> HIDE DEF z, w
    <3>7. w + Hz <= w + phase + (MaxPulses - pulses)
      BY <1>1, <1>2, <1>4, <2>1
    <3>8. QED
      BY <1>1, <1>3, <1>4, <1>5, <3>6, <3>7
  <2>5. /\ After(date) \in Dates /\ Seconds(After(date)) = Seconds(date) + 1
        /\ After(date).sec # date.sec
    BY <1>1, <2>4, AfterDate
  <2>6. date' \in Dates /\ now' = Seconds(date') /\ date'.sec # date.sec
    BY <1>1, <2>3, <2>5
  <2>7. Bounded'
    <3>1. now' * Hz = w + Hz
      BY <1>4, <2>3
    <3>2. now' * Hz + phase' + (MaxPulses - pulses') < z
      <4> HIDE DEF w, z
      <4>1. w \in Nat
        BY <1>4
      <4> DEFINE v == now' * Hz
      <4>2. v = w + Hz
        BY <3>1
      <4> HIDE DEF v
      <4>3. v + phase' + (MaxPulses - pulses') < z
        BY <1>1, <1>2, <1>3, <1>5, <2>1, <2>2, <4>1, <4>2
      <4>4. QED
        BY <4>3 DEF v
    <3>3. QED
      BY <3>2 DEF Bounded
  <2>8. Gone' = Gone + 1
    <3>1. now' - startupTime' = now + 1 - startupTime
      <4>1. startupTime' = startupTime /\ now' = now + 1
        BY <1>2, <2>3
      <4>2. QED
        BY <1>1, <4>1
    <3>2. Gone' = (now + 1 - startupTime) * Hz + phase'
      BY <3>1 DEF Gone
    <3> DEFINE v == (now - startupTime) * Hz   u == (now + 1 - startupTime) * Hz
    <3>3. Gone = v + phase /\ Gone' = u + phase' /\ u = v + Hz /\ v \in Int
      BY <1>4, <3>2 DEF Gone
    <3> HIDE DEF u, v
    <3>4. QED
      BY <1>1, <2>1, <2>2, <3>3
  <2>9. phase' \in 0 .. Hz - 1 /\ pulses' \in 0 .. MaxPulses /\ now' \in Nat /\ now' > 0
    BY <1>1, <1>2, <2>2, <2>3
  <2>10. QED
    BY <1>6, <2>6, <2>7, <2>8, <2>9
<1>7. CASE ~ Turns
  <2>1. phase + 1 < Hz
    BY <1>1, <1>7 DEF Turns
  <2>2. phase' = phase + 1
    <3>1. (phase + 1) % Hz = phase + 1
      BY <1>1, <2>1
    <3>2. QED
      BY <1>2, <3>1
  <2>3. now' = now /\ date' = date
    BY <1>2, <1>7
  <2>4. Bounded'
    <3>1. now' * Hz = w
      BY <2>3
    <3>2. now' * Hz + phase' + (MaxPulses - pulses') < z
      <4> HIDE DEF w, z
      <4>1. w \in Nat
        BY <1>4
      <4> DEFINE v == now' * Hz
      <4>2. v = w
        BY <3>1
      <4> HIDE DEF v
      <4>3. v + phase' + (MaxPulses - pulses') < z
        BY <1>1, <1>2, <1>3, <1>5, <2>2, <4>1, <4>2
      <4>4. QED
        BY <4>3 DEF v
    <3>3. QED
      BY <3>2 DEF Bounded
  <2>5. Gone' = Gone + 1
    <3> DEFINE v == (now - startupTime) * Hz
    <3>1. Gone = v + phase /\ Gone' = v + phase' /\ v \in Int
      BY <1>2, <1>4, <2>3 DEF Gone
    <3> HIDE DEF v
    <3>2. QED
      BY <1>1, <2>2, <3>1
  <2>6. phase' \in 0 .. Hz - 1 /\ pulses' \in 0 .. MaxPulses /\ now' \in Nat /\ now' > 0
    BY <1>1, <1>2, <1>3, <2>1, <2>2, <2>3
  <2>7. QED
    BY <1>1, <1>7, <2>3, <2>4, <2>5, <2>6
<1>8. QED
  BY <1>6, <1>7

LEMMA PulseTime ==
  ASSUME TimeInvariant, Pulse
  PROVE  TimeInvariant'
<1>1. /\ date' \in Dates /\ now' = Seconds(date') /\ Bounded' /\ Gone' = Gone + 1
      /\ phase' \in 0 .. Hz - 1 /\ pulses' \in 0 .. MaxPulses /\ now' \in Nat /\ now' > 0
      /\ Turns => date'.sec # date.sec
      /\ ~ Turns => date' = date
  BY PulseChip
<1>2. /\ at' = at /\ raw' = raw /\ task' = task /\ tm' = tm
      /\ startupTime' = startupTime /\ enabled' = enabled
      /\ alarm' = alarm /\ due' = due
  BY DEF Pulse, alarmVars
<1>3. /\ (Turns => Running \/ ~ turned)
      /\ turned' = (~ Running /\ (turned \/ Turns))
  BY DEF Pulse
<1>4. /\ jiffies' = (IF enabled THEN jiffies + 1 ELSE jiffies)
      /\ pending' = ~ enabled
      /\ lost' = (IF pending THEN lost + 1 ELSE lost)
  BY DEF Pulse
<1>5. TimeTypeOK /\ Reading /\ Counting /\ AlarmRight
  BY DEF TimeInvariant
<1>6. TimeTypeOK'
  <2>1. jiffies' \in Nat /\ lost' \in Nat
    <3>1. jiffies \in Nat /\ lost \in Nat
      BY Typed
    <3>2. QED
      BY <3>1, <1>4
  <2>2. {startupTime', jiffies', lost', due'} \subseteq Nat
    <3>1. startupTime' \in Nat /\ due' \in Nat
      BY <1>2, Typed
    <3>2. QED
      BY <2>1, <3>1
  <2>3. turned' \in BOOLEAN
    BY <1>3
  <2>4. enabled' \in BOOLEAN /\ pending' \in BOOLEAN
    <3>1. enabled \in BOOLEAN
      BY <1>5 DEF TimeTypeOK
    <3>2. QED
      BY <3>1, <1>2, <1>4
  <2>5. at' \in 0 .. Len(Registers) + 1
    BY <1>2, <1>5 DEF TimeTypeOK
  <2>6. raw' \in [Names -> 0 .. 255] /\ task' \in Delays \cup {StartUp}
    BY <1>2, <1>5 DEF TimeTypeOK
  <2>7. QED
    BY <1>1, <2>2, <2>3, <2>4, <2>5, <2>6 DEF TimeTypeOK
<1>7. Reading'
  <2> SUFFICES ASSUME at # 0 PROVE SoFarRead' \/ Outdated'
    BY <1>2 DEF Reading
  <2>1. ~ Running
    BY DEF Running
  <2>2. SoFarRead \/ Outdated
    BY <1>5 DEF Reading
  <2>3. CASE ~ Turns
    <3>1. date' = date /\ (turned => turned')
      BY <1>1, <1>3, <2>1, <2>3
    <3>2. \A f : Chip(f)' = Chip(f)
      BY <3>1 DEF Chip, Shown
    <3>3. SoFarRead => SoFarRead'
      BY <1>2, <3>2 DEF SoFarRead
    <3>4. Outdated => Outdated'
      BY <1>2, <3>1, <3>2 DEF Outdated
    <3>5. QED
      BY <2>2, <3>3, <3>4
  <2>4. CASE Turns
    <3>1. ~ turned /\ turned'
      BY <1>3, <2>1, <2>4
    <3>2. SoFarRead
      BY <2>2, <3>1 DEF Outdated
    <3>3. at \in 0 .. 8
      BY Typed
    <3>4. CASE at = 1
      BY <3>4, <1>2 DEF SoFarRead
    <3>5. CASE at > 1
      <4>1. raw["sec"] = Chip("sec")
        <5>1. 1 \in 1 .. at - 1
          BY <3>3, <3>5
        <5>2. raw[Registers[1]] = Chip(Registers[1])
          BY <3>2, <5>1 DEF SoFarRead
        <5>3. QED
          BY <5>2, NamesAre
      <4>2. Chip("sec") = binToBcd(date.sec) /\ Chip("sec")' = binToBcd(date'.sec)
        BY DEF Chip, Shown
      <4>3. date.sec \in 0 .. 99 /\ date'.sec \in 0 .. 99
        <5>1. date \in Dates
          BY Typed
        <5>2. date.sec \in 0 .. Minute - 1
          BY <5>1, DateParts
        <5>3. date'.sec \in 0 .. Minute - 1
          BY <1>1, DateParts
        <5>4. Minute \in 2 .. 100
          BY TimeUnits
        <5>5. QED
          BY <5>2, <5>3, <5>4
      <4>4. bcdToBin(binToBcd(date.sec)) = date.sec
            /\ bcdToBin(binToBcd(date'.sec)) = date'.sec
        BY <4>3, Bcd
      <4>5. Chip("sec")' # Chip("sec")
        BY <1>1, <2>4, <4>2, <4>4
      <4>6. QED
        BY <1>2, <3>1, <3>5, <4>1, <4>5 DEF Outdated
    <3>6. QED
      BY <3>3, <3>4, <3>5
  <2>5. QED
    BY <2>3, <2>4
<1>8. Counting'
  <2>1. /\ now > 0 /\ (enabled => ~ pending)
        /\ startupTime = 0 => at # 0 /\ task = StartUp /\ jiffies = 0 /\ ~ enabled
        /\ startupTime # 0 /\ at # 0 => task # StartUp
        /\ startupTime # 0 =>
            /\ jiffies + Held <= Gone + 1
            /\ Gone <= jiffies + lost + Held + Hz - 1
    BY <1>5 DEF Counting
  <2>2. now' > 0 /\ (enabled' => ~ pending')
    BY <1>1, <1>2, <1>4
  <2>3. startupTime = 0 => at' # 0 /\ task' = StartUp /\ jiffies' = 0 /\ ~ enabled'
    BY <1>2, <1>4, <2>1
  <2>4. startupTime # 0 /\ at' # 0 => task' # StartUp
    BY <1>2, <2>1
  <2>5. startupTime # 0 => /\ jiffies' + Held' <= Gone' + 1
                           /\ Gone' <= jiffies' + lost' + Held' + Hz - 1
    <3> SUFFICES ASSUME startupTime # 0
                 PROVE  /\ jiffies' + Held' <= Gone' + 1
                        /\ Gone' <= jiffies' + lost' + Held' + Hz - 1
      OBVIOUS
    <3>1. jiffies \in Nat /\ lost \in Nat /\ Hz \in Nat /\ Gone \in Int
      <4>1. (now - startupTime) * Hz \in Int /\ phase \in Nat
        BY Typed, GoneNext
      <4> DEFINE v == (now - startupTime) * Hz
      <4>2. v \in Int /\ Gone = v + phase
        BY <4>1 DEF Gone
      <4> HIDE DEF v
      <4>3. QED
        BY <4>1, <4>2, Typed
    <3>2. CASE enabled
      <4>1. Held = 0 /\ Held' = 0
        BY <3>2, <1>4, <2>1 DEF Held
      <4>2. jiffies' = jiffies + 1 /\ lost' = lost
        BY <3>2, <1>4, <2>1
      <4>3. QED
        BY <1>1, <2>1, <3>1, <4>1, <4>2
    <3>3. CASE ~ enabled /\ pending
      <4>1. Held = 1 /\ Held' = 1
        BY <3>3, <1>4 DEF Held
      <4>2. jiffies' = jiffies /\ lost' = lost + 1
        BY <3>3, <1>4
      <4>3. QED
        BY <1>1, <2>1, <3>1, <4>1, <4>2
    <3>4. CASE ~ enabled /\ ~ pending
      <4>1. Held = 0 /\ Held' = 1
        BY <3>4, <1>4 DEF Held
      <4>2. jiffies' = jiffies /\ lost' = lost
        BY <3>4, <1>4
      <4>3. QED
        BY <1>1, <2>1, <3>1, <4>1, <4>2
    <3>5. QED
      BY <3>2, <3>3, <3>4
  <2>6. QED
    BY <1>2, <2>2, <2>3, <2>4, <2>5 DEF Counting
<1>9. AlarmRight'
  BY <1>2, <1>5 DEF AlarmRight
<1>10. QED
  BY <1>1, <1>6, <1>7, <1>8, <1>9 DEF TimeInvariant

\* A step that leaves the chip alone.
LEMMA ChipKept ==
  ASSUME TimeInvariant, UNCHANGED chipVars
  PROVE  /\ date' \in Dates /\ now' = Seconds(date') /\ now' > 0 /\ Bounded'
         /\ phase' \in 0 .. Hz - 1 /\ pulses' \in 0 .. MaxPulses
         /\ \A f : Chip(f)' = Chip(f)
<1>1. date' = date /\ now' = now /\ phase' = phase /\ pulses' = pulses
  BY DEF chipVars
<1>2. TimeTypeOK /\ Bounded /\ now > 0
  BY DEF TimeInvariant, Counting
<1>3. date' \in Dates /\ now' = Seconds(date') /\ now' > 0
  BY <1>1, <1>2 DEF TimeTypeOK
<1>4. phase' \in 0 .. Hz - 1 /\ pulses' \in 0 .. MaxPulses
  BY <1>1, <1>2 DEF TimeTypeOK
<1>5. Bounded'
  BY <1>1, <1>2 DEF Bounded
<1>6. \A f : Chip(f)' = Chip(f)
  BY <1>1 DEF Chip, Shown
<1>7. QED
  BY <1>3, <1>4, <1>5, <1>6

\* The registers are read, with the timer's state as it was.
LEMMA ReadKept ==
  ASSUME TimeInvariant, UNCHANGED <<chipVars, tickVars>>, startupTime' = startupTime
  PROVE  /\ Gone' = Gone /\ jiffies' \in Nat /\ lost' \in Nat
         /\ enabled' \in BOOLEAN /\ pending' \in BOOLEAN
         /\ enabled' => ~ pending'
         /\ startupTime # 0 => /\ jiffies' + Held' <= Gone' + 1
                               /\ Gone' <= jiffies' + lost' + Held' + Hz - 1
<1>1. /\ now' = now /\ phase' = phase /\ jiffies' = jiffies /\ lost' = lost
      /\ enabled' = enabled /\ pending' = pending
  BY DEF chipVars, tickVars
<1>2. Gone' = Gone /\ Held' = Held
  BY <1>1 DEF Gone, Held
<1>3. /\ jiffies \in Nat /\ lost \in Nat
      /\ enabled \in BOOLEAN /\ pending \in BOOLEAN
  BY DEF TimeInvariant, TimeTypeOK
<1>4. /\ enabled => ~ pending
      /\ startupTime # 0 => /\ jiffies + Held <= Gone + 1
                            /\ Gone <= jiffies + lost + Held + Hz - 1
  BY DEF TimeInvariant, Counting
<1>5. QED
  BY <1>1, <1>2, <1>3, <1>4

LEMMA RegisterTime ==
  ASSUME TimeInvariant, ReadRegister
  PROVE  TimeInvariant'
<1>1. /\ at \in 1 .. 7 /\ at' = at + 1
      /\ raw' = [raw EXCEPT ![Registers[at]] = Chip(Registers[at])]
  BY NamesAre DEF ReadRegister
<1>2. /\ turned' = turned /\ task' = task /\ startupTime' = startupTime
      /\ alarm' = alarm /\ due' = due
  BY DEF ReadRegister, alarmVars
<1>3. UNCHANGED chipVars /\ UNCHANGED <<chipVars, tickVars>>
  BY DEF ReadRegister
<1>4. TimeTypeOK /\ Reading /\ Counting /\ AlarmRight
  BY DEF TimeInvariant
<1>5. /\ date' \in Dates /\ now' = Seconds(date') /\ now' > 0 /\ Bounded'
      /\ phase' \in 0 .. Hz - 1 /\ pulses' \in 0 .. MaxPulses
      /\ \A f : Chip(f)' = Chip(f)
  BY <1>3, ChipKept
<1>6. /\ jiffies' \in Nat /\ lost' \in Nat
      /\ enabled' \in BOOLEAN /\ pending' \in BOOLEAN
      /\ enabled' => ~ pending'
      /\ startupTime # 0 => /\ jiffies' + Held' <= Gone' + 1
                            /\ Gone' <= jiffies' + lost' + Held' + Hz - 1
  BY <1>2, <1>3, ReadKept
<1>7. Registers[at] \in Names /\ raw \in [Names -> 0 .. 255]
  BY <1>1, NamesAre, Typed
<1>8. TimeTypeOK'
  <2>1. Chip(Registers[at]) \in 0 .. 255
    <3>1. date \in Dates
      BY Typed
    <3>2. Shown(Registers[at]) \in 0 .. 99
      BY <1>7, <3>1, ShownIs
    <3>3. QED
      BY <3>2, Bcd DEF Chip
  <2>2. raw' \in [Names -> 0 .. 255]
    BY <1>1, <1>7, <2>1
  <2>3. at' \in 0 .. Len(Registers) + 1
    BY <1>1, NamesAre
  <2>4. turned' \in BOOLEAN /\ task' \in Delays \cup {StartUp}
    BY <1>2, <1>4 DEF TimeTypeOK
  <2>5. {startupTime', jiffies', lost', due'} \subseteq Nat
    <3>1. startupTime' \in Nat /\ due' \in Nat
      BY <1>2, Typed
    <3>2. QED
      BY <1>6, <3>1
  <2>6. QED
    BY <1>5, <1>6, <2>2, <2>3, <2>4, <2>5 DEF TimeTypeOK
<1>9. Reading'
  <2>1. SoFarRead \/ Outdated
    BY <1>1, <1>4 DEF Reading
  <2>2. ASSUME SoFarRead PROVE SoFarRead'
    <3> SUFFICES ASSUME NEW k \in 1 .. at' - 1
                 PROVE  raw'[Registers[k]] = Chip(Registers[k])'
      BY DEF SoFarRead
    <3>1. k \in 1 .. 7 /\ k \in 1 .. at
      BY <1>1
    <3>2. Registers[k] \in Names
      BY <3>1, NamesAre
    <3>3. CASE k = at
      BY <1>1, <1>5, <1>7, <3>3
    <3>4. CASE k # at
      <4>1. k \in 1 .. at - 1
        BY <1>1, <3>1, <3>4
      <4>2. raw[Registers[k]] = Chip(Registers[k])
        BY <2>2, <4>1 DEF SoFarRead
      <4>3. \/ raw'[Registers[k]] = raw[Registers[k]]
            \/ Registers[k] = Registers[at] /\ raw'[Registers[k]] = Chip(Registers[at])
        BY <1>1, <1>7, <3>2
      <4>4. QED
        BY <1>5, <4>2, <4>3
    <3>5. QED
      BY <3>3, <3>4
  <2>3. ASSUME Outdated PROVE Outdated'
    <3>1. turned /\ at > 1 /\ raw["sec"] # Chip("sec")
      BY <2>3 DEF Outdated
    <3>2. Registers[at] # "sec"
      BY <1>1, <3>1 DEF Registers
    <3>3. raw'["sec"] = raw["sec"]
      BY <1>1, <1>7, <3>2, NamesAre
    <3>4. at' > 1
      BY <1>1
    <3>5. QED
      BY <1>2, <1>5, <3>1, <3>3, <3>4 DEF Outdated
  <2>4. QED
    BY <2>1, <2>2, <2>3 DEF Reading
<1>10. Counting'
  <2>1. startupTime = 0 => task = StartUp /\ jiffies = 0 /\ ~ enabled
    BY <1>4 DEF Counting
  <2>2. jiffies' = jiffies /\ enabled' = enabled
    BY <1>3 DEF tickVars
  <2>3. startupTime # 0 => task # StartUp
    BY <1>1, <1>4 DEF Counting
  <2>4. at' # 0
    BY <1>1
  <2>5. QED
    BY <1>2, <1>5, <1>6, <2>1, <2>2, <2>3, <2>4 DEF Counting
<1>11. AlarmRight'
  BY <1>2, <1>4 DEF AlarmRight
<1>12. QED
  BY <1>5, <1>8, <1>9, <1>10, <1>11 DEF TimeInvariant

\* The first register is to be read: again, or for an alarm.
LEMMA FirstRegister ==
  ASSUME TimeInvariant, UNCHANGED <<chipVars, tickVars>>, startupTime' = startupTime,
         raw' = raw, alarm' = alarm, due' = due,
         at' = 1, turned' = FALSE, task' \in Delays \cup {StartUp},
         startupTime = 0 => task' = StartUp, startupTime # 0 => task' # StartUp
  PROVE  TimeInvariant'
<1>1. UNCHANGED chipVars
  OBVIOUS
<1>2. /\ date' \in Dates /\ now' = Seconds(date') /\ now' > 0 /\ Bounded'
      /\ phase' \in 0 .. Hz - 1 /\ pulses' \in 0 .. MaxPulses
  BY <1>1, ChipKept
<1>3. /\ jiffies' \in Nat /\ lost' \in Nat
      /\ enabled' \in BOOLEAN /\ pending' \in BOOLEAN
      /\ enabled' => ~ pending'
      /\ startupTime # 0 => /\ jiffies' + Held' <= Gone' + 1
                            /\ Gone' <= jiffies' + lost' + Held' + Hz - 1
  BY ReadKept
<1>4. TimeTypeOK'
  <2>1. {startupTime', jiffies', lost', due'} \subseteq Nat
    <3>1. startupTime' \in Nat /\ due' \in Nat
      BY Typed
    <3>2. QED
      BY <1>3, <3>1
  <2>2. at' \in 0 .. Len(Registers) + 1 /\ turned' \in BOOLEAN
    <3>1. at' = 1 /\ Len(Registers) + 1 = 8
      BY NamesAre
    <3>2. at' \in 0 .. Len(Registers) + 1
      BY <3>1
    <3>3. QED
      BY <3>2
  <2>3. raw' \in [Names -> 0 .. 255]
    BY Typed
  <2>4. QED
    BY <1>2, <1>3, <2>1, <2>2, <2>3 DEF TimeTypeOK
<1>5. Reading'
  BY DEF Reading, SoFarRead
<1>6. Counting'
  <2>1. startupTime = 0 => jiffies = 0 /\ ~ enabled
    BY DEF TimeInvariant, Counting
  <2>2. jiffies' = jiffies /\ enabled' = enabled
    BY DEF tickVars
  <2>3. QED
    BY <1>2, <1>3, <2>1, <2>2 DEF Counting
<1>7. AlarmRight'
  BY DEF TimeInvariant, AlarmRight
<1>8. QED
  BY <1>2, <1>4, <1>5, <1>6, <1>7 DEF TimeInvariant

LEMMA AgainTime ==
  ASSUME TimeInvariant, ReadAgain
  PROVE  TimeInvariant'
<1>1. /\ at = 8 /\ at' = 1 /\ turned' = FALSE /\ raw' = raw /\ task' = task
      /\ startupTime' = startupTime /\ alarm' = alarm /\ due' = due
  BY NamesAre DEF ReadAgain, alarmVars
<1>2. UNCHANGED <<chipVars, tickVars>>
  BY DEF ReadAgain
<1>3. /\ startupTime = 0 => task = StartUp
      /\ startupTime # 0 => task # StartUp
  BY <1>1 DEF TimeInvariant, Counting
<1>4. task' \in Delays \cup {StartUp}
  BY <1>1, Typed
<1>5. QED
  BY <1>1, <1>2, <1>3, <1>4, FirstRegister

LEMMA SetTime ==
  ASSUME TimeInvariant, NEW secs \in Delays, SetAlarm(secs)
  PROVE  TimeInvariant'
<1>1. /\ at = 0 /\ at' = 1 /\ turned' = FALSE /\ raw' = raw /\ task' = secs
      /\ startupTime' = startupTime /\ alarm' = alarm /\ due' = due
  BY DEF SetAlarm, Running, alarmVars
<1>2. UNCHANGED <<chipVars, tickVars>>
  BY DEF SetAlarm
<1>3. startupTime # 0
  BY <1>1 DEF TimeInvariant, Counting
<1>4. task' \in Delays \cup {StartUp} /\ task' # StartUp
  BY <1>1, DelaysAre
<1>5. QED
  BY <1>1, <1>2, <1>3, <1>4, FirstRegister

\* The interrupt flag is changed, a waiting tick is counted.
LEMMA FlagTime ==
  ASSUME TimeInvariant, Enable \/ Disable
  PROVE  TimeInvariant'
<1>1. /\ at = 0 /\ at' = at /\ raw' = raw /\ turned' = turned /\ task' = task
      /\ startupTime' = startupTime /\ alarm' = alarm /\ due' = due /\ lost' = lost
  BY DEF Enable, Disable, Running, readingVars, alarmVars
<1>2. UNCHANGED chipVars
  BY DEF Enable, Disable
<1>3. TimeTypeOK /\ Counting /\ AlarmRight
  BY DEF TimeInvariant
<1>4. /\ date' \in Dates /\ now' = Seconds(date') /\ now' > 0 /\ Bounded'
      /\ phase' \in 0 .. Hz - 1 /\ pulses' \in 0 .. MaxPulses
  BY <1>2, ChipKept
<1>5. jiffies \in Nat /\ enabled \in BOOLEAN /\ pending \in BOOLEAN
  BY <1>3 DEF TimeTypeOK
<1>6. /\ jiffies' \in Nat /\ enabled' \in BOOLEAN /\ pending' \in BOOLEAN
      /\ enabled' => ~ pending'
      /\ jiffies' + Held' = jiffies + Held
  <2>1. CASE Enable
    <3>1. /\ enabled' = TRUE /\ pending' = FALSE
          /\ jiffies' = (IF pending THEN jiffies + 1 ELSE jiffies)
      BY <2>1 DEF Enable
    <3>2. jiffies' \in Nat /\ jiffies' + Held' = jiffies + Held
      <4>1. jiffies \in Nat /\ Held' = 0
        BY <1>5, <3>1 DEF Held
      <4>2. CASE pending
        BY <4>1, <4>2, <3>1 DEF Held
      <4>3. CASE ~ pending
        BY <4>1, <4>3, <3>1 DEF Held
      <4>4. QED
        BY <4>2, <4>3
    <3>3. QED
      BY <3>1, <3>2
  <2>2. CASE Disable
    <3>1. enabled /\ enabled' = FALSE /\ jiffies' = jiffies /\ pending' = pending
      BY <2>2 DEF Disable
    <3>2. QED
      BY <1>5, <3>1 DEF Held
  <2>3. QED
    BY <2>1, <2>2
<1>7. TimeTypeOK'
  <2>1. {startupTime', jiffies', lost', due'} \subseteq Nat
    <3>1. startupTime' \in Nat /\ due' \in Nat /\ lost' \in Nat
      BY <1>1, Typed
    <3>2. QED
      BY <1>6, <3>1
  <2>2. /\ at' \in 0 .. Len(Registers) + 1 /\ turned' \in BOOLEAN
        /\ raw' \in [Names -> 0 .. 255] /\ task' \in Delays \cup {StartUp}
    BY <1>1, <1>3 DEF TimeTypeOK
  <2>3. QED
    BY <1>4, <1>6, <2>1, <2>2 DEF TimeTypeOK
<1>8. Reading'
  BY <1>1 DEF Reading
<1>9. Counting'
  <2>1. startupTime # 0 /\ jiffies + Held <= Gone + 1
        /\ Gone <= jiffies + lost + Held + Hz - 1
    BY <1>1, <1>3 DEF Counting
  <2>2. Gone' = Gone
    <3>1. now' = now /\ phase' = phase
      BY <1>2 DEF chipVars
    <3>2. QED
      BY <1>1, <3>1 DEF Gone
  <2>3. jiffies' + Held' <= Gone' + 1
    BY <1>6, <2>1, <2>2
  <2>4. Gone' <= jiffies' + lost' + Held' + Hz - 1
    <3>1. jiffies' + lost' + Held' + Hz - 1 = jiffies + lost + Held + Hz - 1
      <4>1. Held \in 0 .. 1 /\ Held' \in 0 .. 1
        BY DEF Held
      <4>2. lost \in Nat /\ Hz \in Nat /\ jiffies \in Nat /\ jiffies' \in Nat
        BY <1>6, Typed
      <4>3. lost' = lost /\ jiffies' + Held' = jiffies + Held
        BY <1>1, <1>6
      <4> DEFINE a == jiffies + Held   b == jiffies' + Held'
      <4>4. a \in Nat /\ b = a
        <5>1. a \in Nat
          BY <4>1, <4>2
        <5>2. b = a
          BY <4>3
        <5>3. QED
          BY <5>1, <5>2
      <4>5. jiffies' + lost' + Held' = b + lost
        BY <4>1, <4>2, <4>3
      <4>6. jiffies + lost + Held = a + lost
        BY <4>1, <4>2
      <4> HIDE DEF a, b
      <4>7. QED
        BY <4>4, <4>5, <4>6
    <3>2. QED
      BY <2>1, <2>2, <3>1
  <2>5. QED
    BY <1>1, <1>4, <1>6, <2>1, <2>3, <2>4 DEF Counting
<1>10. AlarmRight'
  BY <1>1, <1>3 DEF AlarmRight
<1>11. QED
  BY <1>4, <1>7, <1>8, <1>9, <1>10 DEF TimeInvariant

\* The time of day in a number of seconds since 1970.
LEMMA TimeOfDayIs ==
  ASSUME NEW d \in Dates, NEW secs \in Nat
  PROVE  (TimeOf(d) + secs) % Day = (Seconds(d) + secs) % Day
<1> DEFINE n == DaysSince1970(d)   a == Day * n   x == TimeOf(d) + secs
           q == x \div Day         r == x % Day
<1>1. Seconds(d) = a + TimeOf(d) /\ a \in Nat /\ TimeOf(d) \in 0 .. Day - 1
  BY SecondsAre
<1>2. n \in Nat /\ Day \in Nat \ {0}
  BY DaysAre, TimeUnits
<1>3. x \in Nat
  BY <1>1, <1>2
<1> HIDE DEF n, x
<1>4. q \in Nat /\ r \in 0 .. Day - 1 /\ x = Day * q + r
  BY <1>2, <1>3, DividedBy
<1>5. Day * (n + q) = a + Day * q /\ Day * q \in Nat
  BY <1>2, <1>4, Products
<1> DEFINE b == Day * q   y == a + x
<1>6. y = Day * (n + q) + r
  <2>1. x = b + r /\ b \in Nat /\ a \in Nat /\ r \in Nat /\ Day * (n + q) = a + b
    BY <1>1, <1>2, <1>4, <1>5
  <2> HIDE DEF a, b, q, r
  <2>2. a + x = (a + b) + r
    BY <2>1
  <2>3. QED
    BY <2>1, <2>2
<1>7. n + q \in Nat
  BY <1>2, <1>4
<1> HIDE DEF y, q, r
<1>8. y % Day = r
  <2> DEFINE k == n + q
  <2>1. k \in Nat /\ y = Day * k + r
    BY <1>6, <1>7
  <2> HIDE DEF k
  <2>2. QED
    BY <1>2, <1>4, <2>1, QuotientIs
<1>9. y = Seconds(d) + secs
  <2> HIDE DEF a
  <2>1. QED
    BY <1>1, <1>2 DEF y, x
<1>10. QED
  BY <1>8, <1>9 DEF r, x

(* timeRead and its callers: the registers are those of this second.       *)
LEMMA FinishTime ==
  ASSUME TimeInvariant, Finish
  PROVE  /\ at = 8 /\ at' = 0 /\ tm' = Taken /\ date \in Dates
         /\ \A k \in 1 .. 7 : raw[Registers[k]] = Chip(Registers[k])
         /\ mktime(Taken) = now
         /\ task = StartUp => startupTime' = now /\ alarm' = alarm /\ due' = due
         /\ task # StartUp => /\ alarm' = Later(Taken, task) /\ due' = now + task
                           /\ startupTime' = startupTime
<1>1. at = 8 /\ at' = 0 /\ Steady
  BY NamesAre DEF Finish
<1>2. date \in Dates /\ now = Seconds(date)
  BY Typed
<1>3. \A k \in 1 .. 7 : raw[Registers[k]] = Chip(Registers[k])
  <2>1. SoFarRead \/ Outdated
    BY <1>1 DEF TimeInvariant, Reading
  <2>2. ~ Outdated
    BY <1>1 DEF Outdated, Steady
  <2>3. QED
    BY <1>1, <2>1, <2>2 DEF SoFarRead
<1>4. mktime(Taken) = now
  <2>1. /\ Taken.sec = date.sec /\ Taken.min = date.min /\ Taken.hour = date.hour
        /\ Taken.mday = date.mday /\ Taken.mon = date.mon
        /\ Taken.year = date.year % 100
    BY <1>2, <1>3, TakenIs
  <2>2. QED
    BY <1>2, <2>1, DatesCounted
<1>5. tm' = Taken
  BY DEF Finish, Taken
<1>6. task = StartUp => startupTime' = mktime(Taken) /\ alarm' = alarm /\ due' = due
  BY DEF Finish, Taken, alarmVars
<1>7. task # StartUp => /\ alarm' = Later(Taken, task) /\ due' = now + task
                     /\ startupTime' = startupTime
  BY DEF Finish, Taken
<1>8. QED
  BY <1>1, <1>2, <1>3, <1>4, <1>5, <1>6, <1>7

LEMMA FinishKeeps ==
  ASSUME TimeInvariant, Finish
  PROVE  TimeInvariant'
<1>1. /\ at = 8 /\ at' = 0 /\ tm' = Taken /\ date \in Dates
      /\ \A k \in 1 .. 7 : raw[Registers[k]] = Chip(Registers[k])
      /\ task = StartUp => startupTime' = now /\ alarm' = alarm /\ due' = due
      /\ task # StartUp => /\ alarm' = Later(Taken, task) /\ due' = now + task
                        /\ startupTime' = startupTime
  BY FinishTime
<1>2. raw' = NoTime /\ turned' = FALSE /\ task' = StartUp
  BY DEF Finish
<1>3. UNCHANGED chipVars /\ UNCHANGED <<chipVars, tickVars>>
  BY DEF Finish
<1>4. /\ date' \in Dates /\ now' = Seconds(date') /\ now' > 0 /\ Bounded'
      /\ phase' \in 0 .. Hz - 1 /\ pulses' \in 0 .. MaxPulses
  BY <1>3, ChipKept
<1>5. /\ now' = now /\ phase' = phase /\ jiffies' = jiffies /\ lost' = lost
      /\ enabled' = enabled /\ pending' = pending
  BY <1>3 DEF chipVars, tickVars
<1>6. TimeTypeOK /\ Counting /\ AlarmRight
  BY DEF TimeInvariant
<1>7. now \in Nat /\ now > 0 /\ startupTime \in Nat /\ due \in Nat
  BY <1>6, Typed DEF Counting
<1>8. task # StartUp => task \in Nat /\ startupTime # 0
  <2>1. task \in Delays \cup {StartUp}
    BY Typed
  <2>2. startupTime = 0 => task = StartUp
    BY <1>6 DEF Counting
  <2>3. QED
    BY <2>1, <2>2, DelaysAre
<1>9. startupTime' \in Nat /\ startupTime' # 0 /\ due' \in Nat
  <2>1. CASE task = StartUp
    BY <1>1, <1>7, <2>1
  <2>2. CASE task # StartUp
    BY <1>1, <1>7, <1>8, <2>2
  <2>3. QED
    BY <2>1, <2>2
<1>10. TimeTypeOK'
  <2>1. {startupTime', jiffies', lost', due'} \subseteq Nat
    <3>1. jiffies' \in Nat /\ lost' \in Nat
      BY <1>5, Typed
    <3>2. QED
      BY <1>9, <3>1
  <2>2. enabled' \in BOOLEAN /\ pending' \in BOOLEAN
    BY <1>5, <1>6 DEF TimeTypeOK
  <2>3. raw' \in [Names -> 0 .. 255]
    BY <1>2 DEF NoTime
  <2>4. at' \in 0 .. Len(Registers) + 1
    BY <1>1, NamesAre
  <2>5. turned' \in BOOLEAN /\ task' \in Delays \cup {StartUp}
    BY <1>2
  <2>6. QED
    BY <1>4, <2>1, <2>2, <2>3, <2>4, <2>5 DEF TimeTypeOK
<1>11. Reading'
  BY <1>1 DEF Reading
<1>12. Counting'
  <2>1. enabled' => ~ pending'
    BY <1>5, <1>6 DEF Counting
  <2>2. /\ jiffies' + Held' <= Gone' + 1
        /\ Gone' <= jiffies' + lost' + Held' + Hz - 1
    <3>1. Held' = Held
      BY <1>5 DEF Held
    <3>2. CASE task = StartUp
      <4>1. startupTime' = now'
        BY <1>1, <1>5, <3>2
      <4>2. Gone' = phase
        <5>1. now' - startupTime' = 0 /\ 0 * Hz = 0
          BY <1>5, <1>7, <4>1, Typed
        <5>2. Gone' = (now' - startupTime') * Hz + phase'
          BY DEF Gone
        <5>3. phase' = phase /\ phase \in Nat
          BY <1>5, Typed
        <5>4. QED
          BY <5>1, <5>2, <5>3
      <4>3. startupTime = 0
        BY <1>1, <1>6, <3>2 DEF Counting
      <4>4. jiffies = 0
        BY <1>6, <4>3 DEF Counting
      <4>5. phase \in Nat /\ phase < Hz /\ Hz \in Nat /\ lost \in Nat /\ Held \in 0 .. 1
        BY Typed
      <4>6. QED
        BY <1>5, <3>1, <4>2, <4>4, <4>5
    <3>3. CASE task # StartUp
      <4>1. startupTime' = startupTime /\ startupTime # 0
        BY <1>1, <1>8, <3>3
      <4>2. Gone' = Gone
        BY <1>5, <4>1 DEF Gone
      <4>3. /\ jiffies + Held <= Gone + 1
            /\ Gone <= jiffies + lost + Held + Hz - 1
        BY <1>6, <4>1 DEF Counting
      <4>4. QED
        BY <1>5, <3>1, <4>2, <4>3
    <3>4. QED
      BY <3>2, <3>3
  <2>3. QED
    BY <1>1, <1>4, <1>9, <2>1, <2>2 DEF Counting
<1>13. AlarmRight'
  <2>1. CASE task = StartUp
    BY <1>1, <1>6, <2>1 DEF AlarmRight
  <2>2. CASE task # StartUp
    <3> DEFINE a == Later(Taken, task)
    <3>1. alarm' = a /\ due' = now + task /\ task \in Nat
      BY <1>1, <1>8, <2>2
    <3>2. Taken.sec = date.sec /\ Taken.min = date.min /\ Taken.hour = date.hour
      BY <1>1, TakenIs
    <3>3. TimeOf(a) = (TimeOf(Taken) + task) % Day
      <4>1. /\ Taken.hour \in 0 .. HoursInDay - 1 /\ Taken.min \in 0 .. MinutesInHour - 1
            /\ Taken.sec \in 0 .. Minute - 1
        BY <1>1, <3>2, DateParts
      <4>2. QED
        BY <3>1, <4>1, LaterIs
    <3>4. TimeOf(Taken) = TimeOf(date)
      BY <3>2 DEF TimeOf
    <3>5. (TimeOf(date) + task) % Day = (Seconds(date) + task) % Day
      BY <1>1, <3>1, TimeOfDayIs
    <3>6. Seconds(date) = now
      BY Typed
    <3>7. TimeOf(a) = due' % Day
      BY <3>1, <3>3, <3>4, <3>5, <3>6
    <3> HIDE DEF a
    <3>8. Hour * alarm'.hour + Minute * alarm'.min + alarm'.sec = due' % Day
      BY <3>1, <3>7 DEF TimeOf
    <3>9. QED
      BY <3>8 DEF AlarmRight
  <2>3. QED
    BY <2>1, <2>2
<1>14. QED
  BY <1>4, <1>10, <1>11, <1>12, <1>13 DEF TimeInvariant

LEMMA KeptTime ==
  ASSUME TimeInvariant, UNCHANGED timeVars
  PROVE  TimeInvariant'
<1>1. /\ UNCHANGED chipVars /\ UNCHANGED <<chipVars, tickVars>>
      /\ startupTime' = startupTime /\ alarm' = alarm /\ due' = due
      /\ at' = at /\ raw' = raw /\ turned' = turned /\ task' = task
  BY DEF timeVars, readingVars, alarmVars
<1>2. TimeTypeOK /\ Bounded /\ Reading /\ Counting /\ AlarmRight
  BY DEF TimeInvariant
<1>3. /\ date' = date /\ now' = now /\ phase' = phase /\ pulses' = pulses
      /\ jiffies' = jiffies /\ enabled' = enabled /\ pending' = pending /\ lost' = lost
  BY <1>1 DEF chipVars, tickVars
<1>4. TimeTypeOK' /\ Bounded'
  BY <1>1, <1>2, <1>3 DEF TimeTypeOK, Bounded
<1>5. Reading'
  <2>1. \A f : Chip(f)' = Chip(f)
    BY <1>1, ChipKept
  <2>2. SoFarRead' <=> SoFarRead
    BY <1>1, <2>1 DEF SoFarRead
  <2>3. Outdated' <=> Outdated
    BY <1>1, <2>1 DEF Outdated
  <2>4. QED
    BY <1>1, <1>2, <2>2, <2>3 DEF Reading
<1>6. Gone' = Gone /\ Held' = Held
  BY <1>1, <1>3 DEF Gone, Held
<1>7. Counting'
  BY <1>1, <1>2, <1>3, <1>6 DEF Counting
<1>8. AlarmRight'
  BY <1>1, <1>2 DEF AlarmRight
<1>9. QED
  BY <1>4, <1>5, <1>7, <1>8 DEF TimeInvariant

LEMMA TimeStep ==
  TimeInvariant /\ [TimeNext]_timeVars => TimeInvariant'
<1> SUFFICES ASSUME TimeInvariant, [TimeNext]_timeVars PROVE TimeInvariant'
  OBVIOUS
<1>1. CASE Pulse
  BY <1>1, PulseTime
<1>2. CASE Enable \/ Disable
  BY <1>2, FlagTime
<1>3. ASSUME NEW secs \in Delays, SetAlarm(secs) PROVE TimeInvariant'
  BY <1>3, SetTime
<1>4. CASE ReadRegister
  BY <1>4, RegisterTime
<1>5. CASE ReadAgain
  BY <1>5, AgainTime
<1>6. CASE Finish
  BY <1>6, FinishKeeps
<1>7. CASE UNCHANGED timeVars
  BY <1>7, KeptTime
<1>8. QED
  BY <1>1, <1>2, <1>3, <1>4, <1>5, <1>6, <1>7 DEF TimeNext

LEMMA TimeAlways ==
  TimeSpec => []TimeInvariant
BY InitTime, TimeStep, PTL DEF TimeSpec

(* sysTime is the second in which the machine was switched on and the      *)
(* seconds that jiffies makes, as long as the product fits in its word.    *)
LEMMA SysTimeIs ==
  ASSUME jiffies \in Nat, startupTime \in Nat, jiffies * Jiffy < Word
  PROVE  \E k \in Nat, r \in 0 .. Hz - 1 : jiffies = Hz * k + r /\ sysTime = startupTime + k
<1> DEFINE k == jiffies \div Hz   r == jiffies % Hz
<1>1. Hz \in Nat \ {0} /\ 1000 % Hz = 0
  BY TimeAssumption DEF TimeAssumption
<1>2. k \in Nat /\ r \in 0 .. Hz - 1 /\ jiffies = Hz * k + r
  <2>1. Hz \in Nat \ {0} /\ jiffies \in Nat
    BY <1>1
  <2>2. /\ jiffies \div Hz \in Nat /\ jiffies % Hz \in 0 .. Hz - 1
        /\ jiffies = Hz * (jiffies \div Hz) + (jiffies % Hz)
    BY <2>1, DividedBy, Zenon
  <2>3. QED
    BY <2>2
<1>3. Jiffy \in Nat /\ Hz * Jiffy = 1000
  <2>1. 1000 \div Hz \in Nat /\ 1000 = Hz * (1000 \div Hz) + (1000 % Hz)
    <3> DEFINE x == 1000
    <3>1. Hz \in Nat \ {0} /\ x \in Nat
      BY <1>1
    <3> HIDE DEF x
    <3>2. x \div Hz \in Nat /\ x = Hz * (x \div Hz) + (x % Hz)
      BY <3>1, DividedBy, Zenon
    <3>3. QED
      BY <3>2 DEF x
  <2> DEFINE w == Hz * (1000 \div Hz)
  <2>2. w \in Nat
    BY <1>1, <2>1
  <2>3. 1000 = w + (1000 % Hz)
    BY <2>1
  <2> HIDE DEF w
  <2>4. w = 1000
    BY <1>1, <2>2, <2>3
  <2>5. QED
    BY <2>1, <2>4 DEF Jiffy, w
<1> HIDE DEF k, r
<1>4. jiffies * Jiffy = 1000 * k + Jiffy * r
  <2>1. jiffies * Jiffy = (Hz * k + r) * Jiffy
    BY <1>2
  <2>2. ASSUME NEW h \in Nat, NEW j \in Nat, NEW x \in Nat, NEW y \in Nat
        PROVE  (h * x + y) * j = (h * j) * x + j * y
    BY <2>2
  <2>3. (Hz * k + r) * Jiffy = (Hz * Jiffy) * k + Jiffy * r
    BY <1>1, <1>2, <1>3, <2>2
  <2>4. QED
    BY <1>3, <2>1, <2>3
<1>5. Jiffy * r \in 0 .. 999
  <2>1. Jiffy * (Hz - 1 - r) \in Nat /\ Jiffy * r \in Nat /\ Jiffy \in Nat \ {0}
    <3>1. ASSUME NEW a \in Nat, NEW b \in Nat PROVE a * b \in Nat
      BY <3>1
    <3>2. Hz - 1 - r \in Nat /\ r \in Nat
      BY <1>1, <1>2
    <3>3. Jiffy # 0
      BY <1>1, <1>3
    <3>4. QED
      BY <1>3, <3>1, <3>2, <3>3
  <2>2. ASSUME NEW j \in Nat, NEW h \in Nat, NEW x \in Nat
        PROVE  h * j = j * (h - 1 - x) + j * x + j
    BY <2>2
  <2>3. 1000 = Jiffy * (Hz - 1 - r) + Jiffy * r + Jiffy
    BY <1>1, <1>2, <1>3, <2>2
  <2> DEFINE a == Jiffy * (Hz - 1 - r)   b == Jiffy * r
  <2>4. a \in Nat /\ b \in Nat /\ Jiffy \in Nat \ {0} /\ 1000 = a + b + Jiffy
    BY <2>1, <2>3
  <2> HIDE DEF a, b
  <2>5. b \in 0 .. 999
    BY <2>4
  <2>6. QED
    BY <2>5 DEF b
<1>6. (jiffies * Jiffy) \div 1000 = k
  <2> DEFINE x == jiffies * Jiffy   b == Jiffy * r
  <2>1. x = 1000 * k + b /\ b \in 0 .. 1000 - 1 /\ 1000 \in Nat \ {0}
    BY <1>4, <1>5
  <2> HIDE DEF x, b
  <2>2. x \div 1000 = k
    <3> DEFINE d == 1000
    <3>1. d \in Nat \ {0} /\ k \in Nat /\ b \in 0 .. d - 1 /\ x = d * k + b
      BY <1>2, <2>1
    <3> HIDE DEF d
    <3>2. x \div d = k
      BY <3>1, QuotientIs
    <3>3. QED
      BY <3>2 DEF d
  <2>3. QED
    BY <2>2 DEF x
<1>7. (jiffies * Jiffy) % Word = jiffies * Jiffy
  <2> DEFINE x == jiffies * Jiffy
  <2>1. x \in Nat
    <3>1. ASSUME NEW a \in Nat, NEW b \in Nat PROVE a * b \in Nat
      BY <3>1
    <3>2. QED
      BY <1>3, <3>1
  <2>2. Word \in Nat \ {0} /\ x < Word
    BY TimeAssumption DEF TimeAssumption
  <2> HIDE DEF x
  <2>3. x % Word = x
    BY <2>1, <2>2
  <2>4. QED
    BY <2>3 DEF x
<1>8. sysTime = startupTime + k
  BY <1>6, <1>7 DEF sysTime
<1>9. QED
  BY <1>2, <1>8

LEMMA CloseEnough ==
  TimeInvariant => SysTimeClose
<1> SUFFICES ASSUME TimeInvariant, startupTime # 0, jiffies * Jiffy < Word
             PROVE  LET ahead == sysTime * Hz - (now * Hz + phase) IN
                    /\ ahead <= 1
                    /\ -ahead <= 2 * (Hz - 1) + lost + IF pending THEN 1 ELSE 0
  BY DEF SysTimeClose, TimeInvariant
<1>1. /\ startupTime \in Nat /\ jiffies \in Nat /\ now \in Nat /\ phase \in Nat
      /\ phase < Hz /\ Hz \in Nat /\ lost \in Nat /\ Held \in 0 .. 1
  BY Typed
<1>2. PICK k \in Nat, r \in 0 .. Hz - 1 : jiffies = Hz * k + r /\ sysTime = startupTime + k
  BY <1>1, SysTimeIs
<1>3. jiffies + Held <= Gone + 1 /\ Gone <= jiffies + lost + Held + Hz - 1
  BY DEF TimeInvariant, Counting
<1> DEFINE g == (now - startupTime) * Hz   x == Hz * k
           ahead == sysTime * Hz - (now * Hz + phase)
<1>4. x \in Nat /\ g \in Int /\ ahead = x - (g + phase)
  <2>1. ASSUME NEW h \in Nat, NEW s \in Nat, NEW n \in Nat, NEW i \in Nat, NEW p \in Nat
        PROVE  /\ h * i \in Nat /\ (n - s) * h \in Int
               /\ (s + i) * h - (n * h + p) = h * i - ((n - s) * h + p)
    BY <2>1
  <2>2. ahead = (startupTime + k) * Hz - (now * Hz + phase)
    BY <1>2
  <2>3. QED
    BY <1>1, <2>1, <2>2
<1>5. Gone = g + phase
  BY DEF Gone
<1>6. r \in Nat /\ r <= Hz - 1 /\ jiffies = x + r
  BY <1>1, <1>2
<1> HIDE DEF g, x, ahead
<1>7. ahead <= 1
  BY <1>1, <1>3, <1>4, <1>5, <1>6
<1>8. -ahead <= 2 * (Hz - 1) + lost + Held
  BY <1>1, <1>3, <1>4, <1>5, <1>6
<1>9. QED
  BY <1>7, <1>8 DEF ahead, Held

\* What TimeRead says of a step.
ReadRight ==
    at # 0 /\ at' = 0 =>
        /\ \A f \in {"sec", "min", "hour", "mday"} : tm'[f] = date[f]
        /\ getYday(tm') - getYday(NewYear(tm')) = DayOfYear(date) - 1
        /\ mktime(tm') = now
        /\ task = StartUp => startupTime' = now

LEMMA FinishRight ==
  ASSUME TimeInvariant, Finish
  PROVE  ReadRight
<1>1. /\ tm' = Taken /\ date \in Dates /\ mktime(Taken) = now
      /\ \A k \in 1 .. 7 : raw[Registers[k]] = Chip(Registers[k])
      /\ task = StartUp => startupTime' = now
  BY FinishTime
<1>2. /\ Taken.sec = date.sec /\ Taken.min = date.min /\ Taken.hour = date.hour
      /\ Taken.mday = date.mday /\ Taken.mon = date.mon
      /\ Taken.year = date.year % 100
  BY <1>1, TakenIs
<1>3. \A f \in {"sec", "min", "hour", "mday"} : Taken[f] = date[f]
  BY <1>2
<1>4. getYday(Taken) = DayOfYear(date)
  BY <1>1, <1>2, DatesCounted
<1>5. getYday(NewYear(Taken)) = 1
  <2>1. NewYear(Taken).mon = 1 /\ NewYear(Taken).mday = 1
    <3>1. DOMAIN Taken = Names /\ "mon" \in Names /\ "mday" \in Names
      BY NamesAre DEF Taken
    <3>2. QED
      BY <3>1 DEF NewYear
  <2>2. ~ AfterFebruary(NewYear(Taken))
    BY <2>1 DEF AfterFebruary
  <2>3. month[1] = 0
    BY DEF month
  <2>4. QED
    BY <2>1, <2>2, <2>3 DEF getYday
<1>6. QED
  BY <1>1, <1>3, <1>4, <1>5 DEF ReadRight

LEMMA StepsRight ==
  TimeInvariant /\ [TimeNext]_timeVars => [ReadRight]_timeVars
<1> SUFFICES ASSUME TimeInvariant, [TimeNext]_timeVars, at # 0, at' = 0
             PROVE  ReadRight
  BY DEF ReadRight
<1>1. CASE Finish
  BY <1>1, FinishRight
<1>2. CASE ~ Finish
  <2>1. ~ Pulse /\ ~ Enable /\ ~ Disable
    BY DEF Pulse, Enable, Disable, Running, readingVars
  <2>2. \A secs \in Delays : ~ SetAlarm(secs)
    BY DEF SetAlarm
  <2>3. ~ ReadAgain /\ ~ UNCHANGED timeVars
    BY DEF ReadAgain, timeVars, readingVars
  <2>4. ~ ReadRegister
    <3>1. at \in 0 .. 8
      BY Typed
    <3>2. at + 1 # 0
      BY <3>1
    <3>3. QED
      BY <3>2 DEF ReadRegister
  <2>5. QED
    BY <1>2, <2>1, <2>2, <2>3, <2>4 DEF TimeNext
<1>3. QED
  BY <1>1, <1>2

-----------------------------------------------------------------------------
(* The theorems.                                                           *)

(* The chip shows the date of its second, and what the kernel keeps of it  *)
(* are numbers of the right kind, whenever they are read.                  *)
THEOREM TimeTypesHold == TimeSpec => []TimeTypeOK
<1>1. TimeInvariant => TimeTypeOK
  BY DEF TimeInvariant
<1>2. QED
  BY <1>1, TimeAlways, PTL

(* What timeRead returns is the date of the moment it returns at, to the   *)
(* second, as mktime and getYday read it, and startupTime the seconds since*)
(* 1970, however often the chip went on while its registers were read.     *)
THEOREM TimeReadCorrect == TimeSpec => TimeRead
<1>1. TimeInvariant /\ [TimeNext]_timeVars => [ReadRight]_timeVars
  BY StepsRight
<1>2. QED
  BY <1>1, TimeAlways, PTL DEF TimeSpec, TimeRead, ReadRight

(* setAlarm programs the time of day that many seconds after it was read,  *)
(* for any number of seconds.                                              *)
THEOREM AlarmRightCorrect == TimeSpec => []AlarmRight
<1>1. TimeInvariant => AlarmRight
  BY DEF TimeInvariant
<1>2. QED
  BY <1>1, TimeAlways, PTL

(* Until the milliseconds counted no longer fit in 32 bits, sysTime is     *)
(* ahead of the clock by at most the tick that waited, and behind it by    *)
(* less than two seconds and the ticks that were lost.                     *)
THEOREM SysTimeCloseCorrect == TimeSpec => []SysTimeClose
BY CloseEnough, TimeAlways, PTL
=============================================================================
