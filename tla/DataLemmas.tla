----------------------------- MODULE DataLemmas -----------------------------
(***************************************************************************)
(* Lemmas about data that the proofs of several components need.           *)
(* Induction over the numbers 0 .. N, in the form of facts about sets and  *)
(* functions, for the scans of tables: the least element of a set of       *)
(* numbers, induction as a closure property of a set, and the existence    *)
(* of a function defined by recursion on 0 .. N.  What a sequence holds    *)
(* after an element has been put in or taken out, and the uniqueness of    *)
(* quotient and rest.                                                      *)
(***************************************************************************)
EXTENDS Integers, SequencesExt, FiniteSetTheorems, WellFoundedInduction, TLAPS

(* A set of natural numbers that is not empty has a least element.         *)
LEMMA LeastNat ==
  ASSUME NEW T \in SUBSET Nat, T # {}
  PROVE  \E m \in T : \A k \in T : m <= k
<1> DEFINE R == {s \in Nat \X Nat : s[1] < s[2]}
<1>1. IsWellFoundedOn(R, Nat)
  BY NatLessThanWellFounded, Zenon DEF OpToRel
<1>2. PICK m \in T : \A y \in T : ~ (<<y, m>> \in R)
  BY <1>1, WFMin, Zenon
<1>3. ASSUME NEW k \in T PROVE m <= k
  <2>1. m \in Nat /\ k \in Nat
    OBVIOUS
  <2>2. k < m => <<k, m>> \in R
    BY <2>1
  <2>3. QED
    BY <2>1, <2>2, <1>2
<1>4. QED
  BY <1>3

(* A set that holds 0 and, with a number below N, the next one, holds      *)
(* every number up to N.                                                   *)
LEMMA InductionTo ==
  ASSUME NEW N \in Nat, NEW S, 0 \in S,
         \A i \in 0 .. N - 1 : i \in S => i + 1 \in S
  PROVE  0 .. N \subseteq S
<1> DEFINE T == (0 .. N) \ S
<1>1. SUFFICES ASSUME T # {} PROVE FALSE
  OBVIOUS
<1>2. T \in SUBSET Nat
  OBVIOUS
<1>3. PICK m \in T : \A k \in T : m <= k
  <2> HIDE DEF T
  <2> QED BY <1>1, <1>2, LeastNat
<1>4. m \in 1 .. N /\ m \notin S
  OBVIOUS
<1>5. m - 1 \notin T
  BY <1>3, <1>4
<1>6. m - 1 \in S
  BY <1>4, <1>5
<1>7. QED
  BY <1>4, <1>6

\* f is the function on 0 .. N that starts at b0 and takes the steps of step.
Recursion(f, N, B, b0, step) ==
    /\ f \in [0 .. N -> B]
    /\ \A i \in 0 .. N : f[i] = IF i = 0 THEN b0 ELSE step[i - 1][f[i - 1]]

(* A function on 0 .. N whose value at i > 0 is given by its value at      *)
(* i - 1 exists.                                                           *)
LEMMA RecursionTo ==
  ASSUME NEW N \in Nat, NEW B, NEW b0 \in B,
         NEW step \in [0 .. N - 1 -> [B -> B]]
  PROVE  \E f : Recursion(f, N, B, b0, step)
<1> DEFINE Rec(f, n) == \A i \in 0 .. n :
              f[i] = IF i = 0 THEN b0 ELSE step[i - 1][f[i - 1]]
<1> DEFINE S == {n \in 0 .. N : \E f \in [0 .. n -> B] : Rec(f, n)}
<1>1. 0 \in S
  <2> DEFINE g == [i \in 0 .. 0 |-> b0]
  <2>1. g \in [0 .. 0 -> B] /\ Rec(g, 0)
    OBVIOUS
  <2> HIDE DEF g
  <2>2. QED
    BY <2>1
<1>2. ASSUME NEW n \in 0 .. N - 1, n \in S
      PROVE  n + 1 \in S
  <2>1. PICK f \in [0 .. n -> B] : Rec(f, n)
    BY <1>2
  <2> DEFINE g == [i \in 0 .. n + 1 |-> IF i = n + 1 THEN step[n][f[n]] ELSE f[i]]
  <2>2. step[n] \in [B -> B] /\ f[n] \in B
    OBVIOUS
  <2>3. step[n][f[n]] \in B
    BY <2>2
  <2>4. g \in [0 .. n + 1 -> B]
    BY <2>3
  <2>5. ASSUME NEW i \in 0 .. n + 1
        PROVE  g[i] = IF i = 0 THEN b0 ELSE step[i - 1][g[i - 1]]
    <3>1. CASE i = n + 1
      <4>1. i # 0 /\ i - 1 = n /\ g[i - 1] = f[n] /\ g[i] = step[n][f[n]]
        BY <3>1
      <4>2. QED
        BY <4>1
    <3>2. CASE i # n + 1
      <4>1. i \in 0 .. n /\ g[i] = f[i] /\ (i # 0 => g[i - 1] = f[i - 1])
        BY <3>2
      <4> HIDE DEF g
      <4>2. QED
        BY <4>1, <2>1
    <3>3. QED
      BY <3>1, <3>2
  <2> HIDE DEF g
  <2>6. Rec(g, n + 1)
    BY <2>5
  <2>7. QED
    BY <2>4, <2>6
<1>3. N \in S
  <2> HIDE DEF S
  <2>1. 0 .. N \subseteq S
    BY <1>1, <1>2, InductionTo
  <2>2. QED
    BY <2>1
<1>4. QED
  BY <1>3 DEF Recursion

-----------------------------------------------------------------------------
\* r is s with e put before its p-th element.
Inserted(r, S, s, p, e) ==
    /\ r \in Seq(S)
    /\ Len(r) = Len(s) + 1
    /\ \A i \in 1 .. Len(s) + 1 :
          r[i] = IF i < p THEN s[i] ELSE IF i = p THEN e ELSE s[i - 1]

(* What InsertAt puts at each position.                                    *)
LEMMA InsertAtShape ==
  ASSUME NEW S, NEW s \in Seq(S), NEW p \in 1 .. Len(s) + 1, NEW e \in S
  PROVE  Inserted(InsertAt(s, p, e), S, s, p, e)
<1> DEFINE front == SubSeq(s, 1, p - 1)
           back  == SubSeq(s, p, Len(s))
<1>1. /\ front \in Seq(S) /\ Len(front) = p - 1
      /\ \A i \in 1 .. p - 1 : front[i] = s[i]
  OBVIOUS
<1>2. /\ back \in Seq(S) /\ Len(back) = Len(s) - p + 1
      /\ \A i \in 1 .. Len(s) - p + 1 : back[i] = s[p + i - 1]
  OBVIOUS
<1>3. InsertAt(s, p, e) = (front \o <<e>>) \o back
  BY DEF InsertAt
<1> HIDE DEF front, back
<1> DEFINE head == front \o <<e>>
<1>4. /\ head \in Seq(S) /\ Len(head) = p
      /\ \A i \in 1 .. p : head[i] = IF i < p THEN s[i] ELSE e
  BY <1>1
<1> HIDE DEF head
<1>5. /\ head \o back \in Seq(S)
      /\ Len(head \o back) = Len(s) + 1
  BY <1>2, <1>4
<1>6. ASSUME NEW i \in 1 .. Len(s) + 1
      PROVE  (head \o back)[i] = IF i < p THEN s[i] ELSE IF i = p THEN e ELSE s[i - 1]
  <2>1. CASE i <= p
    BY <2>1, <1>2, <1>4
  <2>2. CASE i > p
    <3>1. (head \o back)[i] = back[i - p] /\ i - p \in 1 .. Len(s) - p + 1
      <4>1. /\ head \in Seq(S) /\ back \in Seq(S)
            /\ i \in Int /\ i > Len(head) /\ i <= Len(head) + Len(back)
        BY <2>2, <1>2, <1>4
      <4>2. (head \o back)[i] = back[i - Len(head)]
        BY <4>1
      <4>3. QED
        BY <2>2, <4>2, <1>2, <1>4
    <3>2. back[i - p] = s[p + (i - p) - 1]
      BY <3>1, <1>2
    <3>3. QED
      BY <2>2, <3>1, <3>2
  <2>3. i <= p \/ i > p
    OBVIOUS
  <2>4. QED
    BY <2>1, <2>2, <2>3, Zenon
<1>7. QED
  BY <1>3, <1>5, <1>6 DEF head, Inserted

\* r is s without its p-th element.
Removed(r, S, s, p) ==
    /\ r \in Seq(S)
    /\ Len(r) = Len(s) - 1
    /\ \A i \in 1 .. Len(s) - 1 : r[i] = IF i < p THEN s[i] ELSE s[i + 1]

(* What RemoveAt leaves at each position.                                  *)
LEMMA RemoveAtShape ==
  ASSUME NEW S, NEW s \in Seq(S), NEW p \in 1 .. Len(s)
  PROVE  Removed(RemoveAt(s, p), S, s, p)
<1> DEFINE front == SubSeq(s, 1, p - 1)
           back  == SubSeq(s, p + 1, Len(s))
<1>1. /\ front \in Seq(S) /\ Len(front) = p - 1
      /\ \A i \in 1 .. p - 1 : front[i] = s[i]
  OBVIOUS
<1>2. /\ back \in Seq(S) /\ Len(back) = Len(s) - p
      /\ \A i \in 1 .. Len(s) - p : back[i] = s[p + i]
  OBVIOUS
<1>3. RemoveAt(s, p) = front \o back
  BY DEF RemoveAt
<1> HIDE DEF front, back
<1>4. front \o back \in Seq(S) /\ Len(front \o back) = Len(s) - 1
  BY <1>1, <1>2
<1>5. ASSUME NEW i \in 1 .. Len(s) - 1
      PROVE  (front \o back)[i] = IF i < p THEN s[i] ELSE s[i + 1]
  <2>1. CASE i < p
    BY <2>1, <1>1, <1>2
  <2>2. CASE i >= p
    <3>1. /\ i \in Int /\ i > Len(front) /\ i <= Len(front) + Len(back)
      BY <2>2, <1>1, <1>2
    <3>2. (front \o back)[i] = back[i - Len(front)]
      BY <3>1, <1>1, <1>2
    <3>3. i - (p - 1) \in 1 .. Len(s) - p /\ p + (i - (p - 1)) = i + 1
      BY <2>2
    <3>4. QED
      BY <2>2, <3>2, <3>3, <1>1, <1>2
  <2>3. i < p \/ i >= p
    OBVIOUS
  <2>4. QED
    BY <2>1, <2>2, <2>3, Zenon
<1>6. QED
  BY <1>3, <1>4, <1>5 DEF Removed

(* A queue whose head is in front: what a push and a removal at the tail   *)
(* leave at each position.                                                 *)
LEMMA Pushed ==
  ASSUME NEW S, NEW s \in Seq(S), NEW e \in S
  PROVE  /\ <<e>> \o s \in Seq(S) /\ Len(<<e>> \o s) = Len(s) + 1
         /\ (<<e>> \o s)[1] = e
         /\ \A i \in 1 .. Len(s) : (<<e>> \o s)[i + 1] = s[i]
         /\ <<e>> \o s # <<>>
OBVIOUS

LEMMA FrontShape ==
  ASSUME NEW S, NEW s \in Seq(S), s # <<>>
  PROVE  /\ Len(s) \in Nat /\ Len(s) >= 1
         /\ Last(s) = s[Len(s)] /\ Last(s) \in S
         /\ Front(s) \in Seq(S) /\ Len(Front(s)) = Len(s) - 1
         /\ \A i \in 1 .. Len(s) - 1 : Front(s)[i] = s[i]
<1>1. Len(s) \in Nat /\ Len(s) >= 1 /\ \A i \in 1 .. Len(s) : s[i] \in S
  OBVIOUS
<1>2. Last(s) = s[Len(s)] /\ Last(s) \in S
  BY <1>1 DEF Last
<1>3. Front(s) = SubSeq(s, 1, Len(s) - 1)
  BY DEF Front
<1>4. /\ SubSeq(s, 1, Len(s) - 1) \in Seq(S)
      /\ Len(SubSeq(s, 1, Len(s) - 1)) = Len(s) - 1
      /\ \A i \in 1 .. Len(s) - 1 : SubSeq(s, 1, Len(s) - 1)[i] = s[i]
  <2> DEFINE n == Len(s) - 1
  <2>1. n \in Nat /\ n <= Len(s)
    BY <1>1
  <2> HIDE DEF n
  <2>2. /\ SubSeq(s, 1, n) \in Seq(S) /\ Len(SubSeq(s, 1, n)) = n
        /\ \A i \in 1 .. n : SubSeq(s, 1, n)[i] = s[i]
    BY <1>1, <2>1
  <2>3. QED
    BY <2>2 DEF n
<1>5. QED
  BY <1>1, <1>2, <1>3, <1>4

-----------------------------------------------------------------------------
\* s lists the elements of S, each once.
Lists(s, S) ==
    /\ s \in Seq(S)
    /\ \A m, n \in 1 .. Len(s) : s[m] = s[n] => m = n
    /\ \A x \in S : \E n \in 1 .. Len(s) : s[n] = x

LEMMA InsertLists ==
  ASSUME NEW S, NEW s, Lists(s, S), NEW e, e \notin S, NEW p \in 1 .. Len(s) + 1,
         NEW r, Inserted(r, S \cup {e}, s, p, e)
  PROVE  Lists(r, S \cup {e})
<1>1. /\ s \in Seq(S) /\ Len(s) \in Nat /\ Len(r) = Len(s) + 1
      /\ r \in Seq(S \cup {e})
      /\ \A n \in 1 .. Len(s) : s[n] \in S
  BY DEF Lists, Inserted
<1>2. \A i \in 1 .. Len(s) + 1 :
         r[i] = IF i < p THEN s[i] ELSE IF i = p THEN e ELSE s[i - 1]
  BY DEF Inserted
<1>3. ASSUME NEW m \in 1 .. Len(r), NEW n \in 1 .. Len(r), r[m] = r[n]
      PROVE  m = n
  <2> DEFINE Old(i) == IF i < p THEN i ELSE i - 1
  <2>1. \A i \in 1 .. Len(r) : i # p => Old(i) \in 1 .. Len(s) /\ r[i] = s[Old(i)]
    BY <1>1, <1>2
  <2>2. r[p] = e
    BY <1>1, <1>2
  <2>3. \A i \in 1 .. Len(r) : i # p => r[i] # e
    <3> HIDE DEF Old
    <3> QED BY <2>1, <1>1
  <2>4. CASE m # p /\ n # p
    <3>1. Old(m) = Old(n)
      <4>1. /\ Old(m) \in 1 .. Len(s) /\ Old(n) \in 1 .. Len(s)
            /\ s[Old(m)] = s[Old(n)]
        BY <2>1, <2>4, <1>3
      <4> HIDE DEF Old
      <4>2. QED
        BY <4>1 DEF Lists
    <3>2. QED
      BY <3>1, <2>4, <1>1
  <2>5. CASE m = p \/ n = p
    <3> HIDE DEF Old
    <3> QED BY <2>2, <2>3, <2>5, <1>3
  <2>6. QED
    BY <2>4, <2>5
<1>4. ASSUME NEW x \in S \cup {e} PROVE \E n \in 1 .. Len(r) : r[n] = x
  <2>1. CASE x = e
    <3>1. p \in 1 .. Len(r) /\ r[p] = e
      BY <1>1, <1>2
    <3>2. QED
      BY <3>1, <2>1
  <2>2. CASE x # e
    <3>1. PICK n \in 1 .. Len(s) : s[n] = x
      BY <2>2 DEF Lists
    <3>2. CASE n < p
      <4>1. n \in 1 .. Len(r) /\ r[n] = x
        BY <3>1, <3>2, <1>1, <1>2
      <4>2. QED
        BY <4>1
    <3>3. CASE n >= p
      <4>1. n + 1 \in 1 .. Len(r) /\ r[n + 1] = s[(n + 1) - 1] /\ (n + 1) - 1 = n
        BY <3>3, <1>1, <1>2
      <4>2. QED
        BY <4>1, <3>1
    <3>4. QED
      BY <3>2, <3>3, <1>1
  <2>3. QED
    BY <2>1, <2>2
<1>5. QED
  BY <1>1, <1>3, <1>4 DEF Lists

LEMMA RemoveLists ==
  ASSUME NEW S, NEW s, Lists(s, S), NEW p \in 1 .. Len(s),
         NEW r, Removed(r, S, s, p)
  PROVE  Lists(r, S \ {s[p]})
<1>1. /\ s \in Seq(S) /\ Len(s) \in Nat /\ Len(r) = Len(s) - 1 /\ r \in Seq(S)
      /\ \A i \in 1 .. Len(s) - 1 : r[i] = IF i < p THEN s[i] ELSE s[i + 1]
  <2>1. s \in Seq(S) /\ Len(s) \in Nat
    BY DEF Lists
  <2>2. QED
    BY <2>1 DEF Removed
<1>a. /\ \A n \in 1 .. Len(s) : s[n] \in S
      /\ \A m, n \in 1 .. Len(s) : s[m] = s[n] => m = n
      /\ \A x \in S : \E n \in 1 .. Len(s) : s[n] = x
  BY <1>1 DEF Lists
<1> DEFINE Old(i) == IF i < p THEN i ELSE i + 1
<1>2. \A i \in 1 .. Len(r) : Old(i) \in 1 .. Len(s) /\ Old(i) # p /\ r[i] = s[Old(i)]
  BY <1>1
<1>3. \A m, n \in 1 .. Len(r) : Old(m) = Old(n) => m = n
  BY <1>1
<1>4. \A n \in 1 .. Len(s) : n # p => \E i \in 1 .. Len(r) : Old(i) = n
  <2> SUFFICES ASSUME NEW n \in 1 .. Len(s), n # p
               PROVE  \E i \in 1 .. Len(r) : Old(i) = n
    OBVIOUS
  <2>1. CASE n < p
    <3>1. n \in 1 .. Len(r) /\ Old(n) = n
      BY <2>1, <1>1
    <3> HIDE DEF Old
    <3>2. QED
      BY <3>1
  <2>2. CASE n > p
    <3>1. n - 1 \in 1 .. Len(r) /\ Old(n - 1) = n
      BY <2>2, <1>1
    <3> HIDE DEF Old
    <3>2. QED
      BY <3>1
  <2>3. QED
    BY <2>1, <2>2, <1>1
<1> HIDE DEF Old
<1>5. \A i \in 1 .. Len(r) : r[i] \in S \ {s[p]}
  <2> TAKE i \in 1 .. Len(r)
  <2>1. Old(i) \in 1 .. Len(s) /\ Old(i) # p /\ r[i] = s[Old(i)]
    BY <1>2
  <2>2. QED
    BY <2>1, <1>a
<1>6. r \in Seq(S \ {s[p]})
  <2>1. r \in [1 .. Len(r) -> S] /\ Len(r) \in Nat
    BY <1>1
  <2>2. r \in [1 .. Len(r) -> S \ {s[p]}]
    BY <2>1, <1>5
  <2>3. QED
    BY <2>1, <2>2
<1>7. ASSUME NEW m \in 1 .. Len(r), NEW n \in 1 .. Len(r), r[m] = r[n]
      PROVE  m = n
  <2>1. /\ Old(m) \in 1 .. Len(s) /\ Old(n) \in 1 .. Len(s)
        /\ s[Old(m)] = s[Old(n)]
    BY <1>2, <1>7
  <2>2. Old(m) = Old(n)
    BY <2>1, <1>a
  <2>3. QED
    BY <2>2, <1>3
<1>8. ASSUME NEW x \in S \ {s[p]} PROVE \E n \in 1 .. Len(r) : r[n] = x
  <2>1. PICK n \in 1 .. Len(s) : s[n] = x
    BY <1>a
  <2>2. PICK i \in 1 .. Len(r) : Old(i) = n
    BY <2>1, <1>4
  <2>3. r[i] = x
    BY <2>1, <2>2, <1>2
  <2>4. QED
    BY <2>3
<1>9. QED
  BY <1>6, <1>7, <1>8 DEF Lists

LEMMA PushLists ==
  ASSUME NEW S, NEW s, Lists(s, S), NEW e, e \notin S
  PROVE  Lists(<<e>> \o s, S \cup {e})
<1> DEFINE r == <<e>> \o s
<1>1. s \in Seq(S) /\ s \in Seq(S \cup {e}) /\ Len(s) \in Nat
  BY DEF Lists
<1>2. /\ r \in Seq(S \cup {e}) /\ Len(r) = Len(s) + 1 /\ r[1] = e
      /\ \A i \in 1 .. Len(s) : r[i + 1] = s[i]
  BY <1>1, Pushed
<1> HIDE DEF r
<1>3. \A i \in 2 .. Len(s) + 1 : r[i] = s[i - 1]
  <2> TAKE i \in 2 .. Len(s) + 1
  <2>1. i - 1 \in 1 .. Len(s) /\ (i - 1) + 1 = i
    BY <1>1
  <2>2. QED
    BY <2>1, <1>2
<1>4. Inserted(r, S \cup {e}, s, 1, e)
  BY <1>1, <1>2, <1>3 DEF Inserted
<1>5. 1 \in 1 .. Len(s) + 1
  BY <1>1
<1>6. QED
  BY <1>4, <1>5, InsertLists DEF r

LEMMA TailLists ==
  ASSUME NEW S, NEW s, Lists(s, S), s # <<>>
  PROVE  Lists(Tail(s), S \ {Head(s)}) /\ Head(s) \in S
<1>1. s \in Seq(S)
  BY DEF Lists
<1>2. /\ Len(s) \in Nat /\ Len(s) >= 1
      /\ Head(s) = s[1] /\ Head(s) \in S
      /\ Tail(s) \in Seq(S) /\ Len(Tail(s)) = Len(s) - 1
      /\ \A i \in 1 .. Len(s) - 1 : Tail(s)[i] = s[i + 1]
  BY <1>1
<1>3. 1 \in 1 .. Len(s) /\ Removed(Tail(s), S, s, 1)
  BY <1>2 DEF Removed
<1>4. QED
  BY <1>2, <1>3, RemoveLists

LEMMA FrontLists ==
  ASSUME NEW S, NEW s, Lists(s, S), s # <<>>
  PROVE  Lists(Front(s), S \ {Last(s)}) /\ Last(s) \in S
<1>1. s \in Seq(S)
  BY DEF Lists
<1>2. /\ Len(s) \in Nat /\ Len(s) >= 1
      /\ Last(s) = s[Len(s)] /\ Last(s) \in S
      /\ Front(s) \in Seq(S) /\ Len(Front(s)) = Len(s) - 1
      /\ \A i \in 1 .. Len(s) - 1 : Front(s)[i] = s[i]
  BY <1>1, FrontShape
<1>3. Len(s) \in 1 .. Len(s) /\ Removed(Front(s), S, s, Len(s))
  BY <1>2 DEF Removed
<1>4. QED
  BY <1>2, <1>3, RemoveLists

LEMMA RemoveFirstLists ==
  ASSUME NEW S, NEW s, Lists(s, S), NEW e
  PROVE  Lists(RemoveFirst(s, e), S \ {e})
<1>1. s \in Seq(S) /\ Len(s) \in Nat /\ \A i \in 1 .. Len(s) : s[i] \in S
  BY DEF Lists
<1>2. CASE e \in S
  <2>1. PICK p \in 1 .. Len(s) : s[p] = e
    BY <1>2 DEF Lists
  <2>2. \A i \in 1 .. Len(s) : s[i] = e <=> i = p
    BY <2>1 DEF Lists
  <2>3. SelectInSeq(s, LAMBDA v : v = e) = p
    BY <2>1, <2>2 DEF SelectInSeq, Min
  <2>4. RemoveFirst(s, e) = RemoveAt(s, p)
    BY <2>1, <2>3 DEF RemoveFirst
  <2>5. Removed(RemoveAt(s, p), S, s, p)
    BY <1>1, <2>1, RemoveAtShape
  <2>6. QED
    BY <2>1, <2>4, <2>5, RemoveLists
<1>3. CASE e \notin S
  <2>1. RemoveFirst(s, e) = s
    BY <1>1, <1>3 DEF RemoveFirst
  <2>2. S \ {e} = S
    BY <1>3
  <2>3. QED
    BY <2>1, <2>2
<1>4. QED
  BY <1>2, <1>3

LEMMA ListsCount ==
  ASSUME NEW S, NEW s, Lists(s, S)
  PROVE  IsFiniteSet(S) /\ Cardinality(S) = Len(s)
<1>1. s \in Seq(S) /\ Len(s) \in Nat
  BY DEF Lists
<1>2. s \in Bijection(1 .. Len(s), S)
  <2>1. s \in [1 .. Len(s) -> S]
    BY <1>1
  <2>2. /\ \A m, n \in 1 .. Len(s) : s[m] = s[n] => m = n
        /\ \A x \in S : \E n \in 1 .. Len(s) : s[n] = x
    BY DEF Lists
  <2>3. QED
    BY <2>1, <2>2 DEF Bijection, Injection, Surjection, IsInjective
<1>3. QED
  BY <1>1, <1>2, FS_CountingElements, FS_NatSurjection DEF ExistsBijection, ExistsSurjection, Bijection

-----------------------------------------------------------------------------
(* Quotient and rest, which are unique.                                    *)
LEMMA ProductGrows ==
  ASSUME NEW d \in Nat, NEW i \in Nat, NEW k \in Nat, i < k
  PROVE  i * d + d <= k * d
<1>1. PICK e \in Nat : k = i + 1 + e
  <2>1. k - i - 1 \in Nat /\ k = i + 1 + (k - i - 1)
    OBVIOUS
  <2>2. QED
    BY <2>1
<1>2. k * d = i * d + d + e * d
  BY <1>1
<1>3. e * d \in Nat
  OBVIOUS
<1>4. i * d \in Nat
  OBVIOUS
<1>5. QED
  BY <1>2, <1>3, <1>4

LEMMA QuotientUnique ==
  ASSUME NEW d \in Nat \ {0}, NEW i \in Nat, NEW k \in Nat,
         NEW a \in 0 .. d - 1, NEW b \in 0 .. d - 1, i * d + a = k * d + b
  PROVE  i = k /\ a = b
<1> DEFINE x == i * d   y == k * d
<1>1. x \in Nat /\ y \in Nat /\ x + a = y + b
  OBVIOUS
<1>2. ~ (i < k)
  <2> SUFFICES ASSUME i < k PROVE FALSE
    OBVIOUS
  <2>1. x + d <= y
    BY ProductGrows
  <2> HIDE DEF x, y
  <2>2. QED
    BY <2>1, <1>1
<1>3. ~ (k < i)
  <2> SUFFICES ASSUME k < i PROVE FALSE
    OBVIOUS
  <2>1. y + d <= x
    BY ProductGrows
  <2> HIDE DEF x, y
  <2>2. QED
    BY <2>1, <1>1
<1>4. i = k
  BY <1>2, <1>3
<1>5. QED
  BY <1>1, <1>4

LEMMA Divided ==
  ASSUME NEW d \in Nat \ {0}, NEW x \in Nat
  PROVE  /\ x \div d \in Nat /\ x % d \in 0 .. d - 1
         /\ x = (x \div d) * d + (x % d)
<1>1. x \div d \in Nat /\ x % d \in 0 .. d - 1
  OBVIOUS
<1>2. x = d * (x \div d) + (x % d)
  OBVIOUS
<1>3. QED
  BY <1>1, <1>2

LEMMA DividedBelow ==
  ASSUME NEW d \in Nat \ {0}, NEW n \in Nat, NEW x \in Nat, x < n * d
  PROVE  x \div d \in 0 .. n - 1
<1> DEFINE q == x \div d
<1>1. q \in Nat /\ x % d \in Nat /\ x = q * d + (x % d)
  BY Divided
<1> HIDE DEF q
<1>2. q * d \in Nat /\ q * d < n * d
  <2> DEFINE y == q * d   w == n * d
  <2>1. y \in Nat /\ w \in Nat /\ x = y + (x % d) /\ x < w
    BY <1>1
  <2> HIDE DEF y, w
  <2>2. y < w
    BY <2>1, <1>1
  <2>3. QED
    BY <2>1, <2>2 DEF y, w
<1>3. ~ (n <= q)
  <2> SUFFICES ASSUME n <= q PROVE FALSE
    OBVIOUS
  <2>1. CASE n = q
    BY <2>1, <1>2
  <2>2. CASE n < q
    <3>1. n * d + d <= q * d
      BY <2>2, <1>1, ProductGrows
    <3> DEFINE y == q * d   w == n * d
    <3>2. y \in Nat /\ w \in Nat /\ w + d <= y /\ y < w
      BY <3>1, <1>1, <1>2
    <3> HIDE DEF y, w
    <3>3. QED
      BY <3>2
  <2>3. QED
    BY <2>1, <2>2, <1>1
<1>4. QED
  BY <1>1, <1>3 DEF q

(* The same from a quotient and a rest that are known.                     *)
LEMMA QuotientIs ==
  ASSUME NEW d \in Nat \ {0}, NEW q \in Nat, NEW r \in 0 .. d - 1, NEW x, x = d * q + r
  PROVE  x \in Nat /\ x \div d = q /\ x % d = r
<1>1. x = q * d + r /\ x \in Nat
  OBVIOUS
<1>2. x \div d \in Nat /\ x % d \in 0 .. d - 1 /\ x = (x \div d) * d + (x % d)
  BY <1>1, Divided
<1>3. (x \div d) * d + (x % d) = q * d + r
  BY <1>1, <1>2
<1> DEFINE k == x \div d   b == x % d
<1>4. k \in Nat /\ b \in 0 .. d - 1 /\ k * d + b = q * d + r
  BY <1>2, <1>3
<1> HIDE DEF k, b
<1>5. k = q /\ b = r
  BY <1>4, QuotientUnique
<1>6. QED
  BY <1>1, <1>5 DEF k, b
=============================================================================
