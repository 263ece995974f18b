-------------------------- MODULE TimerQueueProofs ---------------------------
(***************************************************************************)
(* Theorems about the timer queue, for every set of timers, intervals and  *)
(* length of the task queue: the list stays in order and min_timestamp is  *)
(* its earliest, the loop does not sleep past a timer, every timer is in   *)
(* one place, none is used after it was freed, and a callback is entered   *)
(* neither early nor after the timer was cancelled.                        *)
(*                                                                         *)
(* They are about users who cancel one-shot timers in the loop's thread    *)
(* alone and do not refresh a timer in its own callback: what happens to   *)
(* the others is in the runs that find it.                                 *)
(***************************************************************************)
EXTENDS TimerQueue, FiniteSetTheorems, SequenceTheorems, WellFoundedInduction, TLAPS

-----------------------------------------------------------------------------
(***************************************************************************)
(* The inductive invariant.                                                *)
(***************************************************************************)
TimerType == [mem : {"unused", "allocated", "freed"}, timestamp : Nat,
              interval : Intervals \cup {0}, alive : BOOLEAN, expired : BOOLEAN,
              inCallback : BOOLEAN, inQueue : BOOLEAN]

QueueType == [list : Seq(Timer), min : Nat]

OpType == [op : {"insert", "cancel", "refresh"}, timer : Timer]

Listed == ToSet(queue.list)

Late == ToSet(done)

\* Timers whose insertion is still in the task queue.
ComingIn(seq) == {seq[i].timer : i \in {j \in DOMAIN seq : seq[j].op = "insert"}}

Coming == ComingIn(ops)

Distinct(list) == \A i, j \in DOMAIN list : list[i] = list[j] => i = j

Sorted(q, tm) ==
    /\ q.list # <<>> => q.min = tm[Head(q.list)].timestamp
    /\ \A i, j \in DOMAIN q.list :
          i < j => tm[q.list[i]].timestamp <= tm[q.list[j]].timestamp

\* Each list holds a timer once, and the timers are in order of their timestamps.
Lists == /\ Distinct(queue.list) /\ Distinct(done)
         /\ Sorted(queue, timer)

\* Where the loop thread can be with operations or expired timers at hand.
Phases == /\ batch > 0 => pc = "tasks"
          /\ done # <<>> => pc \in {"fire", "callback"}
          /\ NoOversleep

\* A timer is in one place, and its flags say in which.
Placed(t) ==
    /\ (timer[t].mem = "allocated") <=> (t \in Coming \/ t \in Listed \/ t \in Late \/ current = t)
    /\ t \in Coming => /\ t \notin Listed /\ t \notin Late /\ current # t
                       /\ ~timer[t].inQueue /\ ~timer[t].expired /\ ~timer[t].inCallback
    /\ t \in Listed => /\ t \notin Late /\ current # t /\ timer[t].alive
                       /\ timer[t].inQueue /\ ~timer[t].expired /\ ~timer[t].inCallback
    /\ t \in Late => /\ current # t /\ timer[t].timestamp <= now
                     /\ timer[t].inQueue /\ timer[t].expired /\ ~timer[t].inCallback
    /\ current = t => timer[t].inQueue /\ timer[t].inCallback

\* A cancelled timer waits, dead, to be freed; nobody uses it any more.
Cancelled(t) ==
    /\ timer[t].mem = "allocated" => (timer[t].alive <=> t \notin cancelled)
    /\ timer[t].mem = "unused" => t \notin requested

\* At most one insertion of a timer, before everything else; a cancel after.
Ranked(seq) ==
    \A i, j \in DOMAIN seq :
       seq[i].timer = seq[j].timer =>
          /\ seq[j].op = "insert" => j <= i
          /\ seq[i].op = "cancel" => j <= i

\* What the client operates on is alive and periodic until the last operation.
Served(i) ==
    ops[i].op # "insert" =>
       /\ timer[ops[i].timer].mem = "allocated" /\ timer[ops[i].timer].alive
       /\ timer[ops[i].timer].interval > 0
       /\ ops[i].op = "cancel" => ops[i].timer \in requested

InTurn == Ranked(ops) /\ \A i \in DOMAIN ops : Served(i)

Inv == /\ TypeOK
       /\ fault = "none"
       /\ Lists
       /\ Phases
       /\ pc # "destroyed" => InTurn /\ \A t \in Timer : Placed(t) /\ Cancelled(t)

-----------------------------------------------------------------------------
(***************************************************************************)
(* The list.                                                               *)
(***************************************************************************)
LEMMA SmallestNat ==
    ASSUME NEW T, T \subseteq Nat, T # {}
    PROVE  \E x \in T : \A y \in T : x <= y
<1> DEFINE R == OpToRel(<, Nat)
           N == Nat
<1>1. IsWellFoundedOn(R, N)
  BY NatLessThanWellFounded
<1>2. \A x, y \in Nat : x < y => <<x, y>> \in R
  BY DEF OpToRel
<1>3. T \subseteq N
  OBVIOUS
<1> HIDE DEF R, N
<1>4. \E x \in T : \A y \in T : ~(<<y, x>> \in R)
  BY ONLY <1>1, <1>3, T # {}, WFMin
<1>5. PICK x \in T : \A y \in T : ~(<<y, x>> \in R)
  BY <1>4
<1>6. ASSUME NEW y \in T PROVE x <= y
  <2>1. x \in Nat /\ y \in Nat
    OBVIOUS
  <2>2. ~(y < x)
    BY <1>2, <1>5, <2>1, Zenon
  <2>. QED
    BY <2>1, <2>2
<1>. QED
  BY <1>6

\* The positions up to which something holds throughout are as many as the last.
LEMMA PrefixIsInterval ==
    ASSUME NEW n \in Nat, NEW P, P \subseteq 1 .. n,
           \A i \in P : \A j \in 1 .. i : j \in P
    PROVE  Cardinality(P) \in 0 .. n /\ P = 1 .. Cardinality(P)
<1> DEFINE T == (1 .. n + 1) \ P
<1>1. T \subseteq Nat /\ n + 1 \in T
  OBVIOUS
<1>2. T # {}
  BY <1>1
<1> HIDE DEF T
<1>3. PICK m \in T : \A y \in T : m <= y
  BY <1>1, <1>2, SmallestNat
<1>4. m \in 1 .. n + 1 /\ m \notin P /\ m - 1 \in 0 .. n
  BY DEF T
<1>5. P = 1 .. (m - 1)
  <2>1. ASSUME NEW i \in P PROVE i \in 1 .. (m - 1)
    <3>1. i \in 1 .. n
      OBVIOUS
    <3>2. ~(m <= i)
      BY <1>4, <3>1
    <3>. QED
      BY <1>4, <3>1, <3>2
  <2>2. ASSUME NEW i \in 1 .. (m - 1) PROVE i \in P
    <3>1. i \in 1 .. n + 1 /\ ~(m <= i)
      BY <1>4
    <3>. QED
      BY <1>3, <3>1 DEF T
  <2>. QED
    BY <2>1, <2>2
<1>6. Cardinality(1 .. (m - 1)) = m - 1
  <2>1. 1 \in Int /\ m - 1 \in Int
    BY <1>4
  <2>2. Cardinality(1 .. (m - 1)) = IF 1 > m - 1 THEN 0 ELSE (m - 1) - 1 + 1
    BY <2>1, FS_Interval
  <2>. QED
    BY <2>2, <1>4
<1>. QED
  BY <1>4, <1>5, <1>6

LEMMA InsertAtTyped ==
    ASSUME NEW S, NEW list \in Seq(S), NEW p \in 1 .. Len(list) + 1, NEW e \in S
    PROVE  /\ InsertAt(list, p, e) \in Seq(S)
           /\ Len(InsertAt(list, p, e)) = Len(list) + 1
           /\ \A i \in 1 .. Len(list) + 1 :
                 InsertAt(list, p, e)[i] = IF i < p THEN list[i]
                                           ELSE IF i = p THEN e ELSE list[i - 1]
<1>1. Len(list) \in Nat /\ p \in Nat /\ \A i \in 1 .. Len(list) : list[i] \in S
  BY LenProperties, ElementOfSeq
<1> DEFINE a == SubSeq(list, 1, p - 1)
           b == SubSeq(list, p, Len(list))
<1>2. /\ a \in Seq(S) /\ Len(a) = p - 1
      /\ \A i \in 1 .. p - 1 : a[i] = list[i]
  <2>1. \A i \in 1 .. p - 1 : list[i] \in S
    BY <1>1
  <2>2. /\ a \in Seq(S) /\ Len(a) = IF 1 <= p - 1 THEN (p - 1) - 1 + 1 ELSE 0
        /\ \A i \in 1 .. (p - 1) - 1 + 1 : a[i] = list[1 + i - 1]
    BY <2>1, <1>1, SubSeqProperties
  <2>. QED
    BY <2>2, <1>1
<1>3. /\ b \in Seq(S) /\ Len(b) = Len(list) - p + 1
      /\ \A i \in 1 .. Len(list) - p + 1 : b[i] = list[p + i - 1]
  <2>1. \A i \in p .. Len(list) : list[i] \in S
    BY <1>1
  <2>2. /\ b \in Seq(S) /\ Len(b) = IF p <= Len(list) THEN Len(list) - p + 1 ELSE 0
        /\ \A i \in 1 .. Len(list) - p + 1 : b[i] = list[p + i - 1]
    BY <2>1, <1>1, SubSeqProperties
  <2>. QED
    BY <2>2, <1>1
<1>4. InsertAt(list, p, e) = a \o <<e>> \o b
  BY DEF InsertAt
<1> HIDE DEF a, b
<1>5. <<e>> \in Seq(S) /\ Len(<<e>>) = 1 /\ <<e>>[1] = e
  OBVIOUS
<1>6. /\ a \o <<e>> \in Seq(S) /\ Len(a \o <<e>>) = p
      /\ \A i \in 1 .. p : (a \o <<e>>)[i] = IF i < p THEN list[i] ELSE e
  BY <1>1, <1>2, <1>5, ConcatProperties
<1>7. /\ a \o <<e>> \o b \in Seq(S) /\ Len(a \o <<e>> \o b) = Len(list) + 1
      /\ \A i \in 1 .. Len(list) + 1 :
            (a \o <<e>> \o b)[i] = IF i <= p THEN (a \o <<e>>)[i] ELSE b[i - p]
  <2> DEFINE c == a \o <<e>>
  <2>1. c \in Seq(S) /\ Len(c) = p
    BY <1>6
  <2> HIDE DEF c
  <2>2. /\ c \o b \in Seq(S) /\ Len(c \o b) = Len(c) + Len(b)
        /\ \A i \in 1 .. Len(c) + Len(b) :
              (c \o b)[i] = IF i <= Len(c) THEN c[i] ELSE b[i - Len(c)]
    BY <2>1, <1>3, ConcatProperties
  <2>3. Len(c) + Len(b) = Len(list) + 1
    BY <2>1, <1>1, <1>3
  <2>. QED
    BY <2>1, <2>2, <2>3 DEF c
<1>8. ASSUME NEW i \in 1 .. Len(list) + 1
      PROVE  (a \o <<e>> \o b)[i] = IF i < p THEN list[i] ELSE IF i = p THEN e ELSE list[i - 1]
  BY <1>1, <1>3, <1>6, <1>7
<1>. QED
  BY <1>4, <1>7, <1>8

LEMMA RemoveAtTyped ==
    ASSUME NEW S, NEW list \in Seq(S), NEW p \in 1 .. Len(list)
    PROVE  /\ RemoveAt(list, p) \in Seq(S)
           /\ Len(RemoveAt(list, p)) = Len(list) - 1
           /\ \A i \in 1 .. Len(list) - 1 :
                 RemoveAt(list, p)[i] = IF i < p THEN list[i] ELSE list[i + 1]
<1>1. Len(list) \in Nat /\ p \in Nat /\ \A i \in 1 .. Len(list) : list[i] \in S
  BY LenProperties, ElementOfSeq
<1> DEFINE a == SubSeq(list, 1, p - 1)
           b == SubSeq(list, p + 1, Len(list))
<1>2. /\ a \in Seq(S) /\ Len(a) = p - 1
      /\ \A i \in 1 .. p - 1 : a[i] = list[i]
  <2>1. \A i \in 1 .. p - 1 : list[i] \in S
    BY <1>1
  <2>2. /\ a \in Seq(S) /\ Len(a) = IF 1 <= p - 1 THEN (p - 1) - 1 + 1 ELSE 0
        /\ \A i \in 1 .. (p - 1) - 1 + 1 : a[i] = list[1 + i - 1]
    BY <2>1, <1>1, SubSeqProperties
  <2>. QED
    BY <2>2, <1>1
<1>3. /\ b \in Seq(S) /\ Len(b) = Len(list) - p
      /\ \A i \in 1 .. Len(list) - p : b[i] = list[p + i]
  <2>1. \A i \in p + 1 .. Len(list) : list[i] \in S
    BY <1>1
  <2>2. /\ b \in Seq(S)
        /\ Len(b) = IF p + 1 <= Len(list) THEN Len(list) - (p + 1) + 1 ELSE 0
        /\ \A i \in 1 .. Len(list) - (p + 1) + 1 : b[i] = list[(p + 1) + i - 1]
    BY <2>1, <1>1, SubSeqProperties
  <2>. QED
    BY <2>2, <1>1
<1>4. RemoveAt(list, p) = a \o b
  BY DEF RemoveAt
<1> HIDE DEF a, b
<1>5. /\ a \o b \in Seq(S) /\ Len(a \o b) = Len(list) - 1
      /\ \A i \in 1 .. Len(list) - 1 :
            (a \o b)[i] = IF i <= p - 1 THEN a[i] ELSE b[i - (p - 1)]
  <2>1. /\ a \o b \in Seq(S) /\ Len(a \o b) = Len(a) + Len(b)
        /\ \A i \in 1 .. Len(a) + Len(b) :
              (a \o b)[i] = IF i <= Len(a) THEN a[i] ELSE b[i - Len(a)]
    BY <1>2, <1>3, ConcatProperties
  <2>2. Len(a) + Len(b) = Len(list) - 1
    BY <1>1, <1>2, <1>3
  <2>. QED
    BY <2>1, <2>2, <1>2
<1>6. ASSUME NEW i \in 1 .. Len(list) - 1
      PROVE  (a \o b)[i] = IF i < p THEN list[i] ELSE list[i + 1]
  <2>1. CASE i < p
    BY <2>1, <1>1, <1>2, <1>5
  <2>2. CASE ~(i < p)
    <3>1. i - (p - 1) \in 1 .. Len(list) - p /\ p + (i - (p - 1)) = i + 1
      BY <2>2, <1>1
    <3>2. (a \o b)[i] = b[i - (p - 1)]
      BY <2>2, <1>1, <1>5
    <3>. QED
      BY <2>2, <3>1, <3>2, <1>3
  <2>. QED
    BY <2>1, <2>2
<1>. QED
  BY <1>4, <1>5, <1>6

\* A timer that is not on the list is put behind those that are not later.
LEMMA InsertKeeps ==
    ASSUME NEW list \in Seq(Timer), NEW min, NEW tm, \A x \in Timer : tm[x].timestamp \in Nat,
           Sorted([list |-> list, min |-> min], tm), Distinct(list),
           NEW t \in Timer, t \notin ToSet(list), NEW q, q = Inserted([list |-> list, min |-> min], tm, t),
           min \in Nat
    PROVE  /\ q \in [list : Seq(Timer), min : Nat]
           /\ Sorted(q, tm) /\ Distinct(q.list)
           /\ ToSet(q.list) = ToSet(list) \cup {t}
<1> DEFINE before == {i \in DOMAIN list :
                        \A j \in 1 .. i : tm[list[j]].timestamp <= tm[t].timestamp}
           k == Cardinality(before)
           p == k + 1
           new == InsertAt(list, p, t)
<1>1. /\ Len(list) \in Nat /\ DOMAIN list = 1 .. Len(list)
      /\ \A i \in 1 .. Len(list) : list[i] \in Timer
  BY LenProperties, ElementOfSeq
<1>2. k \in 0 .. Len(list) /\ before = 1 .. k
  <2>1. before \subseteq 1 .. Len(list)
    BY <1>1
  <2>2. \A i \in before : \A j \in 1 .. i : j \in before
    BY <1>1
  <2> HIDE DEF before
  <2>. QED
    BY <2>1, <2>2, <1>1, PrefixIsInterval
<1>3. \A i \in 1 .. k : tm[list[i]].timestamp <= tm[t].timestamp
  BY <1>1, <1>2
<1>4. \A i, j \in 1 .. Len(list) : i < j => tm[list[i]].timestamp <= tm[list[j]].timestamp
  BY <1>1 DEF Sorted
<1>5. \A i \in 1 .. Len(list) : i > k => tm[t].timestamp <= tm[list[i]].timestamp
  <2> SUFFICES ASSUME NEW i \in 1 .. Len(list), i > k, tm[list[i]].timestamp < tm[t].timestamp
               PROVE  FALSE
    BY <1>1
  <2>1. \A j \in 1 .. i : tm[list[j]].timestamp <= tm[t].timestamp
    BY <1>1, <1>4
  <2>2. i \in before
    BY <2>1, <1>1
  <2> HIDE DEF before
  <2>. QED
    BY <2>2, <1>2
<1>6. q = [list |-> new, min |-> IF p = 1 THEN tm[t].timestamp ELSE min]
  BY DEF Inserted, Place
<1>7. k \in Nat /\ p \in 1 .. Len(list) + 1
  BY <1>1, <1>2
<1> HIDE DEF before, k
<1>8. /\ new \in Seq(Timer) /\ Len(new) = Len(list) + 1
      /\ \A i \in 1 .. Len(list) + 1 :
            new[i] = IF i < p THEN list[i] ELSE IF i = p THEN t ELSE list[i - 1]
      /\ DOMAIN new = 1 .. Len(list) + 1
  <2> HIDE DEF p
  <2>1. /\ new \in Seq(Timer) /\ Len(new) = Len(list) + 1
        /\ \A i \in 1 .. Len(list) + 1 :
              new[i] = IF i < p THEN list[i] ELSE IF i = p THEN t ELSE list[i - 1]
    BY <1>7, InsertAtTyped
  <2>. QED
    BY <2>1, LenProperties
<1> HIDE DEF new
<1>9. \A i \in 1 .. Len(list) : list[i] # t
  BY <1>1 DEF ToSet
<1>10. q \in [list : Seq(Timer), min : Nat]
  BY <1>6, <1>8
<1>11. Distinct(new)
  <2> SUFFICES ASSUME NEW i \in 1 .. Len(list) + 1, NEW j \in 1 .. Len(list) + 1,
                      new[i] = new[j]
               PROVE  i = j
    BY <1>8 DEF Distinct
  <2> DEFINE At(x) == IF x < p THEN x ELSE x - 1
  <2>1. CASE i = p \/ j = p
    BY <2>1, <1>1, <1>7, <1>8, <1>9
  <2>2. CASE i # p /\ j # p
    <3>1. At(i) \in 1 .. Len(list) /\ At(j) \in 1 .. Len(list)
          /\ new[i] = list[At(i)] /\ new[j] = list[At(j)]
      BY <2>2, <1>1, <1>7, <1>8
    <3>2. At(i) = At(j)
      BY <3>1, <1>1 DEF Distinct
    <3>. QED
      BY <3>2, <2>2, <1>7
  <2>. QED
    BY <2>1, <2>2
<1>12. ToSet(new) = ToSet(list) \cup {t}
  <2>1. ASSUME NEW x \in ToSet(new) PROVE x \in ToSet(list) \cup {t}
    <3>1. PICK i \in 1 .. Len(list) + 1 : x = new[i]
      BY <1>8 DEF ToSet
    <3>2. CASE i < p
      <4>1. i \in DOMAIN list /\ x = list[i]
        BY <3>1, <3>2, <1>1, <1>7, <1>8
      <4>. QED
        BY <4>1 DEF ToSet
    <3>3. CASE i > p
      <4>1. i - 1 \in DOMAIN list /\ x = list[i - 1]
        BY <3>1, <3>3, <1>1, <1>7, <1>8
      <4>. QED
        BY <4>1 DEF ToSet
    <3>4. CASE i = p
      BY <3>1, <3>4, <1>8
    <3>. QED
      BY <3>2, <3>3, <3>4, <1>7
  <2>2. t \in ToSet(new)
    <3>1. new[p] = t /\ p \in DOMAIN new
      BY <1>7, <1>8
    <3>. QED
      BY <3>1 DEF ToSet
  <2>3. ASSUME NEW x \in ToSet(list) PROVE x \in ToSet(new)
    <3>1. PICK i \in 1 .. Len(list) : x = list[i]
      BY <1>1 DEF ToSet
    <3>2. CASE i < p
      <4>1. i \in DOMAIN new /\ x = new[i]
        BY <3>1, <3>2, <1>1, <1>7, <1>8
      <4>. QED
        BY <4>1 DEF ToSet
    <3>3. CASE i >= p
      <4>1. i + 1 \in DOMAIN new /\ x = new[i + 1]
        BY <3>1, <3>3, <1>1, <1>7, <1>8
      <4>. QED
        BY <4>1 DEF ToSet
    <3>. QED
      BY <3>2, <3>3, <1>7
  <2>. QED
    BY <2>1, <2>2, <2>3
<1>13. Sorted(q, tm)
  <2>1. Head(new) = new[1] /\ 1 \in 1 .. Len(list) + 1
    BY <1>1, <1>8
  <2>2. q.min = tm[new[1]].timestamp
    <3>1. CASE p = 1
      BY <3>1, <2>1, <1>6, <1>8
    <3>2. CASE p # 1
      <4>1. list # <<>> /\ new[1] = list[1] /\ Head(list) = list[1]
        BY <3>2, <1>1, <1>7, <1>8, <2>1
      <4>2. min = tm[list[1]].timestamp
        BY <4>1 DEF Sorted
      <4>. QED
        BY <3>2, <4>1, <4>2, <1>6
    <3>. QED
      BY <3>1, <3>2
  <2>3. ASSUME NEW i \in 1 .. Len(list) + 1, NEW j \in 1 .. Len(list) + 1, i < j
        PROVE  tm[new[i]].timestamp <= tm[new[j]].timestamp
    <3>1. CASE j < p
      BY <3>1, <2>3, <1>1, <1>4, <1>7, <1>8
    <3>2. CASE j = p
      <4>1. i \in 1 .. k /\ new[i] = list[i] /\ new[j] = t
        BY <3>2, <2>3, <1>1, <1>7, <1>8
      <4>. QED
        BY <4>1, <1>3
    <3>3. CASE i = p
      <4>1. j - 1 \in 1 .. Len(list) /\ j - 1 > k /\ new[j] = list[j - 1] /\ new[i] = t
        BY <3>3, <2>3, <1>1, <1>7, <1>8
      <4>. QED
        BY <4>1, <1>5
    <3>4. CASE i < p /\ j > p
      <4>1. i \in 1 .. Len(list) /\ j - 1 \in 1 .. Len(list) /\ i < j - 1
            /\ new[j] = list[j - 1] /\ new[i] = list[i]
        BY <3>4, <2>3, <1>1, <1>7, <1>8
      <4>. QED
        BY <4>1, <1>4
    <3>5. CASE i > p
      <4>1. i - 1 \in 1 .. Len(list) /\ j - 1 \in 1 .. Len(list) /\ i - 1 < j - 1
            /\ new[j] = list[j - 1] /\ new[i] = list[i - 1]
        BY <3>5, <2>3, <1>1, <1>7, <1>8
      <4>. QED
        BY <4>1, <1>4
    <3>. QED
      BY <3>1, <3>2, <3>3, <3>4, <3>5, <2>3, <1>7
  <2>4. q.list = new /\ DOMAIN q.list = 1 .. Len(list) + 1 /\ Head(q.list) = new[1]
    BY <2>1, <1>6, <1>8
  <2>5. q.list # <<>> => q.min = tm[Head(q.list)].timestamp
    BY <2>2, <2>4
  <2>6. \A i, j \in DOMAIN q.list :
           i < j => tm[q.list[i]].timestamp <= tm[q.list[j]].timestamp
    BY <2>3, <2>4
  <2>. QED
    BY <2>5, <2>6 DEF Sorted
<1>. QED
  BY <1>6, <1>10, <1>11, <1>12, <1>13

\* A timer is taken off the list wherever it is.
LEMMA RemoveKeeps ==
    ASSUME NEW list \in Seq(Timer), NEW min, NEW tm, \A x \in Timer : tm[x].timestamp \in Nat,
           Sorted([list |-> list, min |-> min], tm), Distinct(list), min \in Nat, now \in Nat,
           NEW t \in ToSet(list), NEW q, q = Removed([list |-> list, min |-> min], tm, t)
    PROVE  /\ q \in [list : Seq(Timer), min : Nat]
           /\ Sorted(q, tm) /\ Distinct(q.list)
           /\ ToSet(q.list) = ToSet(list) \ {t}
<1> DEFINE p == Position(list, t)
           rest == RemoveAt(list, p)
<1>1. /\ Len(list) \in Nat /\ DOMAIN list = 1 .. Len(list)
      /\ \A i \in 1 .. Len(list) : list[i] \in Timer
  BY LenProperties, ElementOfSeq
<1>2. p \in 1 .. Len(list) /\ list[p] = t
  <2>1. \E i \in DOMAIN list : list[i] = t
    BY DEF ToSet
  <2>. QED
    BY <2>1, <1>1 DEF Position
<1>3. q = [list |-> rest,
           min  |-> IF t # Head(list) THEN min
                    ELSE IF rest # <<>> THEN tm[Head(rest)].timestamp ELSE now]
  BY DEF Removed
<1>a. /\ q.list = rest
      /\ t # Head(list) => q.min = min
      /\ t = Head(list) /\ rest # <<>> => q.min = tm[Head(rest)].timestamp
      /\ t = Head(list) /\ rest = <<>> => q.min = now
  <2> HIDE DEF p, rest
  <2>1. t # Head(list) => q = [list |-> rest, min |-> min]
    BY <1>3
  <2>2. t = Head(list) /\ rest # <<>> => q = [list |-> rest, min |-> tm[Head(rest)].timestamp]
    BY <1>3
  <2>3. t = Head(list) /\ rest = <<>> => q = [list |-> rest, min |-> now]
    BY <1>3
  <2>. QED
    BY <2>1, <2>2, <2>3
<1> HIDE DEF p
<1>4. /\ rest \in Seq(Timer) /\ Len(rest) = Len(list) - 1
      /\ \A i \in 1 .. Len(list) - 1 : rest[i] = IF i < p THEN list[i] ELSE list[i + 1]
      /\ DOMAIN rest = 1 .. Len(list) - 1
  BY <1>2, RemoveAtTyped, LenProperties
<1> HIDE DEF rest
<1>5. \A i, j \in 1 .. Len(list) : i < j => tm[list[i]].timestamp <= tm[list[j]].timestamp
  BY <1>1 DEF Sorted
<1>6. \A i, j \in 1 .. Len(list) : list[i] = list[j] => i = j
  BY <1>1 DEF Distinct
<1>7. /\ Head(list) = list[1] /\ 1 \in 1 .. Len(list) /\ list # <<>>
      /\ rest # <<>> => Head(rest) = rest[1] /\ 1 \in 1 .. Len(list) - 1
  BY <1>1, <1>2, <1>4
<1>8. min = tm[list[1]].timestamp /\ (t # Head(list) <=> p # 1)
  BY <1>2, <1>6, <1>7 DEF Sorted
<1>9. q.list = rest /\ q.min \in Nat /\ (rest # <<>> => q.min = tm[Head(rest)].timestamp)
  <2>1. CASE p # 1
    <3>1. q.min = min
      BY <2>1, <1>a, <1>8
    <3>2. rest # <<>> => rest[1] = list[1]
      BY <2>1, <1>2, <1>4, <1>7
    <3>. QED
      BY <3>1, <3>2, <1>a, <1>7, <1>8
  <2>2. CASE p = 1 /\ rest # <<>>
    <3>1. q.min = tm[Head(rest)].timestamp
      BY <2>2, <1>a, <1>8
    <3>2. Head(rest) \in Timer
      BY <2>2, <1>4
    <3>. QED
      BY <3>1, <3>2, <1>a
  <2>3. CASE p = 1 /\ rest = <<>>
    <3>1. q.min = now
      BY <2>3, <1>a, <1>8
    <3>. QED
      BY <3>1, <2>3, <1>a
  <2>. QED
    BY <2>1, <2>2, <2>3
<1>10. q \in [list : Seq(Timer), min : Nat]
  BY <1>3, <1>4, <1>9
<1> DEFINE At(x) == IF x < p THEN x ELSE x + 1
<1>11. \A i \in 1 .. Len(list) - 1 : /\ At(i) \in 1 .. Len(list) /\ At(i) # p
                                     /\ rest[i] = list[At(i)]
  BY <1>1, <1>2, <1>4
<1>12. \A i, j \in 1 .. Len(list) - 1 : (At(i) = At(j) => i = j) /\ (i < j => At(i) < At(j))
  BY <1>1, <1>2
<1> HIDE DEF At
<1>13. Distinct(rest)
  <2> SUFFICES ASSUME NEW i \in 1 .. Len(list) - 1, NEW j \in 1 .. Len(list) - 1,
                      rest[i] = rest[j]
               PROVE  i = j
    BY <1>4 DEF Distinct
  <2>1. At(i) = At(j)
    BY <1>6, <1>11
  <2>. QED
    BY <2>1, <1>12
<1>14. Sorted(q, tm)
  <2>1. ASSUME NEW i \in 1 .. Len(list) - 1, NEW j \in 1 .. Len(list) - 1, i < j
        PROVE  tm[rest[i]].timestamp <= tm[rest[j]].timestamp
    BY <2>1, <1>5, <1>11, <1>12
  <2>. QED
    BY <2>1, <1>4, <1>9 DEF Sorted
<1>15. ToSet(rest) = ToSet(list) \ {t}
  <2>1. ASSUME NEW x \in ToSet(rest) PROVE x \in ToSet(list) \ {t}
    <3>1. PICK i \in 1 .. Len(list) - 1 : x = rest[i]
      BY <1>4 DEF ToSet
    <3>2. x = list[At(i)] /\ At(i) \in DOMAIN list /\ x # t
      BY <3>1, <1>1, <1>2, <1>6, <1>11
    <3>. QED
      BY <3>2 DEF ToSet
  <2>2. ASSUME NEW x \in ToSet(list), x # t PROVE x \in ToSet(rest)
    <3>1. PICK i \in 1 .. Len(list) : x = list[i]
      BY <1>1 DEF ToSet
    <3>2. CASE i < p
      <4>1. i \in DOMAIN rest /\ x = rest[i]
        BY <3>1, <3>2, <1>1, <1>2, <1>4
      <4>. QED
        BY <4>1 DEF ToSet
    <3>3. CASE i > p
      <4>1. i - 1 \in DOMAIN rest /\ x = rest[i - 1]
        BY <3>1, <3>3, <1>1, <1>2, <1>4
      <4>. QED
        BY <4>1 DEF ToSet
    <3>4. i # p
      BY <2>2, <3>1, <1>2
    <3>. QED
      BY <3>2, <3>3, <3>4, <1>2
  <2>. QED
    BY <2>1, <2>2
<1>. QED
  BY <1>9, <1>10, <1>13, <1>14, <1>15

LEMMA Insertion ==
    ASSUME NEW old \in QueueType, NEW tm, \A x \in Timer : tm[x].timestamp \in Nat,
           Sorted(old, tm), Distinct(old.list), NEW t \in Timer, t \notin ToSet(old.list)
    PROVE  /\ Inserted(old, tm, t) \in QueueType
           /\ Sorted(Inserted(old, tm, t), tm) /\ Distinct(Inserted(old, tm, t).list)
           /\ ToSet(Inserted(old, tm, t).list) = ToSet(old.list) \cup {t}
<1>1. old.list \in Seq(Timer) /\ old.min \in Nat /\ old = [list |-> old.list, min |-> old.min]
  BY DEF QueueType
<1>2. Sorted([list |-> old.list, min |-> old.min], tm)
  BY <1>1, Zenon
<1>3. PICK q : q = Inserted(old, tm, t)
  OBVIOUS
<1>4. q = Inserted([list |-> old.list, min |-> old.min], tm, t)
  BY <1>1, <1>3, Zenon
<1>5. /\ q \in [list : Seq(Timer), min : Nat]
      /\ Sorted(q, tm) /\ Distinct(q.list) /\ ToSet(q.list) = ToSet(old.list) \cup {t}
  BY <1>1, <1>2, <1>4, InsertKeeps
<1>. QED
  BY <1>3, <1>5 DEF QueueType

LEMMA Removal ==
    ASSUME NEW old \in QueueType, NEW tm, \A x \in Timer : tm[x].timestamp \in Nat,
           Sorted(old, tm), Distinct(old.list), now \in Nat, NEW t \in ToSet(old.list)
    PROVE  /\ Removed(old, tm, t) \in QueueType
           /\ Sorted(Removed(old, tm, t), tm) /\ Distinct(Removed(old, tm, t).list)
           /\ ToSet(Removed(old, tm, t).list) = ToSet(old.list) \ {t}
<1>1. old.list \in Seq(Timer) /\ old.min \in Nat /\ old = [list |-> old.list, min |-> old.min]
  BY DEF QueueType
<1>2. Sorted([list |-> old.list, min |-> old.min], tm)
  BY <1>1, Zenon
<1>3. PICK q : q = Removed(old, tm, t)
  OBVIOUS
<1>4. q = Removed([list |-> old.list, min |-> old.min], tm, t)
  BY <1>1, <1>3, Zenon
<1>5. /\ q \in [list : Seq(Timer), min : Nat]
      /\ Sorted(q, tm) /\ Distinct(q.list) /\ ToSet(q.list) = ToSet(old.list) \ {t}
  BY <1>1, <1>2, <1>4, RemoveKeeps
<1>. QED
  BY <1>3, <1>5 DEF QueueType

LEMMA SplitParts ==
    ASSUME NEW list \in Seq(Timer), NEW n \in 0 .. Len(list)
    PROVE  /\ SubSeq(list, 1, n) \in Seq(Timer) /\ Len(SubSeq(list, 1, n)) = n
           /\ \A i \in 1 .. n : SubSeq(list, 1, n)[i] = list[i]
           /\ SubSeq(list, n + 1, Len(list)) \in Seq(Timer)
           /\ Len(SubSeq(list, n + 1, Len(list))) = Len(list) - n
           /\ \A i \in 1 .. (Len(list) - n) : SubSeq(list, n + 1, Len(list))[i] = list[n + i]
<1>1. Len(list) \in Nat /\ n \in Nat /\ \A i \in 1 .. Len(list) : list[i] \in Timer
  BY LenProperties, ElementOfSeq
<1>2. (\A i \in 1 .. n : list[i] \in Timer) /\ (\A i \in n + 1 .. Len(list) : list[i] \in Timer)
  BY <1>1
<1> DEFINE late == SubSeq(list, 1, n)
           rest == SubSeq(list, n + 1, Len(list))
<1>3. /\ late \in Seq(Timer) /\ Len(late) = IF 1 <= n THEN n - 1 + 1 ELSE 0
      /\ \A i \in 1 .. n - 1 + 1 : late[i] = list[1 + i - 1]
  BY <1>1, <1>2, SubSeqProperties
<1>4. /\ rest \in Seq(Timer)
      /\ Len(rest) = IF n + 1 <= Len(list) THEN Len(list) - (n + 1) + 1 ELSE 0
      /\ \A i \in 1 .. Len(list) - (n + 1) + 1 : rest[i] = list[(n + 1) + i - 1]
  BY <1>1, <1>2, SubSeqProperties
<1> HIDE DEF late, rest
<1>5. Len(late) = n /\ \A i \in 1 .. n : late[i] = list[i]
  BY <1>1, <1>3
<1>6. Len(rest) = Len(list) - n /\ \A i \in 1 .. (Len(list) - n) : rest[i] = list[n + i]
  BY <1>1, <1>4
<1>. QED
  BY <1>3, <1>4, <1>5, <1>6 DEF late, rest

\* A list cut in two is two lists with the same timers.
LEMMA Split ==
    ASSUME NEW list \in Seq(Timer), Distinct(list), NEW n \in 0 .. Len(list),
           NEW late \in Seq(Timer), Len(late) = n, \A i \in 1 .. n : late[i] = list[i],
           NEW rest \in Seq(Timer), Len(rest) = Len(list) - n,
           \A i \in 1 .. (Len(list) - n) : rest[i] = list[n + i]
    PROVE  /\ Distinct(late) /\ Distinct(rest)
           /\ ToSet(late) \cup ToSet(rest) = ToSet(list) /\ ToSet(late) \cap ToSet(rest) = {}
           /\ \A x \in ToSet(late) : \E i \in 1 .. n : x = list[i]
           /\ DOMAIN rest = 1 .. (Len(list) - n)
           /\ \A i \in DOMAIN rest : rest[i] = list[n + i] /\ n + i \in DOMAIN list
<1>1. /\ Len(list) \in Nat /\ n \in Nat /\ DOMAIN list = 1 .. Len(list)
      /\ DOMAIN late = 1 .. n /\ DOMAIN rest = 1 .. (Len(list) - n)
  BY LenProperties
<1>2. \A i \in 1 .. (Len(list) - n) : rest[i] = list[n + i] /\ n + i \in n + 1 .. Len(list)
  BY <1>1
<1>4. \A i, j \in 1 .. Len(list) : list[i] = list[j] => i = j
  BY <1>1 DEF Distinct
<1>5. Distinct(late) /\ Distinct(rest)
  <2>1. ASSUME NEW i \in 1 .. n, NEW j \in 1 .. n, late[i] = late[j] PROVE i = j
    BY <2>1, <1>1, <1>4
  <2>2. ASSUME NEW i \in 1 .. (Len(list) - n), NEW j \in 1 .. (Len(list) - n), rest[i] = rest[j]
        PROVE  i = j
    <3>0. /\ n + i \in 1 .. Len(list) /\ n + j \in 1 .. Len(list)
          /\ rest[i] = list[n + i] /\ rest[j] = list[n + j]
      BY <1>1, <1>2
    <3>1. n + i = n + j
      BY <2>2, <3>0, <1>4
    <3>. QED
      BY <3>1, <1>1
  <2>. QED
    BY <2>1, <2>2, <1>1 DEF Distinct
<1>6. \A x \in ToSet(late) : \E i \in 1 .. n : x = list[i]
  BY <1>1 DEF ToSet
<1>7. \A i \in DOMAIN rest : rest[i] = list[n + i] /\ n + i \in DOMAIN list
  BY <1>1, <1>2
<1>8. \A x \in ToSet(rest) : \E i \in n + 1 .. Len(list) : x = list[i]
  BY <1>1, <1>2 DEF ToSet
<1>9. ToSet(late) \cap ToSet(rest) = {}
  <2> SUFFICES ASSUME NEW x \in ToSet(late), x \in ToSet(rest) PROVE FALSE
    OBVIOUS
  <2>1. PICK i \in 1 .. n : x = list[i]
    BY <1>6
  <2>2. PICK j \in n + 1 .. Len(list) : x = list[j]
    BY <1>8
  <2>3. i \in 1 .. Len(list) /\ j \in 1 .. Len(list) /\ i # j
    BY <1>1
  <2>. QED
    BY <2>1, <2>2, <2>3, <1>4
<1>10. ToSet(late) \cup ToSet(rest) \subseteq ToSet(list)
  <2>1. ToSet(late) \subseteq ToSet(list)
    BY <1>1, <1>6 DEF ToSet
  <2>2. ASSUME NEW x \in ToSet(rest) PROVE x \in ToSet(list)
    <3>1. PICK i \in n + 1 .. Len(list) : x = list[i]
      BY <1>8
    <3>2. i \in DOMAIN list
      BY <1>1
    <3>. QED
      BY <3>1, <3>2 DEF ToSet
  <2>. QED
    BY <2>1, <2>2
<1>11. ToSet(list) \subseteq ToSet(late) \cup ToSet(rest)
  <2> SUFFICES ASSUME NEW i \in 1 .. Len(list) PROVE list[i] \in ToSet(late) \cup ToSet(rest)
    BY <1>1 DEF ToSet
  <2>1. CASE i <= n
    <3>1. i \in DOMAIN late /\ list[i] = late[i]
      BY <2>1, <1>1
    <3>. QED
      BY <3>1 DEF ToSet
  <2>2. CASE i > n
    <3>1. i - n \in 1 .. (Len(list) - n) /\ n + (i - n) = i
      BY <2>2, <1>1
    <3>2. list[i] = rest[i - n] /\ i - n \in DOMAIN rest
      BY <3>1, <1>1, <1>2
    <3>. QED
      BY <3>2 DEF ToSet
  <2>. QED
    BY <2>1, <2>2, <1>1
<1>. QED
  BY <1>1, <1>5, <1>6, <1>7, <1>9, <1>10, <1>11

\* The head of a list leaves it.
LEMMA Taken ==
    ASSUME NEW list \in Seq(Timer), Distinct(list), list # <<>>
    PROVE  /\ Head(list) \in Timer /\ Head(list) \in ToSet(list)
           /\ Tail(list) \in Seq(Timer) /\ Distinct(Tail(list))
           /\ ToSet(Tail(list)) = ToSet(list) \ {Head(list)}
<1>1. /\ Head(list) \in Timer /\ Tail(list) \in Seq(Timer) /\ Head(list) = list[1]
      /\ Len(list) \in Nat /\ Len(list) >= 1 /\ DOMAIN list = 1 .. Len(list)
      /\ Len(Tail(list)) = Len(list) - 1 /\ DOMAIN Tail(list) = 1 .. (Len(list) - 1)
      /\ \A i \in 1 .. (Len(list) - 1) : Tail(list)[i] = list[i + 1]
  BY HeadTailProperties, EmptySeq, LenProperties
<1> DEFINE rest == Tail(list)
<1> HIDE DEF rest
<1>2. /\ DOMAIN rest = 1 .. (Len(list) - 1)
      /\ \A i \in 1 .. (Len(list) - 1) : rest[i] = list[i + 1]
  BY <1>1 DEF rest
<1>3. \A i, j \in 1 .. Len(list) : list[i] = list[j] => i = j
  BY <1>1 DEF Distinct
<1>4. Distinct(rest)
  BY <1>1, <1>2, <1>3 DEF Distinct
<1>5. ASSUME NEW x \in ToSet(rest) PROVE x \in ToSet(list) \ {list[1]}
  <2>1. PICK i \in 1 .. (Len(list) - 1) : x = rest[i]
    BY <1>2 DEF ToSet
  <2>2. i + 1 \in DOMAIN list /\ x = list[i + 1] /\ i + 1 # 1 /\ 1 \in 1 .. Len(list)
    BY <2>1, <1>1, <1>2
  <2>3. x # list[1]
    BY <2>2, <1>1, <1>3
  <2>. QED
    BY <2>2, <2>3 DEF ToSet
<1>6. ASSUME NEW x \in ToSet(list), x # list[1] PROVE x \in ToSet(rest)
  <2>1. PICK i \in 1 .. Len(list) : x = list[i]
    BY <1>1 DEF ToSet
  <2>2. i - 1 \in DOMAIN rest /\ x = rest[i - 1]
    BY <2>1, <1>1, <1>2, <1>6
  <2>. QED
    BY <2>2 DEF ToSet
<1>7. list[1] \in ToSet(list)
  BY <1>1 DEF ToSet
<1>. QED
  BY <1>1, <1>4, <1>5, <1>6, <1>7 DEF rest

-----------------------------------------------------------------------------
(***************************************************************************)
(* The client's operations.                                                *)
(***************************************************************************)
LEMMA OpAppended ==
    ASSUME NEW seq \in Seq(OpType), Ranked(seq), NEW e \in OpType,
           e.op = "insert" => \A i \in DOMAIN seq : seq[i].timer # e.timer,
           \A i \in DOMAIN seq : seq[i].timer = e.timer => seq[i].op # "cancel"
    PROVE  /\ Append(seq, e) \in Seq(OpType) /\ Ranked(Append(seq, e))
           /\ Len(Append(seq, e)) = Len(seq) + 1 /\ Len(seq) \in Nat
           /\ DOMAIN Append(seq, e) = 1 .. (Len(seq) + 1) /\ DOMAIN seq = 1 .. Len(seq)
           /\ \A i \in 1 .. Len(seq) : Append(seq, e)[i] = seq[i]
           /\ Append(seq, e)[Len(seq) + 1] = e
           /\ ComingIn(Append(seq, e)) = IF e.op = "insert" THEN ComingIn(seq) \cup {e.timer}
                                         ELSE ComingIn(seq)
<1> DEFINE new == Append(seq, e)
<1>1. /\ new \in Seq(OpType) /\ Len(new) = Len(seq) + 1 /\ Len(seq) \in Nat
      /\ DOMAIN new = 1 .. (Len(seq) + 1) /\ DOMAIN seq = 1 .. Len(seq)
      /\ \A i \in 1 .. Len(seq) : new[i] = seq[i]
      /\ new[Len(seq) + 1] = e
  BY AppendProperties, LenProperties
<1> HIDE DEF new
<1>2. Ranked(new)
  <2> SUFFICES ASSUME NEW i \in 1 .. (Len(seq) + 1), NEW j \in 1 .. (Len(seq) + 1),
                      new[i].timer = new[j].timer
               PROVE  /\ new[j].op = "insert" => j <= i
                      /\ new[i].op = "cancel" => j <= i
    BY <1>1 DEF Ranked
  <2>1. CASE i \in 1 .. Len(seq) /\ j \in 1 .. Len(seq)
    BY <2>1, <1>1 DEF Ranked
  <2>2. CASE i = Len(seq) + 1
    BY <2>2, <1>1
  <2>3. CASE i \in 1 .. Len(seq) /\ j = Len(seq) + 1
    BY <2>3, <1>1
  <2>. QED
    BY <2>1, <2>2, <2>3, <1>1
<1>3. CASE e.op = "insert"
  <2>1. ASSUME NEW x \in ComingIn(new) PROVE x \in ComingIn(seq) \cup {e.timer}
    BY <1>1 DEF ComingIn
  <2>2. ComingIn(seq) \subseteq ComingIn(new)
    BY <1>1 DEF ComingIn
  <2>3. e.timer \in ComingIn(new)
    <3>1. Len(seq) + 1 \in DOMAIN new
      BY <1>1
    <3>. QED
      BY <3>1, <1>1, <1>3 DEF ComingIn
  <2>. QED
    BY <1>1, <1>2, <1>3, <2>1, <2>2, <2>3 DEF new
<1>4. CASE e.op # "insert"
  <2>1. ASSUME NEW x \in ComingIn(new) PROVE x \in ComingIn(seq)
    BY <1>1, <1>4 DEF ComingIn
  <2>2. ComingIn(seq) \subseteq ComingIn(new)
    BY <1>1 DEF ComingIn
  <2>. QED
    BY <1>1, <1>2, <1>4, <2>1, <2>2 DEF new
<1>. QED
  BY <1>3, <1>4

LEMMA OpTaken ==
    ASSUME NEW seq \in Seq(OpType), Ranked(seq), seq # <<>>
    PROVE  /\ Head(seq) \in OpType /\ Head(seq) = seq[1] /\ 1 \in DOMAIN seq
           /\ Tail(seq) \in Seq(OpType) /\ Ranked(Tail(seq))
           /\ Len(seq) \in Nat /\ Len(seq) >= 1 /\ Len(Tail(seq)) = Len(seq) - 1
           /\ DOMAIN Tail(seq) = 1 .. (Len(seq) - 1)
           /\ \A i \in DOMAIN Tail(seq) : Tail(seq)[i] = seq[i + 1] /\ i + 1 \in DOMAIN seq
           /\ ComingIn(Tail(seq)) = IF seq[1].op = "insert" THEN ComingIn(seq) \ {seq[1].timer}
                                    ELSE ComingIn(seq)
           /\ seq[1].op = "insert" => seq[1].timer \in ComingIn(seq)
           /\ seq[1].op # "insert" => seq[1].timer \notin ComingIn(seq)
           /\ seq[1].op = "cancel" => \A i \in DOMAIN Tail(seq) : Tail(seq)[i].timer # seq[1].timer
<1> DEFINE rest == Tail(seq)
<1>1. /\ Head(seq) \in OpType /\ rest \in Seq(OpType) /\ Head(seq) = seq[1]
      /\ Len(seq) \in Nat /\ Len(seq) >= 1 /\ DOMAIN seq = 1 .. Len(seq)
      /\ Len(rest) = Len(seq) - 1 /\ DOMAIN rest = 1 .. (Len(seq) - 1)
      /\ \A i \in 1 .. (Len(seq) - 1) : rest[i] = seq[i + 1]
  BY HeadTailProperties, EmptySeq, LenProperties
<1> HIDE DEF rest
<1>2. /\ 1 \in DOMAIN seq
      /\ \A i \in DOMAIN rest : rest[i] = seq[i + 1] /\ i + 1 \in DOMAIN seq /\ i \in Nat
  BY <1>1
<1>3. Ranked(rest)
  BY <1>1, <1>2 DEF Ranked
<1>4. ASSUME NEW x \in ComingIn(rest)
      PROVE  x \in ComingIn(seq) /\ (seq[1].op = "insert" => x # seq[1].timer)
  <2>1. PICK i \in DOMAIN rest : rest[i].op = "insert" /\ x = rest[i].timer
    BY DEF ComingIn
  <2>2. seq[i + 1].op = "insert" /\ x = seq[i + 1].timer /\ i + 1 \in DOMAIN seq
    BY <2>1, <1>2
  <2>3. ~(i + 1 <= 1)
    BY <2>1, <1>1
  <2>4. seq[1].timer # x
    BY <2>2, <2>3, <1>2 DEF Ranked
  <2>. QED
    BY <2>2, <2>4 DEF ComingIn
<1>5. ASSUME NEW x \in ComingIn(seq), seq[1].op = "insert" => x # seq[1].timer
      PROVE  x \in ComingIn(rest)
  <2>1. PICK i \in DOMAIN seq : seq[i].op = "insert" /\ x = seq[i].timer
    BY DEF ComingIn
  <2>2. i # 1
    BY <2>1, <1>5
  <2>3. i - 1 \in DOMAIN rest /\ rest[i - 1] = seq[i]
    BY <2>2, <1>1
  <2>. QED
    BY <2>1, <2>3 DEF ComingIn
<1>6. seq[1].op = "insert" => seq[1].timer \in ComingIn(seq)
  BY <1>2 DEF ComingIn
<1>7. ASSUME seq[1].op # "insert", seq[1].timer \in ComingIn(seq) PROVE FALSE
  <2>1. PICK i \in DOMAIN seq : seq[i].op = "insert" /\ seq[1].timer = seq[i].timer
    BY <1>7 DEF ComingIn
  <2>2. i <= 1
    BY <2>1, <1>2 DEF Ranked
  <2>3. i = 1
    BY <2>2, <1>1
  <2>. QED
    BY <2>1, <2>3, <1>7
<1>8. ASSUME seq[1].op = "cancel", NEW i \in DOMAIN rest, rest[i].timer = seq[1].timer PROVE FALSE
  <2>1. i + 1 <= 1
    BY <1>2, <1>8 DEF Ranked
  <2>. QED
    BY <2>1, <1>1
<1>9. ComingIn(rest) = IF seq[1].op = "insert" THEN ComingIn(seq) \ {seq[1].timer}
                       ELSE ComingIn(seq)
  BY <1>4, <1>5
<1>. QED
  BY <1>1, <1>2, <1>3, <1>6, <1>7, <1>8, <1>9 DEF rest

-----------------------------------------------------------------------------
(***************************************************************************)
(* What a step leaves alone.                                               *)
(***************************************************************************)
LEMMA Types ==
    ASSUME TypeOK
    PROVE  /\ timer \in [Timer -> TimerType] /\ queue \in QueueType
           /\ queue.list \in Seq(Timer) /\ queue.min \in Nat
           /\ done \in Seq(Timer) /\ ops \in Seq(OpType)
           /\ now \in Nat /\ MaxNow \in Nat /\ deadline \in Nat /\ batch \in Nat
           /\ \A t \in Timer : timer[t].timestamp \in Nat
           /\ Listed \subseteq Timer /\ Late \subseteq Timer /\ Coming \subseteq Timer
<1>1. /\ timer \in [Timer -> TimerType] /\ queue \in QueueType
      /\ queue.list \in Seq(Timer) /\ queue.min \in Nat
      /\ done \in Seq(Timer) /\ ops \in Seq(OpType)
  BY DEF TypeOK, TimerType, QueueType, OpType
<1>2. now \in Nat /\ MaxNow \in Nat /\ deadline \in Nat /\ batch \in Nat
  BY <1>1, BoundsAssumption, LenProperties DEF TypeOK
<1>3. \A t \in Timer : timer[t].timestamp \in Nat
  BY <1>1 DEF TimerType
<1>4. Listed \subseteq Timer /\ Late \subseteq Timer
  BY <1>1, ElementOfSeq, LenProperties DEF Listed, Late, ToSet
<1>5. Coming \subseteq Timer
  <2>1. \A i \in DOMAIN ops : ops[i] \in OpType
    BY <1>1, ElementOfSeq, LenProperties
  <2>. QED
    BY <2>1 DEF Coming, ComingIn, OpType
<1>. QED
  BY <1>1, <1>2, <1>3, <1>4, <1>5

LEMMA OpTyped ==
    ASSUME TypeOK, NEW i \in DOMAIN ops
    PROVE  ops[i] \in OpType /\ ops[i].timer \in Timer
<1>1. ops \in Seq(OpType)
  BY Types
<1>2. ops[i] \in OpType
  BY <1>1, ElementOfSeq, LenProperties
<1>. QED
  BY <1>2 DEF OpType

LEMMA PlacedKept ==
    ASSUME NEW t \in Timer, Placed(t), timer'[t] = timer[t],
           t \in Coming' <=> t \in Coming, t \in Listed' <=> t \in Listed,
           t \in Late' <=> t \in Late, current' = t <=> current = t,
           timer[t].timestamp \in Nat, now \in Nat, now' \in Nat, now <= now'
    PROVE  Placed(t)'
BY DEF Placed

LEMMA CancelledKept ==
    ASSUME NEW t \in Timer, Cancelled(t), timer'[t] = timer[t],
           t \in cancelled' <=> t \in cancelled,
           t \in requested' => t \in requested \/ timer[t].mem = "allocated"
    PROVE  Cancelled(t)'
BY DEF Cancelled

LEMMA InTurnKept ==
    ASSUME InTurn, ops' = ops, requested \subseteq requested',
           \A i \in DOMAIN ops : ops[i].op # "insert" =>
              timer'[ops[i].timer].mem = "allocated" /\ timer'[ops[i].timer].alive
              /\ timer'[ops[i].timer].interval > 0
    PROVE  InTurn'
BY DEF InTurn, Served

LEMMA ListsKept ==
    ASSUME TypeOK, Lists, UNCHANGED <<queue, done>>,
           \A t \in Listed : timer'[t].timestamp = timer[t].timestamp
    PROVE  Lists'
<1>1. \A i \in DOMAIN queue.list : queue.list[i] \in Listed
  BY DEF Listed, ToSet
<1>2. queue.list # <<>> => Head(queue.list) \in Listed
  <2>1. queue.list # <<>> => 1 \in DOMAIN queue.list /\ Head(queue.list) = queue.list[1]
    BY Types, HeadTailProperties, LenProperties, EmptySeq
  <2>. QED
    BY <2>1, <1>1
<1>3. Sorted(queue, timer')
  BY <1>1, <1>2 DEF Lists, Sorted
<1>. QED
  BY <1>3 DEF Lists

\* Of the operations of the client's, those on this timer are its insertion alone.
LEMMA FreeHasNoOps ==
    ASSUME InTurn, NEW t \in Timer, ~(timer[t].mem = "allocated" /\ timer[t].alive /\ timer[t].interval > 0),
           NEW i \in DOMAIN ops, ops[i].op # "insert"
    PROVE  ops[i].timer # t
BY DEF InTurn, Served

-----------------------------------------------------------------------------
(***************************************************************************)
(* The invariant holds at first, and each step keeps it.                   *)
(***************************************************************************)
LEMMA InvInit == Init => Inv
<1> SUFFICES ASSUME Init PROVE Inv
  OBVIOUS
<1>1. TypeOK
  <2>1. timer \in [Timer -> TimerType]
    BY DEF Init, NoTimer, TimerType
  <2>2. queue \in [list : Seq(Timer), min : Nat] /\ done \in Seq(Timer)
        /\ ops \in Seq([op : {"insert", "cancel", "refresh"}, timer : Timer])
    BY DEF Init
  <2>3. now \in 0 .. MaxNow /\ batch \in 0 .. Len(ops)
    BY BoundsAssumption DEF Init
  <2>4. current \in Timer \cup {None} /\ ((pc = "callback") <=> (current # None)) /\ pc \in Pcs
        /\ deadline \in Nat /\ requested \subseteq Timer /\ cancelled \subseteq requested
    BY DEF Init, Pcs
  <2>. QED
    BY <2>1, <2>2, <2>3, <2>4 DEF TypeOK, TimerType
<1>2. queue.list = <<>> /\ done = <<>> /\ ops = <<>> /\ batch = 0 /\ pc = "poll"
      /\ current = None /\ requested = {} /\ cancelled = {} /\ fault = "none"
      /\ \A t \in Timer : timer[t].mem = "unused"
  BY DEF Init, NoTimer
<1>3. Lists /\ Phases
  BY <1>2 DEF Lists, Distinct, Sorted, Phases, NoOversleep
<1>4. Listed = {} /\ Late = {} /\ Coming = {} /\ InTurn
  BY <1>2 DEF Listed, Late, ToSet, Coming, ComingIn, InTurn, Ranked
<1>5. \A t \in Timer : Placed(t) /\ Cancelled(t)
  BY <1>2, <1>4, NoneAssumption DEF Placed, Cancelled
<1>. QED
  BY <1>1, <1>2, <1>3, <1>4, <1>5 DEF Inv

\* Steps of the loop thread and the clock that touch no timer and no operation.
LEMMA InvQuiet ==
    ASSUME Inv,
           Poll \/ (pc = "wait" /\ WakeUp) \/ TasksDone \/ AllFired \/ Tick \/ UNCHANGED vars
    PROVE  Inv'
<1>1. /\ UNCHANGED <<timer, queue, done, current, ops, requested, cancelled, fault>>
      /\ now' \in 0 .. MaxNow /\ now <= now'
      /\ deadline' \in Nat /\ batch' \in 0 .. Len(ops)
      /\ pc' \in Pcs /\ (pc = "callback" <=> pc' = "callback")
      /\ pc' = "destroyed" <=> pc = "destroyed"
      /\ batch' > 0 => pc' = "tasks"
      /\ done # <<>> => pc' \in {"fire", "callback"}
  <2>0. /\ now \in 0 .. MaxNow /\ MaxNow \in Nat /\ deadline \in Nat /\ batch \in 0 .. Len(ops)
        /\ queue.min \in Nat /\ PollCap \in Nat /\ pc \in Pcs /\ Len(ops) \in Nat
        /\ batch > 0 => pc = "tasks"
        /\ done # <<>> => pc \in {"fire", "callback"}
    BY Types, PollCapAssumption, LenProperties DEF Inv, TypeOK, Phases
  <2>1. CASE Poll
    BY <2>0, <2>1 DEF Poll, Timeout, Pcs
  <2>2. CASE pc = "wait" /\ WakeUp
    BY <2>0, <2>2 DEF WakeUp, Pcs
  <2>3. CASE TasksDone
    BY <2>0, <2>3 DEF TasksDone, Pcs
  <2>4. CASE AllFired
    BY <2>0, <2>4 DEF AllFired, Pcs
  <2>5. CASE Tick
    BY <2>0, <2>5 DEF Tick, Pcs
  <2>6. CASE UNCHANGED vars
    BY <2>0, <2>6 DEF vars, Pcs
  <2>. QED
    BY <2>1, <2>2, <2>3, <2>4, <2>5, <2>6
<1>2. NoOversleep'
  <2>0. Listed' = Listed /\ \A t \in Listed : timer[t].timestamp \in Nat
    BY <1>1, Types DEF Listed, Inv
  <2>1. CASE Poll
    <3> SUFFICES ASSUME NEW t \in Listed
                 PROVE  deadline' <= timer[t].timestamp \/ deadline' <= now
      BY <1>1, <2>0, <2>1 DEF NoOversleep, Poll, Listed
    <3>1. queue.list # <<>> /\ queue.min <= timer[t].timestamp
      <4>1. PICK i \in DOMAIN queue.list : t = queue.list[i]
        BY DEF Listed, ToSet
      <4>2. /\ queue.list # <<>> /\ Head(queue.list) = queue.list[1]
            /\ DOMAIN queue.list = 1 .. Len(queue.list) /\ Len(queue.list) \in Nat
            /\ 1 \in DOMAIN queue.list
        BY <4>1, Types, LenProperties, EmptySeq, HeadTailProperties DEF Inv
      <4>3. queue.min = timer[queue.list[1]].timestamp
        BY <4>2 DEF Inv, Lists, Sorted
      <4>4. CASE i = 1
        BY <4>1, <4>3, <4>4, <2>0
      <4>5. CASE i # 1
        BY <4>1, <4>2, <4>3, <4>5 DEF Inv, Lists, Sorted
      <4>. QED
        BY <4>2, <4>4, <4>5
    <3>2. now \in Nat /\ queue.min \in Nat /\ PollCap \in Nat /\ deadline' = now + Timeout
      BY <2>1, Types, PollCapAssumption DEF Poll, Inv
    <3>. QED
      BY <3>1, <3>2, <2>0 DEF Timeout
  <2>2. CASE pc = "wait" /\ WakeUp
    BY <2>2 DEF WakeUp, NoOversleep
  <2>3. CASE TasksDone
    BY <2>3 DEF TasksDone, NoOversleep
  <2>4. CASE AllFired
    BY <2>4 DEF AllFired, NoOversleep
  <2>5. CASE Tick \/ UNCHANGED vars
    <3>1. UNCHANGED <<pc, deadline>>
      BY <2>5 DEF Tick, vars
    <3>2. now \in Nat /\ now' \in Nat /\ deadline \in Nat
      BY <1>1, Types DEF Inv
    <3>. QED
      BY <3>1, <3>2, <1>1 DEF Inv, Phases, NoOversleep
  <2>. QED
    BY <2>1, <2>2, <2>3, <2>4, <2>5
<1>3. TypeOK'
  BY <1>1 DEF Inv, TypeOK
<1>4. Lists'
  BY <1>1, ListsKept DEF Inv
<1>5. Phases'
  BY <1>1, <1>2 DEF Phases
<1>6. ASSUME pc' # "destroyed" PROVE InTurn' /\ \A t \in Timer : Placed(t)' /\ Cancelled(t)'
  <2>1. InTurn /\ \A t \in Timer : Placed(t) /\ Cancelled(t)
    BY <1>1, <1>6 DEF Inv
  <2>2. UNCHANGED <<Listed, Late, Coming>>
    BY <1>1 DEF Listed, Late, Coming
  <2>3. InTurn'
    BY <1>1, <2>1 DEF InTurn, Served
  <2>4. now \in Nat /\ now' \in Nat /\ \A t \in Timer : timer[t].timestamp \in Nat
    BY <1>1, Types DEF Inv
  <2>5. ASSUME NEW t \in Timer PROVE Placed(t)'
    BY <1>1, <2>1, <2>2, <2>4, PlacedKept
  <2>6. ASSUME NEW t \in Timer PROVE Cancelled(t)'
    BY <1>1, <2>1 DEF Cancelled
  <2>. QED
    BY <2>3, <2>5, <2>6
<1>. QED
  BY <1>1, <1>3, <1>4, <1>5, <1>6 DEF Inv

-----------------------------------------------------------------------------
(***************************************************************************)
(* What an operation does to its timer, wherever the timer is.             *)
(***************************************************************************)
LEMMA SortedKept ==
    ASSUME NEW q \in QueueType, NEW tm, NEW tn, Sorted(q, tm),
           \A x \in ToSet(q.list) : tn[x].timestamp = tm[x].timestamp
    PROVE  Sorted(q, tn)
<1>1. q.list \in Seq(Timer)
  BY DEF QueueType
<1>2. \A i \in DOMAIN q.list : q.list[i] \in ToSet(q.list)
  BY DEF ToSet
<1>3. q.list # <<>> => Head(q.list) \in ToSet(q.list)
  <2>1. q.list # <<>> => 1 \in DOMAIN q.list /\ Head(q.list) = q.list[1]
    BY <1>1, HeadTailProperties, LenProperties, EmptySeq
  <2>. QED
    BY <2>1, <1>2
<1>. QED
  BY <1>2, <1>3 DEF Sorted

LEMMA FreedTimer ==
    ASSUME timer \in [Timer -> TimerType], NEW t \in Timer
    PROVE  /\ Freed(t) \in [Timer -> TimerType] /\ Freed(t)[t].mem = "freed"
           /\ \A u \in Timer \ {t} : Freed(t)[u] = timer[u]
<1> DEFINE gone == [NoTimer EXCEPT !.mem = "freed"]
<1>1. gone \in TimerType /\ gone.mem = "freed"
  BY DEF NoTimer, TimerType
<1>2. Freed(t) = [timer EXCEPT ![t] = gone]
  BY DEF Freed
<1> HIDE DEF gone
<1>. QED
  BY <1>1, <1>2

\* A new timer of a user's.
LEMMA TimerMade ==
    ASSUME timer \in [Timer -> TimerType], now \in Nat, NEW iv \in Intervals, NEW every \in BOOLEAN
    PROVE  /\ NewTimer(iv, every) \in TimerType
           /\ NewTimer(iv, every).mem = "allocated" /\ NewTimer(iv, every).alive
           /\ ~NewTimer(iv, every).expired /\ ~NewTimer(iv, every).inCallback
           /\ ~NewTimer(iv, every).inQueue
<1>1. iv \in Nat /\ now + iv \in Nat /\ (IF every THEN iv ELSE 0) \in Intervals \cup {0}
  BY IntervalsAssumption
<1>2. PICK length : length = IF every THEN iv ELSE 0
  OBVIOUS
<1>3. NewTimer(iv, every) = [NoTimer EXCEPT !.mem = "allocated", !.alive = TRUE,
                                            !.timestamp = now + iv, !.interval = length]
  BY <1>2 DEF NewTimer
<1>4. NoTimer \in TimerType /\ length \in Intervals \cup {0}
  BY <1>1, <1>2 DEF NoTimer, TimerType
<1>5. NewTimer(iv, every) \in TimerType
  BY <1>1, <1>3, <1>4 DEF TimerType
<1>6. ~NoTimer.expired /\ ~NoTimer.inCallback /\ ~NoTimer.inQueue
  BY DEF NoTimer
<1>. QED
  BY <1>3, <1>4, <1>5, <1>6 DEF TimerType

\* A change of one field leaves the others.
LEMMA FieldsSet ==
    ASSUME NEW tm \in [Timer -> TimerType], NEW t \in Timer
    PROVE  /\ [tm EXCEPT ![t].alive = FALSE] \in [Timer -> TimerType]
           /\ [tm EXCEPT ![t].inQueue = TRUE] \in [Timer -> TimerType]
           /\ [tm EXCEPT ![t].inCallback = TRUE] \in [Timer -> TimerType]
BY DEF TimerType

LEMMA CancelDoes ==
    ASSUME Inv, NEW t \in Timer, Placed(t), timer[t].mem = "allocated", CancelInLoop(t)
    PROVE  /\ timer' \in [Timer -> TimerType] /\ queue' \in QueueType
           /\ Distinct(queue'.list) /\ Sorted(queue', timer') /\ Listed' = Listed \ {t}
           /\ fault' = fault /\ cancelled' = cancelled \cup {t}
           /\ \A u \in Timer \ {t} : timer'[u] = timer[u]
           /\ t \in Listed => timer'[t].mem = "freed"
           /\ t \notin Listed =>
                 /\ timer'[t].mem = "allocated" /\ ~timer'[t].alive
                 /\ timer'[t].timestamp = timer[t].timestamp
                 /\ timer'[t].expired = timer[t].expired
                 /\ timer'[t].inCallback = timer[t].inCallback
                 /\ timer'[t].inQueue = timer[t].inQueue
<1>0. /\ timer \in [Timer -> TimerType] /\ queue \in QueueType /\ now \in Nat
      /\ \A x \in Timer : timer[x].timestamp \in Nat
      /\ Distinct(queue.list) /\ Sorted(queue, timer) /\ Listed \subseteq Timer
  BY Types DEF Inv, Lists
<1>1. t \in Listed <=> ~(timer[t].inCallback \/ timer[t].expired \/ ~timer[t].inQueue)
  BY DEF Placed
<1>2. CASE t \in Listed
  <2>1. queue' = Removed(queue, timer, t) /\ timer' = Freed(t)
        /\ cancelled' = cancelled \cup {t} /\ fault' = fault
    BY <1>1, <1>2 DEF CancelInLoop
  <2>2. /\ queue' \in QueueType /\ Sorted(queue', timer) /\ Distinct(queue'.list)
        /\ ToSet(queue'.list) = ToSet(queue.list) \ {t}
    BY <1>0, <1>2, <2>1, Removal DEF Listed
  <2>3. /\ timer' \in [Timer -> TimerType] /\ timer'[t].mem = "freed"
        /\ \A u \in Timer \ {t} : timer'[u] = timer[u]
    BY <1>0, <2>1, FreedTimer
  <2>4. Sorted(queue', timer')
    <3>1. \A x \in ToSet(queue'.list) : timer'[x].timestamp = timer[x].timestamp
      BY <1>0, <2>2, <2>3 DEF Listed
    <3>. QED
      BY <2>2, <3>1, SortedKept
  <2>. QED
    BY <1>2, <2>1, <2>2, <2>3, <2>4 DEF Listed
<1>3. CASE t \notin Listed
  <2>1. timer' = [timer EXCEPT ![t].alive = FALSE] /\ queue' = queue
        /\ cancelled' = cancelled \cup {t} /\ fault' = fault
    BY <1>1, <1>3 DEF CancelInLoop
  <2>2. timer' \in [Timer -> TimerType]
    BY <1>0, <2>1, FieldsSet
  <2>3. \A u \in Timer \ {t} : timer'[u] = timer[u]
    BY <1>0, <2>1
  <2>4. /\ timer'[t].mem = timer[t].mem /\ ~timer'[t].alive
        /\ timer'[t].timestamp = timer[t].timestamp
        /\ timer'[t].expired = timer[t].expired
        /\ timer'[t].inCallback = timer[t].inCallback
        /\ timer'[t].inQueue = timer[t].inQueue
    BY <1>0, <2>1 DEF TimerType
  <2>5. Listed' = Listed
    BY <2>1 DEF Listed
  <2>6. Sorted(queue', timer')
    <3>1. \A x \in ToSet(queue.list) : timer'[x].timestamp = timer[x].timestamp
      BY <1>0, <2>3, <2>4 DEF Listed
    <3>. QED
      BY <1>0, <2>1, <3>1, SortedKept
  <2>. QED
    BY <1>0, <1>3, <2>1, <2>2, <2>3, <2>4, <2>5, <2>6
<1>. QED
  BY <1>2, <1>3

LEMMA RefreshDoes ==
    ASSUME Inv, NEW t \in Timer, Placed(t), t \in Listed, DoRefresh(t)
    PROVE  /\ timer' \in [Timer -> TimerType] /\ queue' \in QueueType
           /\ Distinct(queue'.list) /\ Sorted(queue', timer') /\ Listed' = Listed
           /\ fault' = fault /\ cancelled' = cancelled
           /\ \A u \in Timer \ {t} : timer'[u] = timer[u]
           /\ timer'[t].mem = timer[t].mem /\ timer'[t].alive = timer[t].alive
           /\ timer'[t].interval = timer[t].interval
           /\ timer'[t].expired = timer[t].expired
           /\ timer'[t].inCallback = timer[t].inCallback /\ timer'[t].inQueue
<1>0. /\ timer \in [Timer -> TimerType] /\ queue \in QueueType /\ now \in Nat
      /\ \A x \in Timer : timer[x].timestamp \in Nat
      /\ Distinct(queue.list) /\ Sorted(queue, timer) /\ Listed \subseteq Timer
  BY Types DEF Inv, Lists
<1>1. /\ timer' = [timer EXCEPT ![t].timestamp = now + timer[t].interval, ![t].inQueue = TRUE]
      /\ queue' = Inserted(Removed(queue, timer, t), timer', t)
      /\ cancelled' = cancelled /\ fault' = fault
  <2>1. t \in ToSet(queue.list)
    BY DEF Listed
  <2>2. /\ timer' = [timer EXCEPT ![t].timestamp = now + timer[t].interval, ![t].inQueue = TRUE]
        /\ UNCHANGED <<cancelled, fault>>
    BY <2>1 DEF DoRefresh
  <2>3. queue' = Inserted(Removed(queue, timer, t),
                          [timer EXCEPT ![t].timestamp = now + timer[t].interval,
                                        ![t].inQueue = TRUE], t)
    BY <2>1 DEF DoRefresh
  <2>. QED
    BY <2>2, <2>3
<1>2. \A u \in Timer \ {t} : timer'[u] = timer[u]
  BY <1>0, <1>1
<1>3. timer[t].interval \in Nat
  <2>1. timer[t] \in TimerType
    BY Types DEF Inv
  <2>2. timer[t].interval \in Intervals \cup {0}
    BY <2>1 DEF TimerType
  <2>3. Intervals \cup {0} \subseteq Nat
    BY ONLY IntervalsAssumption
  <2>. QED
    BY <2>2, <2>3, Zenon
<1>4. timer' \in [Timer -> TimerType]
  <2>1. timer[t] \in TimerType /\ now + timer[t].interval \in Nat
    BY <1>0, <1>3
  <2>2. [[timer[t] EXCEPT !.timestamp = now + timer[t].interval] EXCEPT !.inQueue = TRUE] \in TimerType
    BY <2>1 DEF TimerType
  <2>3. timer' = [timer EXCEPT ![t] = [[timer[t] EXCEPT !.timestamp = now + timer[t].interval]
                                          EXCEPT !.inQueue = TRUE]]
    BY <1>0, <1>1
  <2>. QED
    BY <1>0, <2>2, <2>3
<1>5. /\ timer'[t].mem = timer[t].mem /\ timer'[t].alive = timer[t].alive
      /\ timer'[t].interval = timer[t].interval
      /\ timer'[t].expired = timer[t].expired
      /\ timer'[t].inCallback = timer[t].inCallback /\ timer'[t].inQueue
  BY <1>0, <1>1 DEF TimerType
<1>6. PICK rest : rest = Removed(queue, timer, t)
  OBVIOUS
<1>7. /\ rest \in QueueType /\ Sorted(rest, timer) /\ Distinct(rest.list)
      /\ ToSet(rest.list) = ToSet(queue.list) \ {t}
  BY <1>0, <1>6, Removal DEF Listed
<1>8. Sorted(rest, timer')
  <2>1. \A x \in ToSet(rest.list) : timer'[x].timestamp = timer[x].timestamp
    BY <1>0, <1>2, <1>7 DEF Listed
  <2>. QED
    BY <1>7, <2>1, SortedKept
<1>9. /\ queue' \in QueueType /\ Sorted(queue', timer') /\ Distinct(queue'.list)
      /\ ToSet(queue'.list) = ToSet(rest.list) \cup {t}
  <2>1. \A x \in Timer : timer'[x].timestamp \in Nat
    BY <1>4 DEF TimerType
  <2>2. queue' = Inserted(rest, timer', t) /\ t \notin ToSet(rest.list)
    BY <1>1, <1>6, <1>7
  <2>. QED
    BY <1>7, <1>8, <2>1, <2>2, Insertion
<1>10. Listed' = Listed
  BY <1>7, <1>9 DEF Listed
<1>. QED
  BY <1>1, <1>2, <1>4, <1>5, <1>9, <1>10

LEMMA InsertDoes ==
    ASSUME Inv, NEW t \in Timer, Placed(t), t \in Coming, DoInsertTimer(t)
    PROVE  /\ timer' \in [Timer -> TimerType] /\ queue' \in QueueType
           /\ Distinct(queue'.list) /\ Sorted(queue', timer')
           /\ fault' = fault /\ cancelled' = cancelled
           /\ \A u \in Timer \ {t} : timer'[u] = timer[u]
           /\ timer[t].alive =>
                 /\ Listed' = Listed \cup {t}
                 /\ timer'[t].mem = timer[t].mem /\ timer'[t].alive
                 /\ timer'[t].interval = timer[t].interval
                 /\ timer'[t].expired = timer[t].expired
                 /\ timer'[t].inCallback = timer[t].inCallback /\ timer'[t].inQueue
           /\ ~timer[t].alive => Listed' = Listed /\ timer'[t].mem = "freed"
<1>0. /\ timer \in [Timer -> TimerType] /\ queue \in QueueType /\ now \in Nat
      /\ \A x \in Timer : timer[x].timestamp \in Nat
      /\ Distinct(queue.list) /\ Sorted(queue, timer) /\ Listed \subseteq Timer
      /\ t \notin Listed
  BY Types DEF Inv, Lists, Placed
<1>1. CASE timer[t].alive
  <2>1. /\ queue' = Inserted(queue, timer, t) /\ timer' = [timer EXCEPT ![t].inQueue = TRUE]
        /\ cancelled' = cancelled /\ fault' = fault
    BY <1>1 DEF DoInsertTimer
  <2>2. /\ queue' \in QueueType /\ Sorted(queue', timer) /\ Distinct(queue'.list)
        /\ ToSet(queue'.list) = ToSet(queue.list) \cup {t}
    BY <1>0, <2>1, Insertion DEF Listed
  <2>3. timer' \in [Timer -> TimerType]
    BY <1>0, <2>1, FieldsSet
  <2>4. \A u \in Timer \ {t} : timer'[u] = timer[u]
    BY <1>0, <2>1
  <2>5. /\ timer'[t].mem = timer[t].mem /\ timer'[t].alive
        /\ timer'[t].interval = timer[t].interval
        /\ timer'[t].timestamp = timer[t].timestamp
        /\ timer'[t].expired = timer[t].expired
        /\ timer'[t].inCallback = timer[t].inCallback /\ timer'[t].inQueue
    BY <1>0, <1>1, <2>1 DEF TimerType
  <2>6. Sorted(queue', timer')
    <3>1. \A x \in ToSet(queue'.list) : timer'[x].timestamp = timer[x].timestamp
      BY <1>0, <2>2, <2>4, <2>5 DEF Listed
    <3>. QED
      BY <2>2, <3>1, SortedKept
  <2>. QED
    BY <1>1, <2>1, <2>2, <2>3, <2>4, <2>5, <2>6 DEF Listed
<1>2. CASE ~timer[t].alive
  <2>1. timer' = Freed(t) /\ queue' = queue /\ cancelled' = cancelled /\ fault' = fault
    BY <1>2 DEF DoInsertTimer
  <2>2. /\ timer' \in [Timer -> TimerType] /\ timer'[t].mem = "freed"
        /\ \A u \in Timer \ {t} : timer'[u] = timer[u]
    BY <1>0, <2>1, FreedTimer
  <2>3. Sorted(queue', timer')
    <3>1. \A x \in ToSet(queue.list) : timer'[x].timestamp = timer[x].timestamp
      BY <1>0, <2>2 DEF Listed
    <3>. QED
      BY <1>0, <2>1, <3>1, SortedKept
  <2>. QED
    BY <1>0, <1>2, <2>1, <2>2, <2>3 DEF Listed
<1>. QED
  BY <1>1, <1>2

-----------------------------------------------------------------------------
(***************************************************************************)
(* The users' steps.                                                       *)
(***************************************************************************)
LEMMA InvAddInLoop ==
    ASSUME Inv, NEW t \in Timer, NEW iv \in Intervals, NEW every \in BOOLEAN,
           AddInLoop(t, iv, every)
    PROVE  Inv'
<1>0. /\ timer \in [Timer -> TimerType] /\ queue \in QueueType /\ now \in Nat
      /\ \A x \in Timer : timer[x].timestamp \in Nat
      /\ Distinct(queue.list) /\ Sorted(queue, timer) /\ Listed \subseteq Timer
      /\ pc \in {"tasks", "callback"} /\ timer[t].mem = "unused"
      /\ UNCHANGED <<now, done, current, ops, batch, pc, deadline, requested, cancelled, fault>>
      /\ InTurn /\ \A u \in Timer : Placed(u) /\ Cancelled(u)
  BY Types DEF Inv, Lists, AddInLoop, LoopThreadInUserCode
<1>1. PICK new : new = NewTimer(iv, every)
  OBVIOUS
<1>2. PICK tm : tm = [timer EXCEPT ![t] = new]
  OBVIOUS
<1>3. queue' = Inserted(queue, tm, t) /\ timer' = [tm EXCEPT ![t].inQueue = TRUE]
  BY <1>1, <1>2 DEF AddInLoop
<1>4. /\ new \in TimerType /\ new.mem = "allocated" /\ new.alive
      /\ ~new.expired /\ ~new.inCallback
  BY <1>0, <1>1, TimerMade
<1>5. tm \in [Timer -> TimerType] /\ tm[t] = new /\ \A u \in Timer \ {t} : tm[u] = timer[u]
  BY <1>0, <1>2, <1>4
<1>6. timer' \in [Timer -> TimerType]
  BY <1>3, <1>5, FieldsSet
<1>7. \A u \in Timer \ {t} : timer'[u] = timer[u]
  BY <1>3, <1>5
<1>8. /\ timer'[t].mem = "allocated" /\ timer'[t].alive /\ timer'[t].inQueue
      /\ ~timer'[t].expired /\ ~timer'[t].inCallback /\ timer'[t].timestamp = tm[t].timestamp
  BY <1>3, <1>4, <1>5 DEF TimerType
<1>9. t \notin Coming /\ t \notin Listed /\ t \notin Late /\ current # t
  BY <1>0 DEF Placed
<1>10. \A x \in Timer : tm[x].timestamp \in Nat
  BY <1>5 DEF TimerType
<1>11. Sorted(queue, tm)
  <2>1. \A x \in ToSet(queue.list) : tm[x].timestamp = timer[x].timestamp
    BY <1>0, <1>5, <1>9 DEF Listed
  <2>. QED
    BY <1>0, <2>1, SortedKept
<1>12. /\ queue' \in QueueType /\ Sorted(queue', tm) /\ Distinct(queue'.list)
       /\ Listed' = Listed \cup {t}
  BY <1>0, <1>3, <1>9, <1>10, <1>11, Insertion DEF Listed
<1>13. Sorted(queue', timer')
  <2>1. \A x \in ToSet(queue'.list) : timer'[x].timestamp = tm[x].timestamp
    BY <1>0, <1>5, <1>7, <1>8, <1>12 DEF Listed
  <2>. QED
    BY <1>12, <2>1, SortedKept
<1>14. TypeOK'
  BY <1>0, <1>6, <1>12 DEF Inv, TypeOK, TimerType, QueueType
<1>15. Lists' /\ Phases'
  BY <1>0, <1>12, <1>13 DEF Inv, Lists, Phases, NoOversleep
<1>16. Late' = Late /\ Coming' = Coming
  BY <1>0 DEF Late, Coming
<1>17. InTurn'
  <2>1. \A i \in DOMAIN ops : ops[i].op # "insert" => ops[i].timer \in Timer /\ ops[i].timer # t
    <3>1. \A i \in DOMAIN ops : ops[i].timer \in Timer
      BY OpTyped DEF Inv
    <3>. QED
      BY <3>1, <1>0, FreeHasNoOps
  <2>2. \A i \in DOMAIN ops : ops[i].op # "insert" =>
           timer'[ops[i].timer].mem = "allocated" /\ timer'[ops[i].timer].alive
           /\ timer'[ops[i].timer].interval > 0
    BY <1>0, <1>7, <2>1 DEF InTurn, Served
  <2>. QED
    BY <1>0, <2>2, InTurnKept
<1>18. ASSUME NEW u \in Timer PROVE Placed(u)' /\ Cancelled(u)'
  <2>1. CASE u # t
    <3>1. Placed(u)'
      BY <1>0, <1>7, <1>12, <1>16, <2>1, PlacedKept
    <3>2. Cancelled(u)'
      BY <1>0, <1>7, <2>1, CancelledKept
    <3>. QED
      BY <3>1, <3>2
  <2>2. CASE u = t
    <3>1. Placed(t)'
      BY <1>0, <1>8, <1>9, <1>12, <1>16 DEF Placed
    <3>2. t \notin cancelled
      BY <1>0 DEF Cancelled, Inv, TypeOK
    <3>3. Cancelled(t)'
      BY <1>0, <1>8, <3>2 DEF Cancelled
    <3>. QED
      BY <2>2, <3>1, <3>3
  <2>. QED
    BY <2>1, <2>2
<1>. QED
  BY <1>0, <1>14, <1>15, <1>17, <1>18 DEF Inv

LEMMA InvAddByClient ==
    ASSUME Inv, NEW t \in Timer, NEW iv \in Intervals, NEW every \in BOOLEAN,
           AddByClient(t, iv, every)
    PROVE  Inv'
<1>0. /\ timer \in [Timer -> TimerType] /\ queue \in QueueType /\ now \in Nat
      /\ \A x \in Timer : timer[x].timestamp \in Nat
      /\ Listed \subseteq Timer /\ ops \in Seq(OpType)
      /\ pc # "destroyed" /\ timer[t].mem = "unused"
      /\ UNCHANGED <<now, queue, done, current, batch, pc, deadline, requested, cancelled, fault>>
      /\ InTurn /\ \A u \in Timer : Placed(u) /\ Cancelled(u)
  BY Types DEF Inv, AddByClient, ClientActive
<1>1. PICK new : new = NewTimer(iv, every)
  OBVIOUS
<1>2. PICK e : e = [op |-> "insert", timer |-> t]
  OBVIOUS
<1>3. timer' = [timer EXCEPT ![t] = new] /\ ops' = Append(ops, e)
  BY <1>1, <1>2 DEF AddByClient
<1>4. /\ new \in TimerType /\ new.mem = "allocated" /\ new.alive
      /\ ~new.expired /\ ~new.inCallback /\ ~new.inQueue
  BY <1>0, <1>1, TimerMade
<1>5. timer' \in [Timer -> TimerType] /\ timer'[t] = new
      /\ \A u \in Timer \ {t} : timer'[u] = timer[u]
  BY <1>0, <1>3, <1>4
<1>6. t \notin Coming /\ t \notin Listed /\ t \notin Late /\ current # t
  BY <1>0 DEF Placed
<1>7. e \in OpType /\ e.op = "insert" /\ e.timer = t
  BY <1>2 DEF OpType
<1>8. \A i \in DOMAIN ops : ops[i].timer # t
  <2> SUFFICES ASSUME NEW i \in DOMAIN ops PROVE ops[i].timer # t
    OBVIOUS
  <2>1. CASE ops[i].op = "insert"
    BY <2>1, <1>6 DEF Coming, ComingIn
  <2>2. CASE ops[i].op # "insert"
    BY <2>2, <1>0 DEF InTurn, Served
  <2>. QED
    BY <2>1, <2>2
<1>9. /\ ops' \in Seq(OpType) /\ Ranked(ops') /\ Len(ops') = Len(ops) + 1 /\ Len(ops) \in Nat
      /\ DOMAIN ops' = 1 .. (Len(ops) + 1) /\ DOMAIN ops = 1 .. Len(ops)
      /\ \A i \in 1 .. Len(ops) : ops'[i] = ops[i]
      /\ ops'[Len(ops) + 1] = e
      /\ Coming' = Coming \cup {t}
  BY <1>0, <1>3, <1>7, <1>8, OpAppended DEF InTurn, Coming
<1>10. TypeOK'
  <2>1. batch' \in 0 .. Len(ops')
    BY <1>0, <1>9 DEF Inv, TypeOK
  <2>. QED
    BY <1>0, <1>5, <1>9, <2>1 DEF Inv, TypeOK, TimerType, OpType
<1>11. Lists'
  <2>1. \A x \in Listed : timer'[x].timestamp = timer[x].timestamp
    BY <1>0, <1>5, <1>6
  <2>. QED
    BY <1>0, <2>1, ListsKept DEF Inv
<1>12. Phases'
  <2>1. \A x \in ToSet(queue.list) : timer'[x].timestamp = timer[x].timestamp
    BY <1>0, <1>5, <1>6 DEF Listed
  <2>. QED
    BY <1>0, <2>1 DEF Inv, Phases, NoOversleep
<1>13. Late' = Late /\ Listed' = Listed
  BY <1>0 DEF Late, Listed
<1>14. InTurn'
  <2>1. ASSUME NEW i \in DOMAIN ops' PROVE Served(i)'
    <3>1. CASE i = Len(ops) + 1
      BY <3>1, <1>7, <1>9 DEF Served
    <3>2. CASE i # Len(ops) + 1
      <4>1. i \in DOMAIN ops /\ ops'[i] = ops[i]
        BY <3>2, <1>9
      <4>2. ops[i].timer \in Timer
        BY <4>1, OpTyped DEF Inv
      <4>. QED
        BY <4>1, <4>2, <1>0, <1>5, <1>8 DEF InTurn, Served
    <3>. QED
      BY <3>1, <3>2
  <2>. QED
    BY <1>9, <2>1 DEF InTurn
<1>15. ASSUME NEW u \in Timer PROVE Placed(u)' /\ Cancelled(u)'
  <2>1. CASE u # t
    <3>1. Placed(u)'
      BY <1>0, <1>5, <1>9, <1>13, <2>1, PlacedKept
    <3>2. Cancelled(u)'
      BY <1>0, <1>5, <2>1, CancelledKept
    <3>. QED
      BY <3>1, <3>2
  <2>2. CASE u = t
    <3>1. Placed(t)'
      BY <1>0, <1>4, <1>5, <1>6, <1>9, <1>13 DEF Placed
    <3>2. t \notin cancelled
      BY <1>0 DEF Cancelled, Inv, TypeOK
    <3>3. Cancelled(t)'
      BY <1>0, <1>4, <1>5, <3>2 DEF Cancelled
    <3>. QED
      BY <2>2, <3>1, <3>3
  <2>. QED
    BY <2>1, <2>2
<1>. QED
  BY <1>0, <1>10, <1>11, <1>12, <1>14, <1>15 DEF Inv

\* The timers after a cancel is carried out in the loop.
LEMMA CancelPlaces ==
    ASSUME Inv, pc \in {"tasks", "callback"}, NEW t \in Timer, timer[t].mem = "allocated",
           CancelInLoop(t), UNCHANGED <<now, done, current>>, Coming' = Coming,
           requested' \subseteq requested \cup {t}
    PROVE  \A u \in Timer : Placed(u)' /\ Cancelled(u)'
<1>0. /\ now \in Nat /\ Late' = Late
      /\ \A x \in Timer : timer[x].timestamp \in Nat
      /\ \A u \in Timer : Placed(u) /\ Cancelled(u)
  BY Types DEF Inv, Late
<1>1. /\ Listed' = Listed \ {t}
      /\ cancelled' = cancelled \cup {t}
      /\ \A u \in Timer \ {t} : timer'[u] = timer[u]
      /\ t \in Listed => timer'[t].mem = "freed"
      /\ t \notin Listed =>
            /\ timer'[t].mem = "allocated" /\ ~timer'[t].alive
            /\ timer'[t].timestamp = timer[t].timestamp
            /\ timer'[t].expired = timer[t].expired
            /\ timer'[t].inCallback = timer[t].inCallback
            /\ timer'[t].inQueue = timer[t].inQueue
  BY <1>0, CancelDoes
<1> SUFFICES ASSUME NEW u \in Timer PROVE Placed(u)' /\ Cancelled(u)'
  OBVIOUS
<1>2. CASE u # t
  <2>1. Placed(u)'
    BY <1>0, <1>1, <1>2, PlacedKept
  <2>2. Cancelled(u)'
    BY <1>0, <1>1, <1>2, CancelledKept
  <2>. QED
    BY <2>1, <2>2
<1>3. CASE u = t /\ t \in Listed
  <2>1. Placed(t)
    BY <1>0
  <2>2. timer'[t].mem = "freed" /\ t \notin Listed'
    BY <1>1, <1>3
  <2>3. t \notin Coming /\ t \notin Late /\ current # t
    BY <1>3, <2>1 DEF Placed
  <2>. QED
    BY <1>0, <1>3, <2>2, <2>3 DEF Placed, Cancelled
<1>4. CASE u = t /\ t \notin Listed
  <2>1. Placed(t)
    BY <1>0
  <2>2. Placed(t)'
    BY <1>0, <1>1, <1>4, <2>1 DEF Placed
  <2>3. Cancelled(t)'
    BY <1>1, <1>4 DEF Cancelled
  <2>. QED
    BY <1>4, <2>2, <2>3
<1>. QED
  BY <1>2, <1>3, <1>4

LEMMA RefreshPlaces ==
    ASSUME Inv, pc \in {"tasks", "callback"}, NEW t \in Timer, t \in Listed,
           DoRefresh(t), UNCHANGED <<now, done, current, requested>>, Coming' = Coming
    PROVE  \A u \in Timer : Placed(u)' /\ Cancelled(u)'
<1>0. /\ now \in Nat /\ Late' = Late
      /\ \A x \in Timer : timer[x].timestamp \in Nat
      /\ \A u \in Timer : Placed(u) /\ Cancelled(u)
  BY Types DEF Inv, Late
<1>1. /\ Listed' = Listed /\ cancelled' = cancelled
      /\ \A u \in Timer \ {t} : timer'[u] = timer[u]
      /\ timer'[t].mem = timer[t].mem /\ timer'[t].alive = timer[t].alive
      /\ timer'[t].expired = timer[t].expired
      /\ timer'[t].inCallback = timer[t].inCallback /\ timer'[t].inQueue
  BY <1>0, RefreshDoes
<1> SUFFICES ASSUME NEW u \in Timer PROVE Placed(u)' /\ Cancelled(u)'
  OBVIOUS
<1>2. CASE u # t
  <2>1. Placed(u)'
    BY <1>0, <1>1, <1>2, PlacedKept
  <2>2. Cancelled(u)'
    BY <1>0, <1>1, <1>2, CancelledKept
  <2>. QED
    BY <2>1, <2>2
<1>3. CASE u = t
  <2>1. Placed(t) /\ Cancelled(t)
    BY <1>0
  <2>2. Placed(t)'
    BY <1>0, <1>1, <1>3, <2>1 DEF Placed
  <2>3. Cancelled(t)'
    BY <1>1, <1>3, <2>1 DEF Cancelled
  <2>. QED
    BY <1>3, <2>2, <2>3
<1>. QED
  BY <1>2, <1>3

\* A timer leaves the task queue for the list, or is freed if it was cancelled on its way.
LEMMA InsertPlaces ==
    ASSUME Inv, pc \in {"tasks", "callback"}, NEW t \in Timer, t \in Coming,
           DoInsertTimer(t), UNCHANGED <<now, done, current, requested>>, Coming' = Coming \ {t}
    PROVE  \A u \in Timer : Placed(u)' /\ Cancelled(u)'
<1>0. /\ now \in Nat /\ Late' = Late
      /\ \A x \in Timer : timer[x].timestamp \in Nat
      /\ \A u \in Timer : Placed(u) /\ Cancelled(u)
  BY Types DEF Inv, Late
<1>1. /\ cancelled' = cancelled
      /\ \A u \in Timer \ {t} : timer'[u] = timer[u]
      /\ timer[t].alive =>
            /\ Listed' = Listed \cup {t}
            /\ timer'[t].mem = timer[t].mem /\ timer'[t].alive
            /\ timer'[t].expired = timer[t].expired
            /\ timer'[t].inCallback = timer[t].inCallback /\ timer'[t].inQueue
      /\ ~timer[t].alive => Listed' = Listed /\ timer'[t].mem = "freed"
  BY <1>0, InsertDoes
<1> SUFFICES ASSUME NEW u \in Timer PROVE Placed(u)' /\ Cancelled(u)'
  OBVIOUS
<1>2. CASE u # t
  <2>1. u \in Listed' <=> u \in Listed
    BY <1>1, <1>2
  <2>2. Placed(u)'
    BY <1>0, <1>1, <1>2, <2>1, PlacedKept
  <2>3. Cancelled(u)'
    BY <1>0, <1>1, <1>2, CancelledKept
  <2>. QED
    BY <2>2, <2>3
<1>3. CASE u = t
  <2>1. Placed(t) /\ Cancelled(t)
    BY <1>0
  <2>2. Placed(t)'
    BY <1>0, <1>1, <1>3, <2>1 DEF Placed
  <2>3. Cancelled(t)'
    BY <1>1, <1>3, <2>1 DEF Cancelled, Placed
  <2>. QED
    BY <1>3, <2>2, <2>3
<1>. QED
  BY <1>2, <1>3

LEMMA InvCancelByLoop ==
    ASSUME Inv, NEW t \in Timer, CancelByLoop(t)
    PROVE  Inv'
<1>0. /\ UNCHANGED <<now, done, current, ops, batch, pc, deadline>>
      /\ requested' = requested \cup {t}
      /\ pc \in {"tasks", "callback"} /\ timer[t].mem = "allocated" /\ ~OnItsWay(t)
      /\ InTurn /\ \A u \in Timer : Placed(u) /\ Cancelled(u)
  BY DEF Inv, CancelByLoop, LoopThreadInUserCode, KnownInLoop
<1>1. CancelInLoop(t)
  <2>1. Perform("cancel", t) /\ timer[t].mem # "freed"
    BY <1>0 DEF CancelByLoop
  <2>. QED
    BY <2>1 DEF Perform
<1>2. /\ timer' \in [Timer -> TimerType] /\ queue' \in QueueType
      /\ Distinct(queue'.list) /\ Sorted(queue', timer')
      /\ fault' = fault /\ cancelled' = cancelled \cup {t}
      /\ \A u \in Timer \ {t} : timer'[u] = timer[u]
  BY <1>0, <1>1, CancelDoes
<1>3. TypeOK'
  BY <1>0, <1>2 DEF Inv, TypeOK, TimerType, QueueType
<1>4. Lists' /\ Phases'
  BY <1>0, <1>2 DEF Inv, Lists, Phases, NoOversleep
<1>5. InTurn'
  <2>1. \A i \in DOMAIN ops : ops[i].op # "insert" => ops[i].timer \in Timer \ {t}
    BY <1>0, OpTyped DEF OnItsWay, Inv
  <2>2. \A i \in DOMAIN ops : ops[i].op # "insert" =>
           timer'[ops[i].timer].mem = "allocated" /\ timer'[ops[i].timer].alive
           /\ timer'[ops[i].timer].interval > 0
    BY <1>0, <1>2, <2>1 DEF InTurn, Served
  <2>. QED
    BY <1>0, <2>2, InTurnKept
<1>6. \A u \in Timer : Placed(u)' /\ Cancelled(u)'
  <2>1. Coming' = Coming
    BY <1>0 DEF Coming
  <2>. QED
    BY <1>0, <1>1, <2>1, CancelPlaces
<1>. QED
  BY <1>0, <1>2, <1>3, <1>4, <1>5, <1>6 DEF Inv

LEMMA InvRefreshByLoop ==
    ASSUME Inv, RefreshUnlisted = FALSE, NEW t \in Timer, RefreshByLoop(t)
    PROVE  Inv'
<1>0. /\ UNCHANGED <<now, done, current, ops, batch, pc, deadline, requested>>
      /\ pc \in {"tasks", "callback"} /\ timer[t].mem = "allocated" /\ ~OnItsWay(t)
      /\ t \in Listed
      /\ InTurn /\ \A u \in Timer : Placed(u) /\ Cancelled(u)
  BY DEF Inv, RefreshByLoop, LoopThreadInUserCode, KnownInLoop, Listed
<1>1. DoRefresh(t)
  <2>1. Perform("refresh", t) /\ timer[t].mem # "freed"
    BY <1>0 DEF RefreshByLoop
  <2>. QED
    BY <2>1 DEF Perform
<1>2. /\ timer' \in [Timer -> TimerType] /\ queue' \in QueueType
      /\ Distinct(queue'.list) /\ Sorted(queue', timer')
      /\ fault' = fault /\ cancelled' = cancelled
      /\ \A u \in Timer \ {t} : timer'[u] = timer[u]
  BY <1>0, <1>1, RefreshDoes
<1>3. TypeOK'
  BY <1>0, <1>2 DEF Inv, TypeOK, TimerType, QueueType
<1>4. Lists' /\ Phases'
  BY <1>0, <1>2 DEF Inv, Lists, Phases, NoOversleep
<1>5. InTurn'
  <2>1. \A i \in DOMAIN ops : ops[i].op # "insert" => ops[i].timer \in Timer \ {t}
    BY <1>0, OpTyped DEF OnItsWay, Inv
  <2>2. \A i \in DOMAIN ops : ops[i].op # "insert" =>
           timer'[ops[i].timer].mem = "allocated" /\ timer'[ops[i].timer].alive
           /\ timer'[ops[i].timer].interval > 0
    BY <1>0, <1>2, <2>1 DEF InTurn, Served
  <2>. QED
    BY <1>0, <2>2, InTurnKept
<1>6. \A u \in Timer : Placed(u)' /\ Cancelled(u)'
  <2>1. Coming' = Coming
    BY <1>0 DEF Coming
  <2>. QED
    BY <1>0, <1>1, <2>1, RefreshPlaces
<1>. QED
  BY <1>0, <1>2, <1>3, <1>4, <1>5, <1>6 DEF Inv

\* A cancel or a refresh of a timer that the client may use is appended.
LEMMA InvOpByClient ==
    ASSUME Inv, pc # "destroyed", NEW t \in Timer, KnownToClient(t), timer[t].interval > 0,
           NEW op \in {"cancel", "refresh"},
           ops' = Append(ops, [op |-> op, timer |-> t]),
           requested' = requested \/ requested' = requested \cup {t},
           op = "cancel" => t \in requested',
           UNCHANGED <<now, timer, queue, done, current, batch, pc, deadline, cancelled, fault>>
    PROVE  Inv'
<1>0. /\ InTurn /\ \A u \in Timer : Placed(u) /\ Cancelled(u)
      /\ ops \in Seq(OpType) /\ requested \subseteq requested' /\ requested' \subseteq Timer
      /\ cancelled \subseteq requested
      /\ timer[t].mem = "allocated" /\ t \notin requested /\ timer[t].alive
  BY Types DEF Inv, KnownToClient, Cancelled, TypeOK
<1>1. PICK e : e = [op |-> op, timer |-> t]
  OBVIOUS
<1>2. e \in OpType /\ e.op = op /\ e.timer = t /\ e.op # "insert"
  BY <1>1 DEF OpType
<1>3. \A i \in DOMAIN ops : ops[i].timer = t => ops[i].op # "cancel"
  BY <1>0 DEF InTurn, Served
<1>4. /\ ops' \in Seq(OpType) /\ Ranked(ops') /\ Len(ops') = Len(ops) + 1 /\ Len(ops) \in Nat
      /\ DOMAIN ops' = 1 .. (Len(ops) + 1) /\ DOMAIN ops = 1 .. Len(ops)
      /\ \A i \in 1 .. Len(ops) : ops'[i] = ops[i]
      /\ ops'[Len(ops) + 1] = e
      /\ Coming' = Coming
  BY <1>0, <1>1, <1>2, <1>3, OpAppended DEF InTurn, Coming
<1>5. TypeOK'
  <2>1. batch' \in 0 .. Len(ops')
    BY <1>4 DEF Inv, TypeOK
  <2>. QED
    BY <1>0, <1>4, <2>1 DEF Inv, TypeOK, OpType
<1>6. Lists' /\ Phases'
  BY DEF Inv, Lists, Phases, NoOversleep
<1>7. Late' = Late /\ Listed' = Listed
  BY DEF Late, Listed
<1>8. InTurn'
  <2>1. ASSUME NEW i \in DOMAIN ops' PROVE Served(i)'
    <3>1. CASE i = Len(ops) + 1
      BY <3>1, <1>0, <1>2, <1>4 DEF Served
    <3>2. CASE i # Len(ops) + 1
      <4>1. i \in DOMAIN ops /\ ops'[i] = ops[i]
        BY <3>2, <1>4
      <4>. QED
        BY <4>1, <1>0 DEF InTurn, Served
    <3>. QED
      BY <3>1, <3>2
  <2>. QED
    BY <1>4, <2>1 DEF InTurn
<1>9. ASSUME NEW u \in Timer PROVE Placed(u)' /\ Cancelled(u)'
  <2>1. Placed(u)'
    BY <1>0, <1>4, <1>7 DEF Placed
  <2>2. Cancelled(u)'
    BY <1>0, CancelledKept
  <2>. QED
    BY <2>1, <2>2
<1>. QED
  BY <1>5, <1>6, <1>8, <1>9 DEF Inv

LEMMA InvByClient ==
    ASSUME Inv, CancelOneShotAcross = FALSE, NEW t \in Timer,
           CancelByClient(t) \/ RefreshByClient(t)
    PROVE  Inv'
<1>1. timer[t].interval \in Nat
  <2>1. timer[t] \in TimerType
    BY Types DEF Inv
  <2>2. timer[t].interval \in Intervals \cup {0}
    BY <2>1 DEF TimerType
  <2>3. Intervals \cup {0} \subseteq Nat
    BY ONLY IntervalsAssumption
  <2>. QED
    BY <2>2, <2>3, Zenon
<1>2. CASE CancelByClient(t)
  <2>1. /\ pc # "destroyed" /\ KnownToClient(t) /\ timer[t].interval > 0
        /\ ops' = Append(ops, [op |-> "cancel", timer |-> t])
        /\ requested' = requested \cup {t} /\ t \in requested'
        /\ UNCHANGED <<now, timer, queue, done, current, batch, pc, deadline, cancelled, fault>>
    BY <1>1, <1>2 DEF CancelByClient, ClientActive
  <2>. QED
    BY <2>1, InvOpByClient
<1>3. CASE RefreshByClient(t)
  <2>1. /\ pc # "destroyed" /\ KnownToClient(t) /\ timer[t].interval > 0
        /\ ops' = Append(ops, [op |-> "refresh", timer |-> t])
        /\ requested' = requested
        /\ UNCHANGED <<now, timer, queue, done, current, batch, pc, deadline, cancelled, fault>>
    BY <1>3 DEF RefreshByClient, ClientActive
  <2>2. "refresh" \in {"cancel", "refresh"} /\ "refresh" # "cancel"
    OBVIOUS
  <2>. QED
    BY <2>1, <2>2, InvOpByClient
<1>. QED
  BY <1>2, <1>3

-----------------------------------------------------------------------------
(***************************************************************************)
(* The loop thread's steps.                                                *)
(***************************************************************************)
\* An operation finds its timer allocated, and where it expects it.
LEMMA InvRunOp ==
    ASSUME Inv, RunOp
    PROVE  Inv'
<1>0. /\ pc = "tasks" /\ UNCHANGED <<now, done, current, pc, deadline, requested>>
      /\ ops' = Tail(ops) /\ batch' = batch - 1 /\ batch \in 1 .. Len(ops)
      /\ InTurn /\ \A u \in Timer : Placed(u) /\ Cancelled(u)
      /\ ops \in Seq(OpType) /\ Ranked(ops) /\ done = <<>> /\ current = None
      /\ cancelled \subseteq requested /\ Len(ops) \in Nat
  BY Types, LenProperties DEF Inv, RunOp, InTurn, Phases, TypeOK
<1>1. /\ Head(ops) \in OpType /\ Head(ops) = ops[1] /\ 1 \in DOMAIN ops
      /\ ops' \in Seq(OpType) /\ Ranked(ops')
      /\ Len(ops) >= 1 /\ Len(ops') = Len(ops) - 1
      /\ \A i \in DOMAIN ops' : ops'[i] = ops[i + 1] /\ i + 1 \in DOMAIN ops
      /\ Coming' = IF ops[1].op = "insert" THEN Coming \ {ops[1].timer} ELSE Coming
      /\ ops[1].op = "insert" => ops[1].timer \in Coming
      /\ ops[1].op # "insert" => ops[1].timer \notin Coming
      /\ ops[1].op = "cancel" => \A i \in DOMAIN ops' : ops'[i].timer # ops[1].timer
  <2>1. ops # <<>>
    BY <1>0, EmptySeq
  <2>. QED
    BY <1>0, <2>1, OpTaken DEF Coming
<1>2. PICK t \in Timer, op \in {"insert", "cancel", "refresh"} : t = ops[1].timer /\ op = ops[1].op
  BY <1>1 DEF OpType
<1>3. timer[t].mem = "allocated"
  BY <1>0, <1>1, <1>2 DEF InTurn, Served, Placed
<1>4. Late = {} /\ current # t
  BY <1>0, <1>2, NoneAssumption DEF Late, ToSet
<1>5. Perform(op, t)
  BY <1>1, <1>2 DEF RunOp
<1> DEFINE Done ==
      /\ timer' \in [Timer -> TimerType] /\ queue' \in QueueType
      /\ Distinct(queue'.list) /\ Sorted(queue', timer')
      /\ fault' = fault /\ cancelled \subseteq cancelled' /\ cancelled' \subseteq requested
      /\ \A u \in Timer \ {t} : timer'[u] = timer[u]
      /\ op # "cancel" /\ timer[t].alive =>
            timer'[t].mem = "allocated" /\ timer'[t].alive /\ timer'[t].interval = timer[t].interval
      /\ \A u \in Timer : Placed(u)' /\ Cancelled(u)'
<1>6. Done
  <2>1. CASE op = "insert"
    <3>1. DoInsertTimer(t) /\ t \in Coming /\ Coming' = Coming \ {t}
      BY <1>1, <1>2, <1>3, <1>5, <2>1 DEF Perform
    <3>2. /\ timer' \in [Timer -> TimerType] /\ queue' \in QueueType
          /\ Distinct(queue'.list) /\ Sorted(queue', timer')
          /\ fault' = fault /\ cancelled' = cancelled
          /\ \A u \in Timer \ {t} : timer'[u] = timer[u]
          /\ timer[t].alive =>
                timer'[t].mem = timer[t].mem /\ timer'[t].alive /\ timer'[t].interval = timer[t].interval
      BY <1>0, <3>1, InsertDoes
    <3>3. \A u \in Timer : Placed(u)' /\ Cancelled(u)'
      BY <1>0, <3>1, InsertPlaces
    <3>. QED
      BY <1>0, <1>3, <3>2, <3>3
  <2>2. CASE op = "cancel"
    <3>1. CancelInLoop(t) /\ Coming' = Coming
      BY <1>1, <1>2, <1>3, <1>5, <2>2 DEF Perform
    <3>2. /\ timer' \in [Timer -> TimerType] /\ queue' \in QueueType
          /\ Distinct(queue'.list) /\ Sorted(queue', timer')
          /\ fault' = fault /\ cancelled' = cancelled \cup {t}
          /\ \A u \in Timer \ {t} : timer'[u] = timer[u]
      BY <1>0, <1>3, <3>1, CancelDoes
    <3>3. \A u \in Timer : Placed(u)' /\ Cancelled(u)'
      BY <1>0, <1>3, <3>1, CancelPlaces
    <3>4. t \in requested
      BY <1>0, <1>1, <1>2, <2>2 DEF InTurn, Served
    <3>. QED
      BY <1>0, <2>2, <3>2, <3>3, <3>4
  <2>3. CASE op = "refresh"
    <3>1. DoRefresh(t) /\ Coming' = Coming /\ t \notin Coming
      BY <1>1, <1>2, <1>3, <1>5, <2>3 DEF Perform
    <3>2. t \in Listed
      BY <1>0, <1>3, <1>4, <3>1 DEF Placed
    <3>3. /\ timer' \in [Timer -> TimerType] /\ queue' \in QueueType
          /\ Distinct(queue'.list) /\ Sorted(queue', timer')
          /\ fault' = fault /\ cancelled' = cancelled
          /\ \A u \in Timer \ {t} : timer'[u] = timer[u]
          /\ timer'[t].mem = timer[t].mem /\ timer'[t].alive = timer[t].alive
          /\ timer'[t].interval = timer[t].interval
      BY <1>0, <3>1, <3>2, RefreshDoes
    <3>4. \A u \in Timer : Placed(u)' /\ Cancelled(u)'
      BY <1>0, <3>1, <3>2, RefreshPlaces
    <3>. QED
      BY <1>0, <1>3, <3>3, <3>4
  <2>. QED
    BY <1>2, <2>1, <2>2, <2>3
<1>7. TypeOK'
  <2>1. batch' \in 0 .. Len(ops')
    BY <1>0, <1>1
  <2>. QED
    BY <1>0, <1>1, <1>6, <2>1 DEF Inv, TypeOK, TimerType, QueueType, OpType
<1>8. Lists' /\ Phases'
  BY <1>0, <1>6 DEF Inv, Lists, Phases, NoOversleep, Distinct
<1>9. ASSUME NEW i \in DOMAIN ops', ops'[i].op # "insert" PROVE Served(i)'
  <2>1. /\ ops'[i] = ops[i + 1] /\ ops[i + 1].timer \in Timer
        /\ timer[ops[i + 1].timer].mem = "allocated" /\ timer[ops[i + 1].timer].alive
        /\ timer[ops[i + 1].timer].interval > 0
        /\ ops[i + 1].op = "cancel" => ops[i + 1].timer \in requested
    BY <1>0, <1>1, <1>9, OpTyped DEF InTurn, Served, Inv
  <2>2. ops[i + 1].timer = t => op # "cancel"
    BY <1>1, <1>2, <2>1
  <2>. QED
    BY <1>0, <1>6, <2>1, <2>2 DEF Served
<1>10. InTurn'
  BY <1>1, <1>9 DEF InTurn, Served
<1>. QED
  BY <1>0, <1>6, <1>7, <1>8, <1>10 DEF Inv

\* The leading timers that are due leave the list together, in their order.
LEMMA InvExpire ==
    ASSUME Inv, Expire
    PROVE  Inv'
<1>0. /\ pc = "expire" /\ pc' = "fire"
      /\ UNCHANGED <<now, current, ops, batch, deadline, requested, cancelled, fault>>
      /\ timer \in [Timer -> TimerType] /\ queue \in QueueType /\ now \in Nat
      /\ \A x \in Timer : timer[x].timestamp \in Nat
      /\ queue.list \in Seq(Timer) /\ Distinct(queue.list) /\ Sorted(queue, timer)
      /\ Listed \subseteq Timer /\ queue.min \in Nat
      /\ InTurn /\ \A u \in Timer : Placed(u) /\ Cancelled(u)
      /\ done = <<>> /\ ~(batch > 0)
  BY Types DEF Inv, Lists, Expire, Phases
<1>1. PICK n : n = ExpiredCount
  OBVIOUS
<1>2. PICK list : list = queue.list
  OBVIOUS
<1>3. /\ list \in Seq(Timer) /\ Distinct(list) /\ Len(list) \in Nat
      /\ DOMAIN list = 1 .. Len(list) /\ \A i \in 1 .. Len(list) : list[i] \in Timer
      /\ Listed = ToSet(list)
  BY <1>0, <1>2, LenProperties, ElementOfSeq DEF Listed
<1>4. n \in 0 .. Len(list) /\ \A i \in 1 .. n : timer[list[i]].timestamp <= now
  <2>1. PICK P : P = {i \in DOMAIN queue.list :
                        \A j \in 1 .. i : timer[queue.list[j]].timestamp <= now}
    OBVIOUS
  <2>2. P \subseteq 1 .. Len(list) /\ n = Cardinality(P)
    BY <2>1, <1>1, <1>2, <1>3 DEF ExpiredCount
  <2>3. \A i \in P : /\ timer[list[i]].timestamp <= now
                     /\ \A j \in 1 .. i : j \in P
    BY <2>1, <1>2, <1>3
  <2>4. Cardinality(P) \in 0 .. Len(list) /\ P = 1 .. Cardinality(P)
    BY <2>2, <2>3, <1>3, PrefixIsInterval
  <2>. QED
    BY <2>2, <2>3, <2>4
<1>5. PICK late : late = SubSeq(list, 1, n)
  OBVIOUS
<1>6. PICK rest : rest = SubSeq(list, n + 1, Len(list))
  OBVIOUS
<1>7. /\ done' = late
      /\ queue' = [list |-> rest,
                   min  |-> IF n = 0 THEN queue.min
                            ELSE IF rest # <<>> THEN timer[Head(rest)].timestamp ELSE now]
      /\ timer' = [t \in Timer |-> IF t \in ToSet(late)
                                     THEN [timer[t] EXCEPT !.expired = TRUE]
                                     ELSE timer[t]]
  BY <1>1, <1>2, <1>5, <1>6 DEF Expire
<1>8. /\ late \in Seq(Timer) /\ Len(late) = n /\ \A i \in 1 .. n : late[i] = list[i]
      /\ rest \in Seq(Timer) /\ Len(rest) = Len(list) - n
      /\ \A i \in 1 .. (Len(list) - n) : rest[i] = list[n + i]
  BY <1>3, <1>4, <1>5, <1>6, SplitParts
<1>9. /\ Distinct(late) /\ Distinct(rest)
      /\ ToSet(late) \cup ToSet(rest) = Listed /\ ToSet(late) \cap ToSet(rest) = {}
      /\ \A x \in ToSet(late) : timer[x].timestamp <= now
      /\ DOMAIN rest = 1 .. (Len(list) - n)
      /\ \A i \in DOMAIN rest : rest[i] = list[n + i] /\ n + i \in DOMAIN list
  <2>1. \A i \in 1 .. n : timer[list[i]].timestamp <= now
    BY <1>4
  <2>2. /\ Distinct(late) /\ Distinct(rest)
        /\ ToSet(late) \cup ToSet(rest) = ToSet(list) /\ ToSet(late) \cap ToSet(rest) = {}
        /\ \A x \in ToSet(late) : \E i \in 1 .. n : x = list[i]
        /\ DOMAIN rest = 1 .. (Len(list) - n)
        /\ \A i \in DOMAIN rest : rest[i] = list[n + i] /\ n + i \in DOMAIN list
    <3>1. /\ list \in Seq(Timer) /\ Distinct(list) /\ n \in 0 .. Len(list)
          /\ late \in Seq(Timer) /\ Len(late) = n /\ \A i \in 1 .. n : late[i] = list[i]
          /\ rest \in Seq(Timer) /\ Len(rest) = Len(list) - n
          /\ \A i \in 1 .. (Len(list) - n) : rest[i] = list[n + i]
      BY <1>3, <1>4, <1>8
    <3>. QED
      BY ONLY <3>1, Split, SMTT(60)
  <2>. QED
    BY <2>1, <2>2, <1>3
<1>10. \A t \in Timer : /\ t \in ToSet(late) => timer'[t] = [timer[t] EXCEPT !.expired = TRUE]
                        /\ t \notin ToSet(late) => timer'[t] = timer[t]
  BY <1>7
<1>11. timer' \in [Timer -> TimerType]
  <2>1. \A t \in Timer : [timer[t] EXCEPT !.expired = TRUE] \in TimerType
    BY <1>0 DEF TimerType
  <2>. QED
    BY <1>0, <1>7, <2>1
<1>12. \A t \in Timer : /\ timer'[t].mem = timer[t].mem /\ timer'[t].alive = timer[t].alive
                        /\ timer'[t].interval = timer[t].interval
                        /\ timer'[t].timestamp = timer[t].timestamp
                        /\ timer'[t].inCallback = timer[t].inCallback
                        /\ timer'[t].inQueue = timer[t].inQueue
                        /\ t \in ToSet(late) => timer'[t].expired
  <2> SUFFICES ASSUME NEW t \in Timer
               PROVE  /\ timer'[t].mem = timer[t].mem /\ timer'[t].alive = timer[t].alive
                      /\ timer'[t].interval = timer[t].interval
                      /\ timer'[t].timestamp = timer[t].timestamp
                      /\ timer'[t].inCallback = timer[t].inCallback
                      /\ timer'[t].inQueue = timer[t].inQueue
                      /\ t \in ToSet(late) => timer'[t].expired
    OBVIOUS
  <2>1. timer[t] \in TimerType
    BY <1>0
  <2>2. CASE t \in ToSet(late)
    BY <2>1, <2>2, <1>10 DEF TimerType
  <2>3. CASE t \notin ToSet(late)
    BY <2>3, <1>10
  <2>. QED
    BY <2>2, <2>3
<1>13. /\ queue'.list = rest /\ queue' \in QueueType
       /\ rest # <<>> => queue'.min = timer[Head(rest)].timestamp
  <2>1. rest # <<>> => /\ Head(rest) = rest[1] /\ rest[1] = list[n + 1] /\ 1 \in DOMAIN rest
                       /\ n + 1 \in DOMAIN list /\ Head(rest) \in Timer
    <3> SUFFICES ASSUME rest # <<>>
                 PROVE  /\ Head(rest) = rest[1] /\ rest[1] = list[n + 1] /\ 1 \in DOMAIN rest
                        /\ n + 1 \in DOMAIN list /\ Head(rest) \in Timer
      OBVIOUS
    <3>1. /\ Len(rest) \in Nat /\ Len(rest) # 0 /\ Head(rest) = rest[1] /\ Head(rest) \in Timer
          /\ DOMAIN rest = 1 .. Len(rest)
      BY <1>8, HeadTailProperties, EmptySeq, LenProperties
    <3>2. 1 \in DOMAIN rest
      BY <3>1
    <3>. QED
      BY <3>1, <3>2, <1>9
  <2>2. CASE n = 0
    <3>1. queue' = [list |-> rest, min |-> queue.min]
      BY <1>7, <2>2
    <3>2. rest # <<>> => queue.min = timer[Head(rest)].timestamp
      <4> SUFFICES ASSUME rest # <<>> PROVE queue.min = timer[Head(rest)].timestamp
        OBVIOUS
      <4>1. Head(rest) = list[1] /\ 1 \in DOMAIN list
        BY <2>1, <2>2
      <4>2. list # <<>> /\ Head(list) = list[1]
        BY <4>1, <1>3, HeadTailProperties, EmptySeq
      <4>. QED
        BY <4>1, <4>2, <1>0, <1>2 DEF Sorted
    <3>. QED
      BY <3>1, <3>2, <1>0, <1>8 DEF QueueType
  <2>3. CASE n # 0 /\ rest # <<>>
    <3>1. queue' = [list |-> rest, min |-> timer[Head(rest)].timestamp]
      BY <1>7, <2>3
    <3>. QED
      BY <3>1, <2>1, <2>3, <1>0, <1>8 DEF QueueType
  <2>4. CASE n # 0 /\ rest = <<>>
    <3>1. queue' = [list |-> rest, min |-> now]
      BY <1>7, <2>4
    <3>. QED
      BY <3>1, <2>4, <1>0, <1>8 DEF QueueType
  <2>. QED
    BY <2>2, <2>3, <2>4
<1>14. Sorted(queue', timer')
  <2>1. Sorted(queue', timer)
    <3>1. ASSUME NEW i \in DOMAIN rest, NEW j \in DOMAIN rest, i < j
          PROVE  timer[rest[i]].timestamp <= timer[rest[j]].timestamp
      <4>1. n + i \in DOMAIN list /\ n + j \in DOMAIN list /\ n + i < n + j
        BY <3>1, <1>4, <1>9, <1>3
      <4>2. timer[list[n + i]].timestamp <= timer[list[n + j]].timestamp
        BY <4>1, <1>0, <1>2 DEF Sorted
      <4>. QED
        BY <4>2, <1>9
    <3>. QED
      BY <3>1, <1>13 DEF Sorted
  <2>2. ToSet(queue'.list) \subseteq Timer
    BY <1>0, <1>9, <1>13
  <2>. QED
    BY <2>1, <2>2, <1>12, <1>13, SortedKept
<1>15. TypeOK'
  BY <1>0, <1>7, <1>8, <1>11, <1>13 DEF Inv, TypeOK, TimerType, QueueType, Pcs
<1>16. Lists' /\ Phases'
  BY <1>0, <1>7, <1>9, <1>13, <1>14 DEF Lists, Phases, NoOversleep
<1>17. InTurn'
  <2>1. \A i \in DOMAIN ops : ops[i].timer \in Timer
    BY OpTyped DEF Inv
  <2>2. \A i \in DOMAIN ops : ops[i].op # "insert" =>
           timer'[ops[i].timer].mem = "allocated" /\ timer'[ops[i].timer].alive
           /\ timer'[ops[i].timer].interval > 0
    BY <1>0, <1>12, <2>1 DEF InTurn, Served
  <2>. QED
    BY <1>0, <2>2, InTurnKept
<1>18. Coming' = Coming /\ Late = {} /\ Late' = ToSet(late) /\ Listed' = ToSet(rest)
  BY <1>0, <1>7, <1>13 DEF Coming, Late, Listed, ToSet
<1>19. ASSUME NEW u \in Timer PROVE Placed(u)' /\ Cancelled(u)'
  <2>1. Cancelled(u)'
    BY <1>0, <1>12 DEF Cancelled
  <2>2. CASE u \in ToSet(late)
    <3>1. u \in Listed /\ Placed(u) /\ timer[u].timestamp <= now
          /\ u \notin Listed' /\ u \in Late'
      BY <2>2, <1>0, <1>9, <1>18
    <3>2. Placed(u)'
      BY <3>1, <1>0, <1>12, <1>18, <2>2 DEF Placed
    <3>. QED
      BY <2>1, <3>2
  <2>3. CASE u \notin ToSet(late)
    <3>1. (u \in Listed <=> u \in Listed') /\ u \notin Late' /\ u \notin Late
      BY <2>3, <1>9, <1>18
    <3>2. timer'[u] = timer[u]
      BY <2>3, <1>10
    <3>3. Placed(u)'
      BY <3>1, <3>2, <1>0, <1>18, PlacedKept
    <3>. QED
      BY <2>1, <3>3
  <2>. QED
    BY <2>2, <2>3
<1>. QED
  BY <1>0, <1>15, <1>16, <1>17, <1>19 DEF Inv

LEMMA InvFire ==
    ASSUME Inv, Fire
    PROVE  Inv'
<1>0. /\ pc = "fire" /\ done # <<>> /\ done' = Tail(done)
      /\ UNCHANGED <<now, queue, ops, batch, deadline, requested, cancelled, fault>>
      /\ timer \in [Timer -> TimerType] /\ queue \in QueueType /\ now \in Nat
      /\ \A x \in Timer : timer[x].timestamp \in Nat
      /\ done \in Seq(Timer) /\ Distinct(done) /\ Distinct(queue.list) /\ Sorted(queue, timer)
      /\ Listed \subseteq Timer /\ current = None /\ ~(batch > 0)
      /\ InTurn /\ \A u \in Timer : Placed(u) /\ Cancelled(u)
  BY Types DEF Inv, TypeOK, Lists, Fire, Phases
<1>1. PICK t : t = Head(done)
  OBVIOUS
<1>2. /\ t \in Timer /\ t \in Late /\ done' \in Seq(Timer) /\ Distinct(done')
      /\ Late' = Late \ {t}
  BY <1>0, <1>1, Taken DEF Late
<1>3. t \notin Coming /\ t \notin Listed /\ timer[t].mem = "allocated"
  BY <1>0, <1>2 DEF Placed
<1>4. Coming' = Coming /\ Listed' = Listed
  BY <1>0 DEF Coming, Listed
<1> DEFINE Done ==
      /\ timer' \in [Timer -> TimerType]
      /\ \A u \in Timer \ {t} : timer'[u] = timer[u]
      /\ current' \in {None, t} /\ pc' \in {"fire", "callback"}
      /\ (pc' = "callback") <=> (current' # None)
      /\ timer[t].alive =>
            timer'[t].mem = "allocated" /\ timer'[t].alive /\ timer'[t].interval = timer[t].interval
      /\ Placed(t)' /\ Cancelled(t)'
<1>5. Done
  <2>1. CASE timer[t].alive
    <3>1. /\ current' = t /\ timer' = [timer EXCEPT ![t].inCallback = TRUE] /\ pc' = "callback"
      BY <1>1, <2>1 DEF Fire
    <3>2. timer' \in [Timer -> TimerType]
      BY <1>0, <1>2, <3>1, FieldsSet
    <3>3. /\ timer'[t].mem = timer[t].mem /\ timer'[t].alive = timer[t].alive
          /\ timer'[t].interval = timer[t].interval /\ timer'[t].inCallback
          /\ timer'[t].inQueue = timer[t].inQueue
      BY <1>0, <1>2, <3>1 DEF TimerType
    <3>4. \A u \in Timer \ {t} : timer'[u] = timer[u]
      BY <1>0, <3>1
    <3>5. Placed(t)'
      BY <1>0, <1>2, <1>3, <1>4, <3>1, <3>3 DEF Placed
    <3>6. Cancelled(t)'
      BY <1>0, <1>2, <3>3 DEF Cancelled
    <3>7. t # None
      BY <1>2, NoneAssumption
    <3>. QED
      BY <1>3, <2>1, <3>1, <3>2, <3>3, <3>4, <3>5, <3>6, <3>7
  <2>2. CASE ~timer[t].alive
    <3>1. timer' = Freed(t) /\ UNCHANGED <<current, pc>>
      BY <1>1, <2>2 DEF Fire
    <3>2. /\ timer' \in [Timer -> TimerType] /\ timer'[t].mem = "freed"
          /\ \A u \in Timer \ {t} : timer'[u] = timer[u]
      BY <1>0, <1>2, <3>1, FreedTimer
    <3>3. current' # t
      BY <1>0, <1>2, <3>1, NoneAssumption
    <3>4. Placed(t)' /\ Cancelled(t)'
      BY <1>0, <1>2, <1>3, <1>4, <3>2, <3>3 DEF Placed, Cancelled
    <3>. QED
      BY <1>0, <2>2, <3>1, <3>2, <3>4
  <2>. QED
    BY <2>1, <2>2
<1> HIDE DEF Done
<1>8. \A u \in Timer \ {t} : timer'[u] = timer[u]
  BY <1>5 DEF Done
<1>9. \A x \in Listed : timer'[x].timestamp = timer[x].timestamp
  BY <1>0, <1>3, <1>8
<1>10. TypeOK'
  <2>1. current' \in Timer \cup {None} /\ pc' \in Pcs
    BY <1>2, <1>5 DEF Done, Pcs
  <2>. QED
    BY <1>0, <1>2, <1>5, <2>1 DEF Done, Inv, TypeOK, TimerType
<1>11. Lists'
  <2>1. Sorted(queue', timer')
    BY <1>0, <1>9, SortedKept DEF Listed
  <2>. QED
    BY <1>0, <1>2, <2>1 DEF Lists
<1>12. Phases'
  BY <1>0, <1>5 DEF Done, Phases, NoOversleep
<1>13. InTurn'
  <2>1. \A i \in DOMAIN ops : ops[i].timer \in Timer
    BY OpTyped DEF Inv
  <2>2. \A i \in DOMAIN ops : ops[i].op # "insert" =>
           timer'[ops[i].timer].mem = "allocated" /\ timer'[ops[i].timer].alive
           /\ timer'[ops[i].timer].interval > 0
    BY <1>0, <1>5, <2>1 DEF Done, InTurn, Served
  <2>. QED
    BY <1>0, <2>2, InTurnKept
<1>14. ASSUME NEW u \in Timer PROVE Placed(u)' /\ Cancelled(u)'
  <2>1. CASE u = t
    BY <2>1, <1>5 DEF Done
  <2>2. CASE u # t
    <3>1. (current' = u <=> current = u) /\ (u \in Late' <=> u \in Late)
      BY <2>2, <1>0, <1>2, <1>5, NoneAssumption DEF Done
    <3>2. Placed(u)'
      BY <3>1, <2>2, <1>0, <1>4, <1>8, PlacedKept
    <3>3. Cancelled(u)'
      BY <2>2, <1>0, <1>8, CancelledKept
    <3>. QED
      BY <3>2, <3>3
  <2>. QED
    BY <2>1, <2>2
<1>. QED
  BY <1>0, <1>10, <1>11, <1>12, <1>13, <1>14 DEF Inv

\* A periodic timer whose callback did not cancel it goes back on the list.
LEMMA InvCallbackReturn ==
    ASSUME Inv, CallbackReturn
    PROVE  Inv'
<1>0. /\ pc = "callback" /\ pc' = "fire" /\ current' = None
      /\ UNCHANGED <<now, done, ops, batch, deadline, requested, cancelled, fault>>
      /\ timer \in [Timer -> TimerType] /\ queue \in QueueType /\ now \in Nat
      /\ \A x \in Timer : timer[x].timestamp \in Nat
      /\ Distinct(done) /\ Distinct(queue.list) /\ Sorted(queue, timer)
      /\ Listed \subseteq Timer /\ current \in Timer /\ ~(batch > 0)
      /\ InTurn /\ \A u \in Timer : Placed(u) /\ Cancelled(u)
  BY Types DEF Inv, TypeOK, Lists, CallbackReturn, Phases
<1>1. PICK t \in Timer : t = current
  BY <1>0
<1>2. t \notin Coming /\ t \notin Listed /\ t \notin Late /\ timer[t].mem = "allocated"
      /\ timer[t].inQueue
  BY <1>0, <1>1 DEF Placed
<1>3. Coming' = Coming /\ Late' = Late
  BY <1>0 DEF Coming, Late
<1>4. t # None
  BY <1>1, NoneAssumption
<1> DEFINE Done ==
      /\ timer' \in [Timer -> TimerType] /\ queue' \in QueueType
      /\ Distinct(queue'.list) /\ Sorted(queue', timer')
      /\ \A u \in Timer \ {t} : timer'[u] = timer[u] /\ (u \in Listed' <=> u \in Listed)
      /\ timer[t].alive /\ timer[t].interval # 0 =>
            timer'[t].mem = "allocated" /\ timer'[t].alive /\ timer'[t].interval = timer[t].interval
      /\ Placed(t)' /\ Cancelled(t)'
<1>5. Done
  <2>1. CASE timer[t].alive /\ timer[t].interval # 0
    <3>1. PICK new : new = [timer[t] EXCEPT !.timestamp = @ + timer[t].interval,
                                            !.expired = FALSE, !.inCallback = FALSE]
      OBVIOUS
    <3>2. timer[t].interval \in Nat /\ timer[t] \in TimerType
      <4>1. timer[t] \in TimerType
        BY <1>0
      <4>2. timer[t].interval \in Intervals \cup {0}
        BY <4>1 DEF TimerType
      <4>3. Intervals \cup {0} \subseteq Nat
        BY ONLY IntervalsAssumption
      <4>4. timer[t].interval \in Nat
        BY <4>2, <4>3, Zenon
      <4>. QED
        BY <4>1, <4>4
    <3>3. /\ new \in TimerType /\ new.mem = timer[t].mem /\ new.alive = timer[t].alive
          /\ new.interval = timer[t].interval /\ new.inQueue = timer[t].inQueue
          /\ ~new.expired /\ ~new.inCallback
      <4>1. PICK next : next = timer[t].timestamp + timer[t].interval
        OBVIOUS
      <4>2. next \in Nat
        BY <4>1, <3>2, <1>0
      <4>3. new = [timer[t] EXCEPT !.timestamp = next, !.expired = FALSE, !.inCallback = FALSE]
        BY <3>1, <4>1
      <4>. QED
        BY <4>2, <4>3, <3>2 DEF TimerType
    <3>4. timer' = [timer EXCEPT ![t] = new] /\ queue' = Inserted(queue, timer', t)
      <4>1. PICK tm : tm = [timer EXCEPT ![t].timestamp = @ + timer[t].interval,
                                         ![t].expired = FALSE, ![t].inCallback = FALSE]
        OBVIOUS
      <4>2. timer' = tm /\ queue' = Inserted(queue, tm, t)
        BY <1>1, <2>1, <4>1 DEF CallbackReturn
      <4>3. tm = [timer EXCEPT ![t] = new]
        BY <1>0, <3>1, <4>1
      <4>. QED
        BY <4>2, <4>3
    <3>5. /\ timer' \in [Timer -> TimerType] /\ timer'[t] = new
          /\ \A u \in Timer \ {t} : timer'[u] = timer[u]
      BY <1>0, <3>3, <3>4
    <3>6. \A x \in Timer : timer'[x].timestamp \in Nat
      BY <3>5 DEF TimerType
    <3>7. Sorted(queue, timer')
      <4>1. \A x \in ToSet(queue.list) : timer'[x].timestamp = timer[x].timestamp
        BY <1>0, <1>2, <3>5 DEF Listed
      <4>. QED
        BY <1>0, <4>1, SortedKept
    <3>8. /\ queue' \in QueueType /\ Sorted(queue', timer') /\ Distinct(queue'.list)
          /\ Listed' = Listed \cup {t}
      BY <1>0, <1>2, <3>4, <3>6, <3>7, Insertion DEF Listed
    <3>9. Placed(t)'
      BY <1>0, <1>2, <1>3, <1>4, <2>1, <3>3, <3>5, <3>8 DEF Placed
    <3>10. Cancelled(t)'
      BY <1>0, <3>3, <3>5 DEF Cancelled
    <3>. QED
      BY <1>2, <2>1, <3>3, <3>5, <3>8, <3>9, <3>10
  <2>2. CASE ~(timer[t].alive /\ timer[t].interval # 0)
    <3>1. timer' = Freed(t) /\ queue' = queue
      BY <1>1, <2>2 DEF CallbackReturn
    <3>2. /\ timer' \in [Timer -> TimerType] /\ timer'[t].mem = "freed"
          /\ \A u \in Timer \ {t} : timer'[u] = timer[u]
      BY <1>0, <3>1, FreedTimer
    <3>3. Sorted(queue', timer') /\ Listed' = Listed
      <4>1. \A x \in ToSet(queue.list) : timer'[x].timestamp = timer[x].timestamp
        BY <1>0, <1>2, <3>2 DEF Listed
      <4>. QED
        BY <1>0, <3>1, <4>1, SortedKept DEF Listed
    <3>4. Placed(t)' /\ Cancelled(t)'
      BY <1>0, <1>2, <1>3, <1>4, <3>2, <3>3 DEF Placed, Cancelled
    <3>. QED
      BY <1>0, <2>2, <3>1, <3>2, <3>3, <3>4
  <2>. QED
    BY <2>1, <2>2
<1> HIDE DEF Done
<1>8. \A u \in Timer \ {t} : timer'[u] = timer[u] /\ (u \in Listed' <=> u \in Listed)
  BY <1>5 DEF Done
<1>9. TypeOK'
  BY <1>0, <1>5 DEF Done, Inv, TypeOK, TimerType, QueueType, Pcs
<1>10. Lists' /\ Phases'
  BY <1>0, <1>5 DEF Done, Lists, Phases, NoOversleep
<1>11. InTurn'
  <2>1. \A i \in DOMAIN ops : ops[i].timer \in Timer
    BY OpTyped DEF Inv
  <2>2. \A i \in DOMAIN ops : ops[i].op # "insert" =>
           timer'[ops[i].timer].mem = "allocated" /\ timer'[ops[i].timer].alive
           /\ timer'[ops[i].timer].interval > 0
    BY <1>0, <1>5, <2>1 DEF Done, InTurn, Served
  <2>. QED
    BY <1>0, <2>2, InTurnKept
<1>12. ASSUME NEW u \in Timer PROVE Placed(u)' /\ Cancelled(u)'
  <2>1. CASE u = t
    BY <2>1, <1>5 DEF Done
  <2>2. CASE u # t
    <3>1. current' = u <=> current = u
      BY <2>2, <1>0, <1>1, NoneAssumption
    <3>2. Placed(u)'
      BY <3>1, <2>2, <1>0, <1>3, <1>8, PlacedKept
    <3>3. Cancelled(u)'
      BY <2>2, <1>0, <1>8, CancelledKept
    <3>. QED
      BY <3>2, <3>3
  <2>. QED
    BY <2>1, <2>2
<1>. QED
  BY <1>0, <1>9, <1>10, <1>11, <1>12 DEF Inv

LEMMA InvDestroy ==
    ASSUME Inv, Destroy
    PROVE  Inv'
<1>0. /\ pc = "poll" /\ pc' = "destroyed" /\ ops' = <<>>
      /\ queue' = [queue EXCEPT !.list = <<>>]
      /\ UNCHANGED <<now, done, current, batch, deadline, requested, cancelled, fault>>
      /\ timer \in [Timer -> TimerType] /\ queue \in QueueType /\ batch \in Nat /\ ~(batch > 0)
      /\ Distinct(done)
  BY Types DEF Inv, Lists, Destroy, Phases
<1>1. timer' \in [Timer -> TimerType]
  <2> DEFINE Left(t) == IF t \in ToSet(queue.list) THEN Freed(t)[t] ELSE timer[t]
  <2>1. timer' = [t \in Timer |-> Left(t)]
    BY DEF Destroy
  <2>2. ASSUME NEW t \in Timer PROVE Left(t) \in TimerType
    <3>1. Freed(t) \in [Timer -> TimerType]
      BY <1>0, FreedTimer
    <3>2. Freed(t)[t] \in TimerType /\ timer[t] \in TimerType
      BY <1>0, <3>1
    <3>. QED
      BY <3>2
  <2> HIDE DEF Left
  <2>. QED
    BY <2>1, <2>2
<1>2. queue' \in QueueType /\ queue'.list = <<>>
  <2>1. PICK empty : empty = <<>>
    OBVIOUS
  <2>2. empty \in Seq(Timer)
    BY <2>1
  <2>3. queue' = [queue EXCEPT !.list = empty]
    BY <1>0, <2>1
  <2>4. queue' \in QueueType /\ queue'.list = empty
    BY <1>0, <2>2, <2>3 DEF QueueType
  <2>. QED
    BY <2>1, <2>4
<1>3. batch' \in 0 .. Len(ops')
  BY <1>0
<1>4. TypeOK'
  BY <1>0, <1>1, <1>2, <1>3 DEF Inv, TypeOK, TimerType, QueueType, Pcs
<1>5. Lists' /\ Phases'
  BY <1>0, <1>2 DEF Inv, Lists, Distinct, Sorted, Phases, NoOversleep
<1>. QED
  BY <1>0, <1>4, <1>5 DEF Inv

-----------------------------------------------------------------------------
(***************************************************************************)
(* The theorems.                                                           *)
(***************************************************************************)
LEMMA InvNext ==
    ASSUME CancelOneShotAcross = FALSE, RefreshUnlisted = FALSE, Inv, [Next]_vars
    PROVE  Inv'
<1>1. CASE User
  <2>1. PICK t \in Timer :
          \/ \E iv \in Intervals, every \in BOOLEAN :
               AddInLoop(t, iv, every) \/ AddByClient(t, iv, every)
          \/ CancelByLoop(t)
          \/ RefreshByLoop(t)
          \/ CancelByClient(t)
          \/ RefreshByClient(t)
    BY <1>1 DEF User
  <2>2. ASSUME NEW iv \in Intervals, NEW every \in BOOLEAN,
               AddInLoop(t, iv, every) \/ AddByClient(t, iv, every)
        PROVE  Inv'
    BY <2>2, InvAddInLoop, InvAddByClient
  <2>3. CASE CancelByLoop(t)
    BY <2>3, InvCancelByLoop
  <2>4. CASE RefreshByLoop(t)
    BY <2>4, InvRefreshByLoop
  <2>5. CASE CancelByClient(t) \/ RefreshByClient(t)
    BY <2>5, InvByClient
  <2>. QED
    BY <2>1, <2>2, <2>3, <2>4, <2>5
<1>2. CASE Poll \/ TaskOrTimeout \/ TasksDone \/ AllFired \/ IoEvent \/ Tick \/ UNCHANGED vars
  <2>1. TaskOrTimeout \/ IoEvent => pc = "wait" /\ WakeUp
    BY DEF TaskOrTimeout, IoEvent
  <2>. QED
    BY <1>2, <2>1, InvQuiet
<1>3. CASE RunOp
  BY <1>3, InvRunOp
<1>4. CASE Expire
  BY <1>4, InvExpire
<1>5. CASE Fire
  BY <1>5, InvFire
<1>6. CASE CallbackReturn
  BY <1>6, InvCallbackReturn
<1>7. CASE Destroy
  BY <1>7, InvDestroy
<1>. QED
  BY <1>1, <1>2, <1>3, <1>4, <1>5, <1>6, <1>7 DEF Next, LoopStep

\* The invariant, of users who cancel one-shot timers in the loop's thread alone
\* and refresh no timer that is off the list.
THEOREM InvAlways ==
    ASSUME CancelOneShotAcross = FALSE, RefreshUnlisted = FALSE
    PROVE  Spec => []Inv
<1>1. Init => Inv
  BY InvInit
<1>2. Inv /\ [Next]_vars => Inv'
  BY InvNext
<1>. QED
  BY <1>1, <1>2, PTL DEF Spec

\* No step uses a freed timer or unlinks one that is not on the list: the flags
\* is_in_callback, is_expired and is_in_queue say where every timer is.
THEOREM NoFaultAlways ==
    ASSUME CancelOneShotAcross = FALSE, RefreshUnlisted = FALSE
    PROVE  Spec => []NoFault
<1>1. Inv => NoFault
  BY DEF Inv, NoFault
<1>. QED
  BY <1>1, InvAlways, PTL

\* min_timestamp is the earliest timestamp of an ordered list after every insertion,
\* removal, refresh and expiry.
THEOREM MinIsEarliestAlways ==
    ASSUME CancelOneShotAcross = FALSE, RefreshUnlisted = FALSE
    PROVE  Spec => []MinIsEarliest
<1>1. Inv => MinIsEarliest
  BY DEF Inv, Lists, Sorted, MinIsEarliest
<1>. QED
  BY <1>1, InvAlways, PTL

\* The sleep loop_loop() asks epoll_wait() for ends before any timer is due.
THEOREM NoOversleepAlways ==
    ASSUME CancelOneShotAcross = FALSE, RefreshUnlisted = FALSE
    PROVE  Spec => []NoOversleep
<1>1. Inv => NoOversleep
  BY DEF Inv, Phases
<1>. QED
  BY <1>1, InvAlways, PTL

LEMMA HowOften ==
    ASSUME NEW n \in Nat, NEW P, P \subseteq 1 .. n, \A i, j \in P : i = j
    PROVE  Cardinality(P) = IF P = {} THEN 0 ELSE 1
<1>1. CASE P = {}
  BY <1>1, FS_EmptySet
<1>2. CASE P # {}
  <2>1. PICK i \in P : P = {i}
    BY <1>2
  <2>. QED
    BY <1>2, <2>1, FS_Singleton
<1>. QED
  BY <1>1, <1>2

\* An allocated timer is in one place: on its way, on the list, expired, or in its
\* callback; a freed one is in none.
THEOREM OwnedOnceAlways ==
    ASSUME CancelOneShotAcross = FALSE, RefreshUnlisted = FALSE
    PROVE  Spec => []OwnedOnce
<1>1. ASSUME Inv PROVE OwnedOnce
  <2> SUFFICES ASSUME pc # "destroyed", NEW t \in Timer
               PROVE  Places(t) = IF timer[t].mem = "allocated" THEN 1 ELSE 0
    BY DEF OwnedOnce
  <2>1. Placed(t) /\ InTurn /\ Distinct(queue.list) /\ Distinct(done)
    BY <1>1 DEF Inv, Lists
  <2>2. /\ DOMAIN ops = 1 .. Len(ops) /\ Len(ops) \in Nat
        /\ DOMAIN queue.list = 1 .. Len(queue.list) /\ Len(queue.list) \in Nat
        /\ DOMAIN done = 1 .. Len(done) /\ Len(done) \in Nat
    BY <1>1, Types, LenProperties DEF Inv
  <2>3. PICK a : a = {i \in DOMAIN ops : ops[i] = [op |-> "insert", timer |-> t]}
    OBVIOUS
  <2>4. PICK b : b = {i \in DOMAIN queue.list : queue.list[i] = t}
    OBVIOUS
  <2>5. PICK c : c = {i \in DOMAIN done : done[i] = t}
    OBVIOUS
  <2>6. Cardinality(a) = IF t \in Coming THEN 1 ELSE 0
    <3>1. \A i \in DOMAIN ops : i \in a <=> ops[i].op = "insert" /\ ops[i].timer = t
      <4> SUFFICES ASSUME NEW i \in DOMAIN ops
                   PROVE  ops[i] = [op |-> "insert", timer |-> t]
                          <=> ops[i].op = "insert" /\ ops[i].timer = t
        BY <2>3
      <4>1. ops[i] \in OpType
        BY <1>1, OpTyped DEF Inv
      <4>. QED
        BY <4>1 DEF OpType
    <3>2. a \subseteq 1 .. Len(ops) /\ a \subseteq DOMAIN ops
      BY <2>2, <2>3
    <3>3. \A i, j \in a : i = j
      <4> SUFFICES ASSUME NEW i \in a, NEW j \in a PROVE i = j
        OBVIOUS
      <4>1. i <= j /\ j <= i
        BY <2>1, <3>1, <3>2 DEF InTurn, Ranked
      <4>2. i \in Nat /\ j \in Nat
        BY <2>2, <3>2
      <4>. QED
        BY <4>1, <4>2
    <3>4. a # {} <=> t \in Coming
      BY <3>1, <3>2 DEF Coming, ComingIn
    <3>. QED
      BY <2>2, <3>2, <3>3, <3>4, HowOften
  <2>7. Cardinality(b) = IF t \in Listed THEN 1 ELSE 0
    <3>1. b \subseteq 1 .. Len(queue.list) /\ \A i, j \in b : i = j
      BY <2>1, <2>2, <2>4 DEF Distinct
    <3>2. b # {} <=> t \in Listed
      BY <2>4 DEF Listed, ToSet
    <3>. QED
      BY <2>2, <3>1, <3>2, HowOften
  <2>8. Cardinality(c) = IF t \in Late THEN 1 ELSE 0
    <3>1. c \subseteq 1 .. Len(done) /\ \A i, j \in c : i = j
      BY <2>1, <2>2, <2>5 DEF Distinct
    <3>2. c # {} <=> t \in Late
      BY <2>5 DEF Late, ToSet
    <3>. QED
      BY <2>2, <3>1, <3>2, HowOften
  <2>9. Places(t) = (IF t \in Coming THEN 1 ELSE 0) + (IF t \in Listed THEN 1 ELSE 0)
                    + (IF t \in Late THEN 1 ELSE 0) + (IF current = t THEN 1 ELSE 0)
    BY <2>3, <2>4, <2>5, <2>6, <2>7, <2>8 DEF Places
  <2>. QED
    BY <2>1, <2>9 DEF Placed
<1>. QED
  BY <1>1, InvAlways, PTL

LEMMA OnlyFireEnters ==
    ASSUME Inv, [Next]_vars, NEW t \in Timer, EntersCallback(t)
    PROVE  timer[t].alive /\ t \in Late /\ Placed(t) /\ Cancelled(t)
<1>1. Fire /\ timer[Head(done)].alive /\ t = Head(done)
  BY NoneAssumption
     DEF EntersCallback, Next, User, LoopStep, AddInLoop, AddByClient, CancelByLoop,
         RefreshByLoop, CancelByClient, RefreshByClient, Poll, TaskOrTimeout, IoEvent, WakeUp,
         RunOp, TasksDone, Expire, Fire, CallbackReturn, AllFired, Destroy, Tick, vars
<1>2. pc = "fire" /\ done # <<>>
  BY <1>1 DEF Fire
<1>3. t \in Late
  BY <1>1, <1>2, Types, Taken DEF Inv, Lists, Late
<1>. QED
  BY <1>1, <1>2, <1>3 DEF Inv

\* Only Fire enters a callback, of the first expired timer, and it looks at alive,
\* which a cancel carried out in the loop has cleared.
THEOREM CancelledNeverRunsAlways ==
    ASSUME CancelOneShotAcross = FALSE, RefreshUnlisted = FALSE
    PROVE  Spec => CancelledNeverRuns
<1>1. ASSUME Inv, [Next]_vars, NEW t \in Timer, EntersCallback(t)
      PROVE  t \notin cancelled
  <2>1. timer[t].alive /\ t \in Late /\ Placed(t) /\ Cancelled(t)
    BY <1>1, OnlyFireEnters
  <2>. QED
    BY <2>1 DEF Placed, Cancelled
<1>2. Inv /\ [Next]_vars
        => [\A t \in Timer : EntersCallback(t) => t \notin cancelled]_vars
  BY <1>1
<1>. QED
  BY <1>2, InvAlways, PTL DEF Spec, CancelledNeverRuns

\* The timers that Expire takes off the list are due, and stay due while they wait.
THEOREM NeverEarlyAlways ==
    ASSUME CancelOneShotAcross = FALSE, RefreshUnlisted = FALSE
    PROVE  Spec => NeverEarly
<1>1. ASSUME Inv, [Next]_vars, NEW t \in Timer, EntersCallback(t)
      PROVE  timer[t].timestamp <= now
  BY <1>1, OnlyFireEnters DEF Placed
<1>2. Inv /\ [Next]_vars
        => [\A t \in Timer : EntersCallback(t) => timer[t].timestamp <= now]_vars
  BY <1>1
<1>. QED
  BY <1>2, InvAlways, PTL DEF Spec, NeverEarly

=============================================================================
