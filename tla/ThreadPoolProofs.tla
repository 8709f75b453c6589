------------------------- MODULE ThreadPoolProofs -------------------------
(***************************************************************************)
(* Theorems about ThreadPool: the counters count the threads, no wakeup is *)
(* lost, a shutdown leaves no task, and a task is executed once.           *)
(***************************************************************************)
EXTENDS ThreadPool, FiniteSetTheorems, SequenceTheorems, TLAPS

Labels     == {"none", "fetch", "waiting", "notified", "fetched", "calling", "clearing",
               "dying", "leaving", "gone"}
BusyLabels == {"fetch", "fetched", "calling", "clearing", "dying", "leaving"}
LiveLabels == BusyLabels \cup {"waiting", "notified"}
TaskLabels == {"fetched", "calling", "clearing"}

\* The workers that p has at a label of S.
Among(p, S) == {w \in Workers : p[w] \in S}

One(b) == IF b THEN 1 ELSE 0

CountsOf(p, c, a) == c = Cardinality(Among(p, LiveLabels)) /\ a = Cardinality(Among(p, BusyLabels))

-----------------------------------------------------------------------------
(***************************************************************************)
(* Facts about finite sets of workers.                                     *)
(***************************************************************************)
\* Workers are finitely many.
LEMMA FiniteWorkers ==
  ASSUME NEW S \in SUBSET Workers
  PROVE  IsFiniteSet(S) /\ Cardinality(S) \in Nat
<1>1. IsFiniteSet(Workers)
  BY PoolAssumption, FS_Interval DEF PoolAssumption, Workers
<1> QED BY <1>1, FS_Subset, FS_CardinalityType

\* A worker that goes from one label to another changes the two counts by one.
Shifted(p, q, w, l) ==
  \A S : Cardinality(Among(q, S)) = Cardinality(Among(p, S)) + One(l \in S) - One(p[w] \in S)

LEMMA OneMoves ==
  ASSUME NEW p \in [Workers -> Labels], NEW q \in [Workers -> Labels],
         NEW w \in Workers, NEW l, q[w] = l, \A v \in Workers \ {w} : q[v] = p[v]
  PROVE  Shifted(p, q, w, l)
<1> SUFFICES ASSUME NEW S
             PROVE  Cardinality(Among(q, S)) = Cardinality(Among(p, S)) + One(l \in S) - One(p[w] \in S)
  BY DEF Shifted
<1> DEFINE A == Among(p, S)
           B == Among(q, S)
<1>1. A \in SUBSET Workers /\ B \in SUBSET Workers
  BY DEF Among
<1>2. IsFiniteSet(A) /\ IsFiniteSet(B) /\ Cardinality(A) \in Nat /\ Cardinality(B) \in Nat
  BY <1>1, FiniteWorkers
<1>3. CASE l \in S /\ p[w] \notin S
  <2>1. B = A \cup {w} /\ w \notin A
    BY <1>3 DEF Among
  <2>2. Cardinality(B) = Cardinality(A) + 1
    BY <2>1, <1>2, FS_AddElement
  <2> QED BY <2>2, <1>2, <1>3 DEF One
<1>4. CASE l \notin S /\ p[w] \in S
  <2>1. B = A \ {w} /\ w \in A
    BY <1>4 DEF Among
  <2>2. Cardinality(B) = Cardinality(A) - 1
    BY <2>1, <1>2, FS_RemoveElement
  <2> QED BY <2>2, <1>2, <1>4 DEF One
<1>5. CASE l \in S <=> p[w] \in S
  <2>1. B = A
    BY <1>5 DEF Among
  <2> QED BY <2>1, <1>2, <1>5 DEF One
<1> QED BY <1>3, <1>4, <1>5

\* The counts and the sleepers in terms of Among.
LEMMA Counted ==
  /\ CountersAgree <=> CountsOf(pc, count, active)
  /\ CountersAgree' <=> CountsOf(pc', count', active')
  /\ WakeupsCoverQueue <=>
       (Among(pc, {"waiting"}) # {} => Len(queue) <= Cardinality(Among(pc, {"notified"})))
  /\ WakeupsCoverQueue' <=>
       (Among(pc', {"waiting"}) # {} => Len(queue') <= Cardinality(Among(pc', {"notified"})))
<1>1. Idle \cup Busy = Among(pc, LiveLabels) /\ Busy = Among(pc, BusyLabels)
  BY DEF Idle, Busy, Thread, Among, LiveLabels, BusyLabels
<1>2. Idle' \cup Busy' = Among(pc', LiveLabels) /\ Busy' = Among(pc', BusyLabels)
  BY DEF Idle, Busy, Thread, Among, LiveLabels, BusyLabels
<1>3. CountersAgree <=> CountsOf(pc, count, active)
  BY <1>1 DEF CountersAgree, CountsOf
<1>4. CountersAgree' <=> CountsOf(pc', count', active')
  BY <1>2 DEF CountersAgree, CountsOf
<1> QED BY <1>3, <1>4 DEF WakeupsCoverQueue, Thread, Among

\* The counters are natural numbers because they count.
LEMMA CountsAreNat ==
  ASSUME NEW p, NEW c, NEW a, CountsOf(p, c, a)
  PROVE  c \in Nat /\ a \in Nat
<1>1. Among(p, LiveLabels) \in SUBSET Workers /\ Among(p, BusyLabels) \in SUBSET Workers
  BY DEF Among
<1> QED BY <1>1, FiniteWorkers DEF CountsOf

-----------------------------------------------------------------------------
(***************************************************************************)
(* Effects several actions have on the threads and the queue.              *)
(***************************************************************************)
\* One worker goes on: it stays counted, and the wakeups still cover the queue.
LEMMA WorkerMoves ==
  ASSUME TypeOK, CountersAgree, WakeupsCoverQueue, \A v \in Workers : Known(v),
         NEW w \in Workers, NEW l \in Labels \ {"none"},
         pc[w] # "none", pc' = [pc EXCEPT ![w] = l], spawned' = spawned,
         count'  = count + One(l \in LiveLabels) - One(pc[w] \in LiveLabels),
         active' = active + One(l \in BusyLabels) - One(pc[w] \in BusyLabels),
         queue' \in Seq(Tasks),
         queue' = <<>> \/ (l # "waiting" /\ Len(queue') <= Len(queue) - One(pc[w] = "notified"))
  PROVE  /\ CountersAgree' /\ WakeupsCoverQueue' /\ \A v \in Workers : Known(v)'
         /\ count' \in Nat /\ active' \in Nat
<1>1. pc \in [Workers -> Labels] /\ queue \in Seq(Tasks)
  BY DEF TypeOK, WorkerTypeOK, PoolTypeOK, Labels
<1>2. CountsOf(pc, count, active)
  BY Counted
<1>a. Shifted(pc, pc', w, l)
  <2>1. pc' \in [Workers -> Labels] /\ pc'[w] = l /\ \A v \in Workers \ {w} : pc'[v] = pc[v]
    BY <1>1
  <2> QED BY <1>1, <2>1, OneMoves
<1>3. CountsOf(pc', count', active')
  BY <1>2, <1>a DEF CountsOf, Shifted
<1>4. CountersAgree' /\ count' \in Nat /\ active' \in Nat
  BY <1>3, Counted, CountsAreNat
<1>5. \A v \in Workers : Known(v)'
  BY <1>1 DEF Known
<1>6. ASSUME Among(pc', {"waiting"}) # {}
      PROVE  Len(queue') <= Cardinality(Among(pc', {"notified"}))
  <2>1. Among(pc', {"notified"}) \in SUBSET Workers /\ Among(pc, {"notified"}) \in SUBSET Workers
    BY DEF Among
  <2>2. Cardinality(Among(pc', {"notified"})) \in Nat /\ Cardinality(Among(pc, {"notified"})) \in Nat
    BY <2>1, FiniteWorkers
  <2>3. CASE queue' = <<>>
    BY <2>3, <2>2
  <2>4. CASE l # "waiting" /\ Len(queue') <= Len(queue) - One(pc[w] = "notified")
    <3>1. Among(pc, {"waiting"}) # {}
      BY <1>1, <1>6, <2>4 DEF Among
    <3>2. Len(queue) <= Cardinality(Among(pc, {"notified"}))
      BY <3>1, Counted
    <3> DEFINE N == {"notified"}
    <3>3. /\ One(l \in N) \in Nat /\ (pc[w] \in N <=> pc[w] = "notified")
      BY DEF One
    <3> HIDE DEF N
    <3>4. Cardinality(Among(pc', N)) = Cardinality(Among(pc, N)) + One(l \in N) - One(pc[w] \in N)
      BY <1>a DEF Shifted
    <3>5. One(pc[w] \in N) = One(pc[w] = "notified") /\ One(pc[w] \in N) \in {0, 1}
      BY <3>3 DEF One
    <3>6. Len(queue') \in Nat /\ Len(queue) \in Nat
      BY <1>1
    <3>7. Cardinality(Among(pc', N)) \in Nat /\ Cardinality(Among(pc, N)) \in Nat
          /\ Len(queue) <= Cardinality(Among(pc, N))
      BY <2>2, <3>2 DEF N
    <3>8. Len(queue') <= Cardinality(Among(pc', N))
      BY <2>4, <3>3, <3>4, <3>5, <3>6, <3>7
    <3> QED BY <3>8 DEF N
  <2> QED BY <2>3, <2>4
<1> QED BY <1>4, <1>5, <1>6, Counted

\* resize: threads are created and counted, or the sleeping ones are woken.
LEMMA Resizes ==
  ASSUME TypeOK, NEW p \in [Workers -> Labels], NEW c, NEW a, NEW n \in Nat,
         CountsOf(p, c, a), \A w \in Workers : p[w] # "none" <=> w <= spawned,
         ResizeTo(n, c, a, p)
  PROVE  /\ CountsOf(pc', count', active') /\ pc' \in [Workers -> Labels]
         /\ target' \in Nat /\ spawned' \in 0..MaxThreads
         /\ \A w \in Workers : Known(w)'
         /\ \A w \in Workers : \A l \in TaskLabels : pc'[w] = l <=> p[w] = l
         /\ \/ Among(pc', {"waiting"}) = {}
            \/ /\ Among(pc', {"waiting"}) = Among(p, {"waiting"})
               /\ Among(pc', {"notified"}) = Among(p, {"notified"})
<1>1. target' \in Nat /\ c \in Nat /\ a \in Nat /\ spawned \in Nat /\ MaxThreads \in Nat
  BY CountsAreNat, PoolAssumption DEF ResizeTo, TypeOK, PoolTypeOK, PoolAssumption
<1>2. CASE Grow(n, c, a, p)
  <2>1. PICK k \in 0..(n - c) :
          /\ spawned + k <= MaxThreads
          /\ spawned' = spawned + k /\ count' = c + k /\ active' = a + k
          /\ pc' = [w \in Workers |-> IF w \in (spawned + 1)..(spawned + k) THEN "fetch" ELSE p[w]]
    BY <1>2 DEF Grow
  <2>2. k \in Nat
    BY <2>1, <1>1
  <2> DEFINE new == (spawned + 1)..(spawned + k)
  <2>3. new \in SUBSET Workers /\ \A w \in new : p[w] = "none"
    BY <2>1, <2>2, <1>1 DEF Workers
  <2>4. Cardinality(new) = k
    BY <2>2, <1>1, FS_Interval
  <2>5. ASSUME NEW S, "fetch" \in S, "none" \notin S
        PROVE  Cardinality(Among(pc', S)) = Cardinality(Among(p, S)) + k
    <3>1. Among(pc', S) = Among(p, S) \cup new /\ Among(p, S) \cap new = {}
      BY <2>1, <2>3, <2>5 DEF Among
    <3>2. Among(p, S) \in SUBSET Workers
      BY DEF Among
    <3>3. IsFiniteSet(Among(p, S)) /\ IsFiniteSet(new) /\ Cardinality(Among(p, S)) \in Nat
      BY <2>3, <3>2, FiniteWorkers
    <3>4. Cardinality(Among(p, S) \cup new) = Cardinality(Among(p, S)) + Cardinality(new) - Cardinality({})
      BY <3>1, <3>3, FS_Union
    <3> QED BY <3>1, <3>3, <3>4, <2>2, <2>4, FS_EmptySet
  <2>6. Cardinality(Among(pc', LiveLabels)) = Cardinality(Among(p, LiveLabels)) + k
    BY <2>5 DEF LiveLabels, BusyLabels
  <2>7. Cardinality(Among(pc', BusyLabels)) = Cardinality(Among(p, BusyLabels)) + k
    BY <2>5 DEF BusyLabels
  <2>8. pc' \in [Workers -> Labels]
    BY <2>1 DEF Labels
  <2>9. \A w \in Workers : Known(w)'
    BY <2>1, <2>2, <2>3, <1>1 DEF Known, Workers
  <2>10. /\ \A w \in Workers : \A l \in TaskLabels : pc'[w] = l <=> p[w] = l
         /\ Among(pc', {"waiting"}) = Among(p, {"waiting"})
         /\ Among(pc', {"notified"}) = Among(p, {"notified"})
    BY <2>1, <2>3 DEF Among, TaskLabels
  <2>11. spawned' \in 0..MaxThreads
    BY <2>1, <2>2, <1>1
  <2> QED BY <2>1, <2>6, <2>7, <2>8, <2>9, <2>10, <2>11, <1>1 DEF CountsOf
<1>3. CASE Shrink(n, c, a, p)
  <2>1. /\ pc' = [w \in Workers |-> IF p[w] = "waiting" THEN "notified" ELSE p[w]]
        /\ count' = c /\ active' = a /\ spawned' = spawned
    BY <1>3 DEF Shrink, Woken
  <2>2. Among(pc', LiveLabels) = Among(p, LiveLabels) /\ Among(pc', BusyLabels) = Among(p, BusyLabels)
    BY <2>1 DEF Among, LiveLabels, BusyLabels
  <2>3. pc' \in [Workers -> Labels] /\ \A w \in Workers : pc'[w] # "none" <=> p[w] # "none"
    BY <2>1 DEF Labels
  <2>4. \A w \in Workers : \A l \in TaskLabels : pc'[w] = l <=> p[w] = l
    BY <2>1 DEF TaskLabels
  <2>5. Among(pc', {"waiting"}) = {}
    BY <2>1 DEF Among
  <2>6. spawned' \in 0..MaxThreads
    BY <2>1 DEF TypeOK, PoolTypeOK
  <2> QED BY <2>1, <2>2, <2>3, <2>4, <2>5, <2>6, <1>1 DEF CountsOf, Known
<1> QED BY <1>2, <1>3 DEF ResizeTo

\* What is in the queue after a push and after the removal of a task.
LEMMA Pushed ==
  ASSUME NEW s \in Seq(Tasks), NEW t \in Tasks, NEW r, r = Append(s, t) \/ r = <<t>> \o s
  PROVE  /\ r \in Seq(Tasks) /\ Len(r) = Len(s) + 1 /\ ToSet(r) = ToSet(s) \cup {t}
         /\ t \notin ToSet(s) /\ (\A i, j \in DOMAIN s : s[i] = s[j] => i = j)
              => \A i, j \in DOMAIN r : r[i] = r[j] => i = j
<1>1. CASE r = Append(s, t)
  <2>1. /\ r \in Seq(Tasks) /\ Len(r) = Len(s) + 1 /\ DOMAIN r = 1..(Len(s) + 1)
        /\ DOMAIN s = 1..Len(s) /\ Len(s) \in Nat
        /\ \A i \in 1..(Len(s) + 1) : r[i] = IF i = Len(s) + 1 THEN t ELSE s[i]
    BY <1>1
  <2>2. /\ r[Len(s) + 1] = t /\ Len(s) + 1 \in DOMAIN r
        /\ \A i \in DOMAIN s : i \in DOMAIN r /\ r[i] = s[i]
        /\ \A i \in DOMAIN r : i = Len(s) + 1 \/ i \in DOMAIN s
    BY <2>1
  <2>3. ToSet(r) = ToSet(s) \cup {t}
    <3>1. t \in ToSet(r)
      BY <2>2 DEF ToSet
    <3>2. ASSUME NEW x \in ToSet(s) PROVE x \in ToSet(r)
      <4>1. PICK m \in DOMAIN s : x = s[m]
        BY DEF ToSet
      <4>2. m \in DOMAIN r /\ r[m] = x
        BY <2>2, <4>1
      <4> QED BY <4>2 DEF ToSet
    <3>3. ASSUME NEW x \in ToSet(r) PROVE x \in ToSet(s) \cup {t}
      <4>1. PICK m \in DOMAIN r : x = r[m]
        BY DEF ToSet
      <4>2. x = t \/ \E j \in DOMAIN s : x = s[j]
        BY <2>2, <4>1
      <4> QED BY <4>2 DEF ToSet
    <3> QED BY <3>1, <3>2, <3>3
  <2>4. ASSUME t \notin ToSet(s), \A i, j \in DOMAIN s : s[i] = s[j] => i = j,
               NEW i \in DOMAIN r, NEW j \in DOMAIN r, r[i] = r[j]
        PROVE  i = j
    <3>1. \A m \in DOMAIN s : s[m] # t
      BY <2>4 DEF ToSet
    <3> QED BY <2>2, <2>4, <3>1
  <2> QED BY <2>1, <2>3, <2>4
<1>2. CASE r = <<t>> \o s
  <2>1. /\ r \in Seq(Tasks) /\ Len(r) = Len(s) + 1 /\ DOMAIN r = 1..(Len(s) + 1)
        /\ DOMAIN s = 1..Len(s) /\ Len(s) \in Nat
        /\ \A i \in 1..(Len(s) + 1) : r[i] = IF i = 1 THEN t ELSE s[i - 1]
    BY <1>2
  <2>2. /\ r[1] = t /\ 1 \in DOMAIN r
        /\ \A i \in DOMAIN s : i + 1 \in DOMAIN r /\ r[i + 1] = s[i]
        /\ \A i \in DOMAIN r : i = 1 \/ (i - 1 \in DOMAIN s /\ r[i] = s[i - 1])
    BY <2>1
  <2>3. ToSet(r) = ToSet(s) \cup {t}
    <3>1. t \in ToSet(r)
      BY <2>2 DEF ToSet
    <3>2. ASSUME NEW x \in ToSet(s) PROVE x \in ToSet(r)
      <4>1. PICK m \in DOMAIN s : x = s[m]
        BY DEF ToSet
      <4>2. m + 1 \in DOMAIN r /\ r[m + 1] = x
        BY <2>2, <4>1
      <4> QED BY <4>2 DEF ToSet
    <3>3. ASSUME NEW x \in ToSet(r) PROVE x \in ToSet(s) \cup {t}
      <4>1. PICK m \in DOMAIN r : x = r[m]
        BY DEF ToSet
      <4>2. m = 1 => x = t
        BY <2>2, <4>1
      <4>3. m # 1 => m - 1 \in DOMAIN s /\ x = s[m - 1]
        BY <2>2, <4>1
      <4> QED BY <4>2, <4>3 DEF ToSet
    <3> QED BY <3>1, <3>2, <3>3
  <2>4. ASSUME t \notin ToSet(s), \A i, j \in DOMAIN s : s[i] = s[j] => i = j,
               NEW i \in DOMAIN r, NEW j \in DOMAIN r, r[i] = r[j]
        PROVE  i = j
    <3>1. \A m \in DOMAIN s : s[m] # t
      BY <2>4 DEF ToSet
    <3>2. CASE i = 1 \/ j = 1
      <4>1. \A m \in DOMAIN r : m # 1 => r[m] # t
        BY <2>2, <3>1
      <4> QED BY <2>2, <2>4, <3>2, <4>1
    <3>3. CASE i # 1 /\ j # 1
      <4>1. i - 1 = j - 1
        BY <2>2, <2>4, <3>3
      <4> QED BY <4>1, <2>1
    <3> QED BY <3>2, <3>3
  <2> QED BY <2>1, <2>3, <2>4
<1> QED BY <1>1, <1>2

LEMMA Removed ==
  ASSUME NEW s \in Seq(Tasks), NEW i \in DOMAIN s, \A m, n \in DOMAIN s : s[m] = s[n] => m = n,
         NEW r, r = RemoveAt(s, i)
  PROVE  /\ r \in Seq(Tasks) /\ Len(r) = Len(s) - 1 /\ ToSet(r) = ToSet(s) \ {s[i]}
         /\ \A m, n \in DOMAIN r : r[m] = r[n] => m = n
         /\ s[i] \in ToSet(s) /\ s[i] \in Tasks
<1>1. Len(s) \in Nat /\ DOMAIN s = 1..Len(s) /\ i \in 1..Len(s)
  OBVIOUS
<1>2. SubSeq(s, 1, i - 1) \in Seq(Tasks) /\ Len(SubSeq(s, 1, i - 1)) = i - 1
      /\ \A m \in 1..(i - 1) : SubSeq(s, 1, i - 1)[m] = s[m]
  BY <1>1
<1>3. SubSeq(s, i + 1, Len(s)) \in Seq(Tasks) /\ Len(SubSeq(s, i + 1, Len(s))) = Len(s) - i
      /\ \A m \in 1..(Len(s) - i) : SubSeq(s, i + 1, Len(s))[m] = s[m + i]
  BY <1>1
<1>4. r \in Seq(Tasks) /\ Len(r) = Len(s) - 1 /\ DOMAIN r = 1..(Len(s) - 1)
      /\ \A m \in DOMAIN r : r[m] = IF m < i THEN s[m] ELSE s[m + 1]
  <2> DEFINE a == SubSeq(s, 1, i - 1)
             b == SubSeq(s, i + 1, Len(s))
  <2>1. r = a \o b
    BY DEF RemoveAt
  <2>2. /\ a \in Seq(Tasks) /\ Len(a) = i - 1 /\ \A m \in 1..(i - 1) : a[m] = s[m]
        /\ b \in Seq(Tasks) /\ Len(b) = Len(s) - i /\ \A m \in 1..(Len(s) - i) : b[m] = s[m + i]
    BY <1>2, <1>3
  <2> HIDE DEF a, b
  <2>3. /\ r \in Seq(Tasks) /\ Len(r) = Len(s) - 1 /\ DOMAIN r = 1..(Len(s) - 1)
        /\ \A m \in 1..(Len(s) - 1) : r[m] = IF m <= i - 1 THEN a[m] ELSE b[m - (i - 1)]
    <3>1. r \in Seq(Tasks) /\ Len(r) = Len(a) + Len(b) /\ DOMAIN r = 1..Len(r)
      BY <2>1, <2>2
    <3>2. Len(r) = Len(s) - 1
      BY <1>1, <2>2, <3>1
    <3>3. ASSUME NEW m \in 1..(Len(a) + Len(b))
          PROVE  r[m] = IF m <= Len(a) THEN a[m] ELSE b[m - Len(a)]
      <4>1. (a \o b)[m] = IF m <= Len(a) THEN a[m] ELSE b[m - Len(a)]
        BY <2>2, ConcatProperties, Zenon
      <4> QED BY <2>1, <4>1
    <3>4. Len(a) + Len(b) = Len(s) - 1 /\ Len(a) = i - 1
      BY <1>1, <2>2
    <3> QED BY <3>1, <3>2, <3>3, <3>4
  <2>4. ASSUME NEW m \in 1..(Len(s) - 1)
        PROVE  r[m] = IF m < i THEN s[m] ELSE s[m + 1]
    <3>1. CASE m < i
      BY <1>1, <2>2, <2>3, <3>1
    <3>2. CASE m >= i
      <4>1. m - (i - 1) \in 1..(Len(s) - i) /\ (m - (i - 1)) + i = m + 1
        BY <1>1, <3>2
      <4>2. b[m - (i - 1)] = s[m + 1]
        BY <2>2, <4>1
      <4> QED BY <1>1, <2>3, <3>2, <4>2
    <3> QED BY <1>1, <3>1, <3>2
  <2> QED BY <2>3, <2>4
<1>5. \A m, n \in DOMAIN r : r[m] = r[n] => m = n
  BY <1>1, <1>4
<1>6. \A m \in DOMAIN r : r[m] \in ToSet(s) \ {s[i]}
  BY <1>1, <1>4 DEF ToSet
<1>7. ASSUME NEW m \in DOMAIN s, m # i
      PROVE  s[m] \in ToSet(r)
  <2>1. CASE m < i
    BY <1>1, <1>4, <2>1 DEF ToSet
  <2>2. CASE m > i
    <3>1. m - 1 \in DOMAIN r /\ r[m - 1] = s[m]
      BY <1>1, <1>4, <2>2
    <3> QED BY <3>1 DEF ToSet
  <2> QED BY <1>1, <1>7, <2>1, <2>2
<1>8. ToSet(r) = ToSet(s) \ {s[i]}
  BY <1>6, <1>7 DEF ToSet
<1>9. s[i] \in ToSet(s) /\ s[i] \in Tasks
  BY <1>1 DEF ToSet
<1> QED BY <1>4, <1>5, <1>8, <1>9

-----------------------------------------------------------------------------
(***************************************************************************)
(* Effects on the tasks.                                                   *)
(***************************************************************************)
\* A task leaves its worker.
LEMMA TaskEnds ==
  ASSUME TypeOK, OnePlace, NEW w \in Workers, job[w] # NoTask,
         ended' = ended \cup {job[w]}, job' = [job EXCEPT ![w] = NoTask],
         UNCHANGED <<queue, known, removed>>
  PROVE  OnePlace' /\ ended' \subseteq Tasks
<1>1. job \in [Workers -> Tasks \cup {NoTask}] /\ job[w] \in Running /\ job[w] \in Tasks
  BY DEF TypeOK, WorkerTypeOK, Running
<1>2. Running' = Running \ {job[w]}
  BY <1>1, PoolAssumption DEF Running, OnePlace, PoolAssumption
<1>3. ToSet(queue') = ToSet(queue) /\ DOMAIN queue' = DOMAIN queue
  OBVIOUS
<1>4. \A u, v \in Workers : job'[u] = job'[v] /\ job'[u] # NoTask => u = v
  BY <1>1 DEF OnePlace
<1>5. /\ known' = ToSet(queue') \cup Running' \cup ended' \cup removed'
      /\ ToSet(queue') \cap (Running' \cup ended' \cup removed') = {}
      /\ Running' \cap (ended' \cup removed') = {} /\ ended' \cap removed' = {}
  BY <1>1, <1>2, <1>3 DEF OnePlace
<1>6. ended' \subseteq Tasks
  BY <1>1 DEF TypeOK, TaskTypeOK
<1> QED BY <1>3, <1>4, <1>5, <1>6 DEF OnePlace

\* The queue is cleared.
LEMMA QueueCleared ==
  ASSUME TypeOK, OnePlace, queue' = <<>>, removed' = removed \cup ToSet(queue),
         UNCHANGED <<job, known, ended>>
  PROVE  OnePlace' /\ removed' \subseteq Tasks /\ queue' \in Seq(Tasks)
<1>1. queue \in Seq(Tasks) /\ ToSet(queue) \subseteq Tasks
  BY DEF TypeOK, PoolTypeOK, ToSet
<1>2. ToSet(queue') = {} /\ DOMAIN queue' = {} /\ Running' = Running
  BY DEF ToSet, Running
<1>3. /\ known' = ToSet(queue') \cup Running' \cup ended' \cup removed'
      /\ ToSet(queue') \cap (Running' \cup ended' \cup removed') = {}
      /\ Running' \cap (ended' \cup removed') = {} /\ ended' \cap removed' = {}
  BY <1>2 DEF OnePlace
<1>4. \A u, v \in Workers : job'[u] = job'[v] /\ job'[u] # NoTask => u = v
  BY DEF OnePlace
<1> QED BY <1>1, <1>2, <1>3, <1>4 DEF OnePlace, TypeOK, TaskTypeOK

\* A task is scheduled.
LEMMA TaskPushed ==
  ASSUME TypeOK, OnePlace, NEW t \in Tasks, t \notin known,
         queue' = Push(t), known' = known \cup {t}, UNCHANGED <<job, ended, removed>>
  PROVE  OnePlace' /\ known' \subseteq Tasks /\ queue' \in Seq(Tasks) /\ Len(queue') = Len(queue) + 1
<1>1. queue \in Seq(Tasks)
  BY DEF TypeOK, PoolTypeOK
<1>2. queue' = Append(queue, t) \/ queue' = <<t>> \o queue
  BY DEF Push, PushFront, PushBack
<1>3. t \notin ToSet(queue)
  BY DEF OnePlace
<1>4. /\ queue' \in Seq(Tasks) /\ Len(queue') = Len(queue) + 1 /\ ToSet(queue') = ToSet(queue) \cup {t}
      /\ \A i, j \in DOMAIN queue' : queue'[i] = queue'[j] => i = j
  BY <1>1, <1>2, <1>3, Pushed DEF OnePlace
<1>5. Running' = Running
  BY DEF Running
<1>6. /\ known' = ToSet(queue') \cup Running' \cup ended' \cup removed'
      /\ ToSet(queue') \cap (Running' \cup ended' \cup removed') = {}
      /\ Running' \cap (ended' \cup removed') = {} /\ ended' \cap removed' = {}
  BY <1>4, <1>5 DEF OnePlace
<1>7. \A u, v \in Workers : job'[u] = job'[v] /\ job'[u] # NoTask => u = v
  BY DEF OnePlace
<1>8. known' \subseteq Tasks
  BY DEF TypeOK, TaskTypeOK
<1> QED BY <1>4, <1>6, <1>7, <1>8 DEF OnePlace

\* A worker without a task takes one.
LEMMA TaskTaken ==
  ASSUME TypeOK, OnePlace, NEW w \in Workers, job[w] = NoTask, NEW i \in DOMAIN queue,
         queue' = RemoveAt(queue, i), job' = [job EXCEPT ![w] = queue[i]],
         UNCHANGED <<known, ended, removed>>
  PROVE  /\ OnePlace' /\ queue' \in Seq(Tasks) /\ Len(queue') = Len(queue) - 1
         /\ queue[i] \in Tasks /\ queue[i] \in ToSet(queue) /\ ToSet(queue') = ToSet(queue) \ {queue[i]}
<1>1. queue \in Seq(Tasks) /\ job \in [Workers -> Tasks \cup {NoTask}]
  BY DEF TypeOK, PoolTypeOK, WorkerTypeOK
<1>2. /\ queue' \in Seq(Tasks) /\ Len(queue') = Len(queue) - 1
      /\ ToSet(queue') = ToSet(queue) \ {queue[i]}
      /\ \A m, n \in DOMAIN queue' : queue'[m] = queue'[n] => m = n
      /\ queue[i] \in ToSet(queue) /\ queue[i] \in Tasks
  BY <1>1, Removed DEF OnePlace
<1> DEFINE t == queue[i]
<1> HIDE DEF t
<1>3. t \in Tasks /\ t \in ToSet(queue) /\ job' = [job EXCEPT ![w] = t] /\ t # NoTask /\ t \notin Running
  BY <1>2, PoolAssumption DEF t, OnePlace, PoolAssumption
<1>4. Running' = Running \cup {t}
  <2>1. \A u \in Workers : job'[u] = IF u = w THEN t ELSE job[u]
    BY <1>1, <1>3
  <2> QED BY <1>3, <2>1, PoolAssumption DEF Running, PoolAssumption
<1>5. \A u, v \in Workers : job'[u] = job'[v] /\ job'[u] # NoTask => u = v
  <2>1. \A u \in Workers : job'[u] = (IF u = w THEN t ELSE job[u]) /\ job[u] # t
    BY <1>1, <1>3 DEF Running
  <2> QED BY <2>1 DEF OnePlace
<1>6. /\ known' = ToSet(queue') \cup Running' \cup ended' \cup removed'
      /\ ToSet(queue') \cap (Running' \cup ended' \cup removed') = {}
      /\ Running' \cap (ended' \cup removed') = {} /\ ended' \cap removed' = {}
  <2>1. ToSet(queue') = ToSet(queue) \ {t}
    BY <1>2 DEF t
  <2> QED BY <2>1, <1>3, <1>4 DEF OnePlace
<1> QED BY <1>2, <1>5, <1>6 DEF OnePlace

\* Work only goes down while the pool is shut down.
LEMMA WorkDrains ==
  ASSUME Drained, UNCHANGED <<phase, policy, goal>>,
         \A c \in Callers : at'[c] = "idle" <=> at[c] = "idle",
         queue = <<>> => queue' = <<>>,
         \A w \in Workers : queue = <<>> /\ job[w] = NoTask => job'[w] = NoTask
  PROVE  Drained'
<1>1. Waited' <=> Waited
  BY DEF Waited
<1> QED BY <1>1 DEF Drained

\* Calls that touch neither the threads nor the tasks.
LEMMA WorkUnchanged ==
  ASSUME PoolInv, UNCHANGED <<queue, count, active, spawned, pc, job, known, ended, removed>>
  PROVE  /\ CountersAgree' /\ WakeupsCoverQueue' /\ OnePlace'
         /\ \A w \in Workers : Known(w)' /\ HasTask(w)'
<1>1. CountersAgree' /\ WakeupsCoverQueue'
  BY Counted DEF PoolInv
<1>2. Running' = Running
  BY DEF Running
<1>3. OnePlace'
  BY <1>2 DEF PoolInv, OnePlace
<1> QED BY <1>1, <1>3 DEF PoolInv, Known, HasTask

\* While no worker is counted as active none has a task.
LEMMA NobodyBusy ==
  ASSUME TypeOK, PoolInv, active = 0
  PROVE  \A w \in Workers : job[w] = NoTask
<1>1. Among(pc, BusyLabels) \in SUBSET Workers
  BY DEF Among
<1>2. Cardinality(Among(pc, BusyLabels)) = 0
  BY Counted DEF PoolInv, CountsOf
<1>3. Among(pc, BusyLabels) = {}
  BY <1>1, <1>2, FiniteWorkers, FS_EmptySet
<1> QED BY <1>3 DEF Among, BusyLabels, PoolInv, HasTask

Inv == TypeOK /\ PoolInv

-----------------------------------------------------------------------------
(***************************************************************************)
(* The invariant is kept by the calls, one by one.                         *)
(***************************************************************************)
LEMMA CancelKeeps ==
  ASSUME Inv, NEW t \in Tasks, Cancel(t) \/ MarkCancelled(t)
  PROVE  Inv'
<1>1. /\ UNCHANGED <<poolVars, queue, active, pc, job, at, goal, phase, known, ended, removed>>
      /\ ready' = ready /\ executing' = executing
  BY DEF Cancel, MarkCancelled, callVars, history
<1>2. UNCHANGED <<queue, count, active, spawned, pc, job, known, ended, removed>>
  BY <1>1 DEF poolVars
<1>3. calls' \in 0..MaxCalls /\ cancelled' \cup cancelling' \subseteq Futures
  BY PoolAssumption DEF PoolAssumption, Cancel, MarkCancelled, Count, callVars, Inv, TypeOK, CallTypeOK, TaskTypeOK
<1>4. TypeOK'
  BY <1>1, <1>3 DEF poolVars, Inv, TypeOK, PoolTypeOK, WorkerTypeOK, CallTypeOK, TaskTypeOK
<1>5. Drained'
  BY <1>1, WorkDrains DEF poolVars, Inv, PoolInv
<1> QED BY <1>2, <1>4, <1>5, WorkUnchanged DEF Inv, PoolInv

LEMMA WaitKeeps ==
  ASSUME Inv, NEW c \in Callers,
         (\E n \in Thresholds : Wait(c, n)) \/ Expire(c) \/ Recheck(c) \/ RecheckActive(c)
  PROVE  Inv'
<1>1. /\ UNCHANGED <<policy, target, count, stopping, spawned, queue, active, pc, job,
                     futureVars, known, ended, removed>>
  BY DEF Wait, Expire, Recheck, RecheckActive, poolVars, futureVars, history
<1>2. /\ at' \in [Callers -> {"idle", "asleep", "awake"}] /\ goal' \in [Callers -> Nat]
      /\ phase' \in {"open", "draining", "stopping", "closed"} /\ calls' \in 0..MaxCalls
      /\ terminated' \subseteq Workers
  <2>1. /\ at \in [Callers -> {"idle", "asleep", "awake"}] /\ goal \in [Callers -> Nat]
        /\ phase \in {"open", "draining", "stopping", "closed"} /\ calls \in 0..MaxCalls
        /\ terminated \subseteq Workers /\ MaxCalls \in Nat /\ Thresholds \subseteq Nat
    BY PoolAssumption DEF PoolAssumption, Inv, TypeOK, CallTypeOK, PoolTypeOK
  <2>2. CASE \E n \in Thresholds : Wait(c, n)
    BY <2>1, <2>2 DEF Wait, Count, poolVars
  <2>3. CASE Expire(c)
    BY <2>1, <2>3 DEF Expire, poolVars
  <2>4. CASE Recheck(c)
    <3>1. /\ at' = [at EXCEPT ![c] = IF Reached(goal[c]) THEN "idle" ELSE "asleep"]
          /\ UNCHANGED <<goal, phase, calls, terminated>>
      BY <2>4 DEF Recheck, poolVars
    <3> QED BY <2>1, <3>1
  <2>5. CASE RecheckActive(c)
    BY <2>1, <2>5 DEF RecheckActive
  <2> QED BY <2>2, <2>3, <2>4, <2>5
<1>3. TypeOK'
  BY <1>1, <1>2 DEF futureVars, Inv, TypeOK, PoolTypeOK, WorkerTypeOK, CallTypeOK, TaskTypeOK
<1>4. Drained'
  <2>1. CASE (\E n \in Thresholds : Wait(c, n)) \/ Expire(c)
    <3>1. phase' = "open"
      BY <2>1 DEF Wait, Expire, Open
    <3> QED BY <3>1 DEF Drained, Waited
  <2>2. CASE Recheck(c)
    <3>1. phase' = phase /\ policy' = policy /\ goal' = goal /\ queue' = queue /\ job' = job
      BY <2>2, <1>1 DEF Recheck
    <3>2. CASE phase = "draining" /\ Reached(goal[c])
      <4>1. goal[c] = 0
        BY <2>2, <3>2 DEF Recheck, Inv, PoolInv, Drained
      <4>2. active = 0 /\ Len(queue) = 0
        BY <3>2, <4>1 DEF Reached, Inv, TypeOK, PoolTypeOK
      <4>3. queue = <<>>
        BY <4>2 DEF Inv, TypeOK, PoolTypeOK
      <4>5. \A w \in Workers : job[w] = NoTask
        BY <4>2, NobodyBusy DEF Inv
      <4>6. \A d \in Callers : at'[d] # "idle" => at[d] # "idle"
        BY <2>2 DEF Recheck, Inv, TypeOK, CallTypeOK
      <4> QED BY <3>1, <4>3, <4>5, <4>6 DEF Inv, PoolInv, Drained
    <3>3. CASE phase = "draining" /\ ~Reached(goal[c])
      <4>1. at' = [at EXCEPT ![c] = "asleep"]
        BY <2>2, <3>3 DEF Recheck
      <4>2. at'[c] # "idle" /\ \A d \in Callers : at'[d] # "idle" => at[d] # "idle"
        BY <4>1, <2>2 DEF Recheck, Inv, TypeOK, CallTypeOK
      <4> QED BY <3>1, <3>3, <4>2 DEF Inv, PoolInv, Drained, Waited
    <3>4. CASE phase # "draining"
      BY <3>1, <3>4 DEF Inv, PoolInv, Drained, Waited
    <3> QED BY <3>2, <3>3, <3>4
  <2>3. CASE RecheckActive(c)
    <3>1. phase = "stopping" /\ phase' \in {"stopping", "closed"}
      BY <2>3 DEF RecheckActive
    <3> QED BY <1>1, <3>1 DEF Inv, PoolInv, Drained, Waited
  <2> QED BY <2>1, <2>2, <2>3
<1> QED BY <1>1, <1>3, <1>4, WorkUnchanged DEF Inv, PoolInv

LEMMA ScheduleKeeps ==
  ASSUME Inv, NEW t \in Tasks, Schedule(t)
  PROVE  Inv'
<1>1. /\ queue' \in Seq(Tasks) /\ Len(queue') = Len(queue) + 1 /\ OnePlace' /\ known' \subseteq Tasks
  BY TaskPushed DEF Schedule, Inv, PoolInv
<1>2. /\ UNCHANGED <<policy, target, count, stopping, terminated, spawned, active, job, at, goal,
                     phase, calls, futureVars, ended, removed>>
      /\ phase = "open"
  BY DEF Schedule, poolVars, callVars, Open
<1>3. pc \in [Workers -> Labels] /\ CountsOf(pc, count, active)
  BY Counted DEF Inv, PoolInv, TypeOK, WorkerTypeOK, Labels
<1>4. /\ pc' \in [Workers -> Labels] /\ CountersAgree' /\ WakeupsCoverQueue'
      /\ \A w \in Workers : Known(w)' /\ HasTask(w)'
  <2>1. CASE (\A w \in Workers : pc[w] # "waiting") /\ pc' = pc
    <3>1. Among(pc', {"waiting"}) = {}
      BY <2>1 DEF Among
    <3>2. CountsOf(pc', count', active')
      BY <1>2, <1>3, <2>1
    <3> QED BY <1>2, <1>3, <2>1, <3>1, <3>2, Counted DEF Known, HasTask, Inv, PoolInv
  <2>2. ASSUME NEW w \in Workers, pc[w] = "waiting", pc' = [pc EXCEPT ![w] = "notified"]
        PROVE  /\ pc' \in [Workers -> Labels] /\ CountersAgree' /\ WakeupsCoverQueue'
               /\ \A v \in Workers : Known(v)' /\ HasTask(v)'
    <3>1. "notified" \in Labels /\ pc' \in [Workers -> Labels]
      BY <1>3, <2>2 DEF Labels
    <3> DEFINE l == "notified"
    <3> HIDE DEF l
    <3>a. l \in Labels /\ pc' = [pc EXCEPT ![w] = l]
      BY <2>2, <3>1 DEF l
    <3>b. pc'[w] = l /\ \A v \in Workers \ {w} : pc'[v] = pc[v]
      BY <1>3, <3>a
    <3>c. Shifted(pc, pc', w, l)
      BY <1>3, <3>1, <3>b, OneMoves
    <3>2. \A S : Cardinality(Among(pc', S)) = Cardinality(Among(pc, S)) + One(l \in S) - One(pc[w] \in S)
      BY <3>c DEF Shifted
    <3> DEFINE N == {"notified"}
    <3>3. l \in N /\ pc[w] \notin N
      BY <2>2 DEF l
    <3>4. Among(pc, N) \in SUBSET Workers /\ Cardinality(Among(pc, N)) \in Nat /\ Len(queue) \in Nat
      <4>1. Among(pc, N) \in SUBSET Workers
        BY DEF Among
      <4> QED BY <4>1, FiniteWorkers DEF Inv, TypeOK, PoolTypeOK
    <3>5. Len(queue) <= Cardinality(Among(pc, N))
      <4>1. Among(pc, {"waiting"}) # {}
        BY <2>2 DEF Among
      <4> QED BY <4>1, Counted DEF Inv, PoolInv
    <3> HIDE DEF N
    <3>6. Cardinality(Among(pc', N)) = Cardinality(Among(pc, N)) + 1
      BY <3>2, <3>3, <3>4 DEF One
    <3>7. WakeupsCoverQueue'
      BY <1>1, <3>4, <3>5, <3>6, Counted DEF N
    <3>8. CountsOf(pc', count, active)
      <4>1. count \in Nat /\ active \in Nat
        BY <1>3, CountsAreNat
      <4>2. /\ l \in LiveLabels /\ pc[w] \in LiveLabels
            /\ l \notin BusyLabels /\ pc[w] \notin BusyLabels
        BY <2>2 DEF l, LiveLabels, BusyLabels
      <4> QED BY <1>3, <3>2, <4>1, <4>2 DEF CountsOf, One
    <3>9. CountersAgree'
      BY <1>2, <3>8, Counted
    <3>10. \A v \in Workers : Known(v)' /\ HasTask(v)'
      BY <1>2, <1>3, <2>2 DEF Known, HasTask, Inv, PoolInv
    <3> QED BY <3>1, <3>7, <3>9, <3>10
  <2> QED BY <2>1, <2>2 DEF Schedule, WakeOne
<1>5. TypeOK'
  BY <1>1, <1>2, <1>4 DEF Labels, futureVars, Inv, TypeOK, PoolTypeOK, WorkerTypeOK, CallTypeOK, TaskTypeOK
<1>6. Drained'
  BY <1>2 DEF Drained, Waited
<1> QED BY <1>1, <1>4, <1>5, <1>6 DEF Inv, PoolInv

LEMMA ClearKeeps ==
  ASSUME Inv, Clear
  PROVE  Inv'
<1>1. OnePlace' /\ removed' \subseteq Tasks /\ queue' \in Seq(Tasks) /\ queue' = <<>>
  BY QueueCleared DEF Clear, Inv, PoolInv
<1>2. /\ UNCHANGED <<policy, target, count, stopping, terminated, spawned, active, pc, job, at, goal,
                     phase, futureVars, known, ended>>
      /\ phase = "open" /\ calls' \in 0..MaxCalls
  BY PoolAssumption DEF PoolAssumption, Clear, poolVars, Count, Open, Inv, TypeOK, CallTypeOK
<1>3. TypeOK'
  BY <1>1, <1>2 DEF futureVars, Inv, TypeOK, PoolTypeOK, WorkerTypeOK, CallTypeOK, TaskTypeOK
<1>4. CountersAgree' /\ WakeupsCoverQueue'
  <2>1. Among(pc, {"notified"}) \in SUBSET Workers
    BY DEF Among
  <2>2. Len(queue') <= Cardinality(Among(pc', {"notified"}))
    BY <1>1, <1>2, <2>1, FiniteWorkers
  <2> QED BY <1>2, <2>2, Counted DEF Inv, PoolInv
<1>5. Drained'
  BY <1>2 DEF Drained, Waited
<1>6. \A w \in Workers : Known(w)' /\ HasTask(w)'
  BY <1>2 DEF Known, HasTask, Inv, PoolInv
<1> QED BY <1>1, <1>3, <1>4, <1>5, <1>6 DEF Inv, PoolInv

LEMMA ResizeKeeps ==
  ASSUME Inv, NEW n \in Sizes, Resize(n)
  PROVE  Inv'
<1>1. pc \in [Workers -> Labels] /\ CountsOf(pc, count, active) /\ n \in Nat
  BY Counted, PoolAssumption DEF PoolAssumption, Inv, PoolInv, TypeOK, WorkerTypeOK, Labels
<1>2. \A w \in Workers : pc[w] # "none" <=> w <= spawned
  BY DEF Inv, PoolInv, Known
<1>3. /\ CountsOf(pc', count', active') /\ pc' \in [Workers -> Labels]
      /\ target' \in Nat /\ spawned' \in 0..MaxThreads
      /\ \A w \in Workers : Known(w)'
      /\ \A w \in Workers : \A l \in TaskLabels : pc'[w] = l <=> pc[w] = l
      /\ \/ Among(pc', {"waiting"}) = {}
         \/ /\ Among(pc', {"waiting"}) = Among(pc, {"waiting"})
            /\ Among(pc', {"notified"}) = Among(pc, {"notified"})
  BY <1>1, <1>2, Resizes DEF Inv, Resize
<1>4. /\ UNCHANGED <<policy, queue, stopping, terminated, job, at, goal, phase, futureVars,
                     known, ended, removed>>
      /\ calls' \in 0..MaxCalls
  BY PoolAssumption DEF PoolAssumption, Resize, Count, Inv, TypeOK, CallTypeOK
<1>5. count' \in Nat /\ active' \in Nat
  BY <1>3, CountsAreNat
<1>6. TypeOK'
  BY <1>3, <1>4, <1>5 DEF Labels, futureVars, Inv, TypeOK, PoolTypeOK, WorkerTypeOK, CallTypeOK, TaskTypeOK
<1>7. CountersAgree' /\ WakeupsCoverQueue'
  BY <1>3, <1>4, Counted DEF Inv, PoolInv
<1>8. \A w \in Workers : HasTask(w)'
  BY <1>3, <1>4 DEF HasTask, TaskLabels, Inv, PoolInv
<1>9. OnePlace'
  BY <1>4 DEF OnePlace, Running, Inv, PoolInv
<1>10. Drained'
  BY <1>4, WorkDrains DEF Inv, PoolInv
<1> QED BY <1>3, <1>6, <1>7, <1>8, <1>9, <1>10 DEF Inv, PoolInv

LEMMA CloseKeeps ==
  ASSUME Inv, NEW c \in Callers, Close(c)
  PROVE  Inv'
<1>1. /\ UNCHANGED <<policy, target, count, stopping, terminated, spawned, active, pc, job, calls,
                     futureVars, known, ended>>
      /\ phase' = "draining" /\ goal' = [goal EXCEPT ![c] = 0] /\ \A d \in Callers : at[d] = "idle"
  BY DEF Close, poolVars
<1> DEFINE kept == IF policy.shutdown = "wait_for_all_tasks" THEN queue ELSE <<>>
<1>2. /\ queue' = kept /\ removed' = (IF kept = queue THEN removed ELSE removed \cup ToSet(queue))
      /\ at' = [at EXCEPT ![c] = IF policy.shutdown # "immediately" /\ active + Len(kept) > 0
                                    THEN "asleep" ELSE @]
  BY DEF Close
<1>3. OnePlace' /\ removed' \subseteq Tasks /\ queue' \in Seq(Tasks) /\ Len(queue') <= Len(queue)
  <2>1. CASE kept = queue
    BY <1>1, <1>2, <2>1 DEF Inv, PoolInv, OnePlace, Running, TypeOK, TaskTypeOK, PoolTypeOK
  <2>2. CASE kept # queue
    <3>1. queue' = <<>> /\ removed' = removed \cup ToSet(queue)
      BY <1>2, <2>2
    <3>2. OnePlace' /\ removed' \subseteq Tasks /\ queue' \in Seq(Tasks)
      BY <1>1, <3>1, QueueCleared DEF Inv, PoolInv
    <3> QED BY <3>1, <3>2 DEF Inv, TypeOK, PoolTypeOK
  <2> QED BY <2>1, <2>2
<1>4. CountersAgree' /\ WakeupsCoverQueue'
  <2>1. Among(pc, {"notified"}) \in SUBSET Workers
    BY DEF Among
  <2>2. Cardinality(Among(pc, {"notified"})) \in Nat
    BY <2>1, FiniteWorkers
  <2>3. Len(queue) \in Nat /\ Len(queue') \in Nat
    BY <1>3 DEF Inv, TypeOK, PoolTypeOK
  <2> QED BY <1>1, <1>3, <2>2, <2>3, Counted DEF Inv, PoolInv
<1>5. TypeOK'
  <2>1. at' \in [Callers -> {"idle", "asleep", "awake"}] /\ goal' \in [Callers -> Nat]
    BY <1>1, <1>2 DEF Inv, TypeOK, CallTypeOK
  <2> QED BY <1>1, <1>3, <2>1 DEF futureVars, Inv, TypeOK, PoolTypeOK, WorkerTypeOK, CallTypeOK, TaskTypeOK
<1>6. \A w \in Workers : Known(w)' /\ HasTask(w)'
  BY <1>1 DEF Known, HasTask, Inv, PoolInv
<1>7. Drained'
  <2>1. \A d \in Callers : at'[d] # "idle" => d = c
    BY <1>1, <1>2 DEF Inv, TypeOK, CallTypeOK
  <2>2. goal'[c] = 0
    BY <1>1 DEF Inv, TypeOK, CallTypeOK
  <2>3. ASSUME policy.shutdown # "immediately", at'[c] = "idle"
        PROVE  queue' = <<>> /\ \A w \in Workers : job[w] = NoTask
    <3>1. ~(active + Len(queue') > 0)
      BY <1>2, <2>3 DEF Inv, TypeOK, CallTypeOK
    <3>2. active = 0 /\ Len(queue') = 0
      BY <1>3, <3>1 DEF Inv, TypeOK, PoolTypeOK
    <3>3. queue' = <<>>
      BY <1>3, <3>2
    <3> QED BY <3>2, <3>3, NobodyBusy DEF Inv
  <2> QED BY <1>1, <2>1, <2>2, <2>3 DEF Drained, Waited
<1> QED BY <1>3, <1>4, <1>5, <1>6, <1>7 DEF Inv, PoolInv

LEMMA StopKeeps ==
  ASSUME Inv, NEW c \in Callers, StopWorkers(c)
  PROVE  Inv'
<1>1. /\ UNCHANGED <<policy, count, terminated, spawned, queue, active, job, goal, calls,
                     futureVars, known, ended, removed>>
      /\ stopping' = TRUE /\ target' = 0 /\ phase = "draining" /\ \A d \in Callers : at[d] = "idle"
      /\ pc' = [w \in Workers |-> IF pc[w] = "waiting" THEN "notified" ELSE pc[w]]
      /\ phase' \in {"stopping", "closed"} /\ at' \in {at, [at EXCEPT ![c] = "asleep"]}
  BY DEF StopWorkers, Woken
<1>2. TypeOK'
  BY <1>1 DEF futureVars, Inv, TypeOK, PoolTypeOK, WorkerTypeOK, CallTypeOK, TaskTypeOK
<1>3. CountersAgree' /\ WakeupsCoverQueue'
  <2>1. Among(pc', LiveLabels) = Among(pc, LiveLabels) /\ Among(pc', BusyLabels) = Among(pc, BusyLabels)
    BY <1>1 DEF Among, LiveLabels, BusyLabels
  <2>2. Among(pc', {"waiting"}) = {}
    BY <1>1 DEF Among
  <2> QED BY <1>1, <2>1, <2>2, Counted DEF Inv, PoolInv, CountsOf
<1>4. \A w \in Workers : Known(w)' /\ HasTask(w)'
  BY <1>1 DEF Known, HasTask, Inv, PoolInv
<1>5. OnePlace'
  BY <1>1 DEF OnePlace, Running, Inv, PoolInv
<1>6. Drained'
  BY <1>1 DEF Drained, Waited, Inv, PoolInv
<1> QED BY <1>2, <1>3, <1>4, <1>5, <1>6 DEF Inv, PoolInv

-----------------------------------------------------------------------------
(***************************************************************************)
(* The invariant is kept by the workers.                                   *)
(***************************************************************************)
\* What the steps of a worker have in common.
LEMMA StepKeeps ==
  ASSUME Inv, NEW w \in Workers, NEW l \in Labels \ {"none"},
         pc[w] # "none", pc' = [pc EXCEPT ![w] = l],
         UNCHANGED <<policy, target, stopping, spawned, goal, calls, phase>>,
         terminated' \subseteq Workers, at' = at \/ WakeCallers,
         count'  = count + One(l \in LiveLabels) - One(pc[w] \in LiveLabels),
         active' = active + One(l \in BusyLabels) - One(pc[w] \in BusyLabels),
         queue' \in Seq(Tasks), queue = <<>> => queue' = <<>>,
         queue' = <<>> \/ (l # "waiting" /\ Len(queue') <= Len(queue) - One(pc[w] = "notified")),
         job' \in [Workers -> Tasks \cup {NoTask}], \A v \in Workers \ {w} : job'[v] = job[v],
         job'[w] # NoTask <=> l \in TaskLabels, l = "fetched" => job'[w] \in Futures,
         queue = <<>> /\ job[w] = NoTask => job'[w] = NoTask,
         OnePlace', TaskTypeOK'
  PROVE  Inv'
<1>1. pc \in [Workers -> Labels] /\ pc' \in [Workers -> Labels]
  BY DEF Inv, TypeOK, WorkerTypeOK, Labels
<1>2. /\ CountersAgree' /\ WakeupsCoverQueue' /\ \A v \in Workers : Known(v)'
      /\ count' \in Nat /\ active' \in Nat
  BY WorkerMoves DEF Inv, PoolInv
<1>3. /\ at' \in [Callers -> {"idle", "asleep", "awake"}]
      /\ \A c \in Callers : at'[c] = "idle" <=> at[c] = "idle"
  BY DEF WakeCallers, Inv, TypeOK, CallTypeOK
<1>4. PoolTypeOK' /\ WorkerTypeOK' /\ CallTypeOK'
  BY <1>1, <1>2, <1>3 DEF Labels, Inv, TypeOK, PoolTypeOK, WorkerTypeOK, CallTypeOK
<1>5. \A v \in Workers : HasTask(v)'
  BY <1>1 DEF HasTask, TaskLabels, Inv, PoolInv
<1>6. Drained'
  BY <1>3, WorkDrains DEF Inv, PoolInv
<1> QED BY <1>2, <1>4, <1>5, <1>6 DEF Inv, PoolInv, TypeOK

\* A worker that looks for work: it stops, sleeps or takes a task.
LEMMA LookKeeps ==
  ASSUME Inv, NEW w \in Workers, Fetch(w) \/ WakeUp(w)
  PROVE  Inv'
<1>1. PICK a \in Nat :
        /\ pc[w] \in {"fetch", "notified"} /\ a = active + One(pc[w] = "notified")
        /\ \/ Exit(w, a) /\ (pc[w] = "notified" => queue = <<>>)
           \/ queue = <<>> /\ Sleep(w, a)
           \/ queue # <<>> /\ Take(w, a)
  <2>1. active \in Nat /\ active + 1 \in Nat /\ active + One(TRUE) = active + 1 /\ active + One(FALSE) = active
    BY DEF One, Inv, TypeOK, PoolTypeOK
  <2>2. CASE Fetch(w)
    <3>1. active = active + One(pc[w] = "notified") /\ pc[w] = "fetch"
      BY <2>1, <2>2 DEF Fetch, One
    <3> QED BY <2>1, <2>2, <3>1 DEF Fetch
  <2>3. CASE WakeUp(w)
    <3>1. active + 1 = active + One(pc[w] = "notified") /\ pc[w] = "notified"
      BY <2>1, <2>3 DEF WakeUp, One
    <3> QED BY <2>1, <2>3, <3>1 DEF WakeUp
  <2> QED BY <2>2, <2>3
<1>2. job[w] = NoTask /\ job \in [Workers -> Tasks \cup {NoTask}]
  BY <1>1 DEF Inv, PoolInv, HasTask, TypeOK, WorkerTypeOK
<1>3. /\ pc[w] # "none" /\ One(pc[w] \in LiveLabels) = 1 /\ One(pc[w] \in BusyLabels) = 1 - One(pc[w] = "notified")
      /\ One(pc[w] = "notified") \in {0, 1}
  BY <1>1 DEF LiveLabels, BusyLabels, One
<1>4. count \in Nat /\ active \in Nat /\ queue \in Seq(Tasks) /\ terminated \subseteq Workers
  BY DEF Inv, TypeOK, PoolTypeOK
<1>5. CASE Exit(w, a) /\ (pc[w] = "notified" => queue = <<>>)
  <2>1. /\ pc' = [pc EXCEPT ![w] = "leaving"] /\ active' = a
        /\ UNCHANGED <<policy, target, count, stopping, terminated, spawned, queue, job, at, goal,
                       phase, calls, futureVars, known, ended, removed>>
    BY <1>5 DEF Exit, poolVars, callVars, history
  <2>2. OnePlace' /\ TaskTypeOK'
    BY <2>1 DEF OnePlace, Running, TaskTypeOK, futureVars, Inv, PoolInv, TypeOK
  <2> DEFINE l == "leaving"
  <2>3. /\ l \in Labels \ {"none"} /\ l \notin TaskLabels /\ l # "fetched" /\ pc' = [pc EXCEPT ![w] = l]
        /\ One(l \in LiveLabels) = 1 /\ One(l \in BusyLabels) = 1
    BY <2>1 DEF Labels, TaskLabels, LiveLabels, BusyLabels, One
  <2>4. queue' = <<>> \/ (l # "waiting" /\ Len(queue') <= Len(queue) - One(pc[w] = "notified"))
    BY <1>1, <1>4, <1>5, <2>1 DEF One
  <2> HIDE DEF l
  <2>5. /\ count' = count + One(l \in LiveLabels) - One(pc[w] \in LiveLabels)
        /\ active' = active + One(l \in BusyLabels) - One(pc[w] \in BusyLabels)
    BY <1>1, <1>3, <1>4, <2>1, <2>3
  <2>6. /\ queue' \in Seq(Tasks) /\ (queue = <<>> => queue' = <<>>) /\ terminated' \subseteq Workers
        /\ job' \in [Workers -> Tasks \cup {NoTask}] /\ job'[w] = NoTask
        /\ \A v \in Workers \ {w} : job'[v] = job[v]
    BY <1>2, <1>4, <2>1
  <2> QED BY <1>3, <2>1, <2>2, <2>3, <2>4, <2>5, <2>6, StepKeeps
<1>6. CASE queue = <<>> /\ Sleep(w, a)
  <2>1. /\ pc' = [pc EXCEPT ![w] = "waiting"] /\ active' = a - 1 /\ WakeCallers
        /\ UNCHANGED <<policy, target, count, stopping, terminated, spawned, queue, job, goal,
                       phase, calls, futureVars, known, ended, removed>>
    BY <1>6 DEF Sleep, poolVars, history
  <2>2. OnePlace' /\ TaskTypeOK'
    BY <2>1 DEF OnePlace, Running, TaskTypeOK, futureVars, Inv, PoolInv, TypeOK
  <2> DEFINE l == "waiting"
  <2>3. /\ l \in Labels \ {"none"} /\ l \notin TaskLabels /\ l # "fetched" /\ pc' = [pc EXCEPT ![w] = l]
        /\ One(l \in LiveLabels) = 1 /\ One(l \in BusyLabels) = 0
    BY <2>1 DEF Labels, TaskLabels, LiveLabels, BusyLabels, One
  <2>4. queue' = <<>>
    BY <1>6, <2>1
  <2> HIDE DEF l
  <2>5. /\ count' = count + One(l \in LiveLabels) - One(pc[w] \in LiveLabels)
        /\ active' = active + One(l \in BusyLabels) - One(pc[w] \in BusyLabels)
    BY <1>1, <1>3, <1>4, <2>1, <2>3
  <2>6. /\ queue' \in Seq(Tasks) /\ (queue = <<>> => queue' = <<>>) /\ terminated' \subseteq Workers
        /\ job' \in [Workers -> Tasks \cup {NoTask}] /\ job'[w] = NoTask
        /\ \A v \in Workers \ {w} : job'[v] = job[v]
    BY <1>2, <1>4, <2>1
  <2> QED BY <1>3, <2>1, <2>2, <2>3, <2>4, <2>5, <2>6, StepKeeps
<1>7. CASE queue # <<>> /\ Take(w, a)
  <2>1. PICK i \in DOMAIN queue :
          /\ job' = [job EXCEPT ![w] = queue[i]] /\ queue' = RemoveAt(queue, i)
          /\ pc' = [pc EXCEPT ![w] = IF queue[i] \in Futures THEN "fetched" ELSE "calling"]
    <3>1. Top \subseteq DOMAIN queue
      BY <1>4, <1>7 DEF Top, Highest
    <3> QED BY <1>7, <3>1 DEF Take
  <2>2. /\ active' = a
        /\ UNCHANGED <<policy, target, count, stopping, terminated, spawned, at, goal,
                       phase, calls, futureVars, known, ended, removed>>
    BY <1>7 DEF Take, poolVars, callVars, history
  <2>3. OnePlace' /\ queue' \in Seq(Tasks) /\ Len(queue') = Len(queue) - 1 /\ queue[i] \in Tasks
    BY <1>2, <2>1, <2>2, TaskTaken DEF Inv, PoolInv
  <2>4. TaskTypeOK'
    BY <2>2 DEF TaskTypeOK, futureVars, Inv, TypeOK
  <2>5. /\ job' \in [Workers -> Tasks \cup {NoTask}] /\ job'[w] # NoTask /\ job'[w] = queue[i]
        /\ \A v \in Workers \ {w} : job'[v] = job[v]
    BY <1>2, <2>1, <2>3, PoolAssumption DEF PoolAssumption
  <2> DEFINE l == IF queue[i] \in Futures THEN "fetched" ELSE "calling"
  <2>6. /\ l \in Labels \ {"none"} /\ l \in TaskLabels /\ l # "waiting" /\ (l = "fetched" => queue[i] \in Futures)
        /\ One(l \in LiveLabels) = 1 /\ One(l \in BusyLabels) = 1 /\ pc' = [pc EXCEPT ![w] = l]
    BY <2>1 DEF Labels, TaskLabels, LiveLabels, BusyLabels, One
  <2> HIDE DEF l
  <2>7. Len(queue') <= Len(queue) - One(pc[w] = "notified")
    BY <1>3, <1>4, <2>3
  <2>8. /\ count' = count + One(l \in LiveLabels) - One(pc[w] \in LiveLabels)
        /\ active' = active + One(l \in BusyLabels) - One(pc[w] \in BusyLabels)
    BY <1>1, <1>3, <1>4, <2>2, <2>6
  <2>9. terminated' \subseteq Workers
    BY <1>4, <2>2
  <2> QED BY <1>3, <1>7, <2>2, <2>3, <2>4, <2>5, <2>6, <2>7, <2>8, <2>9, StepKeeps
<1> QED BY <1>1, <1>5, <1>6, <1>7

\* A worker that executes a task: it goes on with it, or ends it.
LEMMA ExecuteKeeps ==
  ASSUME Inv, NEW w \in Workers,
         CallFuture(w) \/ TaskReturns(w) \/ ClearExecuting(w) \/ TaskThrows(w)
  PROVE  Inv'
<1>1. PICK l \in {"calling", "clearing", "fetch", "dying"} :
        /\ pc[w] \in TaskLabels /\ pc' = [pc EXCEPT ![w] = l]
        /\ \/ l \in TaskLabels /\ UNCHANGED <<job, ended>>
           \/ l \notin TaskLabels /\ job' = [job EXCEPT ![w] = NoTask] /\ ended' = ended \cup {job[w]}
  <2>1. CASE CallFuture(w)
    BY <2>1 DEF CallFuture, Goto, TaskLabels, history
  <2>2. CASE TaskReturns(w)
    BY <2>2 DEF TaskReturns, Goto, End, TaskLabels
  <2>3. CASE ClearExecuting(w)
    BY <2>3 DEF ClearExecuting, End, TaskLabels
  <2>4. CASE TaskThrows(w)
    BY <2>4 DEF TaskThrows, TaskLabels
  <2> QED BY <2>1, <2>2, <2>3, <2>4
<1>2. /\ UNCHANGED <<policy, target, count, stopping, terminated, spawned, queue, active, at, goal,
                     phase, calls, known, removed, cancelled, cancelling>>
      /\ ready' \cup executing' \subseteq Futures \cup ready \cup executing \cup {job[w]}
  BY DEF CallFuture, TaskReturns, ClearExecuting, TaskThrows, poolVars, callVars, futureVars, history
<1>3. job[w] # NoTask /\ job \in [Workers -> Tasks \cup {NoTask}]
  BY <1>1 DEF TaskLabels, Inv, PoolInv, HasTask, TypeOK, WorkerTypeOK
<1>4. OnePlace' /\ ended' \subseteq Tasks
  <2>1. CASE l \in TaskLabels
    BY <1>1, <1>2, <2>1 DEF OnePlace, Running, Inv, PoolInv, TypeOK, TaskTypeOK
  <2>2. CASE l \notin TaskLabels
    BY <1>1, <1>2, <1>3, <2>2, TaskEnds DEF Inv, PoolInv
  <2> QED BY <2>1, <2>2
<1>5. ready' \cup executing' \subseteq Futures
  <2>1. CASE CallFuture(w)
    <3>1. job[w] \in Futures
      BY <2>1 DEF CallFuture, Inv, PoolInv, HasTask
    <3> QED BY <2>1, <3>1 DEF CallFuture, Inv, TypeOK, TaskTypeOK
  <2>2. CASE TaskReturns(w)
    BY <2>2 DEF TaskReturns, Inv, TypeOK, TaskTypeOK
  <2>3. CASE ClearExecuting(w)
    BY <2>3 DEF ClearExecuting, Inv, TypeOK, TaskTypeOK
  <2>4. CASE TaskThrows(w)
    BY <2>4 DEF TaskThrows, futureVars, Inv, TypeOK, TaskTypeOK
  <2> QED BY <2>1, <2>2, <2>3, <2>4
<1>6. TaskTypeOK'
  BY <1>2, <1>4, <1>5 DEF TaskTypeOK, Inv, TypeOK
<1>7. /\ l \in Labels \ {"none"} /\ pc[w] # "none" /\ l # "waiting" /\ l # "fetched" /\ pc[w] # "notified"
      /\ One(l \in LiveLabels) = One(pc[w] \in LiveLabels) /\ One(l \in LiveLabels) = 1
      /\ One(l \in BusyLabels) = One(pc[w] \in BusyLabels) /\ One(l \in BusyLabels) = 1
      /\ One(pc[w] = "notified") = 0
  BY <1>1 DEF Labels, TaskLabels, LiveLabels, BusyLabels, One
<1>8. count \in Nat /\ active \in Nat /\ queue \in Seq(Tasks) /\ terminated \subseteq Workers
  BY DEF Inv, TypeOK, PoolTypeOK
<1>9. /\ count' = count + One(l \in LiveLabels) - One(pc[w] \in LiveLabels)
      /\ active' = active + One(l \in BusyLabels) - One(pc[w] \in BusyLabels)
      /\ Len(queue') <= Len(queue) - One(pc[w] = "notified") /\ queue' = queue
  BY <1>2, <1>7, <1>8
<1>10. /\ job' \in [Workers -> Tasks \cup {NoTask}] /\ (job'[w] # NoTask <=> l \in TaskLabels)
       /\ \A v \in Workers \ {w} : job'[v] = job[v]
  BY <1>1, <1>3
<1> QED BY <1>1, <1>2, <1>3, <1>4, <1>6, <1>7, <1>8, <1>9, <1>10, StepKeeps

\* A worker that ends, and is replaced if it died.
LEMMA EndKeeps ==
  ASSUME Inv, NEW w \in Workers, Destructed(w) \/ DiedUnexpectedly(w)
  PROVE  Inv'
<1>1. /\ UNCHANGED <<policy, stopping, queue, job, goal, calls, phase, futureVars, known, ended, removed>>
      /\ pc[w] \in {"leaving", "dying"} /\ WakeCallers /\ Terminated(w)
  BY DEF Destructed, DiedUnexpectedly, history
<1>2. /\ count \in Nat /\ active \in Nat /\ terminated' \subseteq Workers /\ queue \in Seq(Tasks)
      /\ job \in [Workers -> Tasks \cup {NoTask}] /\ job[w] = NoTask
      /\ pc \in [Workers -> Labels] /\ CountsOf(pc, count, active)
  BY <1>1, Counted DEF Labels, Terminated, HasTask, Inv, PoolInv, TypeOK, PoolTypeOK, WorkerTypeOK
<1>3. OnePlace' /\ TaskTypeOK'
  BY <1>1 DEF OnePlace, Running, TaskTypeOK, futureVars, Inv, PoolInv, TypeOK
<1> DEFINE l == "gone"
           p == [pc EXCEPT ![w] = "gone"]
<1>4. /\ l \in Labels \ {"none"} /\ l \notin TaskLabels /\ pc[w] \notin TaskLabels /\ pc[w] # "none"
      /\ l # "waiting" /\ l # "fetched" /\ One(l \in LiveLabels) = 0 /\ One(pc[w] \in LiveLabels) = 1
      /\ One(l \in BusyLabels) = 0 /\ One(pc[w] \in BusyLabels) = 1 /\ One(pc[w] = "notified") = 0
      /\ p = [pc EXCEPT ![w] = l]
  BY <1>1 DEF Labels, TaskLabels, LiveLabels, BusyLabels, One
<1>5. \/ pc' = p /\ count' = count - 1 /\ active' = active - 1 /\ UNCHANGED <<target, spawned>>
      \/ ~stopping /\ Replace(count - 1, active - 1, p)
  BY DEF Destructed, DiedUnexpectedly
<1> HIDE DEF l, p
<1>6. CASE pc' = p /\ count' = count - 1 /\ active' = active - 1 /\ UNCHANGED <<target, spawned>>
  <2>1. /\ count' = count + One(l \in LiveLabels) - One(pc[w] \in LiveLabels)
        /\ active' = active + One(l \in BusyLabels) - One(pc[w] \in BusyLabels)
        /\ Len(queue') <= Len(queue) - One(pc[w] = "notified") /\ queue' = queue
        /\ pc' = [pc EXCEPT ![w] = l]
    BY <1>1, <1>2, <1>4, <1>6
  <2>2. /\ job' \in [Workers -> Tasks \cup {NoTask}] /\ job'[w] = NoTask
        /\ \A v \in Workers \ {w} : job'[v] = job[v]
    BY <1>1, <1>2
  <2> QED BY <1>1, <1>2, <1>3, <1>4, <1>6, <2>1, <2>2, StepKeeps
<1>7. CASE Replace(count - 1, active - 1, p)
  <2>1. p \in [Workers -> Labels] /\ \A v \in Workers : p[v] # "none" <=> pc[v] # "none"
    BY <1>2, <1>4
  <2>2. Shifted(pc, p, w, l)
    <3>1. p[w] = l /\ \A v \in Workers \ {w} : p[v] = pc[v]
      BY <1>2, <1>4
    <3> QED BY <1>2, <2>1, <3>1, OneMoves
  <2>3. CountsOf(p, count - 1, active - 1)
    <3>1. /\ Cardinality(Among(p, LiveLabels))
                = Cardinality(Among(pc, LiveLabels)) + One(l \in LiveLabels) - One(pc[w] \in LiveLabels)
          /\ Cardinality(Among(p, BusyLabels))
                = Cardinality(Among(pc, BusyLabels)) + One(l \in BusyLabels) - One(pc[w] \in BusyLabels)
      BY <2>2 DEF Shifted
    <3>2. Cardinality(Among(p, LiveLabels)) = count + 0 - 1 /\ Cardinality(Among(p, BusyLabels)) = active + 0 - 1
      BY <1>2, <1>4, <3>1 DEF CountsOf
    <3> QED BY <1>2, <3>2 DEF CountsOf
  <2>4. \A v \in Workers : p[v] # "none" <=> v <= spawned
    BY <2>1 DEF Inv, PoolInv, Known
  <2>5. ResizeTo(count, count - 1, active - 1, p)
    BY <1>2, <1>7 DEF Replace
  <2>6. /\ CountsOf(pc', count', active') /\ pc' \in [Workers -> Labels]
        /\ target' \in Nat /\ spawned' \in 0..MaxThreads
        /\ \A v \in Workers : Known(v)'
        /\ \A v \in Workers : \A m \in TaskLabels : pc'[v] = m <=> p[v] = m
        /\ \/ Among(pc', {"waiting"}) = {}
           \/ /\ Among(pc', {"waiting"}) = Among(p, {"waiting"})
              /\ Among(pc', {"notified"}) = Among(p, {"notified"})
    BY <1>2, <2>1, <2>3, <2>4, <2>5, Resizes DEF Inv
  <2>7. Among(p, {"waiting"}) = Among(pc, {"waiting"}) /\ Among(p, {"notified"}) = Among(pc, {"notified"})
    BY <1>1, <1>2 DEF Among, p
  <2>8. CountersAgree' /\ WakeupsCoverQueue'
    BY <1>1, <2>6, <2>7, Counted DEF Inv, PoolInv
  <2>9. count' \in Nat /\ active' \in Nat
    BY <2>6, CountsAreNat
  <2>10. /\ at' \in [Callers -> {"idle", "asleep", "awake"}]
         /\ \A c \in Callers : at'[c] = "idle" <=> at[c] = "idle"
    BY <1>1 DEF WakeCallers, Inv, TypeOK, CallTypeOK
  <2>11. PoolTypeOK' /\ WorkerTypeOK' /\ CallTypeOK'
    BY <1>1, <1>2, <2>6, <2>9, <2>10 DEF Labels, Inv, TypeOK, PoolTypeOK, WorkerTypeOK, CallTypeOK
  <2>12. \A v \in Workers : HasTask(v)'
    <3>1. \A v \in Workers : \A m \in TaskLabels : p[v] = m <=> pc[v] = m
      BY <1>2, <1>4
    <3> QED BY <1>1, <2>6, <3>1 DEF HasTask, TaskLabels, Inv, PoolInv
  <2>13. Drained'
    BY <1>1, <2>10, WorkDrains DEF Inv, PoolInv
  <2> QED BY <1>3, <2>6, <2>8, <2>11, <2>12, <2>13 DEF Inv, PoolInv, TypeOK
<1> QED BY <1>5, <1>6, <1>7

-----------------------------------------------------------------------------
(***************************************************************************)
(* The invariant, and what it says of the pool.                            *)
(***************************************************************************)
LEMMA InitInv == Init => Inv
<1> SUFFICES ASSUME Init PROVE Inv
  OBVIOUS
<1>1. TypeOK
  <2>1. MaxThreads \in Nat /\ MaxCalls \in Nat
    BY PoolAssumption DEF PoolAssumption
  <2>2. PoolTypeOK
    <3>1. queue \in Seq(Tasks) /\ target \in Nat /\ count \in Nat /\ active \in Nat /\ spawned \in 0..MaxThreads
      BY <2>1 DEF Init
    <3>2. policy \in Pools /\ stopping \in BOOLEAN /\ terminated \subseteq Workers
      BY Zenon DEF Init
    <3> QED BY <3>1, <3>2 DEF PoolTypeOK
  <2>3. WorkerTypeOK
    BY DEF Init, WorkerTypeOK
  <2>4. CallTypeOK
    BY <2>1 DEF Init, CallTypeOK
  <2>5. TaskTypeOK
    BY DEF Init, TaskTypeOK
  <2> QED BY <2>2, <2>3, <2>4, <2>5 DEF TypeOK
<1>2. /\ Among(pc, LiveLabels) = {} /\ Among(pc, BusyLabels) = {} /\ Among(pc, {"waiting"}) = {}
  BY DEF Init, Among, LiveLabels, BusyLabels
<1>3. CountersAgree /\ WakeupsCoverQueue
  BY <1>2, Counted, FS_EmptySet DEF Init, CountsOf
<1>4. \A w \in Workers : Known(w) /\ HasTask(w)
  BY DEF Init, Known, HasTask, Workers
<1>5. ToSet(queue) = {} /\ DOMAIN queue = {} /\ Running = {}
  BY PoolAssumption DEF PoolAssumption, Init, ToSet, Running
<1>6. OnePlace
  BY <1>5 DEF Init, OnePlace
<1>7. Drained
  BY DEF Init, Drained, Waited
<1> QED BY <1>1, <1>3, <1>4, <1>6, <1>7 DEF Inv, PoolInv

LEMMA NextInv == Inv /\ [Next]_vars => Inv'
<1> SUFFICES ASSUME Inv, [Next]_vars PROVE Inv'
  OBVIOUS
<1>1. CASE UNCHANGED vars
  <2>1. UNCHANGED <<queue, count, active, spawned, pc, job, known, ended, removed>>
    BY <1>1 DEF vars, poolVars, history
  <2>2. TypeOK'
    BY <1>1 DEF vars, poolVars, callVars, futureVars, history, Inv, TypeOK, PoolTypeOK, WorkerTypeOK,
         CallTypeOK, TaskTypeOK
  <2>3. Drained'
    BY <1>1, WorkDrains DEF vars, poolVars, callVars, Inv, PoolInv
  <2> QED BY <2>1, <2>2, <2>3, WorkUnchanged DEF Inv, PoolInv
<1>2. ASSUME NEW t \in Tasks, Schedule(t) \/ Cancel(t) \/ MarkCancelled(t) PROVE Inv'
  BY <1>2, ScheduleKeeps, CancelKeeps
<1>3. CASE Clear
  BY <1>3, ClearKeeps
<1>4. ASSUME NEW n \in Sizes, Resize(n) PROVE Inv'
  BY <1>4, ResizeKeeps
<1>5. ASSUME NEW c \in Callers, Close(c) \/ Expire(c) \/ CallerStep(c) \/ \E n \in Thresholds : Wait(c, n)
      PROVE  Inv'
  BY <1>5, CloseKeeps, WaitKeeps, StopKeeps DEF CallerStep
<1>6. ASSUME NEW w \in Workers, WorkerStep(w) PROVE Inv'
  BY <1>6, LookKeeps, ExecuteKeeps, EndKeeps DEF WorkerStep
<1> QED BY <1>1, <1>2, <1>3, <1>4, <1>5, <1>6 DEF Next

LEMMA InvHolds == Spec => []Inv
BY InitInv, NextInv, PTL DEF Spec

(***************************************************************************)
(* Type correctness, for any number of workers, tasks and callers: none of *)
(* the unsigned counters of pool_core wraps below zero.                    *)
(***************************************************************************)
THEOREM TypeCorrect == Spec => []TypeOK
<1>1. Inv => TypeOK
  BY DEF Inv
<1> QED BY <1>1, InvHolds, PTL

(***************************************************************************)
(* m_worker_count and m_active_worker_count, which resize, execute_task    *)
(* and the two ends of a worker change, count the threads.                 *)
(***************************************************************************)
THEOREM ThreadsAreCounted == Spec => []CountersAgree
<1>1. Inv => CountersAgree
  BY DEF Inv, PoolInv
<1> QED BY <1>1, InvHolds, PTL

(***************************************************************************)
(* notify_one in schedule is enough: while a worker sleeps, at least as    *)
(* many have been woken as tasks are pending.                              *)
(***************************************************************************)
THEOREM NoWakeupIsLost == Spec => []WakeupsCoverQueue
<1>1. Inv => WakeupsCoverQueue
  BY DEF Inv, PoolInv
<1> QED BY <1>1, InvHolds, PTL

(***************************************************************************)
(* A shutdown that waits, for all or for the active tasks, returns when no *)
(* task is pending or running any more, although it waits for the active   *)
(* workers only.                                                           *)
(***************************************************************************)
THEOREM ShutdownLeavesNothing == Spec => []ShutdownDrains
<1>1. Inv => ShutdownDrains
  <2> SUFFICES ASSUME Inv, phase = "closed", policy.shutdown # "immediately"
               PROVE  known = ended \cup removed /\ \A w \in Workers : job[w] = NoTask
    BY DEF ShutdownDrains
  <2>1. queue = <<>> /\ \A w \in Workers : job[w] = NoTask
    BY DEF Inv, PoolInv, Drained, Waited
  <2>2. ToSet(queue) = {} /\ Running = {}
    BY <2>1, PoolAssumption DEF PoolAssumption, ToSet, Running
  <2> QED BY <2>1, <2>2 DEF Inv, PoolInv, OnePlace
<1> QED BY <1>1, InvHolds, PTL

-----------------------------------------------------------------------------
(***************************************************************************)
(* The sleep of the callers.  Alert says of the threads what               *)
(* SleepersAreWoken says of the counters: where a worker sleeps another is *)
(* active or has been woken.                                               *)
(***************************************************************************)
Alert(p) ==
  (\E w \in Workers : p[w] = "waiting") => \E w \in Workers : p[w] \in BusyLabels \cup {"notified"}

\* A counter that counts somebody is not zero.
LEMMA SomebodyCounts ==
  ASSUME NEW p, NEW S
  PROVE  Cardinality(Among(p, S)) > 0 <=> \E w \in Workers : p[w] \in S
<1>1. Among(p, S) \in SUBSET Workers
  BY DEF Among
<1>2. IsFiniteSet(Among(p, S)) /\ Cardinality(Among(p, S)) \in Nat
  BY <1>1, FiniteWorkers
<1>3. Cardinality(Among(p, S)) > 0 <=> Among(p, S) # {}
  BY <1>2, FS_EmptySet
<1> QED BY <1>3 DEF Among

LEMMA AlertIs ==
  ASSUME NEW p, NEW c, NEW a, CountsOf(p, c, a)
  PROVE  a > 0 \/ Among(p, {"notified"}) # {} \/ c = 0 <=> Alert(p)
<1>1. a > 0 <=> \E w \in Workers : p[w] \in BusyLabels
  BY SomebodyCounts DEF CountsOf
<1>2. c > 0 <=> \E w \in Workers : p[w] \in LiveLabels
  BY SomebodyCounts DEF CountsOf
<1>3. c = 0 <=> ~(c > 0)
  BY CountsAreNat
<1>4. Among(p, {"notified"}) # {} <=> \E w \in Workers : p[w] = "notified"
  BY DEF Among
<1> QED BY <1>1, <1>2, <1>3, <1>4 DEF Alert, LiveLabels

LEMMA SleepersInTerms ==
  /\ CountersAgree => (SleepersAreWoken <=> \A c \in Callers : at[c] = "asleep" => Alert(pc))
  /\ CountersAgree' => (SleepersAreWoken' <=> \A c \in Callers : at'[c] = "asleep" => Alert(pc'))
<1>1. Thread({"notified"}) = Among(pc, {"notified"}) /\ Thread({"notified"})' = Among(pc', {"notified"})
  BY DEF Thread, Among
<1>2. CountersAgree => (active > 0 \/ Among(pc, {"notified"}) # {} \/ count = 0 <=> Alert(pc))
  BY Counted, AlertIs
<1>3. CountersAgree' => (active' > 0 \/ Among(pc', {"notified"}) # {} \/ count' = 0 <=> Alert(pc'))
  BY Counted, AlertIs
<1> QED BY <1>1, <1>2, <1>3 DEF SleepersAreWoken

\* A caller goes to sleep only where something is active or pending.
LEMMA WorkAlerts ==
  ASSUME Inv, active + Len(queue) > 0
  PROVE  Alert(pc)
<1>1. CountsOf(pc, count, active) /\ active \in Nat /\ Len(queue) \in Nat
  BY Counted DEF Inv, PoolInv, TypeOK, PoolTypeOK
<1>2. CASE active > 0
  BY <1>1, <1>2, AlertIs
<1>3. CASE Len(queue) > 0
  <2> SUFFICES ASSUME Among(pc, {"waiting"}) # {}
               PROVE  Among(pc, {"notified"}) # {}
    BY <1>1, AlertIs DEF Alert, Among
  <2>1. Len(queue) <= Cardinality(Among(pc, {"notified"}))
    BY Counted DEF Inv, PoolInv
  <2>2. Among(pc, {"notified"}) \in SUBSET Workers
    BY DEF Among
  <2>3. Cardinality(Among(pc, {"notified"})) \in Nat
    BY <2>2, FiniteWorkers
  <2>4. Cardinality(Among(pc, {"notified"})) # 0
    BY <1>1, <1>3, <2>1, <2>3
  <2> QED BY <2>4, FS_EmptySet
<1> QED BY <1>1, <1>2, <1>3

LEMMA NextSleepers == Inv /\ Inv' /\ SleepersAreWoken /\ [Next]_vars => SleepersAreWoken'
<1> SUFFICES ASSUME Inv, Inv', \A c \in Callers : at[c] = "asleep" => Alert(pc), [Next]_vars
             PROVE  \A c \in Callers : at'[c] = "asleep" => Alert(pc')
  BY SleepersInTerms DEF Inv, PoolInv
<1>0. /\ at \in [Callers -> {"idle", "asleep", "awake"}] /\ goal \in [Callers -> Nat]
      /\ pc \in [Workers -> Labels] /\ active \in Nat /\ Len(queue) \in Nat
      /\ \A w \in Workers : pc[w] # "none" <=> w <= spawned
  BY DEF Inv, PoolInv, Known, TypeOK, PoolTypeOK, WorkerTypeOK, CallTypeOK, Labels
<1>1. ASSUME at' = at, pc' = pc
      PROVE  \A c \in Callers : at'[c] = "asleep" => Alert(pc')
  BY <1>1
<1>2. ASSUME NEW t \in Tasks, Schedule(t) \/ Cancel(t) \/ MarkCancelled(t)
      PROVE  \A c \in Callers : at'[c] = "asleep" => Alert(pc')
  <2>1. CASE Schedule(t)
    <3>1. at' = at
      BY <2>1 DEF Schedule, callVars
    <3>2. pc' = pc \/ \E w \in Workers : pc' = [pc EXCEPT ![w] = "notified"]
      BY <2>1 DEF Schedule, WakeOne
    <3>3. ASSUME NEW w \in Workers, pc' = [pc EXCEPT ![w] = "notified"]
          PROVE  Alert(pc')
      BY <1>0, <3>3 DEF Alert
    <3> QED BY <1>1, <3>1, <3>2, <3>3
  <2>2. CASE Cancel(t) \/ MarkCancelled(t)
    BY <2>2, <1>1 DEF Cancel, MarkCancelled, callVars
  <2> QED BY <1>2, <2>1, <2>2
<1>3. CASE Clear
  BY <1>3, <1>1 DEF Clear
<1>4. ASSUME NEW n \in Sizes, Resize(n)
      PROVE  \A c \in Callers : at'[c] = "asleep" => Alert(pc')
  <2>1. at' = at
    BY <1>4 DEF Resize
  <2>2. CASE Grow(n, count, active, pc)
    <3>1. PICK k \in 0..(n - count) :
            pc' = [w \in Workers |-> IF w \in (spawned + 1)..(spawned + k) THEN "fetch" ELSE pc[w]]
      BY <2>2 DEF Grow
    <3>2. "fetch" \in BusyLabels
      BY DEF BusyLabels
    <3>3. \A w \in Workers : pc'[w] = pc[w] \/ pc'[w] = "fetch"
      BY <3>1
    <3> QED BY <2>1, <3>2, <3>3 DEF Alert
  <2>3. CASE Shrink(n, count, active, pc)
    <3>1. \A w \in Workers : pc'[w] # "waiting"
      BY <2>3 DEF Shrink, Woken
    <3> QED BY <3>1 DEF Alert
  <2> QED BY <1>4, <2>2, <2>3 DEF Resize, ResizeTo
<1>5. ASSUME NEW c \in Callers, Close(c) \/ Expire(c) \/ CallerStep(c) \/ \E n \in Thresholds : Wait(c, n)
      PROVE  \A d \in Callers : at'[d] = "asleep" => Alert(pc')
  <2>1. CASE Close(c)
    <3>1. pc' = pc /\ (active + Len(queue) > 0 \/ \A d \in Callers : at'[d] # "asleep")
      BY <1>0, <2>1 DEF Close
    <3> QED BY <2>1, <3>1, WorkAlerts DEF Close
  <2>2. CASE Expire(c)
    BY <1>0, <2>2 DEF Expire
  <2>3. CASE Recheck(c)
    <3>1. pc' = pc /\ \A d \in Callers : at'[d] = "asleep" => at[d] = "asleep" \/ ~Reached(goal[c])
      BY <1>0, <2>3 DEF Recheck
    <3>2. ~Reached(goal[c]) => active + Len(queue) > 0
      BY <1>0 DEF Reached
    <3> QED BY <3>1, <3>2, WorkAlerts
  <2>4. CASE StopWorkers(c)
    <3>1. \A w \in Workers : pc'[w] # "waiting"
      BY <2>4 DEF StopWorkers, Woken
    <3> QED BY <3>1 DEF Alert
  <2>5. CASE RecheckActive(c)
    <3>1. pc' = pc /\ \A d \in Callers : at'[d] = "asleep" => at[d] = "asleep" \/ active # 0
      BY <1>0, <2>5 DEF RecheckActive
    <3>2. active # 0 => active + Len(queue) > 0
      BY <1>0
    <3> QED BY <3>1, <3>2, WorkAlerts
  <2>6. ASSUME NEW n \in Thresholds, Wait(c, n)
        PROVE  \A d \in Callers : at'[d] = "asleep" => Alert(pc')
    <3>1. pc' = pc /\ ~Reached(n) /\ n \in Nat
      BY <2>6, PoolAssumption DEF Wait, PoolAssumption
    <3>2. active + Len(queue) > 0
      BY <1>0, <3>1 DEF Reached
    <3> QED BY <3>1, <3>2, WorkAlerts
  <2> QED BY <1>5, <2>1, <2>2, <2>3, <2>4, <2>5, <2>6 DEF CallerStep
<1>6. ASSUME NEW w \in Workers, WorkerStep(w)
      PROVE  \A c \in Callers : at'[c] = "asleep" => Alert(pc')
  <2>1. WakeCallers \/ \E l \in BusyLabels : pc' = [pc EXCEPT ![w] = l]
    BY <1>6 DEF WorkerStep, Fetch, WakeUp, Exit, Sleep, Take, CallFuture, TaskReturns, ClearExecuting,
                TaskThrows, Goto, End, Destructed, DiedUnexpectedly, BusyLabels
  <2>2. WakeCallers => \A c \in Callers : at'[c] # "asleep"
    BY DEF WakeCallers
  <2>3. ASSUME NEW l \in BusyLabels, pc' = [pc EXCEPT ![w] = l]
        PROVE  Alert(pc')
    BY <1>0, <2>3 DEF Alert
  <2> QED BY <2>1, <2>2, <2>3
<1>7. CASE UNCHANGED vars
  BY <1>7, <1>1 DEF vars, callVars
<1> QED BY <1>2, <1>3, <1>4, <1>5, <1>6, <1>7 DEF Next

(***************************************************************************)
(* A wait or a shutdown that sleeps is going to be told: a worker is       *)
(* active or has been woken, unless no worker is left.                     *)
(***************************************************************************)
THEOREM WaitersAreTold == Spec => []SleepersAreWoken
<1>1. Init => SleepersAreWoken
  BY DEF Init, SleepersAreWoken
<1> QED BY <1>1, NextSleepers, InvHolds, PTL DEF Spec

-----------------------------------------------------------------------------
(***************************************************************************)
(* The end of the workers.                                                 *)
(***************************************************************************)
\* A worker goes to sleep only where there are not too many.
LEMMA NobodySleepsIn ==
  ASSUME Inv, NEW w \in Workers, pc[w] \in LiveLabels, target = 0
  PROVE  Excess
<1>1. count > 0
  BY Counted, SomebodyCounts DEF Inv, PoolInv, CountsOf
<1> QED BY <1>1 DEF Excess

LEMMA NextStopIsHeard == Inv /\ StopIsHeard /\ [Next]_vars => StopIsHeard'
<1> DEFINE Heard == target = 0 /\ \A w \in Workers : pc[w] # "waiting"
<1>0. (StopIsHeard <=> (stopping => Heard)) /\ (StopIsHeard' <=> (stopping' => Heard'))
  BY DEF StopIsHeard, Thread
<1> SUFFICES ASSUME Inv, stopping => Heard, [Next]_vars, stopping'
             PROVE  Heard'
  BY <1>0
<1>1. pc \in [Workers -> Labels]
  BY DEF Inv, TypeOK, WorkerTypeOK, Labels
<1>2. ASSUME NEW t \in Tasks, Schedule(t) \/ Cancel(t) \/ MarkCancelled(t)
      PROVE  Heard'
  BY <1>1, <1>2 DEF Schedule, WakeOne, Cancel, MarkCancelled, poolVars
<1>3. CASE Clear
  BY <1>3 DEF Clear, poolVars
<1>4. ASSUME NEW n \in Sizes, Resize(n)
      PROVE  Heard'
  BY <1>4 DEF Resize
<1>5. ASSUME NEW c \in Callers, Close(c) \/ Expire(c) \/ CallerStep(c) \/ \E n \in Thresholds : Wait(c, n)
      PROVE  Heard'
  <2>1. CASE StopWorkers(c)
    BY <2>1 DEF StopWorkers, Woken
  <2>2. CASE Close(c) \/ Expire(c) \/ Recheck(c) \/ RecheckActive(c) \/ \E n \in Thresholds : Wait(c, n)
    <3>1. UNCHANGED <<target, stopping, pc>>
      BY <2>2 DEF Close, Expire, Recheck, RecheckActive, Wait, poolVars
    <3> QED BY <3>1
  <2> QED BY <1>5, <2>1, <2>2 DEF CallerStep
<1>6. ASSUME NEW w \in Workers, WorkerStep(w)
      PROVE  Heard'
  <2>1. stopping' = stopping
    BY <1>6 DEF WorkerStep, Fetch, WakeUp, Exit, Sleep, Take, CallFuture, TaskReturns, ClearExecuting,
                TaskThrows, Destructed, DiedUnexpectedly, poolVars
  <2>2. Heard
    BY <2>1
  <2>3. CASE Fetch(w) \/ WakeUp(w)
    <3>1. Excess
      BY <2>2, <2>3, NobodySleepsIn DEF Fetch, WakeUp, LiveLabels, BusyLabels
    <3>2. target' = target /\ \E l \in {"leaving", "fetched", "calling"} : pc' = [pc EXCEPT ![w] = l]
      BY <2>3, <3>1 DEF Fetch, WakeUp, Exit, Take, poolVars
    <3> QED BY <1>1, <2>2, <3>2
  <2>4. CASE CallFuture(w) \/ TaskReturns(w) \/ ClearExecuting(w) \/ TaskThrows(w)
    <3>1. /\ target' = target
          /\ \E l \in {"fetch", "clearing", "calling", "dying"} : pc' = [pc EXCEPT ![w] = l]
      BY <2>4 DEF CallFuture, TaskReturns, ClearExecuting, TaskThrows, Goto, End, poolVars
    <3> QED BY <1>1, <2>2, <3>1
  <2>5. CASE Destructed(w) \/ DiedUnexpectedly(w)
    <3>1. target' = target /\ pc' = [pc EXCEPT ![w] = "gone"]
      BY <2>1, <2>5 DEF Destructed, DiedUnexpectedly
    <3> QED BY <1>1, <2>2, <3>1
  <2> QED BY <1>6, <2>3, <2>4, <2>5 DEF WorkerStep
<1>7. CASE UNCHANGED vars
  BY <1>7 DEF vars, poolVars
<1> QED BY <1>2, <1>3, <1>4, <1>5, <1>6, <1>7 DEF Next

(***************************************************************************)
(* terminate_all_workers reaches every worker: none sleeps any more, and   *)
(* none goes to sleep again.                                               *)
(***************************************************************************)
THEOREM NobodySleepsThroughTheStop == Spec => []StopIsHeard
<1>1. Init => StopIsHeard
  BY DEF Init, StopIsHeard
<1> QED BY <1>1, NextStopIsHeard, InvHolds, PTL DEF Spec

-----------------------------------------------------------------------------
(***************************************************************************)
(* The pool implements Executor.                                           *)
(***************************************************************************)
\* Where a task is decides what it is.
LEMMA StatusIs ==
  ASSUME Inv, Inv', NEW t \in Tasks
  PROVE  /\ Status[t] \in {"new", "pending", "running", "ended", "removed"}
         /\ Status[t] = "new" <=> t \notin known
         /\ Status[t] = "pending" <=> t \in ToSet(queue)
         /\ Status[t] = "running" <=> t \in Running
         /\ Status[t] = "ended" <=> t \in ended
         /\ Status[t] = "removed" <=> t \in removed
         /\ Status'[t] \in {"new", "pending", "running", "ended", "removed"}
         /\ Status'[t] = "new" <=> t \notin known'
         /\ Status'[t] = "pending" <=> t \in ToSet(queue')
         /\ Status'[t] = "running" <=> t \in Running'
         /\ Status'[t] = "ended" <=> t \in ended'
         /\ Status'[t] = "removed" <=> t \in removed'
<1>1. OnePlace /\ OnePlace'
  BY DEF Inv, PoolInv
<1>2. Status[t] = IF t \notin known THEN "new" ELSE IF t \in Running THEN "running"
                  ELSE IF t \in ended THEN "ended" ELSE IF t \in ToSet(queue) THEN "pending"
                  ELSE IF t \in removed THEN "removed" ELSE "lost"
  BY DEF Status, Running
<1>3. Status'[t] = IF t \notin known' THEN "new" ELSE IF t \in Running' THEN "running"
                   ELSE IF t \in ended' THEN "ended" ELSE IF t \in ToSet(queue') THEN "pending"
                   ELSE IF t \in removed' THEN "removed" ELSE "lost"
  BY DEF Status, Running
<1>4. /\ t \in known <=> t \in ToSet(queue) \/ t \in Running \/ t \in ended \/ t \in removed
      /\ t \in ToSet(queue) => t \notin Running /\ t \notin ended /\ t \notin removed
      /\ t \in Running => t \notin ended /\ t \notin removed
      /\ t \in ended => t \notin removed
  BY <1>1 DEF OnePlace
<1>5. /\ t \in known' <=> t \in ToSet(queue') \/ t \in Running' \/ t \in ended' \/ t \in removed'
      /\ t \in ToSet(queue') => t \notin Running' /\ t \notin ended' /\ t \notin removed'
      /\ t \in Running' => t \notin ended' /\ t \notin removed'
      /\ t \in ended' => t \notin removed'
  BY <1>1 DEF OnePlace
<1> QED BY <1>2, <1>3, <1>4, <1>5

\* One task goes from one place to another.
LEMMA StatusMoves ==
  ASSUME Inv, Inv', NEW t \in Tasks, NEW from, NEW to, Status[t] = from, Status'[t] = to,
         \A u \in Tasks \ {t} : Status'[u] = Status[u]
  PROVE  Abstract!Move(t, from, to)
<1>1. Status = [u \in Tasks |-> Status[u]] /\ Status' = [u \in Tasks |-> Status'[u]]
  BY DEF Status
<1>2. Status' = [Status EXCEPT ![t] = to]
  BY <1>1
<1> QED BY <1>2 DEF Abstract!Move

\* Nothing happens to the tasks.
LEMMA StatusStays ==
  ASSUME UNCHANGED <<queue, job, known, ended, removed>>
  PROVE  Status' = Status
BY DEF Status

\* Every task that waits is removed, or none is.
LEMMA StatusCleared ==
  ASSUME Inv, Inv', queue' = <<>>, removed' = removed \cup ToSet(queue), UNCHANGED <<job, known, ended>>
  PROVE  Abstract!Clear
<1>1. ToSet(queue') = {} /\ Running' = Running
  BY DEF ToSet, Running
<1>2. ASSUME NEW t \in Tasks
      PROVE  Status'[t] = IF Status[t] = "pending" THEN "removed" ELSE Status[t]
  BY <1>1, StatusIs
<1>3. Status' = [u \in Tasks |-> Status'[u]]
  BY DEF Status
<1>4. Status' = [t \in Tasks |-> IF Status[t] = "pending" THEN "removed" ELSE Status[t]]
  BY <1>2, <1>3, Zenon
<1> QED BY <1>4 DEF Abstract!Clear

LEMMA CallImplements ==
  ASSUME Inv, Inv', NEW t \in Tasks, Schedule(t) \/ Cancel(t) \/ MarkCancelled(t)
  PROVE  Abstract!Schedule(t) \/ Status' = Status
<1>1. CASE Schedule(t)
  <2>1. queue' = Push(t) /\ known' = known \cup {t} /\ t \notin known /\ UNCHANGED <<job, ended, removed>>
    BY <1>1 DEF Schedule
  <2>2. ToSet(queue') = ToSet(queue) \cup {t} /\ Running' = Running
    <3>1. queue \in Seq(Tasks) /\ (queue' = Append(queue, t) \/ queue' = <<t>> \o queue)
      BY <2>1 DEF Push, PushFront, PushBack, Inv, TypeOK, PoolTypeOK
    <3> QED BY <2>1, <3>1, Pushed DEF Running
  <2>3. Status[t] = "new" /\ Status'[t] = "pending"
    BY <2>1, <2>2, StatusIs
  <2>4. \A u \in Tasks \ {t} : Status'[u] = Status[u]
    BY <2>1, <2>2, StatusIs
  <2> QED BY <2>3, <2>4, StatusMoves DEF Abstract!Schedule
<1>2. CASE Cancel(t) \/ MarkCancelled(t)
  BY <1>2, StatusStays DEF Cancel, MarkCancelled, history
<1> QED BY <1>1, <1>2

LEMMA CloseImplements ==
  ASSUME Inv, Inv', NEW c \in Callers, Close(c)
  PROVE  Abstract!Clear \/ Status' = Status
<1>1. CASE queue' = queue
  BY <1>1, StatusStays DEF Close
<1>2. CASE queue' # queue
  <2>1. queue' = <<>> /\ removed' = removed \cup ToSet(queue) /\ UNCHANGED <<job, known, ended>>
    BY <1>2 DEF Close
  <2> QED BY <2>1, StatusCleared
<1> QED BY <1>1, <1>2

\* The worker's step that takes a task, or ends one.
LEMMA WorkerImplements ==
  ASSUME Inv, Inv', NEW w \in Workers, WorkerStep(w)
  PROVE  (\E t \in Tasks : Abstract!Begin(t) \/ Abstract!End(t)) \/ Status' = Status
<1>1. \/ UNCHANGED <<queue, job, known, ended, removed>>
      \/ job[w] # NoTask /\ ended' = ended \cup {job[w]} /\ job' = [job EXCEPT ![w] = NoTask]
         /\ UNCHANGED <<queue, known, removed>>
      \/ \E a : queue # <<>> /\ pc[w] \in {"fetch", "notified"} /\ Take(w, a)
  <2>1. CASE Fetch(w) \/ WakeUp(w)
    BY <2>1 DEF Fetch, WakeUp, Exit, Sleep, history
  <2>2. CASE CallFuture(w) \/ Destructed(w) \/ DiedUnexpectedly(w)
    BY <2>2 DEF CallFuture, Goto, Destructed, DiedUnexpectedly, history
  <2>3. CASE TaskReturns(w) \/ ClearExecuting(w) \/ TaskThrows(w)
    <3>1. job[w] # NoTask
      BY <2>3 DEF TaskReturns, ClearExecuting, TaskThrows, Inv, PoolInv, HasTask
    <3> QED BY <2>3, <3>1 DEF TaskReturns, ClearExecuting, TaskThrows, Goto, End
  <2> QED BY <2>1, <2>2, <2>3 DEF WorkerStep
<1>2. job \in [Workers -> Tasks \cup {NoTask}] /\ queue \in Seq(Tasks)
  BY DEF Inv, TypeOK, WorkerTypeOK, PoolTypeOK
<1>3. CASE UNCHANGED <<queue, job, known, ended, removed>>
  BY <1>3, StatusStays
<1>4. CASE job[w] # NoTask /\ ended' = ended \cup {job[w]} /\ job' = [job EXCEPT ![w] = NoTask]
           /\ UNCHANGED <<queue, known, removed>>
  <2> DEFINE t == job[w]
  <2>1. t \in Tasks /\ t \in Running
    BY <1>2, <1>4 DEF Running
  <2>2. Running' = Running \ {t} /\ ToSet(queue') = ToSet(queue)
    <3>1. \A v \in Workers : job[v] = t => v = w
      BY <1>4 DEF Inv, PoolInv, OnePlace
    <3>2. \A v \in Workers : job'[v] = IF v = w THEN NoTask ELSE job[v]
      BY <1>2, <1>4
    <3> QED BY <1>4, <2>1, <3>1, <3>2, PoolAssumption DEF Running, PoolAssumption
  <2>3. ended' = ended \cup {t} /\ UNCHANGED <<known, removed>>
    BY <1>4
  <2> HIDE DEF t
  <2>4. Status[t] = "running" /\ Status'[t] = "ended"
    BY <2>1, <2>2, <2>3, StatusIs
  <2>5. \A u \in Tasks \ {t} : Status'[u] = Status[u]
    BY <2>2, <2>3, StatusIs
  <2> QED BY <2>1, <2>4, <2>5, StatusMoves DEF Abstract!End
<1>5. ASSUME NEW a, queue # <<>>, pc[w] \in {"fetch", "notified"}, Take(w, a)
      PROVE  \E t \in Tasks : Abstract!Begin(t)
  <2>1. PICK i \in DOMAIN queue : job' = [job EXCEPT ![w] = queue[i]] /\ queue' = RemoveAt(queue, i)
    <3>1. Top \subseteq DOMAIN queue
      BY <1>2, <1>5 DEF Top, Highest
    <3> QED BY <1>5, <3>1 DEF Take
  <2>2. UNCHANGED <<known, ended, removed>> /\ job[w] = NoTask
    BY <1>5 DEF Take, history, Inv, PoolInv, HasTask
  <2> DEFINE t == queue[i]
  <2>3. t \in Tasks /\ t \in ToSet(queue) /\ ToSet(queue') = ToSet(queue) \ {t}
    BY <1>2, <2>1, Removed DEF Inv, PoolInv, OnePlace
  <2>4. job' = [job EXCEPT ![w] = t]
    BY <2>1
  <2> HIDE DEF t
  <2>5. Running' = Running \cup {t}
    <3>1. \A v \in Workers : job'[v] = IF v = w THEN t ELSE job[v]
      BY <1>2, <2>4
    <3> QED BY <2>2, <2>3, <3>1, PoolAssumption DEF Running, PoolAssumption
  <2>6. Status[t] = "pending" /\ Status'[t] = "running"
    BY <2>2, <2>3, <2>5, StatusIs
  <2>7. \A u \in Tasks \ {t} : Status'[u] = Status[u]
    BY <2>2, <2>3, <2>5, StatusIs
  <2> QED BY <2>3, <2>6, <2>7, StatusMoves DEF Abstract!Begin
<1> QED BY <1>1, <1>3, <1>4, <1>5

(***************************************************************************)
(* A task that was scheduled is executed once, or removed while it was     *)
(* pending, whichever workers fetch, throw, are replaced or told to stop.  *)
(***************************************************************************)
THEOREM ImplementsExecutor == Spec => ExecutedOnce
<1>1. Init => Abstract!Init
  <2> SUFFICES ASSUME Init PROVE Status = [t \in Tasks |-> "new"]
    BY DEF Abstract!Init
  <2> QED BY DEF Init, Status
<1>2. Inv /\ Inv' /\ [Next]_vars => [Abstract!Next]_Status
  <2> SUFFICES ASSUME Inv, Inv', [Next]_vars PROVE Abstract!Next \/ Status' = Status
    OBVIOUS
  <2>1. CASE UNCHANGED vars
    BY <2>1, StatusStays DEF vars, history
  <2>2. ASSUME NEW t \in Tasks, Schedule(t) \/ Cancel(t) \/ MarkCancelled(t)
        PROVE  Abstract!Next \/ Status' = Status
    BY <2>2, CallImplements DEF Abstract!Next
  <2>3. CASE Clear
    BY <2>3, StatusCleared DEF Clear, Abstract!Next
  <2>4. ASSUME NEW n \in Sizes, Resize(n) PROVE Status' = Status
    BY <2>4, StatusStays DEF Resize
  <2>5. ASSUME NEW c \in Callers,
               Close(c) \/ Expire(c) \/ CallerStep(c) \/ \E n \in Thresholds : Wait(c, n)
        PROVE  Abstract!Next \/ Status' = Status
    <3>1. CASE Close(c)
      BY <3>1, CloseImplements DEF Abstract!Next
    <3>2. CASE Expire(c) \/ CallerStep(c) \/ \E n \in Thresholds : Wait(c, n)
      BY <3>2, StatusStays DEF Expire, CallerStep, Recheck, StopWorkers, RecheckActive, Wait, history
    <3> QED BY <2>5, <3>1, <3>2
  <2>6. ASSUME NEW w \in Workers, WorkerStep(w) PROVE Abstract!Next \/ Status' = Status
    BY <2>6, WorkerImplements DEF Abstract!Next
  <2> QED BY <2>1, <2>2, <2>3, <2>4, <2>5, <2>6 DEF Next
<1> QED BY <1>1, <1>2, InvHolds, PTL DEF Spec, ExecutedOnce, Abstract!Spec
=============================================================================
