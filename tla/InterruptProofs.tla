-------------------------- MODULE InterruptProofs --------------------------
(* Proofs, for any devices, delays and tick lengths, of the properties of     *)
(* Interrupt.                                                                 *)
EXTENDS Interrupt, TLAPS

(* The list is sorted: what makes looking at its head enough.                  *)
Sorted(l) == \A i, k \in DOMAIN l : i < k => l[i].when <= l[k].when

(* In a list that holds the timer's interrupt, it does so once, close enough.  *)
HasTimer(l, limit) ==
    \E i \in DOMAIN l :
        /\ l[i].type = Timer
        /\ l[i].when <= limit
        /\ \A k \in DOMAIN l : l[k].type = Timer => k = i

HasNoTimer(l) == \A i \in DOMAIN l : l[i].type # Timer

(* Where the interrupts of a list are after an insertion.                      *)
LEMMA InsertedItems ==
    ASSUME NEW l \in Seq(PendingInterrupt), NEW e \in PendingInterrupt, NEW j \in 1 .. Len(l) + 1
    PROVE  /\ Inserted(l, e, j) \in Seq(PendingInterrupt)
           /\ DOMAIN Inserted(l, e, j) = 1 .. Len(l) + 1
           /\ Inserted(l, e, j)[j] = e
           /\ \A i \in 1 .. Len(l) + 1 : i < j => i \in 1 .. Len(l) /\ Inserted(l, e, j)[i] = l[i]
           /\ \A i \in 1 .. Len(l) + 1 : i > j => i - 1 \in 1 .. Len(l) /\ Inserted(l, e, j)[i] = l[i - 1]
<1>1. Len(l) \in Nat /\ DOMAIN l = 1 .. Len(l)
  OBVIOUS
<1>2. \A i \in 1 .. Len(l) : l[i] \in PendingInterrupt
  OBVIOUS
<1>3. \A i \in 1 .. Len(l) + 1 : (i < j => i \in 1 .. Len(l)) /\ (i > j => i - 1 \in 1 .. Len(l))
  BY <1>1
<1>4. \A i \in 1 .. Len(l) + 1 : Inserted(l, e, j)[i] \in PendingInterrupt
  BY <1>1, <1>2, <1>3 DEF Inserted
<1>5. /\ DOMAIN Inserted(l, e, j) = 1 .. Len(l) + 1
      /\ Len(l) + 1 \in Nat
  BY <1>1 DEF Inserted
<1>6. Inserted(l, e, j) \in Seq(PendingInterrupt)
  BY <1>4, <1>5 DEF Inserted
<1>7. QED BY <1>1, <1>3, <1>5, <1>6 DEF Inserted

(* SortedInsert keeps a sorted list sorted and adds its item to it.            *)
LEMMA InsertedSorted ==
    ASSUME NEW l \in Seq(PendingInterrupt), NEW e \in PendingInterrupt, NEW j \in 1 .. Len(l) + 1,
           Sorted(l), InsertPosition(l, e, j)
    PROVE  Sorted(Inserted(l, e, j))
<1> DEFINE m == Inserted(l, e, j)
<1>0. /\ DOMAIN m = 1 .. Len(l) + 1
      /\ m[j] = e
      /\ \A i \in 1 .. Len(l) + 1 : i < j => i \in 1 .. Len(l) /\ m[i] = l[i]
      /\ \A i \in 1 .. Len(l) + 1 : i > j => i - 1 \in 1 .. Len(l) /\ m[i] = l[i - 1]
  <2>1. Len(l) \in Nat
    OBVIOUS
  <2>2. \A i \in 1 .. Len(l) + 1 : (i < j => i \in 1 .. Len(l)) /\ (i > j => i - 1 \in 1 .. Len(l))
    BY <2>1
  <2>3. QED BY <2>1, <2>2 DEF Inserted
<1> HIDE DEF m
<1>a. Len(l) \in Nat /\ DOMAIN l = 1 .. Len(l) /\ \A i \in 1 .. Len(l) : l[i] \in PendingInterrupt
  OBVIOUS
<1>b. e.when \in Nat
  BY DEF PendingInterrupt
<1>1. Len(l) \in Nat /\ DOMAIN l = 1 .. Len(l) /\ e.when \in Nat
  BY <1>a, <1>b
<1>2. \A i \in 1 .. Len(l) : l[i].when \in Nat
  BY <1>a DEF PendingInterrupt
<1>3. SUFFICES ASSUME NEW i \in 1 .. Len(l) + 1, NEW k \in 1 .. Len(l) + 1, i < k
               PROVE  m[i].when <= m[k].when
  BY <1>0 DEF Sorted, m
<1>4. /\ m[j] = e
      /\ i < j => i \in 1 .. Len(l) /\ m[i] = l[i]
      /\ i > j => i - 1 \in 1 .. Len(l) /\ m[i] = l[i - 1]
      /\ k < j => k \in 1 .. Len(l) /\ m[k] = l[k]
      /\ k > j => k - 1 \in 1 .. Len(l) /\ m[k] = l[k - 1]
  BY <1>0
<1>5. \A n \in 1 .. Len(l) : n >= j => e.when < l[n].when
  <2> SUFFICES ASSUME NEW n \in 1 .. Len(l), n >= j PROVE e.when < l[n].when
    OBVIOUS
  <2>1. j \in 1 .. Len(l) /\ e.when < l[j].when
    BY <1>1 DEF InsertPosition
  <2>2. l[j].when <= l[n].when
    <3>1. CASE n = j
      BY ONLY <1>2, <2>1, <3>1
    <3>2. CASE j < n
      BY ONLY <1>1, <2>1, <3>2, n \in 1 .. Len(l), Sorted(l) DEF Sorted
    <3>3. QED BY ONLY <1>1, <2>1, <3>1, <3>2, n \in 1 .. Len(l), n >= j
  <2>3. QED BY <1>1, <1>2, <2>1, <2>2
<1>6. \A n \in 1 .. Len(l) : n < j => l[n].when <= e.when
  BY <1>1 DEF InsertPosition
<1>7. CASE k < j
  BY <1>1, <1>3, <1>4, <1>7 DEF Sorted
<1>8. CASE k = j
  BY <1>1, <1>3, <1>4, <1>6, <1>8
<1>9. CASE k > j /\ i < j
  <2>1. m[i].when <= e.when /\ e.when < m[k].when /\ m[i].when \in Nat /\ m[k].when \in Nat
    BY <1>1, <1>2, <1>4, <1>5, <1>6, <1>9
  <2>2. QED BY <1>1, <2>1
<1>10. CASE k > j /\ i = j
  <2>1. e.when < l[k - 1].when /\ l[k - 1].when \in Nat
    BY <1>1, <1>2, <1>4, <1>5, <1>10
  <2>2. QED BY <1>1, <1>4, <1>10, <2>1
<1>11. CASE k > j /\ i > j
  <2>1. i - 1 < k - 1
    BY <1>3
  <2>2. QED BY <1>1, <1>4, <1>11, <2>1 DEF Sorted
<1>12. QED BY <1>7, <1>8, <1>9, <1>10, <1>11

(* The timer's interrupt before and after an insertion.                        *)
LEMMA InsertedTimer ==
    ASSUME NEW l \in Seq(PendingInterrupt), NEW e \in PendingInterrupt, NEW j \in 1 .. Len(l) + 1,
           NEW limit \in Nat,
           \/ e.type # Timer /\ HasTimer(l, limit)
           \/ e.type = Timer /\ e.when <= limit /\ HasNoTimer(l)
    PROVE  HasTimer(Inserted(l, e, j), limit)
<1> DEFINE m == Inserted(l, e, j)
<1>0. /\ DOMAIN m = 1 .. Len(l) + 1
      /\ m[j] = e
      /\ \A i \in 1 .. Len(l) + 1 : i < j => i \in 1 .. Len(l) /\ m[i] = l[i]
      /\ \A i \in 1 .. Len(l) + 1 : i > j => i - 1 \in 1 .. Len(l) /\ m[i] = l[i - 1]
  <2>1. Len(l) \in Nat
    OBVIOUS
  <2>2. \A i \in 1 .. Len(l) + 1 : (i < j => i \in 1 .. Len(l)) /\ (i > j => i - 1 \in 1 .. Len(l))
    BY <2>1
  <2>3. QED BY <2>1, <2>2 DEF Inserted
<1> HIDE DEF m
<1>1. Len(l) \in Nat /\ DOMAIN l = 1 .. Len(l)
  OBVIOUS
<1>2. /\ DOMAIN m = 1 .. Len(l) + 1
      /\ m[j] = e
      /\ \A i \in 1 .. Len(l) + 1 : i < j => i \in 1 .. Len(l) /\ m[i] = l[i]
      /\ \A i \in 1 .. Len(l) + 1 : i > j => i - 1 \in 1 .. Len(l) /\ m[i] = l[i - 1]
  BY <1>0
<1>3. CASE e.type = Timer /\ e.when <= limit /\ HasNoTimer(l)
  <2>1. \A k \in 1 .. Len(l) + 1 : m[k].type = Timer => k = j
    BY <1>1, <1>2, <1>3 DEF HasNoTimer
  <2>2. HasTimer(m, limit)
    BY <1>2, <1>3, <2>1 DEF HasTimer
  <2>3. QED BY <2>2 DEF m
<1>4. CASE e.type # Timer /\ HasTimer(l, limit)
  <2>1. PICK i \in 1 .. Len(l) : /\ l[i].type = Timer
                                 /\ l[i].when <= limit
                                 /\ \A k \in 1 .. Len(l) : l[k].type = Timer => k = i
    BY <1>1, <1>4 DEF HasTimer
  <2> DEFINE n == IF i < j THEN i ELSE i + 1
  <2>2. n \in 1 .. Len(l) + 1 /\ m[n] = l[i]
    <3>1. CASE i < j
      BY <1>1, <1>2, <3>1
    <3>2. CASE ~(i < j)
      <4>1. i + 1 \in 1 .. Len(l) + 1 /\ i + 1 > j /\ (i + 1) - 1 = i
        BY <1>1, <3>2
      <4>2. QED BY <1>2, <3>2, <4>1
    <3>3. QED BY <3>1, <3>2
  <2>3. ASSUME NEW k \in 1 .. Len(l) + 1, m[k].type = Timer PROVE k = n
    <3>1. k # j
      BY <1>2, <1>4, <2>3
    <3>2. CASE k < j
      BY <1>2, <2>1, <2>3, <3>2
    <3>3. CASE k > j
      <4>1. k - 1 = i
        BY <1>2, <2>1, <2>3, <3>3
      <4>2. QED BY <3>3, <4>1
    <3>4. QED BY <3>1, <3>2, <3>3
  <2> HIDE DEF n
  <2>4. HasTimer(m, limit)
    BY <1>2, <2>1, <2>2, <2>3 DEF HasTimer
  <2>5. QED BY <2>4 DEF m
<1>5. QED BY <1>3, <1>4

(* What SortedRemove leaves, and where the timer's interrupt is then.          *)
LEMMA Removed ==
    ASSUME NEW l \in Seq(PendingInterrupt), l # <<>>
    PROVE  /\ Tail(l) \in Seq(PendingInterrupt)
           /\ Head(l) \in PendingInterrupt
           /\ Head(l) = l[1] /\ 1 \in DOMAIN l
           /\ \A i \in DOMAIN Tail(l) : i + 1 \in DOMAIN l /\ Tail(l)[i] = l[i + 1]
           /\ Sorted(l) => Sorted(Tail(l)) /\ \A i \in DOMAIN l : Head(l).when <= l[i].when
           /\ \A limit \in Nat :
                 HasTimer(l, limit) =>
                     IF Head(l).type = Timer THEN HasNoTimer(Tail(l)) /\ Head(l).when <= limit
                     ELSE HasTimer(Tail(l), limit)
<1>1. /\ Tail(l) \in Seq(PendingInterrupt)
      /\ Len(l) \in Nat /\ Len(l) > 0
      /\ DOMAIN l = 1 .. Len(l)
      /\ Len(Tail(l)) = Len(l) - 1
      /\ DOMAIN Tail(l) = 1 .. Len(l) - 1
      /\ Head(l) = l[1]
      /\ \A i \in 1 .. Len(l) - 1 : Tail(l)[i] = l[i + 1]
      /\ \A i \in 1 .. Len(l) : l[i] \in PendingInterrupt
  OBVIOUS
<1>2. 1 \in 1 .. Len(l) /\ \A i \in 1 .. Len(l) - 1 : i + 1 \in 1 .. Len(l)
  BY <1>1
<1>3. ASSUME Sorted(l)
      PROVE  Sorted(Tail(l)) /\ \A i \in DOMAIN l : Head(l).when <= l[i].when
  <2>1. Sorted(Tail(l))
    <3>1. SUFFICES ASSUME NEW i \in 1 .. Len(l) - 1, NEW k \in 1 .. Len(l) - 1, i < k
                   PROVE  Tail(l)[i].when <= Tail(l)[k].when
      BY <1>1 DEF Sorted
    <3>2. i + 1 < k + 1
      BY <3>1
    <3>3. QED BY <1>1, <1>2, <1>3, <3>2 DEF Sorted
  <2>2. \A i \in 1 .. Len(l) : l[i].when \in Nat
    BY <1>1 DEF PendingInterrupt
  <2>3. ASSUME NEW i \in 1 .. Len(l) PROVE l[1].when <= l[i].when
    <3>1. CASE i = 1
      BY <2>2, <3>1
    <3>2. CASE i # 1
      BY <1>1, <1>2, <1>3, <3>2 DEF Sorted
    <3>3. QED BY <3>1, <3>2
  <2>4. QED BY <1>1, <2>1, <2>3
<1>4. ASSUME NEW limit \in Nat, HasTimer(l, limit)
      PROVE  IF Head(l).type = Timer THEN HasNoTimer(Tail(l)) /\ Head(l).when <= limit
             ELSE HasTimer(Tail(l), limit)
  <2>1. PICK i \in 1 .. Len(l) : /\ l[i].type = Timer
                                 /\ l[i].when <= limit
                                 /\ \A k \in 1 .. Len(l) : l[k].type = Timer => k = i
    BY <1>1, <1>4 DEF HasTimer
  <2>2. CASE l[1].type = Timer
    <3>1. i = 1
      BY <1>2, <2>1, <2>2
    <3>2. \A k \in 1 .. Len(l) - 1 : k + 1 # 1
      BY <1>1
    <3>3. HasNoTimer(Tail(l))
      BY <1>1, <1>2, <2>1, <3>1, <3>2 DEF HasNoTimer
    <3>4. QED BY <1>1, <2>1, <2>2, <3>1, <3>3
  <2>3. CASE l[1].type # Timer
    <3>1. i # 1
      BY <2>1, <2>3
    <3>2. i - 1 \in 1 .. Len(l) - 1 /\ (i - 1) + 1 = i
      BY <1>1, <3>1
    <3>3. Tail(l)[i - 1] = l[i]
      BY <1>1, <3>2
    <3>4. \A k \in 1 .. Len(l) - 1 : Tail(l)[k].type = Timer => k = i - 1
      <4> SUFFICES ASSUME NEW k \in 1 .. Len(l) - 1, Tail(l)[k].type = Timer PROVE k = i - 1
        OBVIOUS
      <4>1. k + 1 = i
        BY <1>1, <1>2, <2>1
      <4>2. QED BY <4>1
    <3>5. HasTimer(Tail(l), limit)
      BY Zenon, <1>1, <2>1, <3>2, <3>3, <3>4 DEF HasTimer
    <3>6. QED BY <1>1, <2>3, <3>5
  <2>4. QED BY <2>2, <2>3
<1>5. QED BY <1>1, <1>2, <1>3, <1>4

(* A timer interrupt close enough for one limit is for a later one.            *)
LEMMA LaterLimit ==
    ASSUME NEW l \in Seq(PendingInterrupt), NEW a \in Nat, NEW b \in Nat, a <= b, HasTimer(l, a)
    PROVE  HasTimer(l, b)
<1>1. PICK i \in DOMAIN l : /\ l[i].type = Timer
                            /\ l[i].when <= a
                            /\ \A k \in DOMAIN l : l[k].type = Timer => k = i
  BY DEF HasTimer
<1>2. l[i].when \in Nat
  <2>1. l[i] \in PendingInterrupt
    OBVIOUS
  <2>2. QED BY <2>1 DEF PendingInterrupt
<1>3. l[i].when <= b
  BY <1>1, <1>2
<1>4. QED BY <1>1, <1>3 DEF HasTimer

(* SortedInsert as the actions use it.                                         *)
LEMMA InsertStep ==
    ASSUME NEW l \in Seq(PendingInterrupt), Sorted(l), NEW e \in PendingInterrupt,
           SortedInsert(l, e)
    PROVE  /\ pending' \in Seq(PendingInterrupt)
           /\ Sorted(pending')
           /\ \A i \in DOMAIN pending' :
                 pending'[i] = e \/ \E k \in DOMAIN l : pending'[i] = l[k]
           /\ \A limit \in Nat :
                 \/ e.type # Timer /\ HasTimer(l, limit)
                 \/ e.type = Timer /\ e.when <= limit /\ HasNoTimer(l)
                 => HasTimer(pending', limit)
<1>1. PICK j \in 1 .. Len(l) + 1 : InsertPosition(l, e, j) /\ pending' = Inserted(l, e, j)
  BY DEF SortedInsert
<1>2. /\ pending' \in Seq(PendingInterrupt)
      /\ DOMAIN pending' = 1 .. Len(l) + 1
      /\ pending'[j] = e
      /\ \A i \in 1 .. Len(l) + 1 : i < j => i \in 1 .. Len(l) /\ pending'[i] = l[i]
      /\ \A i \in 1 .. Len(l) + 1 : i > j => i - 1 \in 1 .. Len(l) /\ pending'[i] = l[i - 1]
  <2> DEFINE m == Inserted(l, e, j)
  <2>1. /\ m \in Seq(PendingInterrupt)
        /\ DOMAIN m = 1 .. Len(l) + 1
        /\ m[j] = e
        /\ \A i \in 1 .. Len(l) + 1 : i < j => i \in 1 .. Len(l) /\ m[i] = l[i]
        /\ \A i \in 1 .. Len(l) + 1 : i > j => i - 1 \in 1 .. Len(l) /\ m[i] = l[i - 1]
    BY InsertedItems, SMTT(30)
  <2>2. pending' = m
    BY <1>1
  <2> HIDE DEF m
  <2>3. QED BY <2>1, <2>2
<1>3. Sorted(pending')
  BY <1>1, InsertedSorted
<1>4. \A i \in DOMAIN pending' : pending'[i] = e \/ \E k \in DOMAIN l : pending'[i] = l[k]
  <2> SUFFICES ASSUME NEW i \in 1 .. Len(l) + 1
               PROVE  pending'[i] = e \/ \E k \in DOMAIN l : pending'[i] = l[k]
    BY <1>2
  <2>1. DOMAIN l = 1 .. Len(l) /\ Len(l) \in Nat
    OBVIOUS
  <2>2. i < j \/ i = j \/ i > j
    BY <2>1
  <2>3. QED BY Zenon, <1>2, <2>1, <2>2
<1>5. ASSUME NEW limit \in Nat,
             \/ e.type # Timer /\ HasTimer(l, limit)
             \/ e.type = Timer /\ e.when <= limit /\ HasNoTimer(l)
      PROVE  HasTimer(pending', limit)
  BY <1>1, <1>5, InsertedTimer
<1>6. QED BY <1>2, <1>3, <1>4, <1>5

(* A handler runs at time "now", not before its interrupt is due.              *)
LEMMA HandlerStep ==
    ASSUME TypeOK, Sorted(pending), TimerStaysSet, pending # <<>>,
           NEW now \in Nat, totalTicks <= now, Head(pending).when <= now,
           Handler(Head(pending), Tail(pending), now)
    PROVE  /\ pending' \in Seq(PendingInterrupt)
           /\ Sorted(pending')
           /\ lastFired' \in Nat
           /\ yieldOnReturn' \in BOOLEAN
           /\ lastFired' <= now
           /\ \A i \in DOMAIN pending' : lastFired' <= pending'[i].when
           /\ TimerOn => HasTimer(pending', now + 2 * TimerTicks)
<1> DEFINE p == Head(pending)
           rest == Tail(pending)
<1>1. /\ rest \in Seq(PendingInterrupt) /\ Sorted(rest)
      /\ p \in PendingInterrupt
      /\ \A i \in DOMAIN pending : p.when <= pending[i].when
      /\ \A i \in DOMAIN rest : i + 1 \in DOMAIN pending /\ rest[i] = pending[i + 1]
  BY Removed DEF TypeOK
<1>2. \A i \in DOMAIN rest : p.when <= rest[i].when
  BY <1>1
<1>3. p.when \in Nat /\ p.type \in IntType
  BY <1>1 DEF PendingInterrupt
<1>4. now + 2 * TimerTicks \in Nat /\ totalTicks + 2 * TimerTicks \in Nat
  BY InterruptAssumption DEF TypeOK
<1>5. TimerOn => IF p.type = Timer THEN HasNoTimer(rest) ELSE HasTimer(rest, now + 2 * TimerTicks)
  <2> SUFFICES ASSUME TimerOn
               PROVE  IF p.type = Timer THEN HasNoTimer(rest)
                      ELSE HasTimer(rest, now + 2 * TimerTicks)
    OBVIOUS
  <2>1. HasTimer(pending, totalTicks + 2 * TimerTicks)
    BY DEF TimerStaysSet, HasTimer
  <2>2. totalTicks + 2 * TimerTicks <= now + 2 * TimerTicks
    BY InterruptAssumption DEF TypeOK
  <2>3. HasTimer(pending, now + 2 * TimerTicks)
    BY <1>4, <2>1, <2>2, LaterLimit DEF TypeOK
  <2>4. QED BY <1>4, <2>3, Removed DEF TypeOK
<1>6. lastFired' = p.when /\ yieldOnReturn' \in BOOLEAN
  BY DEF Handler, TypeOK
<1> HIDE DEF p, rest
<1>7. CASE pending' = rest /\ p.type \in OneShot
  <2>1. p.type # Timer
    BY <1>7, InterruptAssumption
  <2>2. QED BY <1>1, <1>2, <1>3, <1>5, <1>6, <1>7, <2>1 DEF p
<1>8. CASE \E d \in Delays(p.type) : SortedInsert(rest, [when |-> now + d, type |-> p.type])
  <2>1. PICK d \in Delays(p.type) : SortedInsert(rest, [when |-> now + d, type |-> p.type])
    BY <1>8
  <2> DEFINE e == [when |-> now + d, type |-> p.type]
  <2>2. /\ d \in Nat /\ d > 0
        /\ p.type = Timer => d <= 2 * TimerTicks
    BY InterruptAssumption DEF Delays
  <2>3. e \in PendingInterrupt /\ e.when = now + d /\ e.type = p.type
    BY <1>3, <2>2 DEF PendingInterrupt
  <2> HIDE DEF e
  <2>4. SortedInsert(rest, e)
    BY <2>1 DEF e
  <2>5. /\ pending' \in Seq(PendingInterrupt)
        /\ Sorted(pending')
        /\ \A i \in DOMAIN pending' :
              pending'[i] = e \/ \E k \in DOMAIN rest : pending'[i] = rest[k]
    BY <1>1, <2>3, <2>4, InsertStep
  <2>6. \A i \in DOMAIN pending' : p.when <= pending'[i].when
    <3>1. p.when <= e.when
      BY <1>3, <2>2, <2>3 DEF p
    <3>2. QED BY <1>2, <2>5, <3>1
  <2>7. ASSUME TimerOn PROVE HasTimer(pending', now + 2 * TimerTicks)
    <3>1. e.type = Timer => e.when <= now + 2 * TimerTicks
      BY <2>2, <2>3, InterruptAssumption
    <3>2. QED BY <1>1, <1>4, <1>5, <2>3, <2>4, <2>7, <3>1, InsertStep
  <2>8. QED BY <1>3, <1>6, <2>5, <2>6, <2>7 DEF p
<1>9. QED BY <1>7, <1>8 DEF Handler, p, rest

(* What CheckIfDue takes off the list and puts back.                           *)
LEMMA PutBackStep ==
    ASSUME TypeOK, Sorted(pending), PutBack
    PROVE  /\ pending' \in Seq(PendingInterrupt)
           /\ Sorted(pending')
           /\ \A i \in DOMAIN pending' : \E k \in DOMAIN pending : pending'[i] = pending[k]
           /\ \A limit \in Nat : HasTimer(pending, limit) => HasTimer(pending', limit)
<1>1. CASE pending = <<>>
  BY <1>1 DEF PutBack, TypeOK
<1>2. CASE pending # <<>>
  <2> DEFINE p == Head(pending)
             rest == Tail(pending)
  <2>1. /\ rest \in Seq(PendingInterrupt) /\ Sorted(rest)
        /\ p \in PendingInterrupt
        /\ p = pending[1] /\ 1 \in DOMAIN pending
        /\ \A i \in DOMAIN rest : i + 1 \in DOMAIN pending /\ rest[i] = pending[i + 1]
        /\ \A limit \in Nat : HasTimer(pending, limit) =>
               IF p.type = Timer THEN HasNoTimer(rest) /\ p.when <= limit
               ELSE HasTimer(rest, limit)
    BY <1>2, Removed DEF TypeOK
  <2>2. SortedInsert(rest, p)
    BY <1>2 DEF PutBack
  <2> HIDE DEF p, rest
  <2>3. /\ pending' \in Seq(PendingInterrupt)
        /\ Sorted(pending')
        /\ \A i \in DOMAIN pending' :
              pending'[i] = p \/ \E k \in DOMAIN rest : pending'[i] = rest[k]
        /\ \A limit \in Nat :
              \/ p.type # Timer /\ HasTimer(rest, limit)
              \/ p.type = Timer /\ p.when <= limit /\ HasNoTimer(rest)
              => HasTimer(pending', limit)
    BY <2>1, <2>2, InsertStep
  <2>4. QED BY <2>1, <2>3
<1>3. QED BY <1>1, <1>2
-----------------------------------------------------------------------------
(* The inductive invariant.  To know that nothing overdue is left when the      *)
(* head of the list is not due, the list must be sorted; to know that handlers  *)
(* end with interrupts still off, OneTick and Idle must run with them off.      *)
IInv ==
    /\ TypeOK
    /\ Sorted(pending)
    /\ TicksAddUp
    /\ FiredInOrder
    /\ NoneOverdue
    /\ TimerStaysSet
    /\ phase \in {"OneTick", "Idle"} => level = "IntOff"

(* Idle's clock: it never goes back.                                            *)
LEMMA IdleClock ==
    ASSUME TypeOK, TicksAddUp, NEW when \in Nat, AdvanceIdle(when)
    PROVE  /\ totalTicks' \in Nat /\ idleTicks' \in Nat
           /\ systemTicks' \in Nat /\ userTicks' \in Nat
           /\ TicksAddUp'
           /\ totalTicks <= totalTicks' /\ when <= totalTicks'
BY DEF TypeOK, TicksAddUp, AdvanceIdle

(* Initialize establishes the invariant.                                        *)
LEMMA InvariantInit == Init => IInv
<1> SUFFICES ASSUME Init PROVE IInv
  OBVIOUS
<1>0. /\ totalTicks = 0 /\ idleTicks = 0 /\ systemTicks = 0 /\ userTicks = 0
      /\ level = "IntOff" /\ yieldOnReturn = FALSE /\ status = "SystemMode" /\ phase = "run"
      /\ lastFired = 0
  BY DEF Init
<1>1. ASSUME pending \in Seq(PendingInterrupt), Sorted(pending),
             \A i \in DOMAIN pending : 0 <= pending[i].when,
             TimerStaysSet
      PROVE  IInv
  <2>1. TypeOK
    BY Zenon, <1>0, <1>1 DEF TypeOK
  <2>2. TicksAddUp
    BY <1>0 DEF TicksAddUp
  <2>3. FiredInOrder /\ NoneOverdue
    BY <1>0, <1>1 DEF FiredInOrder, NoneOverdue
  <2>4. QED BY <1>0, <1>1, <2>1, <2>2, <2>3 DEF IInv
<1>2. CASE ~TimerOn
  <2>1. pending = <<>>
    BY <1>2 DEF Init
  <2>2. QED BY <1>1, <1>2, <2>1 DEF Sorted, TimerStaysSet
<1>3. CASE TimerOn
  <2>1. PICK d \in Delays(Timer) : pending = <<[when |-> d, type |-> Timer]>>
    BY <1>3 DEF Init
  <2>2. d \in Nat /\ 0 < d /\ d <= 2 * TimerTicks
    BY InterruptAssumption DEF Delays
  <2>3. [when |-> d, type |-> Timer] \in PendingInterrupt
    BY <2>2 DEF PendingInterrupt, IntType
  <2>4. pending \in Seq(PendingInterrupt) /\ Len(pending) = 1 /\ DOMAIN pending = {1}
    BY <2>1, <2>3
  <2>5. pending[1].when = d /\ pending[1].type = Timer
    BY <2>1
  <2>6. TimerStaysSet
    <3>1. pending[1].when <= totalTicks + 2 * TimerTicks
      BY <1>0, <2>2, <2>5, InterruptAssumption
    <3>2. QED BY <2>4, <2>5, <3>1 DEF TimerStaysSet
  <2>7. Sorted(pending) /\ \A i \in DOMAIN pending : 0 <= pending[i].when
    BY <2>2, <2>4, <2>5 DEF Sorted
  <2>8. QED BY <1>1, <2>4, <2>6, <2>7
<1>4. QED BY <1>2, <1>3

(* Every step keeps it.                                                         *)
LEMMA InvariantStep == IInv /\ [Next]_vars => IInv'
<1> SUFFICES ASSUME IInv, [Next]_vars PROVE IInv'
  OBVIOUS
<1> USE DEF IInv
<1>0. /\ \A i \in DOMAIN pending : pending[i] \in PendingInterrupt /\ pending[i].when \in Nat
      /\ totalTicks + 2 * TimerTicks \in Nat
  <2>1. \A i \in DOMAIN pending : pending[i] \in PendingInterrupt
    BY DEF TypeOK
  <2>2. QED BY <2>1, InterruptAssumption DEF TypeOK, PendingInterrupt
<1>1. ASSUME NEW type \in OneShot \cup Poller, NEW fromNow \in Nat \ {0}, Schedule(type, fromNow)
      PROVE  IInv'
  <2> DEFINE e == [when |-> totalTicks + fromNow, type |-> type]
  <2>1. /\ e \in PendingInterrupt /\ e.type # Timer /\ totalTicks < e.when /\ e.when \in Nat
    BY InterruptAssumption DEF PendingInterrupt, IntType, Device, TypeOK
  <2>2. SortedInsert(pending, e)
    BY <1>1 DEF Schedule
  <2> HIDE DEF e
  <2>3. /\ pending' \in Seq(PendingInterrupt)
        /\ Sorted(pending')
        /\ \A i \in DOMAIN pending' :
              pending'[i] = e \/ \E k \in DOMAIN pending : pending'[i] = pending[k]
        /\ \A limit \in Nat :
              \/ e.type # Timer /\ HasTimer(pending, limit)
              \/ e.type = Timer /\ e.when <= limit /\ HasNoTimer(pending)
              => HasTimer(pending', limit)
    BY <2>1, <2>2, InsertStep DEF TypeOK
  <2>4. TimerStaysSet'
    <3>1. TimerOn => HasTimer(pending', totalTicks + 2 * TimerTicks)
      BY <1>0, <2>1, <2>3 DEF TimerStaysSet, HasTimer
    <3>2. QED BY <1>1, <3>1 DEF TimerStaysSet, HasTimer, Schedule, ticks
  <2>5. TypeOK'
    BY <1>1, <2>3 DEF TypeOK, Schedule, ticks
  <2>6. FiredInOrder' /\ NoneOverdue'
    <3>1. lastFired <= e.when
      BY <2>1 DEF FiredInOrder, TypeOK
    <3>2. QED BY <1>1, <2>1, <2>3, <3>1 DEF FiredInOrder, NoneOverdue, Schedule, ticks
  <2>7. TicksAddUp'
    BY <1>1 DEF TicksAddUp, Schedule, ticks
  <2>8. QED BY Zenon, <1>1, <2>3, <2>4, <2>5, <2>6, <2>7 DEF Schedule
<1>2. CASE Disable
  BY <1>2 DEF Disable, ticks, TypeOK, Sorted, TicksAddUp, FiredInOrder, NoneOverdue, TimerStaysSet
<1>3. CASE OneTick
  <2>1. /\ totalTicks' \in Nat /\ idleTicks' \in Nat /\ systemTicks' \in Nat /\ userTicks' \in Nat
        /\ totalTicks <= totalTicks' /\ TicksAddUp'
    BY <1>3, InterruptAssumption DEF OneTick, Advance, TypeOK, TicksAddUp
  <2>2. /\ pending' = pending /\ lastFired' = lastFired /\ phase' = "OneTick" /\ level' = "IntOff"
        /\ yieldOnReturn' = yieldOnReturn /\ status' = status
    BY <1>3 DEF OneTick
  <2>3. TypeOK' /\ Sorted(pending)'
    BY <2>1, <2>2 DEF TypeOK, Sorted
  <2>4. FiredInOrder'
    BY <2>1, <2>2 DEF FiredInOrder, TypeOK
  <2>5. TimerStaysSet'
    <3>1. /\ totalTicks' + 2 * TimerTicks \in Nat
          /\ totalTicks + 2 * TimerTicks <= totalTicks' + 2 * TimerTicks
      <4>1. 2 * TimerTicks \in Nat /\ totalTicks \in Nat
        BY InterruptAssumption DEF TypeOK
      <4> HIDE DEF IInv
      <4>2. QED BY <2>1, <4>1
    <3>2. TimerOn => HasTimer(pending, totalTicks' + 2 * TimerTicks)
      BY <1>0, <3>1, LaterLimit DEF TypeOK, TimerStaysSet, HasTimer
    <3>3. QED BY <2>2, <3>2 DEF TimerStaysSet, HasTimer
  <2>6. QED BY <2>1, <2>2, <2>3, <2>4, <2>5 DEF NoneOverdue
<1>4. CASE EnterUser
  BY <1>4 DEF EnterUser, ticks, TypeOK, Sorted, TicksAddUp, FiredInOrder, NoneOverdue, TimerStaysSet
<1>5. CASE Halt
  BY <1>5 DEF Halt, ticks, TypeOK, Sorted, TicksAddUp, FiredInOrder, NoneOverdue, TimerStaysSet
<1>6. CASE TickFire
  <2>1. /\ pending # <<>> /\ Head(pending).when <= totalTicks
        /\ Handler(Head(pending), Tail(pending), totalTicks)
        /\ UNCHANGED <<totalTicks, idleTicks, systemTicks, userTicks, level, status, phase>>
        /\ phase = "OneTick"
    BY <1>6 DEF TickFire, Due, ticks
  <2>2. totalTicks \in Nat /\ totalTicks <= totalTicks
    BY DEF TypeOK
  <2>3. /\ pending' \in Seq(PendingInterrupt)
        /\ Sorted(pending')
        /\ lastFired' \in Nat
        /\ yieldOnReturn' \in BOOLEAN
        /\ lastFired' <= totalTicks
        /\ \A i \in DOMAIN pending' : lastFired' <= pending'[i].when
        /\ TimerOn => HasTimer(pending', totalTicks + 2 * TimerTicks)
    BY <2>1, <2>2, HandlerStep
  <2>4. QED BY <2>1, <2>3 DEF TypeOK, TicksAddUp, FiredInOrder, NoneOverdue, TimerStaysSet, HasTimer
<1>7. CASE TickEnd
  <2>1. PutBack /\ phase' = "run"
    BY <1>7 DEF TickEnd
  <2>2. /\ pending' \in Seq(PendingInterrupt)
        /\ Sorted(pending')
        /\ \A i \in DOMAIN pending' : \E k \in DOMAIN pending : pending'[i] = pending[k]
        /\ \A limit \in Nat : HasTimer(pending, limit) => HasTimer(pending', limit)
    BY <2>1, PutBackStep
  <2>3. /\ UNCHANGED <<totalTicks, idleTicks, systemTicks, userTicks, lastFired>>
        /\ level' \in {"IntOn", "IntOff"} /\ yieldOnReturn' \in BOOLEAN
        /\ status' \in {"IdleMode", "SystemMode", "UserMode"}
    BY Zenon, <1>7 DEF TickEnd, ticks, TypeOK
  <2>4. TimerStaysSet'
    <3>1. TimerOn => HasTimer(pending', totalTicks + 2 * TimerTicks)
      BY <1>0, <2>2 DEF TimerStaysSet, HasTimer
    <3>2. QED BY <2>3, <3>1 DEF TimerStaysSet, HasTimer
  <2>5. TypeOK' /\ TicksAddUp' /\ FiredInOrder'
    BY <2>1, <2>2, <2>3 DEF TypeOK, TicksAddUp, FiredInOrder
  <2>6. NoneOverdue'
    <3>1. \A k \in DOMAIN pending : totalTicks < pending[k].when
      <4> SUFFICES ASSUME NEW k \in DOMAIN pending PROVE totalTicks < pending[k].when
        OBVIOUS
      <4>1. pending # <<>>
        BY DEF TypeOK
      <4>2. /\ Head(pending).when <= pending[k].when
            /\ Head(pending) = pending[1] /\ 1 \in DOMAIN pending
        BY <4>1, Removed DEF TypeOK
      <4>3. ~(Head(pending).when <= totalTicks)
        BY <1>7, <4>1 DEF TickEnd, Due
      <4>4. QED BY <1>0, <4>2, <4>3 DEF TypeOK
    <3>2. QED BY <2>2, <2>3, <3>1 DEF NoneOverdue
  <2>7. QED BY <2>1, <2>2, <2>4, <2>5, <2>6
<1>8. CASE IdleFire
  <2>1. /\ pending # <<>>
        /\ AdvanceIdle(Head(pending).when)
        /\ Handler(Head(pending), Tail(pending), totalTicks')
        /\ level' = level /\ level = "IntOff" /\ status' = "IdleMode" /\ phase' = "Idle"
    BY <1>8 DEF IdleFire
  <2>2. Head(pending).when \in Nat
    <3>1. Head(pending) = pending[1] /\ 1 \in DOMAIN pending
      BY <2>1, Removed DEF TypeOK
    <3>2. QED BY <1>0, <3>1
  <2>3. /\ totalTicks' \in Nat /\ idleTicks' \in Nat /\ systemTicks' \in Nat /\ userTicks' \in Nat
        /\ TicksAddUp'
        /\ totalTicks <= totalTicks' /\ Head(pending).when <= totalTicks'
    BY <2>1, <2>2, IdleClock
  <2>4. /\ pending' \in Seq(PendingInterrupt)
        /\ Sorted(pending')
        /\ lastFired' \in Nat
        /\ yieldOnReturn' \in BOOLEAN
        /\ lastFired' <= totalTicks'
        /\ \A i \in DOMAIN pending' : lastFired' <= pending'[i].when
        /\ TimerOn => HasTimer(pending', totalTicks' + 2 * TimerTicks)
    BY <2>1, <2>3, HandlerStep
  <2>5. TypeOK' /\ FiredInOrder' /\ TimerStaysSet'
    BY <2>1, <2>3, <2>4 DEF TypeOK, FiredInOrder, TimerStaysSet, HasTimer
  <2>6. QED BY <2>1, <2>3, <2>4, <2>5 DEF NoneOverdue
<1>9. CASE IdleHalt
  <2>1. /\ PutBack
        /\ UNCHANGED <<level, yieldOnReturn, lastFired>>
        /\ status' = "IdleMode" /\ phase' = "halt"
    BY <1>9 DEF IdleHalt
  <2>2. /\ totalTicks' \in Nat /\ idleTicks' \in Nat /\ systemTicks' \in Nat /\ userTicks' \in Nat
        /\ TicksAddUp'
        /\ totalTicks <= totalTicks'
    <3>1. CASE UNCHANGED ticks
      BY <3>1 DEF ticks, TypeOK, TicksAddUp
    <3>2. CASE pending # <<>> /\ AdvanceIdle(Head(pending).when)
      <4>1. Head(pending) = pending[1] /\ 1 \in DOMAIN pending
        BY <3>2, Removed DEF TypeOK
      <4>2. Head(pending).when \in Nat
        BY <1>0, <4>1
      <4>3. QED BY <3>2, <4>2, IdleClock
    <3>3. QED BY <1>9, <3>1, <3>2 DEF IdleHalt, OnlyTimer
  <2>3. /\ pending' \in Seq(PendingInterrupt)
        /\ Sorted(pending')
        /\ \A i \in DOMAIN pending' : \E k \in DOMAIN pending : pending'[i] = pending[k]
        /\ \A limit \in Nat : HasTimer(pending, limit) => HasTimer(pending', limit)
    BY <2>1, PutBackStep
  <2>4. TypeOK' /\ FiredInOrder'
    BY <2>1, <2>2, <2>3 DEF TypeOK, FiredInOrder
  <2>5. TimerStaysSet'
    <3>1. /\ totalTicks' + 2 * TimerTicks \in Nat
          /\ totalTicks + 2 * TimerTicks <= totalTicks' + 2 * TimerTicks
      <4>1. 2 * TimerTicks \in Nat /\ totalTicks \in Nat
        BY InterruptAssumption DEF TypeOK
      <4> HIDE DEF IInv
      <4>2. QED BY <2>2, <4>1
    <3>2. TimerOn => HasTimer(pending, totalTicks' + 2 * TimerTicks)
      BY <1>0, <3>1, LaterLimit DEF TypeOK, TimerStaysSet, HasTimer
    <3>3. TimerOn => HasTimer(pending', totalTicks' + 2 * TimerTicks)
      BY <2>3, <3>1, <3>2
    <3>4. QED BY <3>3 DEF TimerStaysSet, HasTimer
  <2>6. QED BY <2>1, <2>2, <2>3, <2>4, <2>5 DEF NoneOverdue
<1>10. CASE IdleFireMore
  <2>1. /\ pending # <<>> /\ Head(pending).when <= totalTicks
        /\ Handler(Head(pending), Tail(pending), totalTicks)
        /\ UNCHANGED <<totalTicks, idleTicks, systemTicks, userTicks, level, status, phase>>
        /\ phase = "Idle"
    BY <1>10 DEF IdleFireMore, Due, ticks
  <2>2. totalTicks \in Nat /\ totalTicks <= totalTicks
    BY DEF TypeOK
  <2>3. /\ pending' \in Seq(PendingInterrupt)
        /\ Sorted(pending')
        /\ lastFired' \in Nat
        /\ yieldOnReturn' \in BOOLEAN
        /\ lastFired' <= totalTicks
        /\ \A i \in DOMAIN pending' : lastFired' <= pending'[i].when
        /\ TimerOn => HasTimer(pending', totalTicks + 2 * TimerTicks)
    BY <2>1, <2>2, HandlerStep
  <2>4. QED BY <2>1, <2>3 DEF TypeOK, TicksAddUp, FiredInOrder, NoneOverdue, TimerStaysSet, HasTimer
<1>11. CASE IdleReturn
  <2>1. PutBack /\ phase' = "run"
    BY <1>11 DEF IdleReturn
  <2>2. /\ pending' \in Seq(PendingInterrupt)
        /\ Sorted(pending')
        /\ \A i \in DOMAIN pending' : \E k \in DOMAIN pending : pending'[i] = pending[k]
        /\ \A limit \in Nat : HasTimer(pending, limit) => HasTimer(pending', limit)
    BY <2>1, PutBackStep
  <2>3. /\ UNCHANGED <<totalTicks, idleTicks, systemTicks, userTicks, lastFired>>
        /\ level' \in {"IntOn", "IntOff"} /\ yieldOnReturn' \in BOOLEAN
        /\ status' \in {"IdleMode", "SystemMode", "UserMode"}
    BY Zenon, <1>11 DEF IdleReturn, ticks, TypeOK
  <2>4. TimerStaysSet'
    <3>1. TimerOn => HasTimer(pending', totalTicks + 2 * TimerTicks)
      BY <1>0, <2>2 DEF TimerStaysSet, HasTimer
    <3>2. QED BY <2>3, <3>1 DEF TimerStaysSet, HasTimer
  <2>5. TypeOK' /\ TicksAddUp' /\ FiredInOrder'
    BY <2>1, <2>2, <2>3 DEF TypeOK, TicksAddUp, FiredInOrder
  <2>6. level' = "IntOff"
    BY <1>11 DEF IdleReturn
  <2>7. QED BY <2>1, <2>2, <2>4, <2>5, <2>6 DEF NoneOverdue
<1>12. CASE UNCHANGED vars
  BY <1>12 DEF vars, ticks, TypeOK, Sorted, TicksAddUp, FiredInOrder, NoneOverdue, TimerStaysSet
<1>13. CASE \E type \in OneShot, fromNow \in Latency : Schedule(type, fromNow)
  BY <1>1, <1>13, InterruptAssumption
<1>14. CASE \E type \in Poller : Schedule(type, PollTime)
  BY <1>1, <1>14, InterruptAssumption
<1>15. QED BY <1>2, <1>3, <1>4, <1>5, <1>6, <1>7, <1>8, <1>9, <1>10, <1>11, <1>12, <1>13, <1>14
           DEF Next, Halted

(* The invariant holds in every state of every execution.                       *)
LEMMA Invariant == Spec => []IInv
BY InvariantInit, InvariantStep, PTL DEF Spec

(* The clocks stay naturals and the list a list of interrupts of known types,   *)
(* whatever OneTick, Idle and the handlers do to them.                          *)
THEOREM TypeCorrect == Spec => []TypeOK
<1>1. IInv => TypeOK
  BY DEF IInv
<1>2. QED BY <1>1, Invariant, PTL

(* OneTick and CheckIfDue charge every tick to exactly one of the statistics.   *)
THEOREM TicksAlwaysAddUp == Spec => []TicksAddUp
<1>1. IInv => TicksAddUp
  BY DEF IInv
<1>2. QED BY <1>1, Invariant, PTL

(* CheckIfDue fires interrupts in the order of their due times, none early.     *)
THEOREM AlwaysFiredInOrder == Spec => []FiredInOrder
<1>1. IInv => FiredInOrder
  BY DEF IInv
<1>2. QED BY <1>1, Invariant, PTL

(* Code that runs with interrupts enabled has no interrupt overdue.             *)
THEOREM NeverOverdue == Spec => []NoneOverdue
<1>1. IInv => NoneOverdue
  BY DEF IInv
<1>2. QED BY <1>1, Invariant, PTL

(* TimerExpired keeps exactly one timer interrupt pending, soon enough.         *)
THEOREM TimerAlwaysSet == Spec => []TimerStaysSet
<1>1. IInv => TimerStaysSet
  BY DEF IInv
<1>2. QED BY <1>1, Invariant, PTL

-----------------------------------------------------------------------------
(* Counting what is on the list.                                                *)
INSTANCE FiniteSetTheorems

(* A list has a number of interrupts of each device.                            *)
LEMMA RaisedNat ==
    ASSUME NEW l \in Seq(PendingInterrupt), NEW type
    PROVE  /\ IsFiniteSet({i \in DOMAIN l : l[i].type = type})
           /\ Raised(l, type) \in Nat
<1> DEFINE S == {i \in DOMAIN l : l[i].type = type}
<1>1. DOMAIN l = 1 .. Len(l) /\ Len(l) \in Int
  OBVIOUS
<1>2. IsFiniteSet(1 .. Len(l))
  BY <1>1, FS_Interval
<1>3. S \in SUBSET (1 .. Len(l))
  BY <1>1
<1>4. IsFiniteSet(S)
  BY Zenon, <1>2, <1>3, FS_Subset
<1>5. QED BY Zenon, <1>4, FS_CardinalityType DEF Raised

(* SortedInsert adds one to its device's and leaves the others' as they were.   *)
LEMMA RaisedInserted ==
    ASSUME NEW l \in Seq(PendingInterrupt), NEW e \in PendingInterrupt, NEW j \in 1 .. Len(l) + 1,
           NEW type
    PROVE  Raised(Inserted(l, e, j), type) = Raised(l, type) + (IF e.type = type THEN 1 ELSE 0)
<1> DEFINE m == Inserted(l, e, j)
           S == {i \in DOMAIN l : l[i].type = type}
           T == {i \in DOMAIN m : m[i].type = type}
           R == T \ {j}
           f == [i \in S |-> IF i < j THEN i ELSE i + 1]
<1>1. Len(l) \in Nat /\ DOMAIN l = 1 .. Len(l)
  OBVIOUS
<1>2. /\ DOMAIN m = 1 .. Len(l) + 1
      /\ m[j] = e
      /\ \A i \in 1 .. Len(l) + 1 : i < j => i \in 1 .. Len(l) /\ m[i] = l[i]
      /\ \A i \in 1 .. Len(l) + 1 : i > j => i - 1 \in 1 .. Len(l) /\ m[i] = l[i - 1]
  BY InsertedItems, SMTT(30)
<1> HIDE DEF m
<1>3. \A i \in 1 .. Len(l) :
         /\ i < j => i \in 1 .. Len(l) + 1 /\ m[i] = l[i]
         /\ ~(i < j) => i + 1 \in 1 .. Len(l) + 1 /\ i + 1 > j /\ m[i + 1] = l[i]
  <2> SUFFICES ASSUME NEW i \in 1 .. Len(l)
               PROVE  /\ i < j => i \in 1 .. Len(l) + 1 /\ m[i] = l[i]
                      /\ ~(i < j) => i + 1 \in 1 .. Len(l) + 1 /\ i + 1 > j /\ m[i + 1] = l[i]
    OBVIOUS
  <2>1. i \in 1 .. Len(l) + 1 /\ i + 1 \in 1 .. Len(l) + 1 /\ (i + 1) - 1 = i
    BY <1>1
  <2>2. ~(i < j) => i + 1 > j
    BY <1>1
  <2>3. QED BY <1>2, <2>1, <2>2
<1>4. f \in [S -> R]
  <2> SUFFICES ASSUME NEW i \in S PROVE (IF i < j THEN i ELSE i + 1) \in R
    OBVIOUS
  <2>1. i \in 1 .. Len(l) /\ l[i].type = type
    BY <1>1
  <2>2. QED BY <1>1, <1>2, <1>3, <2>1
<1>5. f \in Injection(S, R)
  <2>1. ASSUME NEW a \in S, NEW b \in S, f[a] = f[b] PROVE a = b
    BY <1>1, <2>1
  <2> HIDE DEF f, S, R
  <2>2. DOMAIN f = S
    BY Zenon, <1>4
  <2>3. QED BY Zenon, <1>4, <2>1, <2>2 DEF Injection, IsInjective
<1>6. f \in Surjection(S, R)
  <2>1. ASSUME NEW k \in R PROVE \E i \in S : f[i] = k
    <3>1. k \in 1 .. Len(l) + 1 /\ k # j /\ m[k].type = type
      BY <1>2
    <3>2. CASE k < j
      <4>1. k \in S
        BY <1>1, <1>2, <3>1, <3>2
      <4>2. QED BY <3>2, <4>1
    <3>3. CASE k > j
      <4>1. k - 1 \in S /\ ~(k - 1 < j) /\ (k - 1) + 1 = k
        BY <1>1, <1>2, <3>1, <3>3
      <4>2. QED BY <4>1
    <3>4. QED BY <1>1, <3>1, <3>2, <3>3
  <2> HIDE DEF f, S, R
  <2>2. QED BY Zenon, <1>4, <2>1 DEF Surjection
<1>7. IsFiniteSet(S) /\ Cardinality(S) \in Nat
  BY Zenon, RaisedNat DEF Raised
<1>a. Raised(l, type) = Cardinality(S) /\ Raised(m, type) = Cardinality(T)
  BY DEF Raised
<1> HIDE DEF f, S
<1>8. ExistsBijection(S, R)
  BY Zenon, <1>5, <1>6 DEF ExistsBijection, Bijection
<1>9. IsFiniteSet(R) /\ Cardinality(R) = Cardinality(S)
  BY Zenon, <1>7, <1>8, FS_Bijection
<1>10. CASE e.type = type
  <2>1. T = R \cup {j} /\ j \notin R
    BY <1>1, <1>2, <1>10
  <2> HIDE DEF R, T
  <2>2. Cardinality(T) = Cardinality(R) + 1
    BY Zenon, <1>9, <2>1, FS_AddElement
  <2>3. QED BY <1>a, <1>9, <1>10, <2>2 DEF m
<1>11. CASE e.type # type
  <2>1. T = R
    BY <1>2, <1>11
  <2> HIDE DEF R, T
  <2>2. QED BY <1>a, <1>7, <1>9, <1>11, <2>1 DEF m
<1>12. QED BY <1>10, <1>11

(* SortedInsert as the actions use it.                                          *)
LEMMA RaisedInsert ==
    ASSUME NEW l \in Seq(PendingInterrupt), NEW e \in PendingInterrupt, SortedInsert(l, e), NEW type
    PROVE  Raised(pending', type) = Raised(l, type) + (IF e.type = type THEN 1 ELSE 0)
<1>1. PICK j \in 1 .. Len(l) + 1 : pending' = Inserted(l, e, j)
  BY Zenon DEF SortedInsert
<1>2. QED BY <1>1, RaisedInserted

(* SortedRemove takes one from the device whose interrupt comes first.          *)
LEMMA RaisedRemoved ==
    ASSUME NEW l \in Seq(PendingInterrupt), l # <<>>, NEW type
    PROVE  Raised(l, type) = Raised(Tail(l), type) + (IF Head(l).type = type THEN 1 ELSE 0)
<1>1. /\ Tail(l) \in Seq(PendingInterrupt) /\ Head(l) \in PendingInterrupt
      /\ Len(Tail(l)) + 1 = Len(l) /\ Len(l) \in Nat
      /\ Head(l) = l[1]
      /\ DOMAIN l = 1 .. Len(l)
      /\ \A i \in 1 .. Len(l) : i # 1 => Tail(l)[i - 1] = l[i]
  OBVIOUS
<1>2. Inserted(Tail(l), Head(l), 1) = [i \in 1 .. Len(l) |-> l[i]]
  BY <1>1 DEF Inserted
<1>3. l = [i \in 1 .. Len(l) |-> l[i]]
  BY <1>1
<1>4. 1 \in 1 .. Len(Tail(l)) + 1
  BY <1>1
<1>5. Raised(Inserted(Tail(l), Head(l), 1), type)
         = Raised(Tail(l), type) + (IF Head(l).type = type THEN 1 ELSE 0)
  <2>1. Tail(l) \in Seq(PendingInterrupt) /\ Head(l) \in PendingInterrupt
    BY ONLY Zenon, <1>1
  <2>2. QED BY ONLY Zenon, <1>4, <2>1, RaisedInserted
<1>6. Inserted(Tail(l), Head(l), 1) = l
  BY Zenon, <1>2, <1>3
<1>7. QED BY ONLY <1>5, <1>6

(* What CheckIfDue takes off and puts back, of whatever device, is there again. *)
LEMMA RaisedPutBack ==
    ASSUME TypeOK, PutBack, NEW type
    PROVE  Raised(pending', type) = Raised(pending, type)
<1>1. CASE pending = <<>>
  BY <1>1 DEF PutBack
<1>2. CASE pending # <<>>
  <2> DEFINE p == Head(pending)
             rest == Tail(pending)
  <2>1. rest \in Seq(PendingInterrupt) /\ p \in PendingInterrupt
    BY <1>2, Removed DEF TypeOK
  <2>2. SortedInsert(rest, p)
    BY <1>2 DEF PutBack
  <2>3. Raised(pending, type) = Raised(rest, type) + (IF p.type = type THEN 1 ELSE 0)
    BY <1>2, RaisedRemoved DEF TypeOK
  <2> HIDE DEF p, rest
  <2>4. Raised(pending', type) = Raised(rest, type) + (IF p.type = type THEN 1 ELSE 0)
    BY Zenon, <2>1, <2>2, RaisedInsert
  <2>5. QED BY ONLY <2>3, <2>4
<1>3. QED BY <1>1, <1>2

(* A handler takes its device's interrupt off and, for a poller, adds the next. *)
LEMMA RaisedHandler ==
    ASSUME TypeOK, pending # <<>>, NEW now \in Nat,
           Handler(Head(pending), Tail(pending), now),
           owed = [type \in Device |-> Raised(pending, type)]
    PROVE  owed' = [type \in Device |-> Raised(pending', type)]
<1> DEFINE p == Head(pending)
           rest == Tail(pending)
<1>1. rest \in Seq(PendingInterrupt) /\ p \in PendingInterrupt /\ p.type \in IntType
  BY Zenon, Removed DEF TypeOK, PendingInterrupt
<1>2. ASSUME NEW type
      PROVE  /\ Raised(pending, type) = Raised(rest, type) + (IF p.type = type THEN 1 ELSE 0)
             /\ Raised(rest, type) \in Nat
  BY Zenon, <1>1, RaisedRemoved, RaisedNat DEF TypeOK
<1>3. \/ UNCHANGED owed /\ \E d \in Delays(p.type) : SortedInsert(rest, [when |-> now + d, type |-> p.type])
      \/ p.type \in OneShot /\ pending' = rest /\ owed' = [owed EXCEPT ![p.type] = @ - 1]
  BY Zenon DEF Handler
<1> HIDE DEF p, rest
<1>4. CASE p.type \in OneShot /\ pending' = rest /\ owed' = [owed EXCEPT ![p.type] = @ - 1]
  <2>1. p.type \in Device /\ DOMAIN owed = Device
    BY <1>4 DEF Device
  <2>2. ASSUME NEW type \in Device PROVE owed'[type] = Raised(rest, type)
    <3>1. owed[type] = Raised(pending, type)
      OBVIOUS
    <3>2. CASE type = p.type
      BY <1>2, <1>4, <2>1, <3>1, <3>2
    <3>3. CASE type # p.type
      BY <1>2, <1>4, <2>1, <3>1, <3>3
    <3>4. QED BY Zenon, <3>2, <3>3
  <2>3. QED BY <1>4, <2>1, <2>2
<1>5. CASE UNCHANGED owed /\ \E d \in Delays(p.type) : SortedInsert(rest, [when |-> now + d, type |-> p.type])
  <2>1. PICK d \in Delays(p.type) : SortedInsert(rest, [when |-> now + d, type |-> p.type])
    BY Zenon, <1>5
  <2> DEFINE e == [when |-> now + d, type |-> p.type]
  <2>2. d \in Nat
    BY InterruptAssumption DEF Delays
  <2>3. e \in PendingInterrupt /\ e.type = p.type
    BY <1>1, <2>2 DEF PendingInterrupt
  <2>4. SortedInsert(rest, e)
    BY <2>1
  <2> HIDE DEF e
  <2>5. ASSUME NEW type PROVE Raised(pending', type) = Raised(pending, type)
    <3>1. Raised(pending', type) = Raised(rest, type) + (IF e.type = type THEN 1 ELSE 0)
      BY Zenon, <1>1, <2>3, <2>4, RaisedInsert
    <3>2. QED BY Zenon, <1>2, <2>3, <3>1
  <2>6. QED BY Zenon, <1>5, <2>5
<1>6. QED BY <1>3, <1>4, <1>5

(* At first no device owes anything: only the timer is set.                     *)
LEMMA ServedInit == Init => DevicesAreServed
<1> SUFFICES ASSUME Init PROVE DevicesAreServed
  OBVIOUS
<1>1. ASSUME NEW type \in Device PROVE Raised(pending, type) = 0
  <2>1. type # Timer
    BY InterruptAssumption DEF Device
  <2>2. \A i \in DOMAIN pending : pending[i].type = Timer
    BY DEF Init
  <2>3. {i \in DOMAIN pending : pending[i].type = type} = {}
    BY Zenon, <2>1, <2>2
  <2>4. QED BY Zenon, <2>3, FS_EmptySet DEF Raised
<1>2. owed = [type \in Device |-> 0] /\ phase = "run"
  BY DEF Init
<1>3. QED BY <1>1, <1>2 DEF DevicesAreServed

(* Every step keeps the account, and Idle halts only when it is settled.        *)
LEMMA ServedStep == IInv /\ DevicesAreServed /\ [Next]_vars => DevicesAreServed'
<1> SUFFICES ASSUME IInv, DevicesAreServed, [Next]_vars PROVE DevicesAreServed'
  OBVIOUS
<1>0. TypeOK /\ owed = [type \in Device |-> Raised(pending, type)]
  BY DEF IInv, DevicesAreServed
<1>1. ASSUME NEW type \in Device, NEW fromNow \in Nat \ {0}, Schedule(type, fromNow)
      PROVE  DevicesAreServed'
  <2> DEFINE e == [when |-> totalTicks + fromNow, type |-> type]
  <2>1. e \in PendingInterrupt /\ e.type = type
    BY <1>0 DEF PendingInterrupt, IntType, TypeOK
  <2>2. /\ SortedInsert(pending, e)
        /\ owed' = [owed EXCEPT ![type] = @ + 1]
        /\ phase' = "run"
    BY Zenon, <1>1 DEF Schedule
  <2> HIDE DEF e
  <2>3. ASSUME NEW t \in Device PROVE owed'[t] = Raised(pending', t)
    <3>1. Raised(pending', t) = Raised(pending, t) + (IF e.type = t THEN 1 ELSE 0)
      BY Zenon, <1>0, <2>1, <2>2, RaisedInsert DEF TypeOK
    <3>2. Raised(pending, t) \in Nat /\ owed[t] = Raised(pending, t) /\ DOMAIN owed = Device
      BY Zenon, <1>0, RaisedNat DEF TypeOK
    <3>3. QED BY <2>1, <2>2, <3>1, <3>2
  <2>4. owed' = [t \in Device |-> Raised(pending', t)]
    <3>1. owed' = [t \in Device |-> owed'[t]]
      BY <1>0, <2>2
    <3>2. QED BY Zenon, <2>3, <3>1
  <2>5. QED BY <2>2, <2>4 DEF DevicesAreServed
<1>2. ASSUME UNCHANGED <<pending, owed>>, phase' # "halt" \/ status' # "IdleMode"
      PROVE  DevicesAreServed'
  BY <1>0, <1>2 DEF DevicesAreServed
<1>3. CASE Disable \/ OneTick \/ EnterUser \/ Halt
  BY Zenon, <1>2, <1>3 DEF Disable, OneTick, EnterUser, Halt
<1>4. ASSUME PutBack, UNCHANGED owed
      PROVE  owed' = [type \in Device |-> Raised(pending', type)]
  BY <1>0, <1>4, RaisedPutBack
<1>5. CASE TickEnd \/ IdleReturn
  <2>1. PutBack /\ UNCHANGED owed /\ phase' = "run"
    BY <1>5 DEF TickEnd, IdleReturn
  <2>2. QED BY <1>4, <2>1 DEF DevicesAreServed
<1>6. CASE TickFire \/ IdleFireMore
  <2>1. /\ pending # <<>> /\ Handler(Head(pending), Tail(pending), totalTicks)
        /\ phase' \in {"OneTick", "Idle"}
    BY <1>6 DEF TickFire, IdleFireMore, Due
  <2>2. owed' = [type \in Device |-> Raised(pending', type)]
    BY Zenon, <1>0, <2>1, RaisedHandler DEF TypeOK
  <2>3. QED BY <2>1, <2>2 DEF DevicesAreServed
<1>7. CASE IdleFire
  <2>1. /\ pending # <<>> /\ Handler(Head(pending), Tail(pending), totalTicks')
        /\ phase' = "Idle"
    BY <1>7 DEF IdleFire
  <2>2. totalTicks' \in Nat
    BY Zenon, InvariantStep DEF IInv, TypeOK
  <2>3. owed' = [type \in Device |-> Raised(pending', type)]
    BY <1>0, <2>1, <2>2, RaisedHandler
  <2>4. QED BY <2>1, <2>3 DEF DevicesAreServed
<1>8. CASE IdleHalt
  <2>1. PutBack /\ UNCHANGED owed /\ (pending = <<>> \/ OnlyTimer)
    BY <1>8 DEF IdleHalt
  <2>2. \A i \in DOMAIN pending : pending[i].type = Timer
    <3>1. CASE pending = <<>>
      BY <3>1
    <3>2. CASE OnlyTimer
      <4>1. Len(pending) = 1 /\ DOMAIN pending = 1 .. 1 /\ Head(pending) = pending[1]
        <5>1. pending \in Seq(PendingInterrupt) /\ pending # <<>> /\ Len(Tail(pending)) = 0
          BY Zenon, <1>0, <3>2 DEF OnlyTimer, TypeOK
        <5>2. QED BY ONLY <5>1
      <4>2. QED BY <3>2, <4>1 DEF OnlyTimer
    <3>3. QED BY <2>1, <3>1, <3>2
  <2>3. ASSUME NEW type \in Device PROVE owed'[type] = 0
    <3>1. type # Timer
      BY InterruptAssumption DEF Device
    <3>2. {i \in DOMAIN pending : pending[i].type = type} = {}
      BY Zenon, <2>2, <3>1
    <3>3. Raised(pending, type) = 0
      BY Zenon, <3>2, FS_EmptySet DEF Raised
    <3>4. QED BY <1>0, <2>1, <3>3
  <2>4. owed' = [type \in Device |-> Raised(pending', type)]
    BY Zenon, <1>4, <2>1
  <2>5. QED BY Zenon, <2>3, <2>4 DEF DevicesAreServed
<1>9. CASE UNCHANGED vars
  BY Zenon, <1>9 DEF vars, DevicesAreServed
<1>10. CASE \E type \in OneShot, fromNow \in Latency : Schedule(type, fromNow)
  BY <1>1, <1>10, InterruptAssumption DEF Device
<1>11. CASE \E type \in Poller : Schedule(type, PollTime)
  BY <1>1, <1>11, InterruptAssumption DEF Device
<1>12. QED BY <1>3, <1>5, <1>6, <1>7, <1>8, <1>9, <1>10, <1>11 DEF Next, Halted

(* No interrupt a device was asked for is lost or delivered twice, and Idle     *)
(* halts the machine only when no device owes one.                              *)
THEOREM DevicesAlwaysServed == Spec => []DevicesAreServed
BY Invariant, ServedInit, ServedStep, PTL DEF Spec
=============================================================================
