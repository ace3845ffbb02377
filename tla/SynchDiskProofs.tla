-------------------------- MODULE SynchDiskProofs --------------------------
(* Proofs, for any disk geometry, any threads and any clock, of the           *)
(* properties of SynchDisk's semaphore and of the disk's latencies.           *)
EXTENDS SynchDisk, TLAPS

(* Division with remainder, as the provers know it.                           *)
LEMMA Divided ==
    ASSUME NEW a \in Nat, NEW n \in Nat \ {0}
    PROVE  /\ a \div n \in Nat /\ a % n \in Nat /\ a % n < n
           /\ n * (a \div n) \in Nat /\ a = n * (a \div n) + (a % n)
<1>1. /\ a \div n \in Nat /\ a % n \in Nat /\ a % n < n
      /\ a = n * (a \div n) + (a % n)
  OBVIOUS
<1>2. \A x, y \in Nat : x * y \in Nat
  OBVIOUS
<1>3. QED BY <1>1, <1>2

(* Products of naturals.                                                      *)
LEMMA Product == ASSUME NEW x \in Nat, NEW y \in Nat PROVE x * y \in Nat
OBVIOUS

(* TimeToSeek takes a natural number of ticks.                                *)
LEMMA SeekTypes ==
    ASSUME totalTicks \in Nat, lastSector \in Nat, NEW s \in Nat
    PROVE  Seek(s) \in Nat /\ Rotation(s) \in Nat
<1>1. Track(s) \in Nat /\ Track(lastSector) \in Nat
  BY Divided, DiskAssumption DEF Track
<1>2. Seek(s) \in Nat
  BY <1>1, Product, DiskAssumption DEF Seek
<1>3. (totalTicks + Seek(s)) % RotationTime \in Nat
      /\ (totalTicks + Seek(s)) % RotationTime < RotationTime
  <2>1. totalTicks + Seek(s) \in Nat
    BY <1>2
  <2>2. QED BY <2>1, Divided, DiskAssumption
<1>4. Rotation(s) \in Nat
  BY <1>3, DiskAssumption DEF Rotation
<1>5. QED BY <1>2, <1>4

(* ModuloDiff counts sectors.                                                 *)
LEMMA ModuloDiffTypes ==
    ASSUME NEW to \in Nat, NEW from \in Nat
    PROVE  ModuloDiff(to, from) \in Nat
<1>1. /\ to % SectorsPerTrack \in Nat /\ from % SectorsPerTrack \in Nat
      /\ from % SectorsPerTrack < SectorsPerTrack
  BY Divided, DiskAssumption
<1>2. ((to % SectorsPerTrack) - (from % SectorsPerTrack)) + SectorsPerTrack \in Nat
  BY <1>1, DiskAssumption
<1>3. QED BY <1>2, Divided, DiskAssumption DEF ModuloDiff

(* ComputeLatency returns a natural number of ticks.                          *)
LEMMA LatencyTypes ==
    ASSUME totalTicks \in Nat, lastSector \in Nat, NEW s \in Nat, NEW writing \in BOOLEAN
    PROVE  ComputeLatency(s, writing) \in Nat
<1> DEFINE timeAfter == totalTicks + Seek(s) + Rotation(s)
           turn      == ModuloDiff(s, timeAfter \div RotationTime)
<1>1. Seek(s) \in Nat /\ Rotation(s) \in Nat
  BY SeekTypes
<1>2. timeAfter \in Nat
  BY <1>1
<1>3. timeAfter \div RotationTime \in Nat
  <2> HIDE DEF timeAfter
  <2>1. QED BY <1>2, Divided, DiskAssumption
<1>4. turn * RotationTime \in Nat
  <2>1. turn \in Nat
    BY <1>3, ModuloDiffTypes
  <2> HIDE DEF turn
  <2>2. QED BY <2>1, Product, DiskAssumption
<1>5. Seek(s) + Rotation(s) + turn * RotationTime + RotationTime \in Nat
  <2> HIDE DEF turn
  <2>1. QED BY <1>1, <1>4, DiskAssumption
<1>6. ComputeLatency(s, writing) \in
         {RotationTime, Seek(s) + Rotation(s) + turn * RotationTime + RotationTime}
  BY Zenon DEF ComputeLatency
<1>7. QED BY <1>5, <1>6, DiskAssumption
-----------------------------------------------------------------------------
(* The invariant: at most one thread is in P.  It is asleep only while the    *)
(* disk works; it is readied, its unit there; or it is readied and another    *)
(* thread, whose request the disk now works on, has taken the unit.           *)
Nobody == /\ \A t \in Thread : caller[t] = "out"
          /\ queue = <<>> /\ value = 0 /\ active = FALSE

Somebody(t) ==
    /\ \A u \in Thread \ {t} : caller[u] = "out"
    /\ \/ caller[t] = "asleep" /\ queue = <<t>> /\ value = 0 /\ active = TRUE
       \/ caller[t] = "ready" /\ queue = <<>> /\ value = 0 /\ active = TRUE
       \/ caller[t] = "ready" /\ queue = <<>> /\ value = 1 /\ active = FALSE

IInv == TypeOK /\ (Nobody \/ \E t \in Thread : Somebody(t))

(* The constructors establish it.                                             *)
LEMMA InvariantInit == Init => IInv
<1> SUFFICES ASSUME Init PROVE IInv
  OBVIOUS
<1>1. Nobody
  BY DEF Init, DiskInit, Nobody
<1>2. 0 \in Sector
  <2>1. SectorsPerTrack * NumTracks \in Nat \ {0}
    BY DiskAssumption
  <2>2. QED BY <2>1 DEF Sector
<1>3. TypeOK
  <2>1. totalTicks \in Nat
    BY SynchDiskAssumption DEF Init
  <2>2. caller \in [Thread -> {"out", "asleep", "ready"}]
    BY DEF Init
  <2>3. queue \in Seq(Thread) /\ value \in Nat /\ status \in {"run", "abort", "halt"}
    BY DEF Init
  <2>4. /\ doneAt \in Nat /\ bufferInit \in Nat /\ arrived \in Nat
        /\ active \in BOOLEAN /\ lastSector \in Sector
    BY Zenon, <1>2 DEF Init, DiskInit
  <2>5. QED BY <2>1, <2>2, <2>3, <2>4 DEF TypeOK
<1>4. QED BY <1>1, <1>3 DEF IInv

(* A request, and P up to its sleep or return.                                *)
LEMMA RequestStep ==
    ASSUME IInv, NEW t \in Thread, NEW s \in Sector, NEW writing \in BOOLEAN,
           ReadWriteSector(t, s, writing)
    PROVE  IInv'
<1>1. /\ caller[t] = "out" /\ active = FALSE /\ active' = TRUE /\ status' = status
      /\ doneAt' = totalTicks + ComputeLatency(s, writing)
      /\ totalTicks' = totalTicks
      /\ UpdateLast(s) /\ P(t)
  BY DEF ReadWriteSector, Request, IInv, TypeOK
<1>2. s \in Nat /\ lastSector \in Nat /\ totalTicks \in Nat /\ bufferInit \in Nat /\ arrived \in Nat
  BY DEF IInv, TypeOK, Sector
<1>3. doneAt' \in Nat
  BY <1>1, <1>2, LatencyTypes
<1>4. lastSector' \in Sector /\ bufferInit' \in Nat /\ arrived' \in Nat
  BY <1>1, <1>2, SeekTypes DEF UpdateLast
<1>5. caller \in [Thread -> {"out", "asleep", "ready"}] /\ value \in Nat /\ queue \in Seq(Thread)
  BY DEF IInv, TypeOK
<1>6. CASE Nobody
  <2>1. /\ queue' = <<t>> /\ value' = 0
        /\ caller' = [caller EXCEPT ![t] = "asleep"]
    BY <1>1, <1>6 DEF P, Nobody
  <2>2. Somebody(t)'
    BY <1>1, <1>5, <1>6, <2>1 DEF Nobody, Somebody
  <2>3. TypeOK'
    BY <1>1, <1>2, <1>3, <1>4, <1>5, <2>1 DEF IInv, TypeOK
  <2>4. QED BY <2>2, <2>3 DEF IInv
<1>7. CASE \E u \in Thread : Somebody(u)
  <2>1. PICK u \in Thread : Somebody(u)
    BY <1>7
  <2>2. caller[u] = "ready" /\ queue = <<>> /\ value = 1 /\ u # t
    BY <1>1, <2>1 DEF Somebody
  <2>3. queue' = <<>> /\ value' = 0 /\ caller' = [caller EXCEPT ![t] = "out"]
    BY <1>1, <2>2 DEF P
  <2>4. Somebody(u)'
    BY <1>1, <1>5, <2>1, <2>2, <2>3 DEF Somebody
  <2>5. TypeOK'
    BY <1>1, <1>2, <1>3, <1>4, <1>5, <2>2, <2>3 DEF IInv, TypeOK
  <2>6. QED BY <2>4, <2>5 DEF IInv
<1>8. QED BY <1>6, <1>7 DEF IInv

(* A readied thread tests the value again.                                    *)
LEMMA ResumeStep == ASSUME IInv, NEW t \in Thread, Resume(t) PROVE IInv'
<1>1. /\ caller[t] = "ready" /\ status' = status /\ P(t)
      /\ UNCHANGED <<totalTicks, active, lastSector, bufferInit, doneAt, arrived>>
  BY DEF Resume, diskVars
<1>2. caller \in [Thread -> {"out", "asleep", "ready"}] /\ value \in Nat /\ queue \in Seq(Thread)
  BY DEF IInv, TypeOK
<1>3. PICK u \in Thread : Somebody(u)
  BY <1>1 DEF IInv, Nobody
<1>4. u = t
  BY <1>1, <1>3 DEF Somebody
<1>5. CASE value = 0
  <2>1. queue' = <<t>> /\ value' = 0 /\ caller' = [caller EXCEPT ![t] = "asleep"] /\ active = TRUE
    BY <1>1, <1>3, <1>4, <1>5 DEF P, Somebody
  <2>2. Somebody(t)'
    BY <1>1, <1>2, <1>3, <1>4, <2>1 DEF Somebody
  <2>3. TypeOK'
    BY <1>1, <1>2, <2>1 DEF IInv, TypeOK
  <2>4. QED BY <2>2, <2>3 DEF IInv
<1>6. CASE value = 1
  <2>1. /\ queue' = <<>> /\ value' = 0 /\ caller' = [caller EXCEPT ![t] = "out"]
        /\ active = FALSE
    BY <1>1, <1>3, <1>4, <1>6 DEF P, Somebody
  <2>2. Nobody'
    BY <1>1, <1>2, <1>3, <1>4, <2>1 DEF Somebody, Nobody
  <2>3. TypeOK'
    BY <1>1, <1>2, <2>1 DEF IInv, TypeOK
  <2>4. QED BY <2>2, <2>3 DEF IInv
<1>7. QED BY <1>3, <1>5, <1>6 DEF Somebody

(* The clock moves; a completion is counted and its waiter readied.           *)
LEMMA ClockStep == ASSUME IInv, NEW now \in Nat, ClockTo(now) PROVE IInv'
<1>1. caller \in [Thread -> {"out", "asleep", "ready"}] /\ value \in Nat /\ queue \in Seq(Thread)
  BY DEF IInv, TypeOK
<1>2. status' = status
  BY DEF ClockTo
<1>3. CASE HandleInterrupt(now) /\ V
  <2>1. /\ active = TRUE /\ active' = FALSE /\ totalTicks' = now
        /\ UNCHANGED <<lastSector, bufferInit, doneAt, arrived>>
    BY <1>3 DEF HandleInterrupt, IInv, TypeOK
  <2>2. PICK t \in Thread : Somebody(t)
    BY <2>1 DEF IInv, Nobody
  <2>3. value = 0 /\ value' = 1
    BY <1>3, <2>1, <2>2 DEF Somebody, V
  <2>4. queue' = <<>> /\ caller' = [caller EXCEPT ![t] = "ready"]
    <3>1. CASE caller[t] = "asleep"
      <4>1. queue = <<t>> /\ queue # <<>> /\ Head(queue) = t /\ Tail(queue) = <<>>
        <5>1. queue = <<t>>
          BY <2>2, <3>1 DEF Somebody
        <5>2. QED BY <5>1
      <4>2. QED BY <1>3, <4>1 DEF V
    <3>2. CASE caller[t] = "ready"
      <4>1. queue = <<>>
        BY <2>2, <3>2 DEF Somebody
      <4>2. caller = [caller EXCEPT ![t] = "ready"]
        BY <1>1, <3>2
      <4>3. QED BY <1>3, <4>1, <4>2 DEF V
    <3>3. QED BY <2>2, <3>1, <3>2 DEF Somebody
  <2>5. Somebody(t)'
    BY <1>1, <2>1, <2>2, <2>3, <2>4 DEF Somebody
  <2>6. TypeOK'
    <3>1. queue' \in Seq(Thread) /\ value' \in Nat
          /\ caller' \in [Thread -> {"out", "asleep", "ready"}]
      BY <1>1, <2>3, <2>4
    <3>2. QED BY Zenon, <1>2, <2>1, <3>1 DEF IInv, TypeOK
  <2>7. QED BY <2>5, <2>6 DEF IInv
<1>4. CASE /\ totalTicks' = now
           /\ UNCHANGED <<active, lastSector, bufferInit, doneAt, arrived, value, queue, caller>>
  BY <1>2, <1>4 DEF IInv, TypeOK, Nobody, Somebody
<1>5. QED BY <1>3, <1>4 DEF ClockTo

(* Every step keeps the invariant.                                            *)
LEMMA InvariantStep == IInv /\ [Next]_vars => IInv'
<1> SUFFICES ASSUME IInv, [Next]_vars PROVE IInv'
  OBVIOUS
<1>1. ASSUME UNCHANGED <<diskVars, value, queue, caller>>, status' \in {"run", "abort", "halt"}
      PROVE  IInv'
  BY <1>1 DEF IInv, TypeOK, Nobody, Somebody, diskVars
<1>2. ASSUME NEW t \in Thread, NEW s \in Sector, NEW writing \in BOOLEAN,
             ReadWriteSector(t, s, writing)
      PROVE  IInv'
  BY <1>2, RequestStep
<1>3. ASSUME NEW t \in Thread, Abort(t) PROVE IInv'
  BY <1>1, <1>3 DEF Abort
<1>4. ASSUME NEW t \in Thread, Resume(t) PROVE IInv'
  BY <1>4, ResumeStep
<1>5. ASSUME NEW d \in TickSizes, OneTick(d) PROVE IInv'
  <2>1. totalTicks + d \in Nat
    BY SynchDiskAssumption DEF IInv, TypeOK
  <2>2. QED BY <1>5, <2>1, ClockStep DEF OneTick
<1>6. CASE Idle
  <2> DEFINE now == IF doneAt > totalTicks THEN doneAt ELSE totalTicks
  <2>1. now \in Nat /\ ClockTo(now)
    BY <1>6 DEF Idle, IInv, TypeOK
  <2> HIDE DEF now
  <2>2. QED BY <2>1, ClockStep
<1>7. CASE Halt
  BY <1>1, <1>7 DEF Halt
<1>8. CASE UNCHANGED vars
  BY <1>1, <1>8 DEF vars, IInv, TypeOK
<1>9. QED BY <1>2, <1>3, <1>4, <1>5, <1>6, <1>7, <1>8 DEF Next, Stopped

(* The invariant holds in every state of every execution.                     *)
LEMMA Invariant == Spec => []IInv
BY InvariantInit, InvariantStep, PTL DEF Spec

(* The clock, the latencies and the semaphore stay naturals: P never takes a  *)
(* unit that is not there.                                                    *)
THEOREM TypeCorrect == Spec => []TypeOK
<1>1. IInv => TypeOK
  BY DEF IInv
<1>2. QED BY <1>1, Invariant, PTL

-----------------------------------------------------------------------------
(* The latencies.                                                             *)

(* Products grow by at least one factor.                                      *)
LEMMA Growing ==
    ASSUME NEW n \in Nat \ {0}, NEW x \in Nat, NEW y \in Nat, x < y
    PROVE  n * x + n <= n * y /\ n * x \in Nat /\ n * y \in Nat
<1>1. PICK d \in Nat : y = x + 1 + d
  <2>1. y - x - 1 \in Nat /\ y = x + 1 + (y - x - 1)
    OBVIOUS
  <2>2. QED BY <2>1
<1>2. n * y = n * x + n + n * d
  BY <1>1
<1>3. n * x \in Nat /\ n * d \in Nat
  OBVIOUS
<1>4. QED BY <1>2, <1>3

(* A quotient and a remainder are the only ones.                              *)
LEMMA Remainder ==
    ASSUME NEW n \in Nat \ {0}, NEW q \in Nat, NEW r \in Nat, r < n
    PROVE  (n * q + r) \div n = q /\ (n * q + r) % n = r
<1> DEFINE a == n * q + r
           u == a \div n
           w == a % n
<1>1. a \in Nat /\ n * q \in Nat
  OBVIOUS
<1>2. a = n * q + r
  OBVIOUS
<1> HIDE DEF a
<1>3. u \in Nat /\ w \in Nat /\ w < n /\ n * u \in Nat /\ a = n * u + w
  BY <1>1, Divided
<1> HIDE DEF u, w
<1>4. ASSUME q < u PROVE FALSE
  <2>1. n * q + n <= n * u
    BY <1>3, <1>4, Growing
  <2>2. QED BY <1>1, <1>2, <1>3, <2>1
<1>5. ASSUME u < q PROVE FALSE
  <2>1. n * u + n <= n * q
    BY <1>3, <1>5, Growing
  <2>2. QED BY <1>1, <1>2, <1>3, <2>1
<1>6. q = u
  BY <1>3, <1>4, <1>5
<1>7. r = w
  BY <1>1, <1>2, <1>3, <1>6
<1>8. QED BY <1>6, <1>7 DEF a, u, w

(* ModuloDiff tells how many sectors after sector "from" the next one comes   *)
(* that is on the angle of "to": there is none between.                       *)
LEMMA FirstPass ==
    ASSUME NEW to \in Nat, NEW from \in Nat
    PROVE  /\ ModuloDiff(to, from) \in Nat /\ ModuloDiff(to, from) < SectorsPerTrack
           /\ (from + ModuloDiff(to, from)) % SectorsPerTrack = to % SectorsPerTrack
           /\ \A k \in Nat : k >= from /\ k % SectorsPerTrack = to % SectorsPerTrack
                                => k >= from + ModuloDiff(to, from)
<1> DEFINE n == SectorsPerTrack
           m == ModuloDiff(to, from)
           r == to % n
           f == from % n
           q == from \div n
<1>n. n \in Nat \ {0}
  BY DiskAssumption
<1>m. m = ((r - f) + n) % n
  BY DEF ModuloDiff
<1>1. r \in Nat /\ r < n
  BY <1>n, Divided
<1>2. /\ f \in Nat /\ f < n /\ q \in Nat /\ n * q \in Nat /\ from = n * q + f
  BY <1>n, Divided
<1> HIDE DEF n, m, r, f, q
<1>3. ASSUME r >= f PROVE m = r - f
  <2>1. r - f \in Nat /\ r - f < n /\ (r - f) + n = n * 1 + (r - f)
    BY <1>n, <1>1, <1>2, <1>3
  <2>2. (n * 1 + (r - f)) % n = r - f
    BY Zenon, <1>n, <2>1, Remainder
  <2>3. QED BY <1>m, <2>1, <2>2
<1>4. ASSUME r < f PROVE m = (r - f) + n
  <2>1. (r - f) + n \in Nat /\ (r - f) + n < n /\ (r - f) + n = n * 0 + ((r - f) + n)
    BY <1>n, <1>1, <1>2, <1>4
  <2>2. (n * 0 + ((r - f) + n)) % n = (r - f) + n
    BY <1>n, <2>1, Remainder
  <2>3. QED BY <1>m, <2>1, <2>2
<1>5. m \in Nat /\ m < n
  BY <1>n, <1>1, <1>2, <1>3, <1>4
<1>6. (from + m) % n = r
  <2>1. CASE r >= f
    <3>1. from + m = n * q + r
      BY <1>1, <1>2, <1>3, <2>1
    <3>2. (n * q + r) % n = r
      BY <1>n, <1>1, <1>2, Remainder
    <3>3. QED BY <3>1, <3>2
  <2>2. CASE r < f
    <3>1. n * (q + 1) = n * q + n
      BY <1>n, <1>2
    <3>2. from + m = n * (q + 1) + r /\ q + 1 \in Nat
      BY <1>n, <1>1, <1>2, <1>4, <2>2, <3>1
    <3>3. (n * (q + 1) + r) % n = r
      BY <1>n, <1>1, <3>2, Remainder
    <3>4. QED BY <3>2, <3>3
  <2>3. QED BY <1>1, <1>2, <2>1, <2>2
<1>7. ASSUME NEW k \in Nat, k >= from, k % n = r, k < from + m PROVE FALSE
  <2> DEFINE p == k \div n
  <2>1. p \in Nat /\ n * p \in Nat /\ k = n * p + r
    BY <1>n, <1>7, Divided
  <2> HIDE DEF p
  <2>2. CASE p < q
    <3>1. n * p + n <= n * q
      BY <1>n, <1>2, <2>1, <2>2, Growing
    <3>2. QED BY <1>n, <1>1, <1>2, <1>7, <2>1, <3>1
  <2>3. CASE p = q
    BY <1>n, <1>1, <1>2, <1>3, <1>4, <1>5, <1>7, <2>1, <2>3
  <2>4. CASE q < p
    <3>1. n * q + n <= n * p
      BY <1>n, <1>2, <2>1, <2>4, Growing
    <3>2. QED BY <1>n, <1>1, <1>2, <1>3, <1>4, <1>5, <1>7, <2>1, <3>1
  <2>5. QED BY <1>2, <2>1, <2>2, <2>3, <2>4
<1>8. \A k \in Nat : k >= from /\ k % n = r => k >= from + m
  BY <1>5, <1>7
<1>9. QED BY <1>5, <1>6, <1>8 DEF n, m, r

-----------------------------------------------------------------------------
(* The first boundary between sectors at or after time x is RotationTime * a. *)
Boundary(x, a) ==
    /\ a \in Nat /\ RotationTime * a \in Nat
    /\ x <= RotationTime * a /\ RotationTime * a < x + RotationTime

(* It is the first.                                                           *)
LEMMA BoundaryIsFirst ==
    ASSUME NEW x \in Nat, NEW a, Boundary(x, a), NEW k \in Nat
    PROVE  RotationTime * k \in Nat /\ (RotationTime * k >= x <=> k >= a)
<1>1. /\ a \in Nat /\ RotationTime * a \in Nat /\ x <= RotationTime * a
      /\ RotationTime * a < x + RotationTime /\ RotationTime \in Nat \ {0}
  BY DiskAssumption DEF Boundary
<1>2. RotationTime * k \in Nat
  BY <1>1
<1>3. CASE k < a
  <2>1. RotationTime * k + RotationTime <= RotationTime * a
    BY <1>1, <1>3, Growing
  <2>2. QED BY <1>1, <1>2, <1>3, <2>1
<1>4. CASE k = a
  BY <1>1, <1>4
<1>5. CASE a < k
  <2>1. RotationTime * a + RotationTime <= RotationTime * k
    BY <1>1, <1>5, Growing
  <2>2. QED BY <1>1, <1>2, <1>5, <2>1
<1>6. QED BY <1>1, <1>3, <1>4, <1>5

(* A pass begins at a boundary.                                               *)
LEMMA PassIs ==
    ASSUME NEW s \in Nat, NEW t \in Nat
    PROVE  /\ PassBegins(s, t) => \E k \in Nat : t = RotationTime * k
                                        /\ k % SectorsPerTrack = s % SectorsPerTrack
           /\ \A k \in Nat : t = RotationTime * k /\ k % SectorsPerTrack = s % SectorsPerTrack
                                => PassBegins(s, t)
<1>1. RotationTime \in Nat \ {0}
  BY DiskAssumption
<1>2. ASSUME PassBegins(s, t)
      PROVE  \E k \in Nat : t = RotationTime * k /\ k % SectorsPerTrack = s % SectorsPerTrack
  <2>1. /\ t % RotationTime = 0 /\ (t \div RotationTime) % SectorsPerTrack = s % SectorsPerTrack
    BY <1>2 DEF PassBegins
  <2>2. t \div RotationTime \in Nat /\ t = RotationTime * (t \div RotationTime)
    BY <1>1, <2>1, Divided
  <2>3. QED BY <2>1, <2>2
<1>3. ASSUME NEW k \in Nat, t = RotationTime * k, k % SectorsPerTrack = s % SectorsPerTrack
      PROVE  PassBegins(s, t)
  <2>1. t = RotationTime * k + 0
    BY <1>3
  <2>2. (RotationTime * k + 0) \div RotationTime = k /\ (RotationTime * k + 0) % RotationTime = 0
    BY <1>1, Remainder
  <2>3. t \div RotationTime = k /\ t % RotationTime = 0
    BY <2>1, <2>2
  <2>4. QED BY <1>3, <2>3 DEF PassBegins
<1>4. QED BY <1>2, <1>3

(* The first pass of a sector that begins at or after time x.                 *)
FirstFrom(s, x, t) ==
    /\ t \in Nat /\ t >= x /\ t < x + OneTurn
    /\ PassBegins(s, t)
    /\ \A u \in Nat : u >= x /\ PassBegins(s, u) => u >= t

(* It is ModuloDiff sectors after the boundary.                               *)
LEMMA FirstFromBoundary ==
    ASSUME NEW s \in Nat, NEW x \in Nat, NEW a, Boundary(x, a)
    PROVE  /\ ModuloDiff(s, a) \in Nat
           /\ FirstFrom(s, x, RotationTime * (a + ModuloDiff(s, a)))
<1> DEFINE m == ModuloDiff(s, a)
           k0 == a + m
           t == RotationTime * k0
<1>1. /\ a \in Nat /\ RotationTime * a \in Nat /\ RotationTime * a < x + RotationTime
      /\ RotationTime \in Nat \ {0} /\ SectorsPerTrack \in Nat \ {0}
  BY DiskAssumption DEF Boundary
<1>2. /\ m \in Nat /\ m < SectorsPerTrack
      /\ k0 % SectorsPerTrack = s % SectorsPerTrack
      /\ \A k \in Nat : k >= a /\ k % SectorsPerTrack = s % SectorsPerTrack => k >= k0
  BY Zenon, <1>1, FirstPass
<1> HIDE DEF m
<1>3. k0 \in Nat /\ k0 >= a
  BY <1>1, <1>2
<1>4. t = RotationTime * a + RotationTime * m /\ RotationTime * m \in Nat
  BY <1>1, <1>2
<1>5. RotationTime * m + RotationTime <= OneTurn /\ OneTurn \in Nat
  BY <1>1, <1>2, Growing DEF OneTurn
<1> HIDE DEF k0
<1>6. t \in Nat /\ t >= x
  BY <1>3, BoundaryIsFirst
<1>7. t < x + OneTurn
  BY <1>1, <1>4, <1>5
<1>8. PassBegins(s, t)
  BY <1>2, <1>3, <1>6, PassIs
<1>9. ASSUME NEW u \in Nat, u >= x, PassBegins(s, u) PROVE u >= t
  <2>1. PICK k \in Nat : u = RotationTime * k /\ k % SectorsPerTrack = s % SectorsPerTrack
    BY <1>9, PassIs
  <2>2. k >= a
    BY <1>9, <2>1, BoundaryIsFirst
  <2>3. k >= k0
    BY <1>2, <2>1, <2>2
  <2>4. CASE k = k0
    BY <1>6, <2>1, <2>4
  <2>5. CASE k0 < k
    <3>1. t + RotationTime <= u
      BY <1>1, <1>3, <2>1, <2>5, Growing
    <3>2. QED BY <1>1, <1>6, <3>1
  <2>6. QED BY <1>3, <2>3, <2>4, <2>5
<1>10. FirstFrom(s, x, t)
  BY <1>6, <1>7, <1>8, <1>9 DEF FirstFrom
<1>11. QED BY <1>2, <1>10 DEF m, k0

(* TimeToSeek gives the time of the next boundary once the arm is there.      *)
LEMMA RotationIs ==
    ASSUME NEW s, NEW x \in Nat, x = totalTicks + Seek(s)
    PROVE  \E a : Boundary(x, a) /\ x + Rotation(s) = RotationTime * a
                   /\ (x + Rotation(s)) \div RotationTime = a
<1> DEFINE q == x \div RotationTime
           r == x % RotationTime
<1>1. RotationTime \in Nat \ {0}
  BY DiskAssumption
<1>2. q \in Nat /\ r \in Nat /\ r < RotationTime /\ RotationTime * q \in Nat
      /\ x = RotationTime * q + r
  BY <1>1, Divided
<1>3. Rotation(s) = IF r > 0 THEN RotationTime - r ELSE 0
  BY DEF Rotation
<1> HIDE DEF q, r
<1>4. \E a \in Nat : /\ RotationTime * a \in Nat /\ x + Rotation(s) = RotationTime * a
                     /\ x <= RotationTime * a /\ RotationTime * a < x + RotationTime
  <2>1. CASE r > 0
    <3>1. q + 1 \in Nat /\ RotationTime * (q + 1) = RotationTime * q + RotationTime
      BY <1>1, <1>2
    <3>2. /\ x + Rotation(s) = RotationTime * q + RotationTime
          /\ x <= RotationTime * q + RotationTime
          /\ RotationTime * q + RotationTime < x + RotationTime
          /\ RotationTime * q + RotationTime \in Nat
      BY <1>1, <1>2, <1>3, <2>1
    <3>3. QED BY <3>1, <3>2
  <2>2. CASE ~(r > 0)
    <3>1. /\ x + Rotation(s) = RotationTime * q
          /\ x <= RotationTime * q
          /\ RotationTime * q < x + RotationTime
      BY <1>1, <1>2, <1>3, <2>2
    <3>2. QED BY <1>2, <3>1
  <2>3. QED BY <2>1, <2>2
<1>5. PICK a \in Nat : /\ RotationTime * a \in Nat /\ x + Rotation(s) = RotationTime * a
                      /\ x <= RotationTime * a /\ RotationTime * a < x + RotationTime
  BY <1>4
<1>6. (RotationTime * a + 0) \div RotationTime = a
  BY <1>1, Remainder
<1>7. (x + Rotation(s)) \div RotationTime = a
  <2>1. x + Rotation(s) = RotationTime * a + 0
    BY <1>5
  <2>2. QED BY <1>6, <2>1
<1>8. QED BY <1>5, <1>7 DEF Boundary

(* A request that waits for its sector ends one sector after the first pass.  *)
LEMMA PassEndsIs ==
    ASSUME NEW s, NEW x \in Nat, x = totalTicks + Seek(s), NEW t, FirstFrom(s, x, t)
    PROVE  PassEnds(s) = t + RotationTime
<1> DEFINE S == x .. x + OneTurn + RotationTime
           Ends(v) == /\ PassBegins(s, v - RotationTime) /\ v - RotationTime >= x
                      /\ \A u \in x .. v - RotationTime - 1 : ~PassBegins(s, u)
<1>1. PassEnds(s) = CHOOSE v \in S : Ends(v)
  BY DEF PassEnds
<1>2. /\ t \in Nat /\ t >= x /\ t < x + OneTurn /\ PassBegins(s, t)
      /\ \A u \in Nat : u >= x /\ PassBegins(s, u) => u >= t
  BY DEF FirstFrom
<1>3. RotationTime \in Nat \ {0} /\ OneTurn \in Nat
  BY DiskAssumption DEF OneTurn
<1>4. t + RotationTime \in S /\ (t + RotationTime) - RotationTime = t
  BY <1>2, <1>3
<1>5. Ends(t + RotationTime)
  <2>1. \A u \in x .. t - 1 : ~PassBegins(s, u)
    BY <1>2
  <2>2. QED BY <1>2, <1>4, <2>1
<1>6. ASSUME NEW v \in S, Ends(v) PROVE v = t + RotationTime
  <2>1. v \in Nat /\ v - RotationTime \in Nat
    BY <1>3, <1>6
  <2>2. v - RotationTime >= t
    BY <1>2, <1>6, <2>1
  <2>3. ~(t <= v - RotationTime - 1)
    <3>1. ASSUME t <= v - RotationTime - 1 PROVE FALSE
      <4>1. t \in x .. v - RotationTime - 1
        BY <1>2, <2>1, <3>1
      <4>2. QED BY <1>2, <1>6, <4>1
    <3>2. QED BY <3>1
  <2>4. QED BY <1>2, <1>3, <2>1, <2>2, <2>3
<1> HIDE DEF S, Ends
<1>7. QED BY <1>1, <1>4, <1>5, <1>6

(* The arm moves just when the track changes.                                 *)
LEMMA SeekIsZero ==
    ASSUME lastSector \in Nat, NEW s \in Nat
    PROVE  Seek(s) = 0 <=> Track(s) = Track(lastSector)
<1> DEFINE d == IF Track(s) > Track(lastSector) THEN Track(s) - Track(lastSector)
                                                ELSE Track(lastSector) - Track(s)
<1>1. Track(s) \in Nat /\ Track(lastSector) \in Nat
  BY Divided, DiskAssumption DEF Track
<1>2. Seek(s) = SeekTime * d
  BY DEF Seek
<1>3. d \in Nat /\ (d = 0 <=> Track(s) = Track(lastSector))
  BY <1>1
<1> HIDE DEF d
<1>4. SeekTime \in Nat \ {0}
  BY DiskAssumption
<1>5. CASE d = 0
  BY <1>2, <1>3, <1>4, <1>5
<1>6. CASE d # 0
  <2>1. SeekTime * 0 + SeekTime <= SeekTime * d
    BY <1>3, <1>4, <1>6, Growing
  <2>2. Seek(s) # 0
    BY <1>2, <1>3, <1>4, <2>1
  <2>3. QED BY <1>3, <1>6, <2>2
<1>7. QED BY <1>5, <1>6
-----------------------------------------------------------------------------
(* What the track buffer stands for: it is filled from the first boundary     *)
(* after the arm came to the track, and that time has come when the disk is   *)
(* idle again.                                                                *)
BufferFollowsArm ==
    /\ \E b : Boundary(arrived, b) /\ bufferInit = RotationTime * b
    /\ IF active THEN bufferInit <= doneAt ELSE bufferInit <= totalTicks

(* The test of the track buffer: the sector's first pass since the arm came   *)
(* has begun.                                                                 *)
LEMMA BufferHasIt ==
    ASSUME TypeOK, BufferFollowsArm, ~active, NEW s \in Nat,
           NEW a, Boundary(totalTicks, a)
    PROVE  (RotationTime * a - bufferInit) \div RotationTime
              > ModuloDiff(s, bufferInit \div RotationTime)
             <=> InTrackBuffer(s)
<1>1. /\ RotationTime \in Nat \ {0} /\ totalTicks \in Nat /\ arrived \in Nat
      /\ bufferInit <= totalTicks /\ a \in Nat
  BY DiskAssumption DEF TypeOK, BufferFollowsArm, Boundary
<1>2. PICK b : Boundary(arrived, b) /\ bufferInit = RotationTime * b
  BY DEF BufferFollowsArm
<1>3. b \in Nat /\ RotationTime * b \in Nat
  BY <1>2 DEF Boundary
<1> DEFINE m == ModuloDiff(s, b)
           t == RotationTime * (b + m)
<1>4. m \in Nat /\ FirstFrom(s, arrived, t)
  BY <1>1, <1>2, FirstFromBoundary
<1> HIDE DEF m
<1>5. b <= a
  <2>1. CASE b < a
    BY <1>1, <1>3, <2>1
  <2>2. CASE ~(b < a)
    <3>1. RotationTime * a >= totalTicks /\ RotationTime * a \in Nat
      BY DEF Boundary
    <3>2. CASE a < b
      <4>1. RotationTime * a + RotationTime <= RotationTime * b
        BY <1>1, <1>3, <3>2, Growing
      <4>2. QED BY <1>1, <1>2, <1>3, <3>1, <4>1
    <3>3. QED BY <1>1, <1>3, <2>2, <3>2
  <2>3. QED BY <2>1, <2>2
<1>6. (RotationTime * a - bufferInit) \div RotationTime = a - b
  <2>1. a - b \in Nat /\ RotationTime * a - RotationTime * b = RotationTime * (a - b) + 0
    BY <1>1, <1>3, <1>5
  <2>2. (RotationTime * (a - b) + 0) \div RotationTime = a - b
    BY <1>1, <2>1, Remainder
  <2>3. QED BY <1>2, <2>1, <2>2
<1>7. bufferInit \div RotationTime = b
  <2>1. (RotationTime * b + 0) \div RotationTime = b
    BY <1>1, <1>3, Remainder
  <2>2. bufferInit = RotationTime * b + 0
    BY <1>2, <1>3
  <2>3. QED BY <2>1, <2>2
<1>8. a - b > m <=> b + m < a
  BY <1>1, <1>3, <1>4
<1>9. t \in Nat /\ (t >= totalTicks <=> b + m >= a) /\ b + m \in Nat
  <2>1. b + m \in Nat
    BY <1>3, <1>4
  <2>2. QED BY <1>1, <2>1, BoundaryIsFirst
<1> HIDE DEF t
<1>10. /\ t >= arrived /\ PassBegins(s, t)
       /\ \A u \in Nat : u >= arrived /\ PassBegins(s, u) => u >= t
  BY <1>4 DEF FirstFrom
<1>11. ASSUME t < totalTicks PROVE InTrackBuffer(s)
  <2>1. t \in arrived .. totalTicks - 1
    BY <1>1, <1>9, <1>10, <1>11
  <2>2. QED BY <1>10, <2>1 DEF InTrackBuffer
<1>12. ASSUME InTrackBuffer(s) PROVE t < totalTicks
  <2>1. PICK u \in arrived .. totalTicks - 1 : PassBegins(s, u)
    BY <1>12 DEF InTrackBuffer
  <2>2. u \in Nat /\ u >= arrived /\ u < totalTicks
    BY <1>1, <2>1
  <2>3. u >= t
    BY <1>10, <2>1, <2>2
  <2>4. QED BY <1>1, <1>9, <2>2, <2>3
<1>13. InTrackBuffer(s) <=> b + m < a
  <2>1. b + m < a <=> t < totalTicks
    BY <1>1, <1>9
  <2>2. QED BY <1>11, <1>12, <2>1
<1>14. QED BY <1>6, <1>7, <1>8, <1>13 DEF m

(* ComputeLatency, case by case: a sector the buffer has takes one transfer,  *)
(* another one the time until it has passed.                                  *)
LEMMA LatencyCases ==
    ASSUME TypeOK, NEW s \in Nat, NEW writing \in BOOLEAN
    PROVE  \E a : /\ Boundary(totalTicks + Seek(s), a)
                  /\ totalTicks + Seek(s) + Rotation(s) = RotationTime * a
                  /\ PassEnds(s) \in Nat /\ PassEnds(s) >= RotationTime * a
                  /\ ComputeLatency(s, writing) =
                        IF /\ ~writing /\ Seek(s) = 0
                           /\ (RotationTime * a - bufferInit) \div RotationTime
                                 > ModuloDiff(s, bufferInit \div RotationTime)
                        THEN RotationTime
                        ELSE PassEnds(s) - totalTicks
<1>1. totalTicks \in Nat /\ lastSector \in Nat /\ RotationTime \in Nat \ {0}
  BY DiskAssumption DEF TypeOK, Sector
<1>2. Seek(s) \in Nat /\ Rotation(s) \in Nat
  BY <1>1, SeekTypes
<1>3. PICK x \in Nat : x = totalTicks + Seek(s)
  BY <1>1, <1>2
<1>4. PICK a : Boundary(x, a) /\ x + Rotation(s) = RotationTime * a
               /\ (x + Rotation(s)) \div RotationTime = a
  BY <1>3, RotationIs
<1>5. a \in Nat /\ RotationTime * a \in Nat
  BY <1>4 DEF Boundary
<1> DEFINE m == ModuloDiff(s, a)
           t == RotationTime * (a + m)
           buffered == /\ ~writing /\ Seek(s) = 0
                       /\ (RotationTime * a - bufferInit) \div RotationTime
                             > ModuloDiff(s, bufferInit \div RotationTime)
<1>6. m \in Nat /\ FirstFrom(s, x, t)
  BY <1>4, FirstFromBoundary
<1>7. PassEnds(s) = t + RotationTime
  <2> HIDE DEF t
  <2>1. QED BY <1>3, <1>6, PassEndsIs
<1>8. ComputeLatency(s, writing) =
        IF buffered THEN RotationTime
        ELSE Seek(s) + Rotation(s) + m * RotationTime + RotationTime
  <2>1. totalTicks + Seek(s) + Rotation(s) = RotationTime * a
    BY <1>3, <1>4
  <2>2. (RotationTime * a) \div RotationTime = a
    BY <1>4
  <2>3. QED BY <2>1, <2>2, Zenon DEF ComputeLatency
<1> HIDE DEF m, buffered
<1>9. t = RotationTime * a + m * RotationTime /\ m * RotationTime \in Nat
  BY <1>1, <1>5, <1>6
<1>10. Seek(s) + Rotation(s) + m * RotationTime + RotationTime = PassEnds(s) - totalTicks
  <2> HIDE DEF t
  <2>1. QED BY <1>1, <1>2, <1>3, <1>4, <1>7, <1>9
<1>11. PassEnds(s) \in Nat /\ PassEnds(s) >= RotationTime * a
  <2> HIDE DEF t
  <2>1. QED BY <1>1, <1>5, <1>7, <1>9
<1>12. ComputeLatency(s, writing) = IF buffered THEN RotationTime ELSE PassEnds(s) - totalTicks
  BY <1>8, <1>10
<1>13. QED BY <1>3, <1>4, <1>11, <1>12 DEF buffered

(* With the buffer what it should be, the latency is that of the disk.        *)
LEMMA LatencyOf == TypeOK /\ BufferFollowsArm => LatencyIsExact
<1> SUFFICES ASSUME TypeOK, BufferFollowsArm, ~active, NEW s \in Sector, NEW writing \in BOOLEAN
             PROVE  ComputeLatency(s, writing) =
                      IF ~writing /\ Track(s) = Track(lastSector) /\ InTrackBuffer(s)
                      THEN RotationTime
                      ELSE PassEnds(s) - totalTicks
  BY DEF LatencyIsExact
<1>1. s \in Nat /\ lastSector \in Nat /\ totalTicks \in Nat
  BY DiskAssumption DEF Sector, TypeOK
<1>2. PICK a : /\ Boundary(totalTicks + Seek(s), a)
               /\ ComputeLatency(s, writing) =
                        IF /\ ~writing /\ Seek(s) = 0
                           /\ (RotationTime * a - bufferInit) \div RotationTime
                                 > ModuloDiff(s, bufferInit \div RotationTime)
                        THEN RotationTime
                        ELSE PassEnds(s) - totalTicks
  BY <1>1, LatencyCases
<1>3. Seek(s) = 0 <=> Track(s) = Track(lastSector)
  BY <1>1, SeekIsZero
<1>4. CASE Seek(s) # 0
  BY <1>2, <1>3, <1>4
<1>5. CASE Seek(s) = 0
  <2>1. Boundary(totalTicks, a)
    <3>1. totalTicks + Seek(s) = totalTicks
      BY <1>1, <1>5
    <3>2. QED BY <1>2, <3>1
  <2>2. (RotationTime * a - bufferInit) \div RotationTime
              > ModuloDiff(s, bufferInit \div RotationTime)
             <=> InTrackBuffer(s)
    BY <1>1, <2>1, BufferHasIt
  <2>3. QED BY <1>2, <1>3, <1>5, <2>2
<1>6. QED BY <1>4, <1>5

(* A request keeps the buffer, or starts it anew where the arm goes.          *)
LEMMA RequestKeepsBuffer ==
    ASSUME TypeOK, BufferFollowsArm, NEW s \in Sector, NEW writing \in BOOLEAN, Request(s, writing)
    PROVE  BufferFollowsArm'
<1>1. s \in Nat /\ lastSector \in Nat /\ totalTicks \in Nat /\ bufferInit \in Nat
      /\ RotationTime \in Nat \ {0}
  BY DiskAssumption DEF Sector, TypeOK
<1>2. /\ ~active /\ active' = TRUE /\ doneAt' = totalTicks + ComputeLatency(s, writing)
      /\ bufferInit' = IF Seek(s) # 0 THEN totalTicks + Seek(s) + Rotation(s) ELSE bufferInit
      /\ arrived' = IF Track(s) # Track(lastSector) THEN totalTicks + Seek(s) ELSE arrived
  BY DEF Request, UpdateLast
<1>3. Seek(s) = 0 <=> Track(s) = Track(lastSector)
  BY <1>1, SeekIsZero
<1>4. CASE Seek(s) = 0
  <2>1. bufferInit' = bufferInit /\ arrived' = arrived /\ bufferInit <= totalTicks
    BY <1>2, <1>3, <1>4 DEF BufferFollowsArm
  <2>2. ComputeLatency(s, writing) \in Nat
    BY <1>1, LatencyTypes
  <2>3. bufferInit' <= doneAt'
    BY <1>1, <1>2, <2>1, <2>2
  <2>4. \E b : Boundary(arrived', b) /\ bufferInit' = RotationTime * b
    BY <2>1 DEF BufferFollowsArm
  <2>5. QED BY <1>2, <2>3, <2>4 DEF BufferFollowsArm, Boundary
<1>5. CASE Seek(s) # 0
  <2>1. PICK a : /\ Boundary(totalTicks + Seek(s), a)
                 /\ totalTicks + Seek(s) + Rotation(s) = RotationTime * a
                 /\ PassEnds(s) \in Nat /\ PassEnds(s) >= RotationTime * a
                 /\ ComputeLatency(s, writing) = PassEnds(s) - totalTicks
    BY <1>1, <1>5, LatencyCases
  <2>2. bufferInit' = RotationTime * a /\ arrived' = totalTicks + Seek(s)
    BY <1>2, <1>3, <1>5, <2>1
  <2>3. doneAt' = PassEnds(s)
    BY <1>1, <1>2, <2>1
  <2>4. bufferInit' <= doneAt' /\ Boundary(arrived', a)
    BY <2>1, <2>2, <2>3
  <2>5. QED BY <1>2, <2>2, <2>4 DEF BufferFollowsArm, Boundary
<1>6. QED BY <1>4, <1>5

(* The clock does not go back.                                                *)
LEMMA ClockKeepsBuffer ==
    ASSUME TypeOK, BufferFollowsArm, NEW now \in Nat, now >= totalTicks, ClockTo(now)
    PROVE  BufferFollowsArm'
<1>1. totalTicks \in Nat /\ bufferInit \in Nat /\ doneAt \in Nat /\ active \in BOOLEAN
  BY DEF TypeOK
<1>2. totalTicks' = now /\ UNCHANGED <<bufferInit, doneAt, arrived>>
  BY DEF ClockTo, HandleInterrupt
<1>3. \/ active /\ doneAt <= now /\ active' = FALSE
      \/ active' = active
  BY DEF ClockTo, HandleInterrupt
<1>4. IF active' THEN bufferInit' <= doneAt' ELSE bufferInit' <= totalTicks'
  <2>1. CASE active
    <3>1. bufferInit <= doneAt
      BY <2>1 DEF BufferFollowsArm
    <3>2. CASE active'
      BY <1>2, <3>1, <3>2
    <3>3. CASE ~active'
      <4>1. doneAt <= now
        BY Zenon, <1>3, <2>1, <3>3
      <4>2. bufferInit <= now
        BY <1>1, <3>1, <4>1
      <4>3. QED BY <1>2, <3>3, <4>2
    <3>4. QED BY <3>2, <3>3
  <2>2. CASE ~active
    BY <1>1, <1>2, <1>3, <2>2 DEF BufferFollowsArm
  <2>3. QED BY <2>1, <2>2
<1>5. \E b : Boundary(arrived', b) /\ bufferInit' = RotationTime * b
  BY <1>2 DEF BufferFollowsArm
<1>6. QED BY <1>4, <1>5 DEF BufferFollowsArm, Boundary

(* Every step keeps the buffer what it should be.                             *)
LEMMA BufferStep == TypeOK /\ BufferFollowsArm /\ [Next]_vars => BufferFollowsArm'
<1> SUFFICES ASSUME TypeOK, BufferFollowsArm, [Next]_vars PROVE BufferFollowsArm'
  OBVIOUS
<1>1. ASSUME UNCHANGED diskVars PROVE BufferFollowsArm'
  BY <1>1 DEF diskVars, BufferFollowsArm, Boundary
<1>2. ASSUME NEW t \in Thread, NEW s \in Sector, NEW writing \in BOOLEAN,
             ReadWriteSector(t, s, writing)
      PROVE  BufferFollowsArm'
  BY <1>2, RequestKeepsBuffer DEF ReadWriteSector
<1>3. ASSUME NEW t \in Thread, Abort(t) \/ Resume(t) PROVE BufferFollowsArm'
  BY <1>1, <1>3 DEF Abort, Resume
<1>4. ASSUME NEW d \in TickSizes, OneTick(d) PROVE BufferFollowsArm'
  <2>1. totalTicks + d \in Nat /\ totalTicks + d >= totalTicks
    BY SynchDiskAssumption DEF TypeOK
  <2>2. QED BY <1>4, <2>1, ClockKeepsBuffer DEF OneTick
<1>5. CASE Idle
  <2> DEFINE now == IF doneAt > totalTicks THEN doneAt ELSE totalTicks
  <2>1. now \in Nat /\ now >= totalTicks /\ ClockTo(now)
    BY <1>5 DEF Idle, TypeOK
  <2> HIDE DEF now
  <2>2. QED BY <2>1, ClockKeepsBuffer
<1>6. CASE Halt \/ Stopped \/ UNCHANGED vars
  BY <1>1, <1>6 DEF Halt, Stopped, vars
<1>7. QED BY <1>2, <1>3, <1>4, <1>5, <1>6 DEF Next

(* For any number of tracks and sectors, any speed of the arm and of the      *)
(* disk, and any sequence of requests: ComputeLatency is the time the turning *)
(* disk takes, and the track buffer holds what has passed under the head.     *)
THEOREM LatencyAlwaysExact == Spec => []LatencyIsExact
<1>1. Init => BufferFollowsArm
  <2> SUFFICES ASSUME Init PROVE BufferFollowsArm
    OBVIOUS
  <2>1. /\ active = FALSE /\ bufferInit = 0 /\ arrived = 0 /\ totalTicks \in Nat
        /\ RotationTime \in Nat \ {0}
    BY DiskAssumption, SynchDiskAssumption DEF Init, DiskInit
  <2>2. Boundary(0, 0) /\ RotationTime * 0 = 0
    BY <2>1 DEF Boundary
  <2>3. QED BY <2>1, <2>2 DEF BufferFollowsArm
<1>2. Spec => []BufferFollowsArm
  BY <1>1, BufferStep, TypeCorrect, PTL DEF Spec
<1>3. QED BY <1>2, LatencyOf, TypeCorrect, PTL
-----------------------------------------------------------------------------
(* Calls and completions are counted: cardinalities are needed from here on.  *)
INSTANCE FiniteSetTheorems

(* However ReadSector and WriteSector overlap, without a lock: the calls in P *)
(* are as many as the units owed to them, and at most one.                    *)
THEOREM CompletionsAlwaysMatchCalls == Spec => []CompletionsMatchCalls
<1>1. IInv => CompletionsMatchCalls
  <2>1. ASSUME IInv, Nobody PROVE CompletionsMatchCalls
    <3>1. Asleep \cup Ready = {}
      BY <2>1 DEF Nobody, Asleep, Ready
    <3>2. Cardinality(Asleep \cup Ready) = 0
      BY <3>1, FS_EmptySet
    <3>3. QED BY <2>1, <3>2 DEF Nobody, CompletionsMatchCalls
  <2>2. ASSUME IInv, NEW t \in Thread, Somebody(t) PROVE CompletionsMatchCalls
    <3>1. Asleep \cup Ready = {t}
      BY <2>2 DEF Somebody, Asleep, Ready
    <3>2. Cardinality(Asleep \cup Ready) = 1
      BY <3>1, FS_Singleton
    <3>3. QED BY <2>2, <3>2 DEF Somebody, CompletionsMatchCalls
  <2>3. QED BY <2>1, <2>2 DEF IInv
<1>2. QED BY <1>1, Invariant, PTL

(* A thread asleep in P is woken: the disk works on a request, or a readied   *)
(* thread is about to find a unit.                                            *)
THEOREM SomebodyAlwaysWakesMe == Spec => []SomebodyWakesMe
<1>1. IInv => SomebodyWakesMe
  BY DEF IInv, Nobody, Somebody, SomebodyWakesMe, Asleep, Ready
<1>2. QED BY <1>1, Invariant, PTL
=============================================================================
