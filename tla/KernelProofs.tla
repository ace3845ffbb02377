---------------------------- MODULE KernelProofs -----------------------------
(* Proofs, for any threads, semaphores and constants, that threads, lists and *)
(* statuses stay in step, that the machine follows the thread that runs, that *)
(* the ID table is exact, that the semaphores implement SemaphoreSpec, and    *)
(* that the kernel loses no wake-up.                                          *)
EXTENDS Kernel, TLAPS

(* Lists, types, and where a thread is.                                       *)

(* The places where lists are used: Append at the tail of a ready list or a    *)
(* queue, Remove at its head.                                                  *)
LEMMA AppendItems ==
    ASSUME NEW T, NEW l \in Seq(T), NEW x \in T
    PROVE  /\ Append(l, x) \in Seq(T)
           /\ ItemsOf(Append(l, x)) = ItemsOf(l) \cup {x}
           /\ NoDuplicates(l) /\ x \notin ItemsOf(l) => NoDuplicates(Append(l, x))
<1>1. /\ Append(l, x) \in Seq(T)
      /\ Len(Append(l, x)) = Len(l) + 1
      /\ \A i \in 1 .. Len(l) : Append(l, x)[i] = l[i]
      /\ Append(l, x)[Len(l) + 1] = x
      /\ Len(l) \in Nat
      /\ DOMAIN l = 1 .. Len(l)
      /\ DOMAIN Append(l, x) = 1 .. Len(l) + 1
  OBVIOUS
<1>2. ItemsOf(Append(l, x)) = ItemsOf(l) \cup {x}
  <2>1. ASSUME NEW y \in ItemsOf(Append(l, x)) PROVE y \in ItemsOf(l) \cup {x}
    <3>1. PICK i \in 1 .. Len(l) + 1 : y = Append(l, x)[i]
      BY <1>1, <2>1 DEF ItemsOf
    <3>2. i \in 1 .. Len(l) \/ i = Len(l) + 1
      BY <1>1, <3>1
    <3>3. QED BY <1>1, <3>1, <3>2 DEF ItemsOf
  <2>2. ASSUME NEW y \in ItemsOf(l) PROVE y \in ItemsOf(Append(l, x))
    <3>1. PICK i \in 1 .. Len(l) : y = l[i]
      BY <1>1, <2>2 DEF ItemsOf
    <3>2. i \in 1 .. Len(l) + 1
      BY <1>1, <3>1
    <3>3. QED BY <1>1, <3>1, <3>2 DEF ItemsOf
  <2>3. x \in ItemsOf(Append(l, x))
    <3>1. Len(l) + 1 \in 1 .. Len(l) + 1
      BY <1>1
    <3>2. QED BY <1>1, <3>1 DEF ItemsOf
  <2>4. QED BY <2>1, <2>2, <2>3
<1>3. ASSUME NoDuplicates(l), x \notin ItemsOf(l) PROVE NoDuplicates(Append(l, x))
  <2>1. SUFFICES ASSUME NEW i \in 1 .. Len(l) + 1, NEW j \in 1 .. Len(l) + 1,
                        Append(l, x)[i] = Append(l, x)[j]
                 PROVE  i = j
    BY <1>1 DEF NoDuplicates
  <2>2. \A k \in 1 .. Len(l) : l[k] # x
    BY <1>1, <1>3 DEF ItemsOf
  <2>3. \A k \in 1 .. Len(l) + 1 : k \in 1 .. Len(l) \/ k = Len(l) + 1
    BY <1>1
  <2>4. QED BY <1>1, <1>3, <2>1, <2>2, <2>3 DEF NoDuplicates
<1>4. QED BY <1>1, <1>2, <1>3

(* What FindNextToRun and V do to a list: removing its first item.            *)
LEMMA RemoveItems ==
    ASSUME NEW T, NEW l \in Seq(T), l # <<>>
    PROVE  /\ Tail(l) \in Seq(T)
           /\ Head(l) \in T
           /\ Head(l) \in ItemsOf(l)
           /\ NoDuplicates(l) => /\ NoDuplicates(Tail(l))
                                 /\ ItemsOf(Tail(l)) = ItemsOf(l) \ {Head(l)}
<1>1. /\ Tail(l) \in Seq(T)
      /\ Len(Tail(l)) = Len(l) - 1
      /\ \A i \in 1 .. Len(l) - 1 : Tail(l)[i] = l[i + 1]
      /\ Len(l) \in Nat
      /\ Len(l) > 0
      /\ Head(l) = l[1]
      /\ DOMAIN l = 1 .. Len(l)
      /\ DOMAIN Tail(l) = 1 .. Len(l) - 1
      /\ \A i \in 1 .. Len(l) : l[i] \in T
  OBVIOUS
<1>2. 1 \in 1 .. Len(l)
  BY <1>1
<1>3. \A i \in 1 .. Len(l) - 1 : i + 1 \in 1 .. Len(l) /\ i + 1 # 1
  BY <1>1
<1>4. ASSUME NoDuplicates(l) PROVE NoDuplicates(Tail(l))
  <2>1. SUFFICES ASSUME NEW i \in 1 .. Len(l) - 1, NEW j \in 1 .. Len(l) - 1,
                        Tail(l)[i] = Tail(l)[j]
                 PROVE  i = j
    BY <1>1 DEF NoDuplicates
  <2>2. i + 1 = j + 1
    BY <1>1, <1>3, <1>4, <2>1 DEF NoDuplicates
  <2>3. QED BY <2>2
<1>5. ASSUME NoDuplicates(l) PROVE ItemsOf(Tail(l)) = ItemsOf(l) \ {Head(l)}
  <2>1. ASSUME NEW y \in ItemsOf(Tail(l)) PROVE y \in ItemsOf(l) \ {Head(l)}
    <3>1. PICK i \in 1 .. Len(l) - 1 : y = l[i + 1]
      BY <1>1, <2>1 DEF ItemsOf
    <3>2. y # l[1]
      BY <1>1, <1>2, <1>3, <1>5, <3>1 DEF NoDuplicates
    <3>3. QED BY <1>1, <1>3, <3>1, <3>2 DEF ItemsOf
  <2>2. ASSUME NEW y \in ItemsOf(l) \ {Head(l)} PROVE y \in ItemsOf(Tail(l))
    <3>1. PICK i \in 1 .. Len(l) : y = l[i]
      BY <1>1, <2>2 DEF ItemsOf
    <3>2. i # 1
      BY <1>1, <2>2, <3>1
    <3>3. i - 1 \in 1 .. Len(l) - 1 /\ (i - 1) + 1 = i
      BY <1>1, <3>2
    <3>4. Tail(l)[i - 1] = y
      BY <1>1, <3>1, <3>3
    <3>5. QED BY <1>1, <3>3, <3>4 DEF ItemsOf
  <2>3. QED BY <2>1, <2>2
<1>6. QED BY Zenon, <1>1, <1>2, <1>4, <1>5 DEF ItemsOf

(* The empty list.                                                            *)
LEMMA EmptyItems ==
    /\ ItemsOf(<<>>) = {}
    /\ NoDuplicates(<<>>)
BY DEF ItemsOf, NoDuplicates
-----------------------------------------------------------------------------
(* The names the actions use are names of a status, a place or a mode.         *)
LEMMA Names ==
    /\ "NONE" \in ThreadStatus /\ "JUST_CREATED" \in ThreadStatus
    /\ "READY" \in ThreadStatus /\ "RUNNING" \in ThreadStatus /\ "BLOCKED" \in ThreadStatus
    /\ "none" \in PC /\ "new" \in PC /\ "root" \in PC /\ "kernel" \in PC /\ "user" \in PC
    /\ "tick" \in PC /\ "yield" \in PC /\ "P" \in PC /\ "done" \in PC
    /\ "IdleMode" \in MachineStatus /\ "SystemMode" \in MachineStatus
    /\ "UserMode" \in MachineStatus
BY DEF ThreadStatus, PC, MachineStatus

(* V() and P() between their SetLevel calls, and Run() up to SWITCH.           *)
LEMMA VBodyTypes ==
    ASSUME TypeOK, NEW s \in Semaphore, VBody(s)
    PROVE  /\ value' \in [Semaphore -> Nat]
           /\ queue' \in [Semaphore -> Seq(Thread)]
           /\ status' \in [Thread -> ThreadStatus]
           /\ readyList' \in Seq(Thread)
<1> USE DEF TypeOK, ThreadTypes, SchedulerTypes, SemaphoreTypes
<1>1. value' \in [Semaphore -> Nat]
  BY DEF VBody
<1>2. CASE queue[s] # <<>>
  <2>1. Head(queue[s]) \in Thread /\ Tail(queue[s]) \in Seq(Thread)
    BY <1>2, RemoveItems
  <2>2. /\ queue' = [queue EXCEPT ![s] = Tail(queue[s])]
        /\ status' = [status EXCEPT ![Head(queue[s])] = "READY"]
        /\ readyList' = Append(readyList, Head(queue[s]))
    BY Zenon, <1>2 DEF VBody, Readied
  <2>3. queue' \in [Semaphore -> Seq(Thread)]
    BY <2>1, <2>2
  <2>4. status' \in [Thread -> ThreadStatus]
    BY <2>1, <2>2, Names
  <2>5. readyList' \in Seq(Thread)
    BY <2>1, <2>2
  <2>6. QED BY <1>1, <2>3, <2>4, <2>5
<1>3. CASE queue[s] = <<>>
  BY Zenon, <1>1, <1>3 DEF VBody
<1>4. QED BY Zenon, <1>2, <1>3

(* One turn of the loop of P keeps the types.                                 *)
LEMMA PBodyTypes ==
    ASSUME TypeOK, NEW s \in Semaphore, PBody(s)
    PROVE  /\ value' \in [Semaphore -> Nat]
           /\ queue' \in [Semaphore -> Seq(Thread)]
           /\ outstanding' \in [Semaphore -> Nat]
           /\ pc' \in [Thread -> PC]
           /\ sem' \in [Thread -> Semaphore \cup {NULL}]
           /\ oldStatus' \in [Thread -> MachineStatus]
           /\ level' = "IntOff"
<1> USE Names DEF TypeOK, ThreadTypes, SchedulerTypes, SemaphoreTypes, MachineTypes
<1>1. CASE value[s] # 0
  <2>1. /\ value' = [value EXCEPT ![s] = value[s] - 1]
        /\ UNCHANGED <<queue, outstanding>>
        /\ pc' = [pc EXCEPT ![currentThread] = "tick"]
        /\ sem' = [sem EXCEPT ![currentThread] = NULL]
        /\ oldStatus' = [oldStatus EXCEPT ![currentThread] = machineStatus]
        /\ level' = "IntOff"
    BY Zenon, <1>1 DEF PBody, EnterTick
  <2>2. value[s] - 1 \in Nat
    BY <1>1
  <2>3. QED BY Zenon, <2>1, <2>2
<1>2. CASE value[s] = 0
  <2>1. /\ queue' = [queue EXCEPT ![s] = Append(queue[s], currentThread)]
        /\ UNCHANGED <<value, outstanding, oldStatus>>
        /\ pc' = [pc EXCEPT ![currentThread] = "P"]
        /\ sem' = [sem EXCEPT ![currentThread] = s]
        /\ level' = "IntOff"
    BY Zenon, <1>2 DEF PBody
  <2>2. Append(queue[s], currentThread) \in Seq(Thread)
    OBVIOUS
  <2>3. QED BY <2>1, <2>2
<1>3. QED BY Zenon, <1>1, <1>2

(* Scheduler::Run up to SWITCH keeps the types.                               *)
LEMMA RunTypes ==
    ASSUME TypeOK, NEW n \in Thread, NEW st \in [Thread -> ThreadStatus],
           NEW l \in Seq(Thread), Run(n, st, l)
    PROVE  /\ currentThread' \in Thread
           /\ status' \in [Thread -> ThreadStatus]
           /\ readyList' \in Seq(Thread)
           /\ savedRegs' \in [Thread -> Thread \cup {NULL}]
BY Names DEF Run, TypeOK, ThreadTypes, SchedulerTypes, MachineTypes

(* Yield to the first ready thread keeps the types.                           *)
LEMMA YieldSwitchTypes ==
    ASSUME TypeOK, YieldSwitch
    PROVE  /\ pc' \in [Thread -> PC]
           /\ currentThread' \in Thread
           /\ status' \in [Thread -> ThreadStatus]
           /\ readyList' \in Seq(Thread)
           /\ savedRegs' \in [Thread -> Thread \cup {NULL}]
<1> USE Names DEF TypeOK, ThreadTypes, SchedulerTypes
<1>1. /\ Head(readyList) \in Thread
      /\ Append(Tail(readyList), currentThread) \in Seq(Thread)
  BY RemoveItems DEF YieldSwitch
<1>2. Readied(status, currentThread) \in [Thread -> ThreadStatus]
  BY DEF Readied
<1>3. QED BY Zenon, <1>1, <1>2, RunTypes DEF YieldSwitch

(* A thread inside P() remembers the semaphore it is inside of.               *)
SemInP == \A t \in Thread : pc[t] = "P" => sem[t] \in Semaphore

(* Every action keeps every variable in its type: removing from a list is      *)
(* always guarded by its not being empty, value and outstanding are never      *)
(* decremented at 0, and allocatedThreadID never returns MaxThread.            *)
LEMMA TypeInvariant == Spec => [](TypeOK /\ SemInP)
<1>1. Init => TypeOK /\ SemInP
  <2> SUFFICES ASSUME Init PROVE TypeOK /\ SemInP
    OBVIOUS
  <2> USE KernelAssumption, Names DEF Init
  <2>1. ThreadTypes
    BY DEF ThreadTypes
  <2>2. SchedulerTypes
    BY DEF SchedulerTypes
  <2>3. SemaphoreTypes
    BY DEF SemaphoreTypes
  <2>4. MachineTypes
    BY Zenon DEF MachineTypes
  <2>5. SemInP
    BY DEF SemInP
  <2>6. QED BY <2>1, <2>2, <2>3, <2>4, <2>5 DEF TypeOK
<1>2. TypeOK /\ SemInP /\ [Next]_vars => TypeOK'
  <2> SUFFICES ASSUME TypeOK, SemInP, [Next]_vars PROVE TypeOK'
    OBVIOUS
  <2> USE Names DEF TypeOK
  <2>a. readyList # <<>> => Head(readyList) \in Thread /\ Tail(readyList) \in Seq(Thread)
    BY RemoveItems DEF SchedulerTypes
  <2>1. ASSUME NEW t \in Thread, NewThread(t) PROVE TypeOK'
    <3> USE <2>1, KernelAssumption DEF NewThread, allocatedThreadID, semVars, intVars, userVars
    <3>1. ThreadTypes' BY DEF ThreadTypes, SchedulerTypes, MachineTypes
    <3>2. SchedulerTypes' BY Zenon DEF SchedulerTypes, ThreadTypes
    <3>3. SemaphoreTypes' BY DEF SemaphoreTypes, SchedulerTypes
    <3>4. MachineTypes' BY DEF MachineTypes, SchedulerTypes, ThreadTypes
    <3>5. QED BY Zenon, <3>1, <3>2, <3>3, <3>4
  <2>2. ASSUME NEW t \in Thread, Fork(t) PROVE TypeOK'
    <3> USE <2>2 DEF Fork, Readied, semVars, userVars
    <3>1. ThreadTypes' BY Zenon DEF ThreadTypes, SchedulerTypes, MachineTypes
    <3>2. SchedulerTypes' BY DEF SchedulerTypes, ThreadTypes
    <3>3. SemaphoreTypes' BY DEF SemaphoreTypes, SchedulerTypes
    <3>4. MachineTypes' BY DEF MachineTypes, SchedulerTypes, ThreadTypes
    <3>5. QED BY Zenon, <3>1, <3>2, <3>3, <3>4
  <2>3. ASSUME NEW s \in Semaphore, P(s) PROVE TypeOK'
    <3> USE <2>3 DEF P, PSleeps, schedVars, userVars
    <3>a. /\ value' \in [Semaphore -> Nat]
          /\ queue' \in [Semaphore -> Seq(Thread)]
          /\ outstanding' \in [Semaphore -> Nat]
          /\ pc' \in [Thread -> PC]
          /\ sem' \in [Thread -> Semaphore \cup {NULL}]
          /\ oldStatus' \in [Thread -> MachineStatus]
          /\ level' = "IntOff"
      BY PBodyTypes
    <3>1. ThreadTypes' BY <3>a DEF ThreadTypes, SchedulerTypes, MachineTypes
    <3>2. SchedulerTypes' BY <3>a DEF SchedulerTypes, ThreadTypes
    <3>3. SemaphoreTypes' BY <3>a DEF SemaphoreTypes, SchedulerTypes
    <3>4. MachineTypes' BY <3>a DEF MachineTypes, SchedulerTypes, ThreadTypes
    <3>5. QED BY <3>1, <3>2, <3>3, <3>4
  <2>4. ASSUME NEW s \in Semaphore, V(s) PROVE TypeOK'
    <3> USE <2>4 DEF V, EnterTick, userVars
    <3>a. /\ value' \in [Semaphore -> Nat]
          /\ queue' \in [Semaphore -> Seq(Thread)]
          /\ status' \in [Thread -> ThreadStatus]
          /\ readyList' \in Seq(Thread)
      BY Zenon, VBodyTypes
    <3>1. ThreadTypes' BY Zenon, <3>a DEF ThreadTypes, SchedulerTypes, MachineTypes
    <3>2. SchedulerTypes' BY Zenon, <3>a DEF SchedulerTypes, ThreadTypes
    <3>3. SemaphoreTypes' BY Zenon, <3>a DEF SemaphoreTypes, SchedulerTypes
    <3>4. MachineTypes' BY <3>a DEF MachineTypes, SchedulerTypes, ThreadTypes
    <3>5. QED BY <3>1, <3>2, <3>3, <3>4
  <2>5. ASSUME NEW s \in Semaphore, Schedule(s) PROVE TypeOK'
    <3> USE <2>5 DEF Schedule, threadVars, schedVars, intVars, userVars
    <3>1. ThreadTypes' /\ MachineTypes'
      BY DEF ThreadTypes, SchedulerTypes, MachineTypes
    <3>2. SchedulerTypes' /\ SemaphoreTypes'
      BY DEF SchedulerTypes, SemaphoreTypes
    <3>3. QED BY <3>1, <3>2
  <2>6. ASSUME NEW s \in Semaphore, TickDevice(s) PROVE TypeOK'
    <3> USE <2>6 DEF TickDevice, DeviceHandler, intVars, userVars
    <3>b. outstanding' \in [Semaphore -> Nat]
      <4>1. outstanding[s] - 1 \in Nat
        BY DEF SemaphoreTypes
      <4>2. QED BY <4>1 DEF SemaphoreTypes
    <3>a. /\ value' \in [Semaphore -> Nat]
          /\ queue' \in [Semaphore -> Seq(Thread)]
          /\ status' \in [Thread -> ThreadStatus]
          /\ readyList' \in Seq(Thread)
      BY Zenon, VBodyTypes
    <3>1. ThreadTypes' BY <3>a DEF ThreadTypes, SchedulerTypes, MachineTypes
    <3>2. SchedulerTypes' BY Zenon, <3>a DEF SchedulerTypes, ThreadTypes
    <3>3. SemaphoreTypes' BY Zenon, <3>a, <3>b DEF SemaphoreTypes, SchedulerTypes
    <3>4. MachineTypes' BY <3>a DEF MachineTypes, SchedulerTypes, ThreadTypes
    <3>5. QED BY <3>1, <3>2, <3>3, <3>4
  <2>7. ASSUME NEW s \in Semaphore, IdleDevice(s) PROVE TypeOK'
    <3> USE <2>7 DEF IdleDevice, DeviceHandler, userVars
    <3>b. outstanding' \in [Semaphore -> Nat]
      <4>1. outstanding[s] - 1 \in Nat
        BY DEF SemaphoreTypes
      <4>2. QED BY <4>1 DEF SemaphoreTypes
    <3>a. /\ value' \in [Semaphore -> Nat]
          /\ queue' \in [Semaphore -> Seq(Thread)]
          /\ status' \in [Thread -> ThreadStatus]
          /\ readyList' \in Seq(Thread)
      BY Zenon, VBodyTypes
    <3>1. ThreadTypes' BY Zenon, <3>a DEF ThreadTypes, SchedulerTypes, MachineTypes
    <3>2. SchedulerTypes' BY Zenon, <3>a DEF SchedulerTypes, ThreadTypes
    <3>3. SemaphoreTypes' BY Zenon, <3>a, <3>b DEF SemaphoreTypes, SchedulerTypes
    <3>4. MachineTypes' BY <3>a DEF MachineTypes, SchedulerTypes, ThreadTypes
    <3>5. QED BY <3>1, <3>2, <3>3, <3>4
  <2>8. ASSUME Yield PROVE TypeOK'
    <3> USE <2>8 DEF Yield, semVars, userVars
    <3>a. /\ pc' \in [Thread -> PC]
          /\ currentThread' \in Thread
          /\ status' \in [Thread -> ThreadStatus]
          /\ readyList' \in Seq(Thread)
          /\ savedRegs' \in [Thread -> Thread \cup {NULL}]
      BY Zenon, YieldSwitchTypes DEF ThreadTypes, SchedulerTypes
    <3>1. ThreadTypes' BY Zenon, <3>a DEF ThreadTypes, SchedulerTypes, MachineTypes
    <3>2. SchedulerTypes' BY <3>a DEF SchedulerTypes, ThreadTypes
    <3>3. SemaphoreTypes' BY Zenon, <3>a DEF SemaphoreTypes, SchedulerTypes
    <3>4. MachineTypes' BY Zenon, <3>a DEF MachineTypes, SchedulerTypes, ThreadTypes
    <3>5. QED BY Zenon, <3>1, <3>2, <3>3, <3>4
  <2>9. ASSUME Finish PROVE TypeOK'
    BY Zenon, <2>9 DEF Finish, semVars, userVars, ThreadTypes,
       SchedulerTypes, SemaphoreTypes, MachineTypes
  <2>10. ASSUME StartProcess PROVE TypeOK'
    BY Zenon, <2>10 DEF StartProcess, schedVars, semVars, ThreadTypes,
       SchedulerTypes, SemaphoreTypes, MachineTypes
  <2>11. ASSUME Instruction PROVE TypeOK'
    BY Zenon, <2>11 DEF Instruction, EnterTick, schedVars, semVars, userVars, ThreadTypes,
       SchedulerTypes, SemaphoreTypes, MachineTypes
  <2>12. ASSUME SyscallHalt PROVE TypeOK'
    BY Zenon, <2>12 DEF SyscallHalt, threadVars, schedVars, semVars, userVars, ThreadTypes,
       SchedulerTypes, SemaphoreTypes, MachineTypes
  <2>13. ASSUME TickTimer PROVE TypeOK'
    BY Zenon, <2>13 DEF TickTimer, threadVars, schedVars, semVars, userVars, ThreadTypes,
       SchedulerTypes, SemaphoreTypes, MachineTypes
  <2>14. ASSUME TickReturn PROVE TypeOK'
    BY Zenon, <2>14 DEF TickReturn, schedVars, semVars, userVars, ThreadTypes,
       SchedulerTypes, SemaphoreTypes, MachineTypes
  <2>15. ASSUME TickYield PROVE TypeOK'
    <3> USE <2>15 DEF TickYield, semVars, userVars
    <3>a. /\ pc' \in [Thread -> PC]
          /\ currentThread' \in Thread
          /\ status' \in [Thread -> ThreadStatus]
          /\ readyList' \in Seq(Thread)
          /\ savedRegs' \in [Thread -> Thread \cup {NULL}]
      BY Zenon, YieldSwitchTypes DEF ThreadTypes, SchedulerTypes
    <3>1. ThreadTypes' BY Zenon, <3>a DEF ThreadTypes, SchedulerTypes, MachineTypes
    <3>2. SchedulerTypes' BY Zenon, <3>a DEF SchedulerTypes, ThreadTypes
    <3>3. SemaphoreTypes' BY Zenon, <3>a DEF SemaphoreTypes, SchedulerTypes
    <3>4. MachineTypes' BY Zenon, <3>a DEF MachineTypes, SchedulerTypes, ThreadTypes
    <3>5. QED BY Zenon, <3>1, <3>2, <3>3, <3>4
  <2>16. ASSUME SleepRun PROVE TypeOK'
    <3> USE <2>16, <2>a DEF SleepRun, Run, semVars, intVars, userVars
    <3>1. ThreadTypes' BY DEF ThreadTypes, SchedulerTypes, MachineTypes
    <3>2. SchedulerTypes' BY DEF SchedulerTypes, ThreadTypes
    <3>3. SemaphoreTypes' BY Zenon DEF SemaphoreTypes, SchedulerTypes
    <3>4. MachineTypes' BY Zenon DEF MachineTypes, SchedulerTypes, ThreadTypes
    <3>5. QED BY Zenon, <3>1, <3>2, <3>3, <3>4
  <2>17. ASSUME IdleTimer PROVE TypeOK'
    BY Zenon, <2>17 DEF IdleTimer, threadVars, schedVars, semVars, userVars, ThreadTypes,
       SchedulerTypes, SemaphoreTypes, MachineTypes
  <2>18. ASSUME IdleReturn PROVE TypeOK'
    BY Zenon, <2>18 DEF IdleReturn, threadVars, schedVars, semVars, userVars, ThreadTypes,
       SchedulerTypes, SemaphoreTypes, MachineTypes
  <2>19. ASSUME IdleHalt PROVE TypeOK'
    BY Zenon, <2>19 DEF IdleHalt, threadVars, schedVars, semVars, userVars, ThreadTypes,
       SchedulerTypes, SemaphoreTypes, MachineTypes
  <2>20. ASSUME ThreadRoot PROVE TypeOK'
    BY Zenon, <2>20 DEF ThreadRoot, EnterTick, schedVars, semVars, userVars, ThreadTypes,
       SchedulerTypes, SemaphoreTypes, MachineTypes
  <2>21. ASSUME ResumeYield PROVE TypeOK'
    BY Zenon, <2>21 DEF ResumeYield, AfterSWITCH, Reaped, semVars, intVars, ThreadTypes,
       SchedulerTypes, SemaphoreTypes, MachineTypes
  <2>22. ASSUME ResumeP PROVE TypeOK'
    <3> USE <2>22 DEF ResumeP, AfterSWITCH, PSleeps, Reaped
    <3>a. /\ value' \in [Semaphore -> Nat]
          /\ queue' \in [Semaphore -> Seq(Thread)]
          /\ outstanding' \in [Semaphore -> Nat]
          /\ pc' \in [Thread -> PC]
          /\ sem' \in [Thread -> Semaphore \cup {NULL}]
          /\ oldStatus' \in [Thread -> MachineStatus]
          /\ level' = "IntOff"
      BY Zenon, PBodyTypes DEF SemInP, Running, SchedulerTypes
    <3>1. ThreadTypes' BY Zenon, <3>a DEF ThreadTypes, SchedulerTypes, MachineTypes
    <3>2. SchedulerTypes' BY Zenon, <3>a DEF SchedulerTypes, ThreadTypes
    <3>3. SemaphoreTypes' BY Zenon, <3>a DEF SemaphoreTypes, SchedulerTypes
    <3>4. MachineTypes' BY Zenon, <3>a DEF MachineTypes, SchedulerTypes, ThreadTypes
    <3>5. QED BY <3>1, <3>2, <3>3, <3>4
  <2>23. CASE UNCHANGED vars
    BY <2>23 DEF vars, threadVars, schedVars, semVars, intVars, userVars,
            ThreadTypes, SchedulerTypes, SemaphoreTypes, MachineTypes
  <2>24. QED
    BY <2>1, <2>2, <2>3, <2>4, <2>5, <2>6, <2>7, <2>8, <2>9, <2>10, <2>11, <2>12,
       <2>13, <2>14, <2>15, <2>16, <2>17, <2>18, <2>19, <2>20, <2>21, <2>22, <2>23 DEF Next, Halted
<1>3. TypeOK /\ SemInP /\ [Next]_vars => SemInP'
  <2> SUFFICES ASSUME TypeOK, SemInP, [Next]_vars PROVE SemInP'
    OBVIOUS
  <2> USE DEF SemInP, TypeOK, ThreadTypes, SchedulerTypes
  <2>1. CASE UNCHANGED <<pc, sem>>
    BY <2>1
  <2>2. ASSUME NEW t \in Thread, NEW where \in PC \ {"P"},
               pc' = [pc EXCEPT ![t] = where], UNCHANGED sem
        PROVE  SemInP'
    BY Zenon, <2>2
  <2>3. ASSUME NEW s \in Semaphore, PBody(s) PROVE SemInP'
    BY Zenon, <2>3 DEF PBody, EnterTick
  <2>4. ASSUME NEW t \in Thread, Fork(t) PROVE SemInP'
    BY Zenon, <2>4 DEF Fork
  <2>5. ASSUME Yield PROVE SemInP'
    BY Zenon, <2>5, <2>2, Names DEF Yield, YieldSwitch
  <2>6. ASSUME TickYield PROVE SemInP'
    BY Zenon, <2>6, <2>1, <2>2, Names DEF TickYield, YieldSwitch
  <2>7. ASSUME ResumeP PROVE SemInP'
    BY <2>7, <2>3 DEF ResumeP, Running
  <2>8. ASSUME NEW t \in Thread, NewThread(t) PROVE SemInP'
    BY <2>8, <2>2, Names DEF NewThread
  <2>9. ASSUME NEW s \in Semaphore,
               P(s) \/ V(s) \/ Schedule(s) \/ TickDevice(s) \/ IdleDevice(s)
        PROVE  SemInP'
    BY Zenon, <2>9, <2>1, <2>2, <2>3, Names
    DEF P, V, EnterTick, Schedule, TickDevice, IdleDevice, threadVars
  <2>10. CASE Finish \/ StartProcess \/ Instruction \/ TickReturn \/ ThreadRoot \/ ResumeYield
    BY Zenon, <2>10, <2>2, Names
    DEF Finish, StartProcess, Instruction, TickReturn, ThreadRoot, ResumeYield, EnterTick
  <2>11. CASE SyscallHalt \/ TickTimer \/ SleepRun \/ IdleTimer \/ IdleReturn \/ IdleHalt
    BY Zenon, <2>11, <2>1
    DEF SyscallHalt, TickTimer, SleepRun, IdleTimer, IdleReturn, IdleHalt, threadVars
  <2>12. CASE UNCHANGED vars
    BY <2>12, <2>1 DEF vars, threadVars
  <2>13. QED
    BY Zenon, <2>4, <2>5, <2>6, <2>7, <2>8, <2>9, <2>10, <2>11, <2>12 DEF Next, Halted
<1>4. QED BY <1>1, <1>2, <1>3, PTL DEF Spec

(* The type invariant of Kernel, for all constants.                            *)
THEOREM TypeCorrect == Spec => []TypeOK
BY TypeInvariant, PTL
-----------------------------------------------------------------------------
(* Threads, lists and statuses stay in step.  The three properties are         *)
(* inductive together: that V() readies a thread that is on no other list      *)
(* needs its status to be BLOCKED because it is queued, that P() may queue the *)
(* current thread needs it to be on no list because it is RUNNING, and that    *)
(* deleting the carcass leaves no pointer behind needs it to be BLOCKED and    *)
(* not in P().                                                                 *)
Structure == PlaceFollowsStatus /\ ThreadsInOnePlace /\ CarcassIsDead

(* A step that moves no thread: at most the running thread gets elsewhere in   *)
(* its code, from a place outside P() to one outside P().                      *)
LEMMA QuietStep ==
    ASSUME TypeOK, Structure,
           UNCHANGED <<status, readyList, queue, currentThread, sem, threadToBeDestroyed>>,
           \/ UNCHANGED pc
           \/ /\ status[currentThread] = "RUNNING"
              /\ pc[currentThread] # "P"
              /\ \E w \in {"kernel", "user", "tick"} : pc' = [pc EXCEPT ![currentThread] = w]
    PROVE  Structure'
<1>t. /\ status \in [Thread -> ThreadStatus] /\ pc \in [Thread -> PC]
      /\ sem \in [Thread -> Semaphore \cup {NULL}]
      /\ currentThread \in Thread /\ threadToBeDestroyed \in Thread \cup {NULL}
      /\ readyList \in Seq(Thread)
      /\ queue \in [Semaphore -> Seq(Thread)] /\ value \in [Semaphore -> Nat]
  BY Zenon DEF TypeOK, ThreadTypes, SchedulerTypes, SemaphoreTypes
<1> USE <1>t
<1>1. CASE UNCHANGED pc
  <2>1. PlaceFollowsStatus'
    BY Zenon, <1>1 DEF Structure, PlaceFollowsStatus
  <2>2. ThreadsInOnePlace'
    BY <1>1 DEF Structure, ThreadsInOnePlace, ItemsOf, NoDuplicates
  <2>3. CarcassIsDead'
    BY Zenon, <1>1 DEF Structure, CarcassIsDead
  <2>4. QED BY Zenon, <2>1, <2>2, <2>3 DEF Structure
<1>2. ASSUME status[currentThread] = "RUNNING", pc[currentThread] # "P",
             NEW w \in {"kernel", "user", "tick"}, pc' = [pc EXCEPT ![currentThread] = w]
      PROVE  Structure'
  <2>1. PlaceFollowsStatus'
    BY Zenon, <1>2 DEF Structure, PlaceFollowsStatus
  <2>2. ThreadsInOnePlace'
    BY <1>2 DEF Structure, ThreadsInOnePlace, ItemsOf, NoDuplicates
  <2>3. CarcassIsDead'
    BY Zenon, <1>2 DEF Structure, CarcassIsDead
  <2>4. QED BY Zenon, <2>1, <2>2, <2>3 DEF Structure
<1>3. QED BY Zenon, <1>1, <1>2

(* V(): the head of the queue moves to the tail of the ready list.             *)
LEMMA WakeStep ==
    ASSUME TypeOK, Structure, NEW s \in Semaphore, VBody(s), queue[s] # <<>>,
           UNCHANGED <<currentThread, sem, threadToBeDestroyed>>,
           \/ UNCHANGED pc
           \/ /\ status[currentThread] = "RUNNING"
              /\ pc[currentThread] # "P"
              /\ pc' = [pc EXCEPT ![currentThread] = "tick"]
    PROVE  Structure'
<1> DEFINE h == Head(queue[s])
<1>t. /\ status \in [Thread -> ThreadStatus] /\ pc \in [Thread -> PC]
      /\ sem \in [Thread -> Semaphore \cup {NULL}]
      /\ currentThread \in Thread /\ threadToBeDestroyed \in Thread \cup {NULL}
      /\ readyList \in Seq(Thread)
      /\ queue \in [Semaphore -> Seq(Thread)] /\ value \in [Semaphore -> Nat]
  BY Zenon DEF TypeOK, ThreadTypes, SchedulerTypes, SemaphoreTypes
<1> USE <1>t
<1>1. /\ h \in Thread
      /\ h \in ItemsOf(queue[s])
      /\ NoDuplicates(Tail(queue[s]))
      /\ ItemsOf(Tail(queue[s])) = ItemsOf(queue[s]) \ {h}
  BY Zenon, RemoveItems DEF Structure, ThreadsInOnePlace
<1>2. status[h] = "BLOCKED" /\ pc[h] = "P" /\ sem[h] = s
  BY Zenon, <1>1 DEF Structure, ThreadsInOnePlace
<1>3. /\ queue' = [queue EXCEPT ![s] = Tail(queue[s])]
      /\ status' = [status EXCEPT ![h] = "READY"]
      /\ readyList' = Append(readyList, h)
  BY Zenon DEF VBody, Readied
<1>4. h \notin ItemsOf(readyList)
  BY Zenon, <1>1, <1>2 DEF Structure, ThreadsInOnePlace
<1>5. NoDuplicates(readyList') /\ ItemsOf(readyList') = ItemsOf(readyList) \cup {h}
  BY <1>1, <1>3, <1>4, AppendItems DEF Structure, ThreadsInOnePlace
<1>6. pc'[h] = "P" /\ \A t \in Thread : pc'[t] = "P" <=> pc[t] = "P"
  BY Zenon, <1>1, <1>2
<1>7. PlaceFollowsStatus'
  BY Zenon, <1>1, <1>2, <1>3, <1>6 DEF Structure, PlaceFollowsStatus
<1>8. CarcassIsDead'
  BY Zenon, <1>1, <1>2, <1>3 DEF Structure, CarcassIsDead
<1>9. ThreadsInOnePlace'
  <2>1. \A t \in Thread : status'[t] = "READY" <=> t \in ItemsOf(readyList')
    BY <1>1, <1>3, <1>5 DEF Structure, ThreadsInOnePlace
  <2>2. ASSUME NEW r \in Semaphore
        PROVE  /\ NoDuplicates(queue'[r])
               /\ \A t \in Thread : t \in ItemsOf(queue'[r]) <=>
                      status'[t] = "BLOCKED" /\ pc'[t] = "P" /\ sem'[t] = r
    <3>1. CASE r = s
      BY <1>1, <1>2, <1>3, <1>6, <3>1 DEF Structure, ThreadsInOnePlace
    <3>2. CASE r # s
      BY <1>1, <1>2, <1>3, <1>6, <3>2 DEF Structure, ThreadsInOnePlace
    <3>3. QED BY Zenon, <3>1, <3>2
  <2>3. \A t \in Thread : status'[t] = "RUNNING" => t = currentThread'
    BY <1>1, <1>3 DEF Structure, ThreadsInOnePlace
  <2>4. QED BY Zenon, <1>5, <2>1, <2>2, <2>3 DEF ThreadsInOnePlace
<1>10. QED BY Zenon, <1>7, <1>8, <1>9 DEF Structure

(* V() with nobody waiting only adds to the value.                             *)
LEMMA VStep ==
    ASSUME TypeOK, Structure, NEW s \in Semaphore, VBody(s),
           UNCHANGED <<currentThread, sem, threadToBeDestroyed>>,
           \/ UNCHANGED pc
           \/ /\ status[currentThread] = "RUNNING"
              /\ pc[currentThread] # "P"
              /\ pc' = [pc EXCEPT ![currentThread] = "tick"]
    PROVE  Structure'
<1>1. CASE queue[s] # <<>>
  BY Zenon, <1>1, WakeStep
<1>2. CASE queue[s] = <<>>
  <2>1. UNCHANGED <<queue, status, readyList>>
    BY Zenon, <1>2 DEF VBody
  <2>2. QED BY Zenon, <2>1, QuietStep
<1>3. QED BY Zenon, <1>1, <1>2

(* Yield: the running thread goes to the tail of the ready list, the head of   *)
(* the list gets the CPU.                                                      *)
LEMMA YieldStep ==
    ASSUME TypeOK, Structure, status[currentThread] = "RUNNING", pc[currentThread] # "P",
           YieldSwitch, UNCHANGED <<queue, sem, threadToBeDestroyed>>
    PROVE  Structure'
<1> DEFINE c == currentThread
           n == Head(readyList)
           rest == Tail(readyList)
<1>t. /\ status \in [Thread -> ThreadStatus] /\ pc \in [Thread -> PC]
      /\ sem \in [Thread -> Semaphore \cup {NULL}]
      /\ currentThread \in Thread /\ threadToBeDestroyed \in Thread \cup {NULL}
      /\ readyList \in Seq(Thread)
      /\ queue \in [Semaphore -> Seq(Thread)] /\ value \in [Semaphore -> Nat]
  BY Zenon DEF TypeOK, ThreadTypes, SchedulerTypes, SemaphoreTypes
<1> USE <1>t
<1>1. /\ n \in Thread
      /\ n \in ItemsOf(readyList)
      /\ rest \in Seq(Thread)
      /\ NoDuplicates(rest)
      /\ ItemsOf(rest) = ItemsOf(readyList) \ {n}
  BY Zenon, RemoveItems DEF Structure, ThreadsInOnePlace, YieldSwitch
<1>2. status[n] = "READY" /\ n # c /\ c \notin ItemsOf(rest)
  BY Zenon, <1>1 DEF Structure, ThreadsInOnePlace
<1>3. /\ status' = [[status EXCEPT ![c] = "READY"] EXCEPT ![n] = "RUNNING"]
      /\ readyList' = Append(rest, c)
      /\ currentThread' = n
      /\ pc' = [pc EXCEPT ![c] = "yield"]
  BY Zenon DEF YieldSwitch, Run, Readied
<1>4. /\ status'[n] = "RUNNING" /\ status'[c] = "READY"
      /\ \A t \in Thread \ {n, c} : status'[t] = status[t]
  BY Zenon, <1>1, <1>2, <1>3
<1>5. NoDuplicates(readyList') /\ ItemsOf(readyList') = (ItemsOf(readyList) \ {n}) \cup {c}
  <2>1. NoDuplicates(Append(rest, c)) /\ ItemsOf(Append(rest, c)) = ItemsOf(rest) \cup {c}
    <3> HIDE DEF rest, n
    <3>1. QED BY <1>1, <1>2, AppendItems
  <2>2. QED BY Zenon, <1>1, <1>3, <2>1
<1>6. PlaceFollowsStatus'
  BY Zenon, <1>1, <1>2, <1>3, <1>4 DEF Structure, PlaceFollowsStatus
<1>7. CarcassIsDead'
  BY Zenon, <1>1, <1>2, <1>3, <1>4 DEF Structure, CarcassIsDead
<1>8. ThreadsInOnePlace'
  <2>1. \A t \in Thread : status'[t] = "READY" <=> t \in ItemsOf(readyList')
    BY <1>1, <1>2, <1>4, <1>5 DEF Structure, ThreadsInOnePlace
  <2>2. \A r \in Semaphore :
            /\ NoDuplicates(queue'[r])
            /\ \A t \in Thread : t \in ItemsOf(queue'[r]) <=>
                   status'[t] = "BLOCKED" /\ pc'[t] = "P" /\ sem'[t] = r
    BY <1>1, <1>2, <1>3, <1>4 DEF Structure, ThreadsInOnePlace
  <2>3. \A t \in Thread : status'[t] = "RUNNING" => t = currentThread'
    <3>1. \A t \in Thread : status[t] = "RUNNING" => t = c
      BY Zenon DEF Structure, ThreadsInOnePlace
    <3>2. \A t \in Thread : status'[t] = "RUNNING" => t = n
      <4> HIDE DEF n, c
      <4>1. QED BY Zenon, <1>4, <3>1
    <3>3. QED BY Zenon, <1>3, <3>2
  <2>4. QED BY Zenon, <1>5, <2>1, <2>2, <2>3 DEF ThreadsInOnePlace
<1>9. QED BY Zenon, <1>6, <1>7, <1>8 DEF Structure

(* Sleep: the head of the ready list gets the CPU nobody was running on; it    *)
(* may be the sleeping thread itself, readied while it idled.                  *)
LEMMA SleepStep ==
    ASSUME TypeOK, Structure, SleepRun
    PROVE  Structure'
<1> DEFINE n == Head(readyList)
<1>t. /\ status \in [Thread -> ThreadStatus] /\ pc \in [Thread -> PC]
      /\ sem \in [Thread -> Semaphore \cup {NULL}]
      /\ currentThread \in Thread /\ threadToBeDestroyed \in Thread \cup {NULL}
      /\ readyList \in Seq(Thread)
      /\ queue \in [Semaphore -> Seq(Thread)] /\ value \in [Semaphore -> Nat]
  BY Zenon DEF TypeOK, ThreadTypes, SchedulerTypes, SemaphoreTypes
<1> USE <1>t
<1>1. /\ n \in Thread
      /\ n \in ItemsOf(readyList)
      /\ NoDuplicates(Tail(readyList))
      /\ ItemsOf(Tail(readyList)) = ItemsOf(readyList) \ {n}
  BY RemoveItems DEF Structure, ThreadsInOnePlace, SleepRun
<1>2. status[n] = "READY"
  BY Zenon, <1>1 DEF Structure, ThreadsInOnePlace
<1>3. /\ status' = [status EXCEPT ![n] = "RUNNING"]
      /\ readyList' = Tail(readyList)
      /\ currentThread' = n
      /\ UNCHANGED <<pc, sem, queue, threadToBeDestroyed>>
  BY Zenon DEF SleepRun, Run, semVars
<1>4. \A t \in Thread : status[t] # "RUNNING"
  BY Zenon DEF Structure, ThreadsInOnePlace, SleepRun, Sleeping
<1>5. PlaceFollowsStatus'
  BY Zenon, <1>1, <1>2, <1>3 DEF Structure, PlaceFollowsStatus
<1>6. CarcassIsDead'
  BY Zenon, <1>1, <1>2, <1>3 DEF Structure, CarcassIsDead
<1>7. ThreadsInOnePlace'
  <2>1. \A t \in Thread : status'[t] = "READY" <=> t \in ItemsOf(readyList')
    BY <1>1, <1>2, <1>3 DEF Structure, ThreadsInOnePlace
  <2>2. \A r \in Semaphore :
            /\ NoDuplicates(queue'[r])
            /\ \A t \in Thread : t \in ItemsOf(queue'[r]) <=>
                   status'[t] = "BLOCKED" /\ pc'[t] = "P" /\ sem'[t] = r
    BY <1>1, <1>2, <1>3 DEF Structure, ThreadsInOnePlace
  <2>3. \A t \in Thread : status'[t] = "RUNNING" => t = currentThread'
    BY Zenon, <1>1, <1>3, <1>4
  <2>4. QED BY Zenon, <1>1, <1>3, <2>1, <2>2, <2>3 DEF ThreadsInOnePlace
<1>8. QED BY Zenon, <1>5, <1>6, <1>7 DEF Structure

(* What Run() deletes after SWITCH is a thread past Finish, never the one that *)
(* runs.                                                                       *)
LEMMA ReapedFacts ==
    ASSUME TypeOK, Structure, status[currentThread] = "RUNNING"
    PROVE  /\ Reaped(status) \in [Thread -> ThreadStatus]
           /\ Reaped(status)[currentThread] = "RUNNING"
           /\ \A t \in Thread :
                 \/ Reaped(status)[t] = status[t]
                 \/ Reaped(status)[t] = "NONE" /\ status[t] = "BLOCKED" /\ pc[t] = "done"
BY Zenon, Names DEF Reaped, Structure, CarcassIsDead, TypeOK, ThreadTypes, SchedulerTypes

(* A turn of P's loop, after the carcass, if any, was deleted (st).            *)
LEMMA PStep ==
    ASSUME TypeOK, Structure, NEW s \in Semaphore, PBody(s),
           NEW st \in [Thread -> ThreadStatus],
           status[currentThread] = "RUNNING", st[currentThread] = "RUNNING",
           \A t \in Thread : \/ st[t] = status[t]
                             \/ st[t] = "NONE" /\ status[t] = "BLOCKED" /\ pc[t] = "done",
           \/ st = status /\ UNCHANGED threadToBeDestroyed
           \/ threadToBeDestroyed' = NULL,
           status' = PSleeps(s, st), UNCHANGED <<currentThread, readyList>>
    PROVE  Structure'
<1> DEFINE c == currentThread
<1>t. /\ status \in [Thread -> ThreadStatus] /\ pc \in [Thread -> PC]
      /\ sem \in [Thread -> Semaphore \cup {NULL}]
      /\ currentThread \in Thread /\ threadToBeDestroyed \in Thread \cup {NULL}
      /\ readyList \in Seq(Thread)
      /\ queue \in [Semaphore -> Seq(Thread)] /\ value \in [Semaphore -> Nat]
  BY Zenon DEF TypeOK, ThreadTypes, SchedulerTypes, SemaphoreTypes
<1> USE <1>t
<1>1. CASE value[s] # 0
  <2>1. /\ status' = st
        /\ pc' = [pc EXCEPT ![c] = "tick"]
        /\ sem' = [sem EXCEPT ![c] = NULL]
        /\ UNCHANGED queue
    BY Zenon, <1>1 DEF PBody, PSleeps, EnterTick
  <2>2. PlaceFollowsStatus'
    BY Zenon, <2>1 DEF Structure, PlaceFollowsStatus
  <2>3. CarcassIsDead'
    BY <2>1 DEF Structure, CarcassIsDead
  <2>4. ThreadsInOnePlace'
    <3>1. \A t \in Thread : status'[t] = "READY" <=> t \in ItemsOf(readyList')
      BY <2>1 DEF Structure, ThreadsInOnePlace
    <3>2. \A r \in Semaphore :
              /\ NoDuplicates(queue'[r])
              /\ \A t \in Thread : t \in ItemsOf(queue'[r]) <=>
                     status'[t] = "BLOCKED" /\ pc'[t] = "P" /\ sem'[t] = r
      BY <2>1 DEF Structure, ThreadsInOnePlace
    <3>3. \A t \in Thread : status'[t] = "RUNNING" => t = currentThread'
      BY <2>1 DEF Structure, ThreadsInOnePlace
    <3>4. QED BY Zenon, <3>1, <3>2, <3>3 DEF Structure, ThreadsInOnePlace
  <2>5. QED BY Zenon, <2>2, <2>3, <2>4 DEF Structure
<1>2. CASE value[s] = 0
  <2>1. /\ status' = [st EXCEPT ![c] = "BLOCKED"]
        /\ pc' = [pc EXCEPT ![c] = "P"]
        /\ sem' = [sem EXCEPT ![c] = s]
        /\ queue' = [queue EXCEPT ![s] = Append(queue[s], c)]
    BY Zenon, <1>2 DEF PBody, PSleeps
  <2>2. PlaceFollowsStatus'
    BY <2>1 DEF Structure, PlaceFollowsStatus
  <2>3. CarcassIsDead'
    BY Zenon, <2>1 DEF Structure, CarcassIsDead
  <2>4. c \notin ItemsOf(queue[s])
    BY Zenon DEF Structure, ThreadsInOnePlace
  <2>5. /\ NoDuplicates(Append(queue[s], c))
        /\ ItemsOf(Append(queue[s], c)) = ItemsOf(queue[s]) \cup {c}
    BY <2>4, AppendItems DEF Structure, ThreadsInOnePlace
  <2>6. ThreadsInOnePlace'
    <3>1. \A t \in Thread : status'[t] = "READY" <=> t \in ItemsOf(readyList')
      BY <2>1 DEF Structure, ThreadsInOnePlace
    <3>2. ASSUME NEW r \in Semaphore
          PROVE  /\ NoDuplicates(queue'[r])
                 /\ \A t \in Thread : t \in ItemsOf(queue'[r]) <=>
                        status'[t] = "BLOCKED" /\ pc'[t] = "P" /\ sem'[t] = r
      <4>1. CASE r = s
        BY <2>1, <2>5, <4>1 DEF Structure, ThreadsInOnePlace
      <4>2. CASE r # s
        BY <2>1, <4>2 DEF Structure, ThreadsInOnePlace
      <4>3. QED BY Zenon, <4>1, <4>2
    <3>3. \A t \in Thread : status'[t] = "RUNNING" => t = currentThread'
      BY <2>1 DEF Structure, ThreadsInOnePlace
    <3>4. QED BY Zenon, <3>1, <3>2, <3>3 DEF Structure, ThreadsInOnePlace
  <2>7. QED BY <2>2, <2>3, <2>6 DEF Structure
<1>3. QED BY Zenon, <1>1, <1>2

(* Every action keeps the threads, the lists and the statuses in step.         *)
LEMMA StructureInvariant == Spec => [](TypeOK /\ SemInP /\ Structure)
<1>1. Init => Structure
  <2> SUFFICES ASSUME Init PROVE Structure
    BY Zenon
  <2> USE KernelAssumption, EmptyItems DEF Init
  <2>1. PlaceFollowsStatus
    BY Zenon DEF PlaceFollowsStatus
  <2>2. ThreadsInOnePlace
    BY Zenon DEF ThreadsInOnePlace
  <2>3. CarcassIsDead
    BY Zenon DEF CarcassIsDead
  <2>4. QED BY <2>1, <2>2, <2>3 DEF Structure
<1>2. TypeOK /\ SemInP /\ Structure /\ [Next]_vars => Structure'
  <2> SUFFICES ASSUME TypeOK, SemInP, Structure, [Next]_vars PROVE Structure'
    BY Zenon
  <2> DEFINE c == currentThread
  <2>1. ASSUME NEW t \in Thread, NewThread(t) PROVE Structure'
    <3>t. /\ status \in [Thread -> ThreadStatus] /\ pc \in [Thread -> PC]
          /\ sem \in [Thread -> Semaphore \cup {NULL}]
          /\ currentThread \in Thread /\ threadToBeDestroyed \in Thread \cup {NULL}
          /\ readyList \in Seq(Thread)
          /\ queue \in [Semaphore -> Seq(Thread)] /\ value \in [Semaphore -> Nat]
      BY Zenon DEF TypeOK, ThreadTypes, SchedulerTypes, SemaphoreTypes
    <3> USE <3>t
    <3>1. /\ status' = [status EXCEPT ![t] = "JUST_CREATED"]
          /\ pc' = [pc EXCEPT ![t] = "new"]
          /\ status[t] = "NONE" /\ status[c] = "RUNNING"
          /\ UNCHANGED <<readyList, queue, sem, currentThread, threadToBeDestroyed>>
      BY Zenon, <2>1 DEF NewThread, Running, semVars
    <3>2. PlaceFollowsStatus'
      BY Zenon, <3>1 DEF Structure, PlaceFollowsStatus
    <3>3. ThreadsInOnePlace'
      BY <3>1 DEF Structure, ThreadsInOnePlace
    <3>4. CarcassIsDead'
      BY Zenon, <3>1 DEF Structure, CarcassIsDead
    <3>5. QED BY Zenon, <3>2, <3>3, <3>4 DEF Structure
  <2>2. ASSUME NEW t \in Thread, Fork(t) PROVE Structure'
    <3>t. /\ status \in [Thread -> ThreadStatus] /\ pc \in [Thread -> PC]
          /\ sem \in [Thread -> Semaphore \cup {NULL}]
          /\ currentThread \in Thread /\ threadToBeDestroyed \in Thread \cup {NULL}
          /\ readyList \in Seq(Thread)
          /\ queue \in [Semaphore -> Seq(Thread)] /\ value \in [Semaphore -> Nat]
      BY DEF TypeOK, ThreadTypes, SchedulerTypes, SemaphoreTypes
    <3> USE <3>t
    <3>1. /\ status' = [status EXCEPT ![t] = "READY"]
          /\ pc' = [[pc EXCEPT ![t] = "root"] EXCEPT ![c] = "tick"]
          /\ readyList' = Append(readyList, t)
          /\ status[t] = "JUST_CREATED" /\ status[c] = "RUNNING" /\ pc[c] = "kernel"
          /\ UNCHANGED <<queue, sem, currentThread, threadToBeDestroyed>>
      BY Zenon, <2>2 DEF Fork, Running, semVars, Readied
    <3>2. t \notin ItemsOf(readyList)
      BY Zenon, <3>1 DEF Structure, ThreadsInOnePlace
    <3>3. NoDuplicates(readyList') /\ ItemsOf(readyList') = ItemsOf(readyList) \cup {t}
      BY <3>1, <3>2, AppendItems DEF Structure, ThreadsInOnePlace
    <3>4. PlaceFollowsStatus'
      BY Zenon, <3>1 DEF Structure, PlaceFollowsStatus
    <3>5. ThreadsInOnePlace'
      BY <3>1, <3>3 DEF Structure, ThreadsInOnePlace
    <3>6. CarcassIsDead'
      BY Zenon, <3>1 DEF Structure, CarcassIsDead
    <3>7. QED BY <3>4, <3>5, <3>6 DEF Structure
  <2>3. ASSUME NEW s \in Semaphore, P(s) PROVE Structure'
    <3>1. status \in [Thread -> ThreadStatus]
      BY Zenon DEF TypeOK, ThreadTypes
    <3>2. QED BY <2>3, <3>1, PStep DEF P, Running, schedVars
  <2>4. ASSUME NEW s \in Semaphore, V(s) PROVE Structure'
    BY Zenon, <2>4, VStep DEF V, Running, EnterTick
  <2>5. ASSUME NEW s \in Semaphore, Schedule(s) PROVE Structure'
    BY Zenon, <2>5, QuietStep DEF Schedule, threadVars, schedVars
  <2>6. ASSUME NEW s \in Semaphore, TickDevice(s) PROVE Structure'
    BY Zenon, <2>6, VStep DEF TickDevice, DeviceHandler
  <2>7. ASSUME NEW s \in Semaphore, IdleDevice(s) PROVE Structure'
    BY Zenon, <2>7, VStep DEF IdleDevice, DeviceHandler
  <2>8. CASE Yield
    <3>1. CASE YieldSwitch
      BY Zenon, <2>8, <3>1, YieldStep DEF Yield, Running, semVars
    <3>2. CASE readyList = <<>>
      BY Zenon, <2>8, <3>2, QuietStep DEF Yield, Running, semVars, YieldSwitch
    <3>3. QED BY Zenon, <2>8, <3>1, <3>2 DEF Yield
  <2>9. CASE Finish
    <3>t. /\ status \in [Thread -> ThreadStatus] /\ pc \in [Thread -> PC]
          /\ sem \in [Thread -> Semaphore \cup {NULL}]
          /\ currentThread \in Thread /\ threadToBeDestroyed \in Thread \cup {NULL}
          /\ readyList \in Seq(Thread)
          /\ queue \in [Semaphore -> Seq(Thread)] /\ value \in [Semaphore -> Nat]
      BY Zenon DEF TypeOK, ThreadTypes, SchedulerTypes, SemaphoreTypes
    <3> USE <3>t
    <3>1. /\ status' = [status EXCEPT ![c] = "BLOCKED"]
          /\ pc' = [pc EXCEPT ![c] = "done"]
          /\ threadToBeDestroyed' = c
          /\ status[c] = "RUNNING"
          /\ UNCHANGED <<readyList, queue, sem, currentThread>>
      BY Zenon, <2>9 DEF Finish, Running, semVars
    <3>2. PlaceFollowsStatus'
      BY Zenon, <3>1 DEF Structure, PlaceFollowsStatus
    <3>3. ThreadsInOnePlace'
      BY <3>1 DEF Structure, ThreadsInOnePlace
    <3>4. CarcassIsDead'
      BY Zenon, <3>1 DEF Structure, CarcassIsDead
    <3>5. QED BY Zenon, <3>2, <3>3, <3>4 DEF Structure
  <2>10. CASE StartProcess
    BY Zenon, <2>10, QuietStep DEF StartProcess, Running, schedVars, semVars
  <2>11. CASE Instruction
    BY Zenon, <2>11, QuietStep DEF Instruction, Running, EnterTick, schedVars, semVars
  <2>12. CASE SyscallHalt
    BY Zenon, <2>12, QuietStep DEF SyscallHalt, threadVars, schedVars, semVars
  <2>13. CASE TickTimer
    BY Zenon, <2>13, QuietStep DEF TickTimer, threadVars, schedVars, semVars
  <2>14. CASE TickReturn
    BY Zenon, <2>14, QuietStep DEF TickReturn, Running, schedVars, semVars
  <2>15. CASE TickYield
    <3>1. CASE YieldSwitch
      BY Zenon, <2>15, <3>1, YieldStep DEF TickYield, Running, semVars
    <3>2. CASE readyList = <<>>
      BY <2>15, <3>2, QuietStep DEF TickYield, semVars, YieldSwitch
    <3>3. QED BY Zenon, <2>15, <3>1, <3>2 DEF TickYield
  <2>16. CASE SleepRun
    BY Zenon, <2>16, SleepStep
  <2>17. CASE IdleTimer
    BY Zenon, <2>17, QuietStep DEF IdleTimer, threadVars, schedVars, semVars
  <2>18. CASE IdleReturn
    BY Zenon, <2>18, QuietStep DEF IdleReturn, threadVars, schedVars, semVars
  <2>19. CASE IdleHalt
    BY Zenon, <2>19, QuietStep DEF IdleHalt, threadVars, schedVars, semVars
  <2>20. CASE ThreadRoot
    BY Zenon, <2>20, QuietStep DEF ThreadRoot, Running, EnterTick, schedVars, semVars
  <2>21. CASE ResumeYield
    <3>t. /\ status \in [Thread -> ThreadStatus] /\ pc \in [Thread -> PC]
          /\ sem \in [Thread -> Semaphore \cup {NULL}]
          /\ currentThread \in Thread /\ threadToBeDestroyed \in Thread \cup {NULL}
          /\ readyList \in Seq(Thread)
          /\ queue \in [Semaphore -> Seq(Thread)] /\ value \in [Semaphore -> Nat]
      BY DEF TypeOK, ThreadTypes, SchedulerTypes, SemaphoreTypes
    <3> USE <3>t
    <3>1. /\ status' = Reaped(status)
          /\ pc' = [pc EXCEPT ![c] = "tick"]
          /\ threadToBeDestroyed' = NULL
          /\ status[c] = "RUNNING" /\ pc[c] = "yield"
          /\ UNCHANGED <<readyList, queue, sem, currentThread>>
      BY Zenon, <2>21 DEF ResumeYield, AfterSWITCH, Running, semVars
    <3>2. /\ status'[c] = "RUNNING"
          /\ \A t \in Thread : \/ status'[t] = status[t]
                               \/ status'[t] = "NONE" /\ status[t] = "BLOCKED" /\ pc[t] = "done"
      BY Zenon, <3>1, ReapedFacts
    <3>3. PlaceFollowsStatus'
      BY Zenon, <3>1, <3>2 DEF Structure, PlaceFollowsStatus
    <3>4. ThreadsInOnePlace'
      BY <3>1, <3>2 DEF Structure, ThreadsInOnePlace
    <3>5. CarcassIsDead'
      BY Zenon, <3>1, <3>2 DEF CarcassIsDead
    <3>6. QED BY <3>3, <3>4, <3>5 DEF Structure
  <2>22. CASE ResumeP
    <3>1. status[c] = "RUNNING" /\ sem[c] \in Semaphore
      BY Zenon, <2>22 DEF ResumeP, Running, SemInP, TypeOK, SchedulerTypes
    <3>2. /\ Reaped(status) \in [Thread -> ThreadStatus]
          /\ Reaped(status)[c] = "RUNNING"
          /\ \A t \in Thread :
                \/ Reaped(status)[t] = status[t]
                \/ Reaped(status)[t] = "NONE" /\ status[t] = "BLOCKED" /\ pc[t] = "done"
      BY Zenon, <3>1, ReapedFacts
    <3>3. /\ PBody(sem[c])
          /\ status' = PSleeps(sem[c], Reaped(status))
          /\ threadToBeDestroyed' = NULL
          /\ UNCHANGED <<currentThread, readyList>>
      BY Zenon, <2>22 DEF ResumeP, AfterSWITCH
    <3>4. QED BY Zenon, <3>1, <3>2, <3>3, PStep
  <2>23. CASE Halted \/ UNCHANGED vars
    BY <2>23, QuietStep DEF Halted, vars, threadVars, schedVars, semVars
  <2>24. QED
    BY <2>1, <2>2, <2>3, <2>4, <2>5, <2>6, <2>7, <2>8, <2>9, <2>10, <2>11, <2>12, <2>13,
       <2>14, <2>15, <2>16, <2>17, <2>18, <2>19, <2>20, <2>21, <2>22, <2>23 DEF Next
<1>3. QED BY <1>1, <1>2, TypeInvariant, PTL DEF Spec

(* ThreadsInOnePlace, for all constants.                                       *)
THEOREM ThreadsStayInPlace == Spec => []ThreadsInOnePlace
BY StructureInvariant, PTL DEF Structure

(* CarcassIsDead, for all constants: the ASSERT of Thread::~Thread holds, and  *)
(* the thread that has the CPU was not deleted.                                *)
THEOREM CarcassStaysDead == Spec => []CarcassIsDead
BY StructureInvariant, PTL DEF Structure

-----------------------------------------------------------------------------
(* The machine, the IDs, the semaphores and wake-ups.                         *)

(* The machine is in the state of the thread that runs.  First, the mode a     *)
(* thread runs in outside the kernel.                                          *)
ModeOf(t) == IF space[t] THEN "UserMode" ELSE "SystemMode"

(* What a thread finds when it gets the CPU back: a user thread is never in    *)
(* the kernel's own code, OneTick returns it to its mode, and its registers    *)
(* were saved when it lost the CPU.                                            *)
ThreadsKeepModes ==
    \A t \in Thread : status[t] # "NONE" =>
        /\ pc[t] = "user" => space[t]
        /\ space[t] => pc[t] \in {"user", "tick", "yield"}
        /\ pc[t] \in {"tick", "yield"} => oldStatus[t] = ModeOf(t)
        /\ space[t] /\ pc[t] = "yield" => savedRegs[t] = t

(* The machine has the user thread's state throughout its OneTick, and is in   *)
(* SystemMode when SWITCH returns.                                             *)
MachineKeepsModes ==
    /\ space[currentThread] /\ (Running("user") \/ Running("tick")) =>
          machineRegs = currentThread /\ pageTable = currentThread
    /\ Running("root") \/ Running("yield") \/ Running("P") => machineStatus = "SystemMode"

Modes == ThreadsKeepModes /\ MachineKeepsModes /\ MachineFollowsThread

(* A switch that the thread on the CPU survives or sleeps through: n, which    *)
(* runs next, was READY, so it resumes in ThreadRoot, Yield or P.              *)
LEMMA SwitchKeepsModes ==
    ASSUME TypeOK, Structure, ~halted, level' = "IntOff", UNCHANGED halted,
           machineStatus' = "SystemMode",
           NEW n \in Thread, status[n] = "READY", currentThread' = n,
           status'[n] = "RUNNING", pc'[n] = pc[n],
           ThreadsKeepModes'
    PROVE  Modes'
<1>1. pc[n] \in {"root", "yield", "P"}
  BY Zenon DEF Structure, PlaceFollowsStatus
<1>2. MachineKeepsModes' /\ MachineFollowsThread'
  BY Zenon, <1>1 DEF MachineKeepsModes, MachineFollowsThread, Running, Sleeping
<1>3. QED BY Zenon, <1>2 DEF Modes

(* V() changes no status but that of the thread it readies, which is in P.      *)
LEMMA WakeFacts ==
    ASSUME TypeOK, Structure, NEW s \in Semaphore, VBody(s)
    PROVE  /\ status' \in [Thread -> ThreadStatus]
           /\ \A t \in Thread :
                 \/ status'[t] = status[t]
                 \/ status[t] = "BLOCKED" /\ status'[t] = "READY" /\ pc[t] = "P"
<1>t. /\ status \in [Thread -> ThreadStatus] /\ queue \in [Semaphore -> Seq(Thread)]
  BY Zenon DEF TypeOK, ThreadTypes, SemaphoreTypes
<1>1. CASE queue[s] = <<>>
  BY Zenon, <1>t, <1>1 DEF VBody
<1>2. CASE queue[s] # <<>>
  <2>1. Head(queue[s]) \in Thread /\ Head(queue[s]) \in ItemsOf(queue[s])
    BY Zenon, <1>t, <1>2, RemoveItems
  <2>2. status[Head(queue[s])] = "BLOCKED" /\ pc[Head(queue[s])] = "P"
    <3>1. \A t \in Thread : t \in ItemsOf(queue[s]) => status[t] = "BLOCKED" /\ pc[t] = "P"
      BY Zenon DEF Structure, ThreadsInOnePlace
    <3>2. QED BY Zenon, <2>1, <3>1
  <2>3. status' = [status EXCEPT ![Head(queue[s])] = "READY"]
    BY Zenon, <1>2 DEF VBody, Readied
  <2>4. QED BY Zenon, <1>t, <2>1, <2>2, <2>3 DEF ThreadStatus
<1>3. QED BY Zenon, <1>1, <1>2

(* Every action keeps the machine in the state of the thread that runs.        *)
LEMMA ModesKept == TypeOK /\ SemInP /\ Structure /\ Modes /\ [Next]_vars => Modes'
<1> SUFFICES ASSUME TypeOK, SemInP, Structure, Modes, [Next]_vars PROVE Modes'
  BY Zenon
<1> DEFINE c == currentThread
<1>t. /\ status \in [Thread -> ThreadStatus] /\ pc \in [Thread -> PC]
      /\ oldStatus \in [Thread -> MachineStatus] /\ space \in [Thread -> BOOLEAN]
      /\ savedRegs \in [Thread -> Thread \cup {NULL}]
      /\ currentThread \in Thread /\ halted \in BOOLEAN
      /\ readyList \in Seq(Thread)
  BY DEF TypeOK, ThreadTypes, SchedulerTypes, MachineTypes
<1> USE <1>t
<1>1. ASSUME NEW t \in Thread, NewThread(t) PROVE Modes'
  BY Zenon, <1>1 DEF NewThread, Running, Sleeping, intVars, userVars, Modes, ThreadsKeepModes,
     MachineKeepsModes, MachineFollowsThread, ModeOf
<1>2. ASSUME NEW t \in Thread, Fork(t) PROVE Modes'
  <2>1. /\ Running("kernel") /\ status[t] = "JUST_CREATED" /\ t # c
        /\ status' = [status EXCEPT ![t] = "READY"]
        /\ pc' = [[pc EXCEPT ![t] = "root"] EXCEPT ![c] = "tick"]
        /\ oldStatus' = [oldStatus EXCEPT ![c] = machineStatus]
        /\ level' = "IntOff"
        /\ UNCHANGED <<currentThread, space, savedRegs, halted>>
    BY Zenon, <1>2 DEF Fork, Readied, Running
  <2>2. machineStatus = "SystemMode" /\ ~space[c] /\ ~space[t]
    BY Zenon, <2>1 DEF Running, Structure, PlaceFollowsStatus, Modes, ThreadsKeepModes,
       MachineFollowsThread
  <2>3. ThreadsKeepModes'
    BY Zenon, <2>1, <2>2 DEF Modes, ThreadsKeepModes, ModeOf
  <2>4. MachineKeepsModes' /\ MachineFollowsThread'
    BY Zenon, <2>1, <2>2 DEF MachineKeepsModes, MachineFollowsThread, Running, Sleeping
  <2>5. QED BY Zenon, <2>3, <2>4 DEF Modes
<1>3. ASSUME NEW s \in Semaphore, P(s) PROVE Modes'
  <2>1. CASE value[s] = 0
    <3>1. status' = [status EXCEPT ![c] = "BLOCKED"]
      BY Zenon, <1>3, <2>1 DEF P, PSleeps
    <3>2. QED BY <1>3, <2>1, <3>1 DEF P, PBody, Running, Sleeping, schedVars, intVars,
                 userVars, Modes, ThreadsKeepModes, MachineKeepsModes, MachineFollowsThread,
                 ModeOf
  <2>2. CASE value[s] # 0
    <3>1. status' = status
      BY Zenon, <1>3, <2>2 DEF P, PSleeps
    <3>2. QED BY Zenon, <1>3, <2>2, <3>1 DEF P, PBody, EnterTick, Running, Sleeping, schedVars,
                 intVars, userVars, Modes, ThreadsKeepModes, MachineKeepsModes,
                 MachineFollowsThread, ModeOf
  <2>3. QED BY <2>1, <2>2
<1>4. ASSUME NEW s \in Semaphore, V(s) PROVE Modes'
  <2>1. VBody(s)
    BY Zenon, <1>4 DEF V
  <2>2. QED BY Zenon, <1>4, <2>1, WakeFacts DEF V, EnterTick, Running, Sleeping, schedVars,
               intVars, userVars, Modes, ThreadsKeepModes, MachineKeepsModes,
               MachineFollowsThread, ModeOf
<1>5. ASSUME NEW s \in Semaphore, Schedule(s) PROVE Modes'
  BY Zenon, <1>5 DEF Schedule, threadVars, Running, Sleeping, schedVars, intVars, userVars, Modes,
     ThreadsKeepModes, MachineKeepsModes, MachineFollowsThread, ModeOf
<1>10. CASE StartProcess
  BY Zenon, <1>10 DEF StartProcess, threadVars, Running, Sleeping, schedVars, intVars, userVars,
     Modes, ThreadsKeepModes, MachineKeepsModes, MachineFollowsThread, ModeOf
<1>11. CASE Instruction
  BY Zenon, <1>11 DEF Instruction, EnterTick, threadVars, Running, Sleeping, schedVars, intVars,
     userVars, Modes, ThreadsKeepModes, MachineKeepsModes, MachineFollowsThread, ModeOf
<1>12. CASE SyscallHalt
  BY Zenon, <1>12 DEF SyscallHalt, threadVars, Running, Sleeping, schedVars, intVars, userVars,
     Modes, ThreadsKeepModes, MachineKeepsModes, MachineFollowsThread, ModeOf
<1>13. CASE TickTimer
  BY Zenon, <1>13 DEF TickTimer, threadVars, Running, Sleeping, schedVars, intVars, userVars,
     Modes, ThreadsKeepModes, MachineKeepsModes, MachineFollowsThread, ModeOf
<1>14. CASE TickReturn
  BY Zenon, <1>14 DEF TickReturn, threadVars, Running, Sleeping, schedVars, intVars, userVars,
     Modes, ThreadsKeepModes, MachineKeepsModes, MachineFollowsThread, ModeOf
<1>17. CASE IdleTimer
  BY Zenon, <1>17 DEF IdleTimer, InIdle, threadVars, Running, Sleeping, schedVars, intVars,
     userVars, Modes, ThreadsKeepModes, MachineKeepsModes, MachineFollowsThread, ModeOf
<1>18. CASE IdleReturn
  BY Zenon, <1>18 DEF IdleReturn, threadVars, Running, Sleeping, schedVars, intVars, userVars,
     Modes, ThreadsKeepModes, MachineKeepsModes, MachineFollowsThread, ModeOf
<1>19. CASE IdleHalt
  BY Zenon, <1>19 DEF IdleHalt, threadVars, Running, Sleeping, schedVars, intVars, userVars, Modes,
     ThreadsKeepModes, MachineKeepsModes, MachineFollowsThread, ModeOf
<1>20. CASE ThreadRoot
  BY Zenon, <1>20 DEF ThreadRoot, EnterTick, threadVars, Running, Sleeping, schedVars, intVars,
     userVars, Modes, ThreadsKeepModes, MachineKeepsModes, MachineFollowsThread, ModeOf
<1>23. CASE Halted \/ UNCHANGED vars
  BY Zenon, <1>23 DEF Halted, vars, threadVars, Running, Sleeping, schedVars, intVars, userVars,
     Modes, ThreadsKeepModes, MachineKeepsModes, MachineFollowsThread, ModeOf
<1>6. ASSUME NEW s \in Semaphore, TickDevice(s) PROVE Modes'
  <2>1. VBody(s)
    BY <1>6 DEF TickDevice, DeviceHandler
  <2>2. QED BY Zenon, <1>6, <2>1, WakeFacts DEF TickDevice, Running, Sleeping, schedVars, intVars,
               userVars, Modes, ThreadsKeepModes, MachineKeepsModes, MachineFollowsThread,
               ModeOf
<1>7. ASSUME NEW s \in Semaphore, IdleDevice(s) PROVE Modes'
  <2>1. VBody(s)
    BY Zenon, <1>7 DEF IdleDevice, DeviceHandler
  <2>2. QED BY Zenon, <1>7, <2>1, WakeFacts DEF IdleDevice, InIdle, Running, Sleeping, schedVars,
               intVars, userVars, Modes, ThreadsKeepModes, MachineKeepsModes,
               MachineFollowsThread, ModeOf
<1>y. ASSUME YieldSwitch, Running("kernel") \/ Running("tick"),
             UNCHANGED <<space, halted>>, level' = "IntOff", machineStatus' = "SystemMode",
             \/ oldStatus' = oldStatus /\ Running("tick")
             \/ oldStatus' = [oldStatus EXCEPT ![c] = "SystemMode"] /\ Running("kernel")
      PROVE  Modes'
  <2> DEFINE n == Head(readyList)
  <2>1. n \in Thread /\ n \in ItemsOf(readyList)
    BY <1>y, RemoveItems DEF YieldSwitch
  <2>2. status[n] = "READY" /\ n # c
    BY Zenon, <1>y, <2>1 DEF Structure, ThreadsInOnePlace, Running
  <2>3. /\ status' = [[status EXCEPT ![c] = "READY"] EXCEPT ![n] = "RUNNING"]
        /\ pc' = [pc EXCEPT ![c] = "yield"]
        /\ currentThread' = n
        /\ savedRegs' = IF space[c] THEN [savedRegs EXCEPT ![c] = machineRegs] ELSE savedRegs
    BY <1>y DEF YieldSwitch, Run, Readied
  <2>4. ThreadsKeepModes'
    BY <1>y, <2>1, <2>2, <2>3 DEF Running, Modes, ThreadsKeepModes, MachineKeepsModes, ModeOf
  <2>5. ~halted
    BY Zenon, <1>y DEF Running
  <2> HIDE DEF n
  <2>6. status'[n] = "RUNNING" /\ pc'[n] = pc[n]
    BY <2>1, <2>2, <2>3
  <2>7. QED BY Zenon, <1>y, <2>1, <2>2, <2>3, <2>4, <2>5, <2>6, SwitchKeepsModes
<1>8. CASE Yield
  <2>1. Running("kernel") /\ machineStatus = "SystemMode"
    BY Zenon, <1>8 DEF Yield, Modes, MachineFollowsThread
  <2>2. CASE YieldSwitch
    BY <1>8, <1>y, <2>1, <2>2 DEF Yield
  <2>3. CASE readyList = <<>>
    BY Zenon, <1>8, <2>3 DEF Yield, YieldSwitch, Running, Sleeping, schedVars, intVars, userVars,
       Modes, ThreadsKeepModes, MachineKeepsModes, MachineFollowsThread, ModeOf
  <2>4. QED BY Zenon, <1>8, <2>2, <2>3 DEF Yield
<1>9. CASE Finish
  BY Zenon, <1>9 DEF Finish, Running, Sleeping, schedVars, intVars, userVars, Modes,
     ThreadsKeepModes, MachineKeepsModes, MachineFollowsThread, ModeOf
<1>15. CASE TickYield
  <2>1. Running("tick") /\ level = "IntOff"
    BY Zenon, <1>15 DEF TickYield, Modes, MachineFollowsThread, Running, TypeOK, MachineTypes
  <2>2. CASE YieldSwitch
    BY <1>15, <1>y, <2>1, <2>2 DEF TickYield
  <2>3. CASE readyList = <<>>
    BY Zenon, <1>15, <2>3 DEF TickYield, YieldSwitch, Running, Sleeping, schedVars, intVars,
       userVars, Modes, ThreadsKeepModes, MachineKeepsModes, MachineFollowsThread, ModeOf
  <2>4. QED BY Zenon, <1>15, <2>2, <2>3 DEF TickYield
<1>16. CASE SleepRun
  <2> DEFINE n == Head(readyList)
  <2>1. n \in Thread /\ n \in ItemsOf(readyList)
    BY Zenon, <1>16, RemoveItems DEF SleepRun
  <2>2. status[n] = "READY"
    BY Zenon, <2>1 DEF Structure, ThreadsInOnePlace
  <2>3. pc[c] \in {"P", "done"} /\ ~space[c]
    BY Zenon, <1>16 DEF SleepRun, Sleeping, Structure, PlaceFollowsStatus, CarcassIsDead, Modes,
       ThreadsKeepModes
  <2>4. /\ status' = [status EXCEPT ![n] = "RUNNING"]
        /\ currentThread' = n /\ machineStatus' = "SystemMode"
        /\ level' = level /\ halted' = halted /\ ~halted
        /\ UNCHANGED <<pc, oldStatus, space, savedRegs>>
    BY Zenon, <1>16, <2>3 DEF SleepRun, Run, Sleeping, intVars
  <2>5. level = "IntOff"
    BY Zenon, <1>16 DEF SleepRun, Sleeping, Running, Modes, MachineFollowsThread, TypeOK, MachineTypes
  <2>6. ThreadsKeepModes'
    BY Zenon, <2>1, <2>2, <2>4 DEF Modes, ThreadsKeepModes, ModeOf
  <2> HIDE DEF n
  <2>7. status'[n] = "RUNNING" /\ pc'[n] = pc[n]
    BY <2>1, <2>4
  <2>8. QED BY Zenon, <2>1, <2>2, <2>4, <2>5, <2>6, <2>7, SwitchKeepsModes
<1>21. CASE ResumeYield
  <2>1. status[c] = "RUNNING" /\ status' = Reaped(status)
    BY Zenon, <1>21 DEF ResumeYield, Running
  <2>2. /\ status'[c] = "RUNNING"
        /\ \A t \in Thread : status'[t] = status[t] \/ status'[t] = "NONE"
    BY Zenon, <2>1, ReapedFacts
  <2>3. QED BY <1>21, <2>2 DEF ResumeYield, AfterSWITCH, Running, Sleeping, schedVars,
               intVars, userVars, Modes, ThreadsKeepModes, MachineKeepsModes,
               MachineFollowsThread, ModeOf
<1>22. CASE ResumeP
  <2>1. status[c] = "RUNNING" /\ pc[c] = "P" /\ ~space[c] /\ sem[c] \in Semaphore
    BY Zenon, <1>22 DEF ResumeP, Running, Modes, ThreadsKeepModes, SemInP
  <2>2. /\ Reaped(status) \in [Thread -> ThreadStatus]
        /\ Reaped(status)[c] = "RUNNING"
        /\ \A t \in Thread : Reaped(status)[t] = status[t] \/ Reaped(status)[t] = "NONE"
    BY Zenon, <2>1, ReapedFacts
  <2>3. /\ machineStatus = "SystemMode" /\ level' = "IntOff"
        /\ UNCHANGED <<currentThread, space, savedRegs, machineStatus, halted>>
    BY Zenon, <1>22 DEF ResumeP, PBody, EnterTick, Running, Modes, MachineKeepsModes
  <2>4. CASE value[sem[c]] = 0
    <3>1. /\ status' = [Reaped(status) EXCEPT ![c] = "BLOCKED"]
          /\ pc' = [pc EXCEPT ![c] = "P"] /\ oldStatus' = oldStatus
      BY Zenon, <1>22, <2>4 DEF ResumeP, PBody, PSleeps
    <3>2. ThreadsKeepModes'
      BY <2>1, <2>2, <2>3, <3>1 DEF Modes, ThreadsKeepModes, ModeOf
    <3>3. MachineKeepsModes' /\ MachineFollowsThread'
      BY Zenon, <2>1, <2>2, <2>3, <3>1
      DEF Running, Sleeping, MachineKeepsModes, MachineFollowsThread
    <3>4. QED BY Zenon, <3>2, <3>3 DEF Modes
  <2>5. CASE value[sem[c]] # 0
    <3>1. /\ status' = Reaped(status)
          /\ pc' = [pc EXCEPT ![c] = "tick"]
          /\ oldStatus' = [oldStatus EXCEPT ![c] = machineStatus]
      BY <1>22, <2>5 DEF ResumeP, PBody, PSleeps, EnterTick
    <3>2. ThreadsKeepModes'
      BY Zenon, <2>1, <2>2, <2>3, <3>1 DEF Modes, ThreadsKeepModes, ModeOf
    <3>3. MachineKeepsModes' /\ MachineFollowsThread'
      BY Zenon, <2>1, <2>2, <2>3, <3>1
      DEF Running, Sleeping, MachineKeepsModes, MachineFollowsThread
    <3>4. QED BY <3>2, <3>3 DEF Modes
  <2>6. QED BY Zenon, <2>4, <2>5
<1>24. QED
  BY <1>1, <1>2, <1>3, <1>4, <1>5, <1>6, <1>7, <1>8, <1>9, <1>10, <1>11, <1>12, <1>13,
     <1>14, <1>15, <1>16, <1>17, <1>18, <1>19, <1>20, <1>21, <1>22, <1>23 DEF Next
-----------------------------------------------------------------------------
(* The ID table follows the blocks that are allocated.                         *)
LEMMA SameIDs ==
    ASSUME IDsAreExact, UNCHANGED <<threadID, threadIDs>>,
           \A t \in Thread : status'[t] = "NONE" <=> status[t] = "NONE"
    PROVE  IDsAreExact'
<1>1. {u \in Thread : status'[u] # "NONE"} = {u \in Thread : status[u] # "NONE"}
  BY Zenon
<1>2. QED BY Zenon, <1>1 DEF IDsAreExact

(* ~Thread frees the carcass's ID, which no other thread has, unless it is -1. *)
LEMMA ReapingFreesID ==
    ASSUME TypeOK, Structure, IDsAreExact, UNCHANGED threadID, status[currentThread] = "RUNNING",
           AfterSWITCH, \A t \in Thread : status'[t] = "NONE" <=> Reaped(status)[t] = "NONE"
    PROVE  IDsAreExact'
<1>t. /\ status \in [Thread -> ThreadStatus] /\ threadID \in [Thread -> -1 .. MaxThread - 1]
      /\ threadToBeDestroyed \in Thread \cup {NULL} /\ currentThread \in Thread
      /\ threadIDs \in SUBSET (0 .. MaxThread - 1)
  BY Zenon DEF TypeOK, ThreadTypes, SchedulerTypes
<1>1. CASE threadToBeDestroyed = NULL
  BY Zenon, <1>1, SameIDs DEF AfterSWITCH, Reaped
<1>2. CASE threadToBeDestroyed # NULL
  <2> DEFINE d == threadToBeDestroyed
             live == {u \in Thread : status[u] # "NONE"}
  <2>1. /\ d \in live /\ live \subseteq Thread
        /\ threadIDs' = threadIDs \ {threadID[d]}
    BY Zenon, <1>t, <1>2 DEF AfterSWITCH, Structure, CarcassIsDead
  <2>2. {u \in Thread : status'[u] # "NONE"} = live \ {d}
    BY Zenon, <1>t, <1>2, <2>1 DEF Reaped
  <2>3. \A t, u \in live : threadID[t] = threadID[u] /\ threadID[t] # -1 => t = u
    BY Zenon DEF IDsAreExact
  <2>4. threadIDs = {threadID[t] : t \in live} \ {-1}
    BY Zenon DEF IDsAreExact
  <2> HIDE DEF d, live
  <2>5. \A t, u \in live \ {d} : threadID'[t] = threadID'[u] /\ threadID'[t] # -1 => t = u
    BY Zenon, <2>3
  <2>6. threadIDs' = {threadID'[t] : t \in live \ {d}} \ {-1}
    <3>1. \A t \in live \ {d} : threadID[t] # -1 => threadID[t] # threadID[d]
      BY Zenon, <2>1, <2>3
    <3>2. QED BY Zenon, <2>1, <2>4, <3>1
  <2>7. QED BY Zenon, <2>2, <2>5, <2>6 DEF IDsAreExact
<1>3. QED BY <1>1, <1>2

(* Every action keeps the ID table exact.                                      *)
LEMMA IDsKept == TypeOK /\ SemInP /\ Structure /\ IDsAreExact /\ [Next]_vars => IDsAreExact'
<1> SUFFICES ASSUME TypeOK, SemInP, Structure, IDsAreExact, [Next]_vars PROVE IDsAreExact'
  BY Zenon
<1> DEFINE c == currentThread
<1>t. /\ status \in [Thread -> ThreadStatus] /\ currentThread \in Thread
      /\ threadID \in [Thread -> -1 .. MaxThread - 1]
      /\ threadIDs \in SUBSET (0 .. MaxThread - 1)
      /\ readyList \in Seq(Thread)
  BY DEF TypeOK, ThreadTypes, SchedulerTypes
<1>a. status[c] # "NONE"
  BY Zenon DEF Structure, CarcassIsDead
<1> USE <1>t, <1>a DEF threadVars, schedVars
<1>1. ASSUME NEW t \in Thread, NewThread(t) PROVE IDsAreExact'
  <2> DEFINE live == {u \in Thread : status[u] # "NONE"}
  <2>1. PICK i \in -1 .. MaxThread :
            /\ allocatedThreadID(i)
            /\ threadID' = [threadID EXCEPT ![t] = i]
            /\ threadIDs' = threadIDs \cup ({i} \ {-1})
    BY Zenon, <1>1 DEF NewThread
  <2>2. t \notin live /\ {u \in Thread : status'[u] # "NONE"} = live \cup {t}
    BY Zenon, <1>1 DEF NewThread
  <2>3. i \notin threadIDs
    BY <2>1, KernelAssumption DEF allocatedThreadID
  <2>4. /\ \A u, v \in live : threadID[u] = threadID[v] /\ threadID[u] # -1 => u = v
        /\ threadIDs = {threadID[u] : u \in live} \ {-1}
        /\ live \subseteq Thread
    BY Zenon DEF IDsAreExact
  <2>5. threadID'[t] = i /\ \A u \in live : threadID'[u] = threadID[u]
    BY Zenon, <2>1, <2>2
  <2> HIDE DEF live
  <2>6. \A u \in live : threadID[u] # i \/ i = -1
    BY Zenon, <2>3, <2>4
  <2>7. \A u, v \in live \cup {t} : threadID'[u] = threadID'[v] /\ threadID'[u] # -1 => u = v
    BY Zenon, <2>4, <2>5, <2>6
  <2>8. threadIDs' = {threadID'[u] : u \in live \cup {t}} \ {-1}
    <3>1. {threadID'[u] : u \in live \cup {t}} = {threadID[u] : u \in live} \cup {i}
      BY Zenon, <2>5
    <3>2. QED BY Zenon, <2>1, <2>4, <3>1
  <2>9. QED BY Zenon, <2>2, <2>7, <2>8 DEF IDsAreExact
<1>2. ASSUME NEW t \in Thread, Fork(t) PROVE IDsAreExact'
  BY Zenon, <1>2, SameIDs DEF Fork, Readied
<1>3. ASSUME NEW s \in Semaphore, P(s) PROVE IDsAreExact'
  BY <1>3, SameIDs DEF P, PSleeps
<1>v. ASSUME NEW s \in Semaphore, VBody(s), UNCHANGED <<threadID, threadIDs>>
      PROVE IDsAreExact'
  BY Zenon, <1>v, WakeFacts, SameIDs
<1>4. ASSUME NEW s \in Semaphore, V(s) PROVE IDsAreExact'
  BY Zenon, <1>4, <1>v DEF V
<1>5. ASSUME NEW s \in Semaphore, Schedule(s) PROVE IDsAreExact'
  BY Zenon, <1>5, SameIDs DEF Schedule
<1>6. ASSUME NEW s \in Semaphore, TickDevice(s) PROVE IDsAreExact'
  BY Zenon, <1>6, <1>v DEF TickDevice, DeviceHandler
<1>7. ASSUME NEW s \in Semaphore, IdleDevice(s) PROVE IDsAreExact'
  BY Zenon, <1>7, <1>v DEF IdleDevice, DeviceHandler
<1>y. ASSUME readyList # <<>>, NEW st \in [Thread -> ThreadStatus],
             \A t \in Thread : st[t] = "NONE" <=> status[t] = "NONE",
             status' = [st EXCEPT ![Head(readyList)] = "RUNNING"],
             UNCHANGED <<threadID, threadIDs>>
      PROVE  IDsAreExact'
  <2>1. Head(readyList) \in Thread /\ Head(readyList) \in ItemsOf(readyList)
    BY Zenon, <1>y, RemoveItems
  <2>2. status[Head(readyList)] = "READY"
    BY Zenon, <2>1 DEF Structure, ThreadsInOnePlace
  <2>3. QED BY Zenon, <1>y, <2>1, <2>2, SameIDs
<1>z. ASSUME YieldSwitch, UNCHANGED <<threadID, threadIDs>> PROVE IDsAreExact'
  <2> DEFINE st == [status EXCEPT ![c] = "READY"]
  <2>1. /\ st \in [Thread -> ThreadStatus]
        /\ \A t \in Thread : st[t] = "NONE" <=> status[t] = "NONE"
    BY Zenon DEF ThreadStatus
  <2>2. readyList # <<>> /\ status' = [st EXCEPT ![Head(readyList)] = "RUNNING"]
    BY Zenon, <1>z DEF YieldSwitch, Run, Readied
  <2> HIDE DEF st
  <2>3. QED BY Zenon, <1>y, <1>z, <2>1, <2>2
<1>8. CASE Yield
  BY <1>8, <1>z, SameIDs DEF Yield
<1>9. CASE Finish
  BY Zenon, <1>9, SameIDs DEF Finish
<1>10. CASE StartProcess
  BY Zenon, <1>10, SameIDs DEF StartProcess
<1>11. CASE Instruction
  BY Zenon, <1>11, SameIDs DEF Instruction
<1>12. CASE SyscallHalt
  BY Zenon, <1>12, SameIDs DEF SyscallHalt
<1>13. CASE TickTimer
  BY Zenon, <1>13, SameIDs DEF TickTimer
<1>14. CASE TickReturn
  BY Zenon, <1>14, SameIDs DEF TickReturn
<1>15. CASE TickYield
  BY Zenon, <1>15, <1>z, SameIDs DEF TickYield
<1>16. CASE SleepRun
  BY Zenon, <1>16, <1>y DEF SleepRun, Run
<1>17. CASE IdleTimer
  BY Zenon, <1>17, SameIDs DEF IdleTimer
<1>18. CASE IdleReturn
  BY <1>18, SameIDs DEF IdleReturn
<1>19. CASE IdleHalt
  BY Zenon, <1>19, SameIDs DEF IdleHalt
<1>20. CASE ThreadRoot
  BY Zenon, <1>20, SameIDs DEF ThreadRoot
<1>21. CASE ResumeYield
  BY Zenon, <1>21, ReapingFreesID DEF ResumeYield, Running
<1>22. CASE ResumeP
  <2>1. /\ status[c] = "RUNNING" /\ AfterSWITCH /\ UNCHANGED threadID
        /\ status' = IF value[sem[c]] = 0 THEN [Reaped(status) EXCEPT ![c] = "BLOCKED"]
                     ELSE Reaped(status)
    BY Zenon, <1>22 DEF ResumeP, Running, PSleeps
  <2>2. Reaped(status) \in [Thread -> ThreadStatus] /\ Reaped(status)[c] = "RUNNING"
    BY Zenon, <2>1, ReapedFacts
  <2>3. \A t \in Thread : status'[t] = "NONE" <=> Reaped(status)[t] = "NONE"
    BY Zenon, <2>1, <2>2
  <2>4. QED BY Zenon, <2>1, <2>3, ReapingFreesID
<1>23. CASE Halted \/ UNCHANGED vars
  BY <1>23, SameIDs DEF Halted, vars
<1>24. QED
  BY <1>1, <1>2, <1>3, <1>4, <1>5, <1>6, <1>7, <1>8, <1>9, <1>10, <1>11, <1>12, <1>13,
     <1>14, <1>15, <1>16, <1>17, <1>18, <1>19, <1>20, <1>21, <1>22, <1>23 DEF Next

(* IDsAreExact, for all constants.                                             *)
THEOREM IDsStayExact == Spec => []IDsAreExact
<1>1. Init => IDsAreExact
  <2> SUFFICES ASSUME Init PROVE IDsAreExact
    OBVIOUS
  <2>1. {u \in Thread : status[u] # "NONE"} = {Main} /\ threadID[Main] = 0 /\ threadIDs = {0}
    BY Zenon, KernelAssumption DEF Init
  <2>2. {threadID[t] : t \in {Main}} \ {-1} = {0}
    BY <2>1
  <2>3. QED BY <2>1, <2>2 DEF IDsAreExact
<1>2. QED BY <1>1, IDsKept, StructureInvariant, PTL DEF Spec

(* MachineFollowsThread, for all constants.                                    *)
THEOREM MachineAlwaysFollowsThread == Spec => []MachineFollowsThread
<1>1. Init => Modes
  BY Zenon, KernelAssumption DEF Init, Modes, ThreadsKeepModes, ModeOf, MachineKeepsModes,
     MachineFollowsThread, Running, Sleeping
<1>2. Modes => MachineFollowsThread
  BY DEF Modes
<1>3. QED BY <1>1, <1>2, ModesKept, StructureInvariant, PTL DEF Spec
-----------------------------------------------------------------------------
(* The semaphores of the kernel implement SemaphoreSpec.                       *)

(* The semaphore a thread waits for: the refinement mapping.                   *)
WaitsFor(t) == IF status[t] # "NONE" /\ pc[t] = "P" THEN sem[t] ELSE NULL

(* A step that changes no value, and no thread's wait: a stutter, or a halt.   *)
LEMMA SameWaits ==
    ASSUME UNCHANGED value, \A t \in Thread : WaitsFor(t)' = WaitsFor(t),
           \/ UNCHANGED halted
           \/ ~halted /\ halted'
    PROVE  [Sem!Next]_(Sem!vars)
<1>1. [t \in Thread |-> WaitsFor(t)]' = [t \in Thread |-> WaitsFor(t)]
  BY Zenon
<1>2. CASE UNCHANGED halted
  BY Zenon, <1>1, <1>2 DEF Sem!vars, WaitsFor
<1>3. CASE ~halted /\ halted'
  <2>1. Sem!Stop
    BY Zenon, <1>1, <1>3 DEF Sem!Stop, WaitsFor
  <2>2. QED BY Zenon, <1>3, <2>1 DEF Sem!Next
<1>4. QED BY Zenon, <1>2, <1>3

(* V, by a thread or by a device's handler: nobody's wait changes, since the   *)
(* thread it readies is still in P.                                            *)
LEMMA VIsRelease ==
    ASSUME TypeOK, Structure, NEW s \in Semaphore, VBody(s), ~halted,
           UNCHANGED <<halted, sem>>,
           \A t \in Thread : pc'[t] = "P" <=> pc[t] = "P"
    PROVE  [Sem!Next]_(Sem!vars)
<1>1. \A t \in Thread : status'[t] = "NONE" <=> status[t] = "NONE"
  BY Zenon, WakeFacts
<1>2. \A t \in Thread : WaitsFor(t)' = WaitsFor(t)
  BY Zenon, <1>1 DEF WaitsFor
<1>3. [t \in Thread |-> WaitsFor(t)]' = [t \in Thread |-> WaitsFor(t)]
  BY Zenon, <1>2
<1>4. value' = [value EXCEPT ![s] = @ + 1]
  BY DEF VBody
<1>5. Sem!Release(s)
  BY Zenon, <1>3, <1>4 DEF Sem!Release, WaitsFor
<1>6. QED BY Zenon, <1>5 DEF Sem!Next

(* A turn of P's loop: the thread takes a unit, starts to wait, or waits on.   *)
LEMMA PIsAcquireOrWait ==
    ASSUME TypeOK, NEW s \in Semaphore, PBody(s), ~halted,
           UNCHANGED <<halted, currentThread>>,
           status[currentThread] = "RUNNING", status'[currentThread] # "NONE",
           WaitsFor(currentThread) \in {NULL, s},
           \A t \in Thread \ {currentThread} :
               status'[t] = status[t] \/ (status'[t] = "NONE" /\ pc[t] = "done")
    PROVE  [Sem!Next]_(Sem!vars)
<1> DEFINE c == currentThread
           W == [t \in Thread |-> WaitsFor(t)]
<1>t. /\ pc \in [Thread -> PC] /\ sem \in [Thread -> Semaphore \cup {NULL}]
      /\ currentThread \in Thread /\ value \in [Semaphore -> Nat]
  BY Zenon DEF TypeOK, ThreadTypes, SchedulerTypes, SemaphoreTypes
<1> USE <1>t
<1>1. CASE value[s] # 0
  <2>1. /\ value' = [value EXCEPT ![s] = @ - 1] /\ value[s] > 0
        /\ pc' = [pc EXCEPT ![c] = "tick"]
        /\ sem' = [sem EXCEPT ![c] = NULL]
    <3>1. value[s] > 0
      <4>1. value[s] \in Nat
        BY Zenon, <1>t
      <4>2. QED BY ONLY <1>1, <4>1
    <3>2. QED BY Zenon, <1>1, <3>1 DEF PBody, EnterTick
  <2>2. WaitsFor(c)' = NULL /\ \A t \in Thread \ {c} : WaitsFor(t)' = WaitsFor(t)
    BY Zenon, <2>1 DEF WaitsFor
  <2>3. W' = [W EXCEPT ![c] = NULL] /\ W[c] \in {NULL, s}
    BY Zenon, <2>2
  <2>4. Sem!Acquire(c, s)
    BY Zenon, <2>1, <2>3 DEF Sem!Acquire, WaitsFor
  <2>5. QED BY Zenon, <2>4 DEF Sem!Next
<1>2. CASE value[s] = 0
  <2>1. /\ UNCHANGED value
        /\ pc' = [pc EXCEPT ![c] = "P"]
        /\ sem' = [sem EXCEPT ![c] = s]
    BY Zenon, <1>2 DEF PBody
  <2>2. WaitsFor(c)' = s /\ \A t \in Thread \ {c} : WaitsFor(t)' = WaitsFor(t)
    BY Zenon, <2>1 DEF WaitsFor
  <2>3. CASE WaitsFor(c) = s
    <3>1. \A t \in Thread : WaitsFor(t)' = WaitsFor(t)
      BY Zenon, <2>2, <2>3
    <3>2. QED BY Zenon, <2>1, <3>1, SameWaits
  <2>4. CASE WaitsFor(c) = NULL
    <3>1. W' = [W EXCEPT ![c] = s] /\ W[c] = NULL
      BY Zenon, <2>2, <2>4
    <3>2. Sem!Wait(c, s)
      BY Zenon, <1>2, <2>1, <3>1 DEF Sem!Wait, WaitsFor
    <3>3. QED BY Zenon, <3>2 DEF Sem!Next
  <2>5. QED BY Zenon, <2>3, <2>4
<1>3. QED BY Zenon, <1>1, <1>2

(* Every step of the kernel is a step of SemaphoreSpec or changes nothing of   *)
(* what it sees.                                                               *)
LEMMA SemaphoreStep ==
    TypeOK /\ SemInP /\ Structure /\ [Next]_vars => [Sem!Next]_(Sem!vars)
<1> SUFFICES ASSUME TypeOK, SemInP, Structure, [Next]_vars PROVE [Sem!Next]_(Sem!vars)
  BY Zenon
<1> DEFINE c == currentThread
<1>t. /\ status \in [Thread -> ThreadStatus] /\ pc \in [Thread -> PC]
      /\ currentThread \in Thread /\ halted \in BOOLEAN
      /\ readyList \in Seq(Thread)
  BY Zenon DEF TypeOK, ThreadTypes, SchedulerTypes, MachineTypes
<1>p. \A t \in Thread : status[t] = "NONE" => pc[t] # "P"
  BY Zenon DEF Structure, PlaceFollowsStatus
<1> USE <1>t DEF threadVars, schedVars, semVars, intVars
<1>a. ASSUME UNCHANGED <<value, sem, status, halted>>,
             \A t \in Thread : pc'[t] = "P" <=> pc[t] = "P"
      PROVE  [Sem!Next]_(Sem!vars)
  <2>1. \A t \in Thread : WaitsFor(t)' = WaitsFor(t)
    BY Zenon, <1>a DEF WaitsFor
  <2>2. QED BY Zenon, <1>a, <2>1, SameWaits
<1>b. ASSUME ~halted, halted', UNCHANGED <<value, sem, status, pc>>
      PROVE  [Sem!Next]_(Sem!vars)
  <2>1. \A t \in Thread : WaitsFor(t)' = WaitsFor(t)
    BY Zenon, <1>b DEF WaitsFor
  <2>2. QED BY Zenon, <1>b, <2>1, SameWaits
<1>1. ASSUME NEW t \in Thread, NewThread(t) PROVE [Sem!Next]_(Sem!vars)
  <2>1. /\ status' = [status EXCEPT ![t] = "JUST_CREATED"] /\ status[t] = "NONE"
        /\ pc' = [pc EXCEPT ![t] = "new"]
        /\ UNCHANGED <<value, sem, halted>>
    BY Zenon, <1>1 DEF NewThread
  <2>2. \A u \in Thread : WaitsFor(u)' = WaitsFor(u)
    BY Zenon, <2>1 DEF WaitsFor
  <2>3. QED BY Zenon, <2>1, <2>2, SameWaits
<1>2. ASSUME NEW t \in Thread, Fork(t) PROVE [Sem!Next]_(Sem!vars)
  <2>1. /\ status' = [status EXCEPT ![t] = "READY"] /\ status[t] = "JUST_CREATED"
        /\ pc' = [[pc EXCEPT ![t] = "root"] EXCEPT ![c] = "tick"] /\ pc[c] = "kernel"
        /\ UNCHANGED <<value, sem, halted>>
    BY Zenon, <1>2 DEF Fork, Readied, Running
  <2>2. pc[t] = "new"
    BY Zenon, <2>1 DEF Structure, PlaceFollowsStatus
  <2>3. \A u \in Thread : WaitsFor(u)' = WaitsFor(u)
    BY Zenon, <2>1, <2>2 DEF WaitsFor
  <2>4. QED BY Zenon, <2>1, <2>3, SameWaits
<1>3. ASSUME NEW s \in Semaphore, P(s) PROVE [Sem!Next]_(Sem!vars)
  <2>1. /\ PBody(s) /\ ~halted /\ UNCHANGED <<halted, currentThread>>
        /\ status[c] = "RUNNING" /\ pc[c] = "kernel"
        /\ status' = IF value[s] = 0 THEN [status EXCEPT ![c] = "BLOCKED"] ELSE status
    BY Zenon, <1>3 DEF P, Running, PSleeps
  <2>2. status'[c] # "NONE" /\ \A t \in Thread \ {c} : status'[t] = status[t]
    BY Zenon, <2>1
  <2>3. WaitsFor(c) = NULL
    BY <2>1 DEF WaitsFor
  <2>4. QED BY Zenon, <2>1, <2>2, <2>3, PIsAcquireOrWait
<1>4. ASSUME NEW s \in Semaphore, V(s) PROVE [Sem!Next]_(Sem!vars)
  BY Zenon, <1>4, VIsRelease DEF V, Running, EnterTick
<1>5. ASSUME NEW s \in Semaphore, Schedule(s) PROVE [Sem!Next]_(Sem!vars)
  BY Zenon, <1>5, <1>a DEF Schedule
<1>6. ASSUME NEW s \in Semaphore, TickDevice(s) PROVE [Sem!Next]_(Sem!vars)
  BY Zenon, <1>6, VIsRelease DEF TickDevice, Running, DeviceHandler
<1>7. ASSUME NEW s \in Semaphore, IdleDevice(s) PROVE [Sem!Next]_(Sem!vars)
  BY Zenon, <1>7, VIsRelease DEF IdleDevice, InIdle, Sleeping, DeviceHandler
<1>y. ASSUME YieldSwitch, status[c] = "RUNNING", pc[c] # "P", UNCHANGED <<value, sem, halted>>
      PROVE  [Sem!Next]_(Sem!vars)
  <2> DEFINE n == Head(readyList)
  <2>1. n \in Thread /\ n \in ItemsOf(readyList)
    BY Zenon, <1>y, RemoveItems DEF YieldSwitch
  <2>2. status[n] = "READY"
    BY Zenon, <2>1 DEF Structure, ThreadsInOnePlace
  <2>3. /\ status' = [[status EXCEPT ![c] = "READY"] EXCEPT ![n] = "RUNNING"]
        /\ pc' = [pc EXCEPT ![c] = "yield"]
    BY Zenon, <1>y DEF YieldSwitch, Run, Readied
  <2>4. \A t \in Thread : WaitsFor(t)' = WaitsFor(t)
    BY Zenon, <1>y, <2>1, <2>2, <2>3 DEF WaitsFor
  <2>5. QED BY Zenon, <1>y, <2>4, SameWaits
<1>8. CASE Yield
  BY Zenon, <1>8, <1>a, <1>y DEF Yield, Running
<1>9. CASE Finish
  <2>1. /\ status' = [status EXCEPT ![c] = "BLOCKED"]
        /\ pc' = [pc EXCEPT ![c] = "done"] /\ pc[c] = "kernel"
        /\ UNCHANGED <<value, sem, halted>>
    BY Zenon, <1>9 DEF Finish, Running
  <2>2. \A u \in Thread : WaitsFor(u)' = WaitsFor(u)
    BY Zenon, <2>1 DEF WaitsFor
  <2>3. QED BY Zenon, <2>1, <2>2, SameWaits
<1>10. CASE StartProcess
  BY Zenon, <1>10, <1>a DEF StartProcess, Running
<1>11. CASE Instruction
  BY Zenon, <1>11, <1>a DEF Instruction, Running, EnterTick
<1>12. CASE SyscallHalt
  BY Zenon, <1>12, <1>b DEF SyscallHalt, Running
<1>13. CASE TickTimer
  BY Zenon, <1>13, <1>a DEF TickTimer
<1>14. CASE TickReturn
  BY Zenon, <1>14, <1>a DEF TickReturn, Running
<1>15. CASE TickYield
  BY Zenon, <1>15, <1>a, <1>y DEF TickYield, Running
<1>16. CASE SleepRun
  <2> DEFINE n == Head(readyList)
  <2>1. n \in Thread /\ n \in ItemsOf(readyList)
    BY Zenon, <1>16, RemoveItems DEF SleepRun
  <2>2. status[n] = "READY"
    BY <2>1 DEF Structure, ThreadsInOnePlace
  <2>3. /\ status' = [status EXCEPT ![n] = "RUNNING"]
        /\ UNCHANGED <<value, sem, pc, halted>>
    BY Zenon, <1>16 DEF SleepRun, Run
  <2>4. \A t \in Thread : WaitsFor(t)' = WaitsFor(t)
    BY Zenon, <2>1, <2>2, <2>3 DEF WaitsFor
  <2>5. QED BY Zenon, <2>3, <2>4, SameWaits
<1>17. CASE IdleTimer
  BY Zenon, <1>17, <1>a DEF IdleTimer
<1>18. CASE IdleReturn
  BY Zenon, <1>18, <1>a DEF IdleReturn
<1>19. CASE IdleHalt
  BY Zenon, <1>19, <1>b DEF IdleHalt, Sleeping
<1>20. CASE ThreadRoot
  BY Zenon, <1>20, <1>a DEF ThreadRoot, Running, EnterTick
<1>21. CASE ResumeYield
  <2>1. /\ status[c] = "RUNNING" /\ pc[c] = "yield"
        /\ status' = Reaped(status)
        /\ pc' = [pc EXCEPT ![c] = "tick"]
        /\ UNCHANGED <<value, sem, halted>>
    BY Zenon, <1>21 DEF ResumeYield, Running
  <2>2. \A t \in Thread : \/ status'[t] = status[t]
                          \/ status'[t] = "NONE" /\ pc[t] = "done"
    BY Zenon, <2>1, ReapedFacts
  <2>3. \A t \in Thread : WaitsFor(t)' = WaitsFor(t)
    BY Zenon, <2>1, <2>2 DEF WaitsFor
  <2>4. QED BY Zenon, <2>1, <2>3, SameWaits
<1>22. CASE ResumeP
  <2> DEFINE s == sem[c]
  <2>1. /\ status[c] = "RUNNING" /\ pc[c] = "P" /\ s \in Semaphore /\ PBody(s)
        /\ ~halted /\ UNCHANGED <<halted, currentThread>>
        /\ status' = IF value[s] = 0 THEN [Reaped(status) EXCEPT ![c] = "BLOCKED"]
                     ELSE Reaped(status)
    BY <1>22 DEF ResumeP, Running, SemInP, PSleeps
  <2>2. /\ Reaped(status) \in [Thread -> ThreadStatus]
        /\ Reaped(status)[c] = "RUNNING"
        /\ \A t \in Thread : \/ Reaped(status)[t] = status[t]
                             \/ Reaped(status)[t] = "NONE" /\ pc[t] = "done"
    BY Zenon, <2>1, ReapedFacts
  <2>3. /\ status'[c] # "NONE"
        /\ \A t \in Thread \ {c} : \/ status'[t] = status[t]
                                   \/ status'[t] = "NONE" /\ pc[t] = "done"
    BY Zenon, <2>1, <2>2
  <2>4. WaitsFor(c) = s
    BY Zenon, <2>1 DEF WaitsFor
  <2>5. QED BY Zenon, <2>1, <2>3, <2>4, PIsAcquireOrWait
<1>23. CASE Halted \/ UNCHANGED vars
  BY <1>23, <1>a DEF Halted, vars
<1>24. QED
  BY <1>1, <1>2, <1>3, <1>4, <1>5, <1>6, <1>7, <1>8, <1>9, <1>10, <1>11, <1>12, <1>13,
     <1>14, <1>15, <1>16, <1>17, <1>18, <1>19, <1>20, <1>21, <1>22, <1>23 DEF Next

(* ImplementsSemaphores, for all constants: P() takes one unit and only when   *)
(* there is one, V() adds exactly one, and no other step changes a value.      *)
THEOREM KernelImplementsSemaphores == Spec => ImplementsSemaphores
<1>1. Init => Sem!Init
  <2> SUFFICES ASSUME Init PROVE Sem!Init
    OBVIOUS
  <2>1. \A t \in Thread : pc[t] # "P"
    BY Zenon DEF Init
  <2>2. QED BY Zenon, <2>1 DEF Init, Sem!Init
<1>2. QED BY <1>1, SemaphoreStep, StructureInvariant, PTL DEF Spec, ImplementsSemaphores,
             Sem!Spec
-----------------------------------------------------------------------------
(* The wake-ups are counted: the facts about cardinalities are needed from     *)
(* here on only.                                                               *)
INSTANCE FiniteSetTheorems

(* No wake-up is lost.  Each step either leaves the woken threads of every     *)
(* semaphore as they are, adds the one V() wakes together with the unit it     *)
(* adds, or takes one away together with the unit it takes.                    *)
OnItsWay(t) == pc[t] = "P" /\ status[t] \in {"READY", "RUNNING"}

(* The woken threads of a semaphore can be counted.                            *)
LEMMA WokenFinite ==
    ASSUME NEW s \in Semaphore
    PROVE  IsFiniteSet(Woken(s)) /\ Cardinality(Woken(s)) \in Nat
<1>1. Woken(s) \in SUBSET Thread
  BY Zenon DEF Woken
<1>2. QED BY <1>1, KernelAssumption, FS_Subset, FS_CardinalityType

(* A step that neither wakes a thread nor lets a woken one get on.             *)
LEMMA SameWoken ==
    ASSUME NoLostWakeup, UNCHANGED <<value, queue, sem>>,
           \A t \in Thread : OnItsWay(t)' <=> OnItsWay(t)
    PROVE  NoLostWakeup'
<1>1. \A s \in Semaphore : Woken(s)' = Woken(s)
  BY Zenon DEF Woken, OnItsWay
<1>2. QED BY Zenon, <1>1 DEF NoLostWakeup

(* V() adds a unit, and the head of the queue to the woken threads.            *)
LEMMA VKeepsWakeups ==
    ASSUME TypeOK, Structure, NoLostWakeup, NEW s \in Semaphore, VBody(s), UNCHANGED sem,
           \A t \in Thread : pc'[t] = "P" <=> pc[t] = "P"
    PROVE  NoLostWakeup'
<1> DEFINE h == Head(queue[s])
<1>t. /\ status \in [Thread -> ThreadStatus] /\ pc \in [Thread -> PC]
      /\ sem \in [Thread -> Semaphore \cup {NULL}]
      /\ currentThread \in Thread /\ threadToBeDestroyed \in Thread \cup {NULL}
      /\ readyList \in Seq(Thread)
      /\ queue \in [Semaphore -> Seq(Thread)] /\ value \in [Semaphore -> Nat]
  BY DEF TypeOK, ThreadTypes, SchedulerTypes, SemaphoreTypes
<1> USE <1>t
<1>1. CASE queue[s] # <<>>
  <2>1. h \in Thread /\ h \in ItemsOf(queue[s])
    BY Zenon, <1>1, RemoveItems
  <2>2. status[h] = "BLOCKED" /\ pc[h] = "P" /\ sem[h] = s
    BY Zenon, <2>1 DEF Structure, ThreadsInOnePlace
  <2>3. /\ queue' = [queue EXCEPT ![s] = Tail(queue[s])]
        /\ status' = [status EXCEPT ![h] = "READY"]
        /\ value' = [value EXCEPT ![s] = value[s] + 1]
    BY Zenon, <1>1 DEF VBody, Readied
  <2>4. Woken(s)' = Woken(s) \cup {h} /\ h \notin Woken(s)
    BY Zenon, <2>1, <2>2, <2>3 DEF Woken
  <2>5. Cardinality(Woken(s)') = Cardinality(Woken(s)) + 1
    <3> HIDE DEF h
    <3>1. QED BY Zenon, <2>4, WokenFinite, FS_AddElement
  <2>6. \A r \in Semaphore \ {s} : Woken(r)' = Woken(r)
    BY <2>1, <2>2, <2>3 DEF Woken
  <2>7. SUFFICES ASSUME NEW r \in Semaphore, queue'[r] # <<>>
                 PROVE  value'[r] <= Cardinality(Woken(r)')
    BY Zenon DEF NoLostWakeup
  <2>8. CASE r = s
    <3>1. value[s] <= Cardinality(Woken(s)) /\ value[s] \in Nat /\ Cardinality(Woken(s)) \in Nat
      BY Zenon, <1>1, WokenFinite DEF NoLostWakeup
    <3>2. value'[s] = value[s] + 1
      BY Zenon, <2>3
    <3> HIDE <1>t
    <3>3. QED BY <2>5, <2>8, <3>1, <3>2
  <2>9. CASE r # s
    BY Zenon, <2>3, <2>6, <2>7, <2>9 DEF NoLostWakeup
  <2>10. QED BY Zenon, <2>8, <2>9
<1>2. CASE queue[s] = <<>>
  <2>1. UNCHANGED <<queue, status>> /\ value' = [value EXCEPT ![s] = value[s] + 1]
    BY Zenon, <1>2 DEF VBody
  <2>2. \A r \in Semaphore : Woken(r)' = Woken(r)
    BY Zenon, <2>1 DEF Woken
  <2>3. QED BY Zenon, <1>2, <2>1, <2>2 DEF NoLostWakeup
<1>3. QED BY Zenon, <1>1, <1>2

(* A turn of P's loop takes a unit and leaves, or queues up at value 0.        *)
LEMMA PKeepsWakeups ==
    ASSUME TypeOK, Structure, NoLostWakeup, NEW s \in Semaphore, PBody(s),
           status[currentThread] = "RUNNING",
           pc[currentThread] = "P" => sem[currentThread] = s,
           \A t \in Thread \ {currentThread} :
               \/ status'[t] = status[t]
               \/ status'[t] = "NONE" /\ status[t] = "BLOCKED",
           value[s] = 0 => status'[currentThread] = "BLOCKED"
    PROVE  NoLostWakeup'
<1> DEFINE c == currentThread
<1>t. /\ status \in [Thread -> ThreadStatus] /\ pc \in [Thread -> PC]
      /\ sem \in [Thread -> Semaphore \cup {NULL}]
      /\ currentThread \in Thread /\ threadToBeDestroyed \in Thread \cup {NULL}
      /\ readyList \in Seq(Thread)
      /\ queue \in [Semaphore -> Seq(Thread)] /\ value \in [Semaphore -> Nat]
  BY DEF TypeOK, ThreadTypes, SchedulerTypes, SemaphoreTypes
<1> USE <1>t
<1>1. CASE value[s] # 0
  <2>1. /\ value' = [value EXCEPT ![s] = value[s] - 1]
        /\ pc' = [pc EXCEPT ![c] = "tick"]
        /\ sem' = [sem EXCEPT ![c] = NULL]
        /\ UNCHANGED queue
    BY Zenon, <1>1 DEF PBody, EnterTick
  <2>2. \A r \in Semaphore : Woken(r)' = Woken(r) \ {c}
    BY Zenon, <2>1 DEF Woken
  <2>3. \A r \in Semaphore \ {s} : c \notin Woken(r)
    BY DEF Woken
  <2>4. SUFFICES ASSUME NEW r \in Semaphore, queue'[r] # <<>>
                 PROVE  value'[r] <= Cardinality(Woken(r)')
    BY Zenon DEF NoLostWakeup
  <2>5. CASE r = s
    <3>1. value[s] <= Cardinality(Woken(s)) /\ value[s] \in Nat /\ Cardinality(Woken(s)) \in Nat
      BY Zenon, <2>1, <2>4, <2>5, WokenFinite DEF NoLostWakeup
    <3>2. Cardinality(Woken(s) \ {c}) >= Cardinality(Woken(s)) - 1
      <4> DEFINE W == Woken(s)
      <4>1. IsFiniteSet(W) /\ Cardinality(W) \in Nat
        BY Zenon, WokenFinite
      <4> HIDE DEF c, W
      <4>2. Cardinality(W \ {c}) = IF c \in W THEN Cardinality(W) - 1 ELSE Cardinality(W)
        BY Zenon, <4>1, FS_RemoveElement
      <4>3. Cardinality(W \ {c}) >= Cardinality(W) - 1
        BY <4>1, <4>2
      <4>4. QED BY Zenon, <4>3 DEF W
    <3>3. value'[s] = value[s] - 1 /\ Cardinality(Woken(s) \ {c}) \in Nat
      <4>1. IsFiniteSet(Woken(s) \ {c})
        BY WokenFinite, FS_Subset
      <4>2. QED BY <2>1, <4>1, FS_CardinalityType
    <3>4. value[s] - 1 <= Cardinality(Woken(s) \ {c})
      <4> HIDE DEF c
      <4>1. \A v, w, x \in Nat : v <= w /\ x >= w - 1 => v - 1 <= x
        OBVIOUS
      <4>2. Cardinality(Woken(s) \ {c}) \in Nat
        BY Zenon, <3>3
      <4> HIDE <1>t
      <4>3. QED BY <3>1, <3>2, <4>1, <4>2, Zenon
    <3>5. Woken(s)' = Woken(s) \ {c}
      BY Zenon, <2>2
    <3>6. QED BY Zenon, <2>5, <3>3, <3>4, <3>5
  <2>6. CASE r # s
    <3>1. Woken(r)' = Woken(r)
      <4>1. Woken(r)' = Woken(r) \ {c} /\ c \notin Woken(r)
        BY Zenon, <2>2, <2>3, <2>6
      <4> HIDE DEF c
      <4>2. QED BY Zenon, <4>1
    <3>2. QED BY Zenon, <2>1, <2>4, <2>6, <3>1 DEF NoLostWakeup
  <2>7. QED BY Zenon, <2>5, <2>6
<1>2. CASE value[s] = 0
  <2>1. /\ queue' = [queue EXCEPT ![s] = Append(queue[s], c)]
        /\ pc' = [pc EXCEPT ![c] = "P"]
        /\ sem' = [sem EXCEPT ![c] = s]
        /\ UNCHANGED value
    BY Zenon, <1>2 DEF PBody
  <2>2. \A r \in Semaphore \ {s} : Woken(r)' = Woken(r)
    BY Zenon, <1>2, <2>1 DEF Woken
  <2>3. Cardinality(Woken(s)') \in Nat
    <3>1. IsFiniteSet(Woken(s)')
      <4>1. Woken(s)' \in SUBSET Thread
        BY Zenon DEF Woken
      <4>2. QED BY <4>1, KernelAssumption, FS_Subset
    <3>2. QED BY Zenon, <3>1, FS_CardinalityType
  <2>4. value'[s] <= Cardinality(Woken(s)')
    BY <1>2, <2>1, <2>3
  <2>5. QED BY <2>1, <2>2, <2>4 DEF NoLostWakeup
<1>3. QED BY Zenon, <1>1, <1>2

(* The running thread gives the CPU to the head of the ready list.             *)
LEMMA YieldKeepsWakeups ==
    ASSUME TypeOK, Structure, NoLostWakeup, status[currentThread] = "RUNNING",
           pc[currentThread] # "P", YieldSwitch, UNCHANGED <<value, queue, sem>>
    PROVE  NoLostWakeup'
<1> DEFINE c == currentThread
           n == Head(readyList)
<1>t. /\ status \in [Thread -> ThreadStatus] /\ pc \in [Thread -> PC]
      /\ sem \in [Thread -> Semaphore \cup {NULL}]
      /\ currentThread \in Thread /\ threadToBeDestroyed \in Thread \cup {NULL}
      /\ readyList \in Seq(Thread)
      /\ queue \in [Semaphore -> Seq(Thread)] /\ value \in [Semaphore -> Nat]
  BY Zenon DEF TypeOK, ThreadTypes, SchedulerTypes, SemaphoreTypes
<1> USE <1>t
<1>1. n \in Thread /\ n \in ItemsOf(readyList)
  BY Zenon, RemoveItems DEF YieldSwitch
<1>2. status[n] = "READY" /\ n # c
  BY Zenon, <1>1 DEF Structure, ThreadsInOnePlace
<1>3. /\ status' = [[status EXCEPT ![c] = "READY"] EXCEPT ![n] = "RUNNING"]
      /\ pc' = [pc EXCEPT ![c] = "yield"]
  BY Zenon DEF YieldSwitch, Run, Readied
<1>4. \A t \in Thread : OnItsWay(t)' <=> OnItsWay(t)
  BY <1>1, <1>2, <1>3 DEF OnItsWay
<1>5. QED BY Zenon, <1>4, SameWoken

(* Every action keeps NoLostWakeup.                                            *)
THEOREM NoWakeupIsLost == Spec => []NoLostWakeup
<1>1. Init => NoLostWakeup
  BY DEF Init, NoLostWakeup
<1>2. TypeOK /\ SemInP /\ Structure /\ NoLostWakeup /\ [Next]_vars => NoLostWakeup'
  <2> SUFFICES ASSUME TypeOK, SemInP, Structure, NoLostWakeup, [Next]_vars
               PROVE  NoLostWakeup'
    OBVIOUS
  <2> DEFINE c == currentThread
  <2>t. /\ status \in [Thread -> ThreadStatus] /\ pc \in [Thread -> PC]
        /\ sem \in [Thread -> Semaphore \cup {NULL}]
        /\ currentThread \in Thread /\ threadToBeDestroyed \in Thread \cup {NULL}
        /\ readyList \in Seq(Thread)
        /\ queue \in [Semaphore -> Seq(Thread)] /\ value \in [Semaphore -> Nat]
    BY Zenon DEF TypeOK, ThreadTypes, SchedulerTypes, SemaphoreTypes
  <2> USE <2>t DEF semVars
  <2>a. ASSUME UNCHANGED <<value, queue, sem, status>>,
               \A t \in Thread : pc'[t] = "P" <=> pc[t] = "P"
        PROVE  NoLostWakeup'
    <3>1. \A t \in Thread : OnItsWay(t)' <=> OnItsWay(t)
      BY Zenon, <2>a DEF OnItsWay
    <3>2. QED BY Zenon, <2>a, <3>1, SameWoken
  <2>1. ASSUME NEW t \in Thread, NewThread(t) PROVE NoLostWakeup'
    <3>1. /\ status' = [status EXCEPT ![t] = "JUST_CREATED"] /\ status[t] = "NONE"
          /\ pc' = [pc EXCEPT ![t] = "new"]
          /\ UNCHANGED <<value, queue, sem>>
      BY Zenon, <2>1 DEF NewThread
    <3>2. \A u \in Thread : OnItsWay(u)' <=> OnItsWay(u)
      BY Zenon, <3>1 DEF OnItsWay
    <3>3. QED BY Zenon, <3>1, <3>2, SameWoken
  <2>2. ASSUME NEW t \in Thread, Fork(t) PROVE NoLostWakeup'
    <3>1. /\ status' = [status EXCEPT ![t] = "READY"] /\ status[t] = "JUST_CREATED"
          /\ pc' = [[pc EXCEPT ![t] = "root"] EXCEPT ![c] = "tick"] /\ pc[c] = "kernel"
          /\ UNCHANGED <<value, queue, sem>>
      BY Zenon, <2>2 DEF Fork, Readied, Running
    <3>2. \A u \in Thread : OnItsWay(u)' <=> OnItsWay(u)
      BY Zenon, <3>1 DEF OnItsWay
    <3>3. QED BY Zenon, <3>1, <3>2, SameWoken
  <2>3. ASSUME NEW s \in Semaphore, P(s) PROVE NoLostWakeup'
    <3>1. /\ PBody(s) /\ status[c] = "RUNNING" /\ pc[c] = "kernel"
          /\ status' = IF value[s] = 0 THEN [status EXCEPT ![c] = "BLOCKED"] ELSE status
      BY Zenon, <2>3 DEF P, Running, PSleeps
    <3>2. /\ \A t \in Thread \ {c} : status'[t] = status[t]
          /\ value[s] = 0 => status'[c] = "BLOCKED"
      BY Zenon, <3>1
    <3> HIDE DEF TypeOK
    <3>3. QED BY Zenon, <3>1, <3>2, PKeepsWakeups
  <2>4. ASSUME NEW s \in Semaphore, V(s) PROVE NoLostWakeup'
    <3>1. /\ VBody(s) /\ UNCHANGED sem
          /\ pc' = [pc EXCEPT ![c] = "tick"] /\ pc[c] = "kernel"
      BY Zenon, <2>4 DEF V, Running, EnterTick
    <3>2. QED BY Zenon, <3>1, VKeepsWakeups
  <2>5. ASSUME NEW s \in Semaphore, Schedule(s) PROVE NoLostWakeup'
    BY Zenon, <2>5, <2>a DEF Schedule, threadVars
  <2>6. ASSUME NEW s \in Semaphore, TickDevice(s) PROVE NoLostWakeup'
    BY Zenon, <2>6, VKeepsWakeups DEF TickDevice, DeviceHandler
  <2>7. ASSUME NEW s \in Semaphore, IdleDevice(s) PROVE NoLostWakeup'
    BY Zenon, <2>7, VKeepsWakeups DEF IdleDevice, DeviceHandler
  <2>8. CASE Yield
    <3>1. status[c] = "RUNNING" /\ pc[c] = "kernel" /\ UNCHANGED <<value, queue, sem>>
      BY Zenon, <2>8 DEF Yield, Running
    <3>2. CASE YieldSwitch
      BY Zenon, <3>1, <3>2, YieldKeepsWakeups
    <3>3. CASE UNCHANGED status /\ pc' = [pc EXCEPT ![c] = "tick"]
      BY Zenon, <3>1, <3>3, <2>a
    <3>4. QED BY Zenon, <2>8, <3>2, <3>3 DEF Yield
  <2>9. CASE Finish
    <3>1. /\ status' = [status EXCEPT ![c] = "BLOCKED"]
          /\ pc' = [pc EXCEPT ![c] = "done"] /\ pc[c] = "kernel"
          /\ UNCHANGED <<value, queue, sem>>
      BY Zenon, <2>9 DEF Finish, Running
    <3>2. \A u \in Thread : OnItsWay(u)' <=> OnItsWay(u)
      BY Zenon, <3>1 DEF OnItsWay
    <3>3. QED BY Zenon, <3>1, <3>2, SameWoken
  <2>10. CASE StartProcess
    BY Zenon, <2>10, <2>a DEF StartProcess, Running
  <2>11. CASE Instruction
    BY Zenon, <2>11, <2>a DEF Instruction, Running, EnterTick
  <2>12. CASE SyscallHalt
    BY Zenon, <2>12, <2>a DEF SyscallHalt, threadVars
  <2>13. CASE TickTimer
    BY <2>13, <2>a DEF TickTimer, threadVars
  <2>14. CASE TickReturn
    BY Zenon, <2>14, <2>a DEF TickReturn, Running
  <2>15. CASE TickYield
    <3>1. status[c] = "RUNNING" /\ pc[c] = "tick" /\ UNCHANGED <<value, queue, sem>>
      BY Zenon, <2>15 DEF TickYield, Running
    <3>2. CASE YieldSwitch
      BY Zenon, <3>1, <3>2, YieldKeepsWakeups
    <3>3. CASE UNCHANGED <<status, pc>>
      BY Zenon, <3>1, <3>3, <2>a
    <3>4. QED BY Zenon, <2>15, <3>2, <3>3 DEF TickYield
  <2>16. CASE SleepRun
    <3> DEFINE n == Head(readyList)
    <3>1. n \in Thread /\ n \in ItemsOf(readyList)
      BY Zenon, <2>16, RemoveItems DEF SleepRun
    <3>2. status[n] = "READY"
      BY Zenon, <3>1 DEF Structure, ThreadsInOnePlace
    <3>3. /\ status' = [status EXCEPT ![n] = "RUNNING"]
          /\ UNCHANGED <<value, queue, sem, pc>>
      BY Zenon, <2>16 DEF SleepRun, Run
    <3>4. \A u \in Thread : OnItsWay(u)' <=> OnItsWay(u)
      BY Zenon, <3>1, <3>2, <3>3 DEF OnItsWay
    <3>5. QED BY Zenon, <3>3, <3>4, SameWoken
  <2>17. CASE IdleTimer
    BY Zenon, <2>17, <2>a DEF IdleTimer, threadVars
  <2>18. CASE IdleReturn
    BY Zenon, <2>18, <2>a DEF IdleReturn, threadVars
  <2>19. CASE IdleHalt
    BY Zenon, <2>19, <2>a DEF IdleHalt, threadVars
  <2>20. CASE ThreadRoot
    BY Zenon, <2>20, <2>a DEF ThreadRoot, Running, EnterTick
  <2>21. CASE ResumeYield
    <3>1. /\ status[c] = "RUNNING" /\ pc[c] = "yield"
          /\ status' = Reaped(status)
          /\ pc' = [pc EXCEPT ![c] = "tick"]
          /\ UNCHANGED <<value, queue, sem>>
      BY Zenon, <2>21 DEF ResumeYield, Running
    <3>2. \A t \in Thread : \/ status'[t] = status[t]
                            \/ status'[t] = "NONE" /\ status[t] = "BLOCKED"
      BY Zenon, <3>1, ReapedFacts
    <3>3. \A u \in Thread : OnItsWay(u)' <=> OnItsWay(u)
      BY Zenon, <3>1, <3>2 DEF OnItsWay
    <3>4. QED BY Zenon, <3>1, <3>3, SameWoken
  <2>22. CASE ResumeP
    <3> DEFINE s == sem[c]
    <3>1. /\ status[c] = "RUNNING" /\ pc[c] = "P" /\ s \in Semaphore /\ PBody(s)
          /\ status' = IF value[s] = 0 THEN [Reaped(status) EXCEPT ![c] = "BLOCKED"]
                       ELSE Reaped(status)
      BY Zenon, <2>22 DEF ResumeP, Running, SemInP, PSleeps
    <3>2. /\ Reaped(status) \in [Thread -> ThreadStatus]
          /\ \A t \in Thread : \/ Reaped(status)[t] = status[t]
                               \/ Reaped(status)[t] = "NONE" /\ status[t] = "BLOCKED"
      BY Zenon, <3>1, ReapedFacts
    <3>3. /\ \A t \in Thread \ {c} : \/ status'[t] = status[t]
                                     \/ status'[t] = "NONE" /\ status[t] = "BLOCKED"
          /\ value[s] = 0 => status'[c] = "BLOCKED"
      BY Zenon, <3>1, <3>2
    <3> HIDE DEF TypeOK
    <3>4. QED BY Zenon, <3>1, <3>3, PKeepsWakeups
  <2>23. CASE Halted \/ UNCHANGED vars
    BY <2>23, <2>a DEF Halted, vars, threadVars
  <2>24. QED
    BY Zenon, <2>1, <2>2, <2>3, <2>4, <2>5, <2>6, <2>7, <2>8, <2>9, <2>10, <2>11, <2>12, <2>13,
       <2>14, <2>15, <2>16, <2>17, <2>18, <2>19, <2>20, <2>21, <2>22, <2>23 DEF Next
<1>3. QED BY <1>1, <1>2, StructureInvariant, PTL DEF Spec
=============================================================================
