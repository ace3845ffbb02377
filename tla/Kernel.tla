------------------------------- MODULE Kernel -------------------------------
(* The Nachos multiprogramming kernel on its single simulated CPU: thread     *)
(* objects and their IDs (thread.cc), the ready list and the context switch   *)
(* (scheduler.cc), semaphores (synch.cc), and the part of interrupt.cc that   *)
(* decides when a thread can lose the CPU.                                    *)
(*                                                                            *)
(* Only currentThread acts.  The code between SetLevel(IntOff) and the next   *)
(* SetLevel(IntOn) or SWITCH is one step; after SWITCH the thread switched to *)
(* continues from its own pc.  Turning interrupts on runs Interrupt::OneTick, *)
(* a phase (pc "tick") in which handlers run and at whose end the thread may  *)
(* be made to yield.  Simulated time is abstracted here: any outstanding      *)
(* interrupt may be due at any tick (module Interrupt has the clock).         *)
EXTENDS Integers, Sequences, FiniteSets

CONSTANTS
    Thread,       \* the memory blocks thread objects can occupy
    Main,         \* the thread Initialize() wraps around the UNIX process
    Semaphore,    \* the semaphores
    InitialValue, \* InitialValue[s]: the value semaphore s is created with
    MaxThread,    \* system.h: size of threadIDs (128)
    TimerOn,      \* TRUE iff the time-slice timer runs (nachos -rs)
    MaxValue,     \* bound: value[s] plus outstanding interrupts of s
    NULL

ASSUME KernelAssumption ==
    /\ IsFiniteSet(Thread)
    /\ Main \in Thread
    /\ NULL \notin Thread \cup Semaphore
    /\ InitialValue \in [Semaphore -> Nat]
    /\ MaxThread \in Nat \ {0}
    /\ TimerOn \in BOOLEAN
    /\ MaxValue \in Nat

VARIABLES
    currentThread,       \* the thread that has the CPU
    status,              \* Thread::status, "NONE" for an unallocated block
    threadID,            \* Thread::threadID
    pc,                  \* where the thread is, or will resume after SWITCH
    sem,                 \* the semaphore whose P() the thread is inside
    oldStatus,           \* "old" of the thread's outermost OneTick
    space,               \* Thread::space # NULL: it runs a user program
    savedRegs,           \* Thread::userRegisters: whose register set it holds
    readyList,           \* Scheduler::readyList
    threadToBeDestroyed, \* the finished thread Run() is to delete, or NULL
    threadIDs,           \* the indices of threadIDs[] that hold 1
    value,               \* Semaphore::value
    queue,               \* Semaphore::queue
    outstanding,         \* device interrupts scheduled that will V() semaphore s
    level,               \* Interrupt::level
    yieldOnReturn,       \* Interrupt::yieldOnReturn
    machineStatus,       \* Interrupt::status
    machineRegs,         \* whose user registers are in the machine, or NULL
    pageTable,           \* whose page table the machine uses, or NULL
    halted               \* Interrupt::Halt() was called

threadVars == <<status, threadID, pc, sem, oldStatus, space, savedRegs>>
schedVars  == <<currentThread, readyList, threadToBeDestroyed, threadIDs>>
semVars    == <<value, queue, outstanding>>
intVars    == <<level, yieldOnReturn, machineStatus, halted>>
userVars   == <<machineRegs, pageTable>>
vars       == <<threadVars, schedVars, semVars, intVars, userVars>>

(* NEW: allocated, not forked.  ROOT: will start in ThreadRoot.  KERNEL, USER: *)
(* running with interrupts on.  TICK: inside OneTick.  YIELD, P: switched out  *)
(* inside Yield, inside P's Sleep.  DONE: past Finish.                         *)
PC == {"none", "new", "root", "kernel", "user", "tick", "yield", "P", "done"}
ThreadStatus  == {"NONE", "JUST_CREATED", "READY", "RUNNING", "BLOCKED"}
MachineStatus == {"IdleMode", "SystemMode", "UserMode"}

ItemsOf(s) == {s[i] : i \in DOMAIN s}

(* ThreadRoot's and Initialize's interrupt->Enable() put a thread in OneTick.  *)
Init ==
    /\ currentThread = Main
    /\ status = [t \in Thread |-> IF t = Main THEN "RUNNING" ELSE "NONE"]
    /\ threadID = [t \in Thread |-> IF t = Main THEN 0 ELSE -1]
    /\ pc = [t \in Thread |-> IF t = Main THEN "tick" ELSE "none"]
    /\ sem = [t \in Thread |-> NULL]
    /\ oldStatus = [t \in Thread |-> "SystemMode"]
    /\ space = [t \in Thread |-> FALSE]
    /\ savedRegs = [t \in Thread |-> NULL]
    /\ readyList = <<>>
    /\ threadToBeDestroyed = NULL
    /\ threadIDs = {0}
    /\ value = InitialValue
    /\ queue = [s \in Semaphore |-> <<>>]
    /\ outstanding = [s \in Semaphore |-> 0]
    /\ level = "IntOff"
    /\ yieldOnReturn = FALSE
    /\ machineStatus = "SystemMode"
    /\ machineRegs = NULL
    /\ pageTable = NULL
    /\ halted = FALSE
-----------------------------------------------------------------------------
(* Where the CPU is. *)

Running(at) == ~halted /\ status[currentThread] = "RUNNING" /\ pc[currentThread] = at

(* Inside Thread::Sleep: the thread gave up the CPU, nobody has it yet.        *)
Sleeping == ~halted /\ status[currentThread] # "RUNNING"

(* SetLevel(IntOn), interrupts having been off: OneTick starts, with its       *)
(* handlers running at IntOff.                                                 *)
EnterTick ==
    /\ pc' = [pc EXCEPT ![currentThread] = "tick"]
    /\ oldStatus' = [oldStatus EXCEPT ![currentThread] = machineStatus]
    /\ level' = "IntOff"

(* Scheduler::ReadyToRun as an effect on a status function and a ready list.   *)
Readied(st, t) == [st EXCEPT ![t] = "READY"]

(* Scheduler::Run up to SWITCH: st and rest are the statuses and the ready     *)
(* list the caller leaves behind.                                              *)
Run(nextThread, st, rest) ==
    /\ savedRegs' = IF space[currentThread]
                    THEN [savedRegs EXCEPT ![currentThread] = machineRegs]
                    ELSE savedRegs
    /\ currentThread' = nextThread
    /\ status' = [st EXCEPT ![nextThread] = "RUNNING"]
    /\ readyList' = rest
-----------------------------------------------------------------------------
(* Calls a thread makes from kernel code, interrupts on.                       *)

(* allocatedThreadID returns i: the loop's first free index, -1 if none is.    *)
allocatedThreadID(i) ==
    \/ /\ i \in 0 .. MaxThread - 1
       /\ i \notin threadIDs
       /\ \A j \in 0 .. i - 1 : j \in threadIDs
    \/ /\ i = -1
       /\ \A j \in 0 .. MaxThread - 1 : j \in threadIDs

NewThread(t) ==
    /\ Running("kernel")
    /\ status[t] = "NONE"
    /\ status' = [status EXCEPT ![t] = "JUST_CREATED"]
    /\ pc' = [pc EXCEPT ![t] = "new"]
    /\ \E i \in -1 .. MaxThread :
          /\ allocatedThreadID(i)
          /\ threadID' = [threadID EXCEPT ![t] = i]
          /\ threadIDs' = threadIDs \cup ({i} \ {-1})
    /\ space' = [space EXCEPT ![t] = FALSE]
    /\ UNCHANGED <<currentThread, sem, oldStatus, savedRegs, readyList,
                   threadToBeDestroyed, semVars, intVars, userVars>>

Fork(t) ==
    /\ Running("kernel")
    /\ status[t] = "JUST_CREATED"
    /\ pc' = [pc EXCEPT ![t] = "root", ![currentThread] = "tick"]
    /\ oldStatus' = [oldStatus EXCEPT ![currentThread] = machineStatus]
    /\ level' = "IntOff"
    /\ status' = Readied(status, t)
    /\ readyList' = Append(readyList, t)
    /\ UNCHANGED <<currentThread, threadID, sem, space, savedRegs, threadIDs,
                   threadToBeDestroyed, semVars, yieldOnReturn, machineStatus,
                   halted, userVars>>

(* Mutant: the yielding thread goes back to the front of the ready list.       *)
YieldSwitchFront ==
    /\ readyList # <<>>
    /\ pc' = [pc EXCEPT ![currentThread] = "yield"]
    /\ Run(Head(readyList), Readied(status, currentThread),
           <<currentThread>> \o Tail(readyList))

(* Thread::Yield called by the thread itself.                                  *)
YieldSwitch ==
    /\ readyList # <<>>
    /\ pc' = [pc EXCEPT ![currentThread] = "yield"]
    /\ Run(Head(readyList), Readied(status, currentThread),
           Append(Tail(readyList), currentThread))

Yield ==
    /\ Running("kernel")
    /\ level' = "IntOff"
    /\ oldStatus' = [oldStatus EXCEPT ![currentThread] = machineStatus]
    /\ \/ YieldSwitch
       \/ /\ readyList = <<>>
          /\ pc' = [pc EXCEPT ![currentThread] = "tick"]
          /\ UNCHANGED <<currentThread, status, readyList, savedRegs>>
    /\ UNCHANGED <<threadID, sem, space, threadIDs, threadToBeDestroyed, semVars,
                   yieldOnReturn, machineStatus, halted, userVars>>

(* One turn of P's loop: consume the value and enable interrupts, or queue up  *)
(* and go to Sleep.                                                            *)
PBody(s) ==
    /\ UNCHANGED outstanding
    /\ \/ /\ value[s] # 0
          /\ value' = [value EXCEPT ![s] = @ - 1]
          /\ EnterTick
          /\ sem' = [sem EXCEPT ![currentThread] = NULL]
          /\ UNCHANGED queue
       \/ /\ value[s] = 0
          /\ queue' = [queue EXCEPT ![s] = Append(@, currentThread)]
          /\ pc' = [pc EXCEPT ![currentThread] = "P"]
          /\ sem' = [sem EXCEPT ![currentThread] = s]
          /\ level' = "IntOff"
          /\ UNCHANGED <<value, oldStatus>>

(* status = BLOCKED is Sleep's; st is the status function P found.             *)
PSleeps(s, st) == IF value[s] = 0 THEN [st EXCEPT ![currentThread] = "BLOCKED"] ELSE st

P(s) ==
    /\ Running("kernel")
    /\ PBody(s)
    /\ status' = PSleeps(s, status)
    /\ UNCHANGED <<threadID, space, savedRegs, schedVars, yieldOnReturn,
                   machineStatus, halted, userVars>>

(* Mutant: V() looks at the first waiter without removing it.                  *)
VBodyPeeks(s) ==
    /\ value' = [value EXCEPT ![s] = @ + 1]
    /\ \/ /\ queue[s] # <<>>
          /\ status' = Readied(status, Head(queue[s]))
          /\ readyList' = Append(readyList, Head(queue[s]))
       \/ /\ queue[s] = <<>>
          /\ UNCHANGED <<status, readyList>>
    /\ UNCHANGED queue

(* Mutant: V() wakes a waiter only if the value was 0.                         *)
VBodyAtZero(s) ==
    /\ value' = [value EXCEPT ![s] = @ + 1]
    /\ \/ /\ queue[s] # <<>> /\ value[s] = 0
          /\ queue' = [queue EXCEPT ![s] = Tail(@)]
          /\ status' = Readied(status, Head(queue[s]))
          /\ readyList' = Append(readyList, Head(queue[s]))
       \/ /\ queue[s] = <<>> \/ value[s] # 0
          /\ UNCHANGED <<queue, status, readyList>>

(* Mutant: V() takes the first waiter off the queue and does not ready it.     *)
VBodyDropsThread(s) ==
    /\ value' = [value EXCEPT ![s] = @ + 1]
    /\ \/ queue[s] # <<>> /\ queue' = [queue EXCEPT ![s] = Tail(@)]
       \/ queue[s] = <<>> /\ UNCHANGED queue
    /\ UNCHANGED <<status, readyList>>

(* Semaphore::V between its SetLevel calls.                                    *)
VBody(s) ==
    /\ value' = [value EXCEPT ![s] = @ + 1]
    /\ \/ /\ queue[s] # <<>>
          /\ queue' = [queue EXCEPT ![s] = Tail(@)]
          /\ status' = Readied(status, Head(queue[s]))
          /\ readyList' = Append(readyList, Head(queue[s]))
       \/ /\ queue[s] = <<>>
          /\ UNCHANGED <<queue, status, readyList>>

V(s) ==
    /\ Running("kernel")
    /\ value[s] + outstanding[s] < MaxValue
    /\ VBody(s)
    /\ EnterTick
    /\ UNCHANGED <<threadID, sem, space, savedRegs, currentThread, threadIDs,
                   threadToBeDestroyed, outstanding, yieldOnReturn, machineStatus,
                   halted, userVars>>

Finish ==
    /\ Running("kernel")
    /\ threadToBeDestroyed' = currentThread
    /\ pc' = [pc EXCEPT ![currentThread] = "done"]
    /\ status' = [status EXCEPT ![currentThread] = "BLOCKED"]
    /\ level' = "IntOff"
    /\ UNCHANGED <<threadID, sem, oldStatus, space, savedRegs, currentThread, readyList,
                   threadIDs, semVars, yieldOnReturn, machineStatus, halted, userVars>>

(* A device request (disk, console, network): Interrupt::Schedule is called    *)
(* with a handler that will V() semaphore s.                                   *)
Schedule(s) ==
    /\ Running("kernel")
    /\ value[s] + outstanding[s] < MaxValue
    /\ outstanding' = [outstanding EXCEPT ![s] = @ + 1]
    /\ UNCHANGED <<threadVars, schedVars, value, queue, intVars, userVars>>

(* StartProcess from "currentThread->space = space" into Machine::Run.         *)
StartProcess ==
    /\ Running("kernel")
    /\ space' = [space EXCEPT ![currentThread] = TRUE]
    /\ machineRegs' = currentThread
    /\ pageTable' = currentThread
    /\ machineStatus' = "UserMode"
    /\ pc' = [pc EXCEPT ![currentThread] = "user"]
    /\ UNCHANGED <<status, threadID, sem, oldStatus, savedRegs, schedVars, semVars,
                   level, yieldOnReturn, halted>>
-----------------------------------------------------------------------------
(* A user program: Machine::Run executes an instruction, then OneTick.         *)

Instruction ==
    /\ Running("user")
    /\ EnterTick
    /\ UNCHANGED <<status, threadID, sem, space, savedRegs, schedVars, semVars,
                   yieldOnReturn, machineStatus, halted, userVars>>

(* RaiseException, then ExceptionHandler on SC_Halt: interrupt->Halt().        *)
SyscallHalt ==
    /\ Running("user")
    /\ machineStatus' = "SystemMode"
    /\ halted' = TRUE
    /\ UNCHANGED <<threadVars, schedVars, semVars, level, yieldOnReturn, userVars>>
-----------------------------------------------------------------------------
(* Interrupt::OneTick.  CheckIfDue runs handlers until none is due.            *)

DeviceHandler(s) ==
    /\ outstanding[s] > 0
    /\ outstanding' = [outstanding EXCEPT ![s] = @ - 1]
    /\ VBody(s)

TickDevice(s) ==
    /\ Running("tick")
    /\ DeviceHandler(s)
    /\ UNCHANGED <<threadID, pc, sem, oldStatus, space, savedRegs, currentThread,
                   threadToBeDestroyed, threadIDs, intVars, userVars>>

(* TimerInterruptHandler: CheckIfDue has set the status to SystemMode, so its  *)
(* test for IdleMode never fails.                                              *)
TickTimer ==
    /\ Running("tick")
    /\ TimerOn
    /\ yieldOnReturn' = TRUE
    /\ UNCHANGED <<threadVars, schedVars, semVars, level, machineStatus, halted, userVars>>

(* No interrupt is due any more and none asked for a yield.                    *)
TickReturn ==
    /\ Running("tick")
    /\ ~yieldOnReturn
    /\ level' = "IntOn"
    /\ machineStatus' = oldStatus[currentThread]
    /\ pc' = [pc EXCEPT ![currentThread] = IF space[currentThread] THEN "user" ELSE "kernel"]
    /\ UNCHANGED <<status, threadID, sem, oldStatus, space, savedRegs, schedVars,
                   semVars, yieldOnReturn, halted, userVars>>

(* The time slice is over: Yield, whose SetLevel(IntOn) starts another OneTick *)
(* inside this one.                                                            *)
TickYield ==
    /\ Running("tick")
    /\ yieldOnReturn
    /\ yieldOnReturn' = FALSE
    /\ machineStatus' = "SystemMode"
    /\ \/ YieldSwitch
       \/ /\ readyList = <<>>
          /\ UNCHANGED <<pc, currentThread, status, readyList, savedRegs>>
    /\ UNCHANGED <<threadID, sem, oldStatus, space, threadIDs, threadToBeDestroyed,
                   semVars, level, halted, userVars>>
-----------------------------------------------------------------------------
(* Thread::Sleep: find a thread to run, or idle until an interrupt readies one. *)

SleepRun ==
    /\ Sleeping
    /\ machineStatus = "SystemMode"
    /\ readyList # <<>>
    /\ Run(Head(readyList), status, Tail(readyList))
    /\ UNCHANGED <<threadID, pc, sem, oldStatus, space, threadIDs, threadToBeDestroyed,
                   semVars, intVars, userVars>>

(* Interrupt::Idle calls CheckIfDue(TRUE), then CheckIfDue(FALSE): the first    *)
(* needs an empty ready list, the others happen in the same call of Idle.       *)
InIdle == Sleeping /\ (machineStatus = "SystemMode" => readyList = <<>>)

IdleDevice(s) ==
    /\ InIdle
    /\ DeviceHandler(s)
    /\ machineStatus' = "IdleMode"
    /\ UNCHANGED <<threadID, pc, sem, oldStatus, space, savedRegs, currentThread,
                   threadToBeDestroyed, threadIDs, level, yieldOnReturn, halted, userVars>>

IdleTimer ==
    /\ InIdle
    /\ TimerOn
    /\ \E s \in Semaphore : outstanding[s] > 0
    /\ machineStatus' = "IdleMode"
    /\ yieldOnReturn' = TRUE
    /\ UNCHANGED <<threadVars, schedVars, semVars, level, halted, userVars>>

IdleReturn ==
    /\ Sleeping
    /\ machineStatus = "IdleMode"
    /\ machineStatus' = "SystemMode"
    /\ yieldOnReturn' = FALSE
    /\ UNCHANGED <<threadVars, schedVars, semVars, level, halted, userVars>>

(* Nothing is pending but the timer: Idle calls Halt.                           *)
IdleHalt ==
    /\ Sleeping
    /\ machineStatus = "SystemMode"
    /\ readyList = <<>>
    /\ \A s \in Semaphore : outstanding[s] = 0
    /\ machineStatus' = "IdleMode"
    /\ halted' = TRUE
    /\ UNCHANGED <<threadVars, schedVars, semVars, level, yieldOnReturn, userVars>>
-----------------------------------------------------------------------------
(* What a thread does when SWITCH gives it the CPU.                             *)

(* Scheduler::Run after SWITCH: delete the carcass (Thread::~Thread frees its   *)
(* block and its ID; an ID of -1 is written outside threadIDs), and restore the *)
(* user state of the thread that now runs.                                      *)
Reaped(st) ==
    IF threadToBeDestroyed = NULL THEN st
    ELSE [st EXCEPT ![threadToBeDestroyed] = "NONE"]

(* Mutant: threadToBeDestroyed is not reset after the delete.                  *)
AfterSWITCHNoReset ==
    /\ UNCHANGED threadToBeDestroyed
    /\ threadIDs' = IF threadToBeDestroyed = NULL THEN threadIDs
                    ELSE threadIDs \ {threadID[threadToBeDestroyed]}
    /\ machineRegs' = IF space[currentThread] THEN savedRegs[currentThread] ELSE machineRegs
    /\ pageTable' = IF space[currentThread] THEN currentThread ELSE pageTable

(* Mutant: ~Thread does not give the ID back.                                  *)
AfterSWITCHKeepsID ==
    /\ threadToBeDestroyed' = NULL
    /\ UNCHANGED threadIDs
    /\ machineRegs' = IF space[currentThread] THEN savedRegs[currentThread] ELSE machineRegs
    /\ pageTable' = IF space[currentThread] THEN currentThread ELSE pageTable

(* Mutant: the page table register is not reloaded.                            *)
AfterSWITCHOldPageTable ==
    /\ threadToBeDestroyed' = NULL
    /\ threadIDs' = IF threadToBeDestroyed = NULL THEN threadIDs
                    ELSE threadIDs \ {threadID[threadToBeDestroyed]}
    /\ machineRegs' = IF space[currentThread] THEN savedRegs[currentThread] ELSE machineRegs
    /\ UNCHANGED pageTable

AfterSWITCH ==
    /\ threadToBeDestroyed' = NULL
    /\ threadIDs' = IF threadToBeDestroyed = NULL THEN threadIDs
                    ELSE threadIDs \ {threadID[threadToBeDestroyed]}
    /\ machineRegs' = IF space[currentThread] THEN savedRegs[currentThread] ELSE machineRegs
    /\ pageTable' = IF space[currentThread] THEN currentThread ELSE pageTable

(* A new thread starts in ThreadRoot, not behind SWITCH: InterruptEnable.       *)
ThreadRoot ==
    /\ Running("root")
    /\ EnterTick
    /\ UNCHANGED <<status, threadID, sem, space, savedRegs, schedVars, semVars,
                   yieldOnReturn, machineStatus, halted, userVars>>

(* Back in Yield, whose SetLevel(IntOn) starts a OneTick.                       *)
ResumeYield ==
    /\ Running("yield")
    /\ AfterSWITCH
    /\ status' = Reaped(status)
    /\ pc' = [pc EXCEPT ![currentThread] = "tick"]
    /\ UNCHANGED <<threadID, sem, oldStatus, space, savedRegs, currentThread, readyList,
                   semVars, intVars>>

(* Mutant: "if" for P's "while": a woken thread does not test value again.     *)
ResumePIf ==
    /\ Running("P")
    /\ AfterSWITCH
    /\ value' = [value EXCEPT ![sem[currentThread]] = @ - 1]
    /\ EnterTick
    /\ sem' = [sem EXCEPT ![currentThread] = NULL]
    /\ status' = Reaped(status)
    /\ UNCHANGED <<queue, outstanding, threadID, space, savedRegs, currentThread,
                   readyList, yieldOnReturn, machineStatus, halted>>

(* Back in P's loop.                                                            *)
ResumeP ==
    /\ Running("P")
    /\ AfterSWITCH
    /\ PBody(sem[currentThread])
    /\ status' = PSleeps(sem[currentThread], Reaped(status))
    /\ UNCHANGED <<threadID, space, savedRegs, currentThread, readyList,
                   yieldOnReturn, machineStatus, halted>>
-----------------------------------------------------------------------------
(* After Halt the simulator has exited.                                         *)
Halted == halted /\ UNCHANGED vars

Next ==
    \/ \E t \in Thread : NewThread(t) \/ Fork(t)
    \/ \E s \in Semaphore : P(s) \/ V(s) \/ Schedule(s) \/ TickDevice(s) \/ IdleDevice(s)
    \/ Yield \/ Finish \/ StartProcess
    \/ Instruction \/ SyscallHalt
    \/ TickTimer \/ TickReturn \/ TickYield
    \/ SleepRun \/ IdleTimer \/ IdleReturn \/ IdleHalt
    \/ ThreadRoot \/ ResumeYield \/ ResumeP
    \/ Halted

Spec == Init /\ [][Next]_vars

(* The CPU never stops while it has something to do.  A running thread passes  *)
(* through OneTick again and again and the timer is re-armed at most 200 ticks *)
(* ahead, so it goes off; Idle moves the clock to the next interrupt, so a     *)
(* device with a request outstanding gets to interrupt.                        *)
Fairness ==
    /\ WF_vars(Next)
    /\ SF_vars(TickTimer)
    /\ SF_vars(\E s \in Semaphore : IdleDevice(s))

FairSpec == Spec /\ Fairness
-----------------------------------------------------------------------------
(* Properties.                                                                  *)

ThreadTypes ==
    /\ status \in [Thread -> ThreadStatus]
    /\ threadID \in [Thread -> -1 .. MaxThread - 1]
    /\ pc \in [Thread -> PC]
    /\ sem \in [Thread -> Semaphore \cup {NULL}]
    /\ oldStatus \in [Thread -> MachineStatus]
    /\ space \in [Thread -> BOOLEAN]
    /\ savedRegs \in [Thread -> Thread \cup {NULL}]

SchedulerTypes ==
    /\ currentThread \in Thread
    /\ readyList \in Seq(Thread)
    /\ threadToBeDestroyed \in Thread \cup {NULL}
    /\ threadIDs \in SUBSET (0 .. MaxThread - 1)

SemaphoreTypes ==
    /\ value \in [Semaphore -> Nat]
    /\ queue \in [Semaphore -> Seq(Thread)]
    /\ outstanding \in [Semaphore -> Nat]

MachineTypes ==
    /\ level \in {"IntOn", "IntOff"}
    /\ yieldOnReturn \in BOOLEAN
    /\ machineStatus \in MachineStatus
    /\ machineRegs \in Thread \cup {NULL}
    /\ pageTable \in Thread \cup {NULL}
    /\ halted \in BOOLEAN

(* The variables have the types of the fields they stand for; in particular an *)
(* ID is -1 or an index of threadIDs[], and no value or count is negative.     *)
TypeOK == ThreadTypes /\ SchedulerTypes /\ SemaphoreTypes /\ MachineTypes

NoDuplicates(l) == \A i, j \in DOMAIN l : l[i] = l[j] => i = j

(* A thread is in exactly one place, the one its status says: the ready list   *)
(* iff READY, one semaphore's queue, once, iff it sleeps in P() of that        *)
(* semaphore, the CPU if RUNNING (ReadyToRun, FindNextToRun, P and V keep      *)
(* status, readyList and queue in step across every switch).                   *)
ThreadsInOnePlace ==
    /\ NoDuplicates(readyList)
    /\ \A t \in Thread : status[t] = "READY" <=> t \in ItemsOf(readyList)
    /\ \A s \in Semaphore :
          /\ NoDuplicates(queue[s])
          /\ \A t \in Thread :
                t \in ItemsOf(queue[s]) <=>
                    status[t] = "BLOCKED" /\ pc[t] = "P" /\ sem[t] = s
    /\ \A t \in Thread : status[t] = "RUNNING" => t = currentThread

(* The threads V() has taken off the queue of s that have not rechecked value. *)
Woken(s) == {t \in Thread : pc[t] = "P" /\ sem[t] = s /\ status[t] \in {"READY", "RUNNING"}}

(* No wake-up is lost: while threads sleep on s, every unit of its value has a *)
(* woken thread on its way to take it (P rechecks in a while loop, V always    *)
(* wakes one), however the woken threads are overtaken.                        *)
NoLostWakeup ==
    \A s \in Semaphore : queue[s] # <<>> => value[s] <= Cardinality(Woken(s))

(* Thread::~Thread's ASSERT(this != currentThread), and its precondition: what *)
(* Run() deletes has finished, is on no list and does not have the CPU back.   *)
CarcassIsDead ==
    /\ threadToBeDestroyed # NULL =>
          status[threadToBeDestroyed] = "BLOCKED" /\ pc[threadToBeDestroyed] = "done"
    /\ status[currentThread] # "NONE"

(* Where a thread is agrees with its status; only a thread in Sleep has the    *)
(* CPU without running.                                                        *)
PlaceFollowsStatus ==
    /\ \A t \in Thread :
          /\ status[t] = "NONE" => pc[t] \in {"none", "done"}
          /\ status[t] = "JUST_CREATED" => pc[t] = "new"
          /\ status[t] = "READY" => pc[t] \in {"root", "yield", "P"}
          /\ status[t] = "RUNNING" => pc[t] \in {"root", "yield", "P", "kernel", "user", "tick"}
          /\ status[t] = "BLOCKED" => pc[t] \in {"P", "done"}
    /\ status[currentThread] # "RUNNING" =>
          status[currentThread] \in {"READY", "BLOCKED"} /\ pc[currentThread] \in {"P", "done"}

(* The machine is in the state of the thread that runs: UserMode with its own  *)
(* registers and page table when it executes user code, SystemMode when it is  *)
(* in the kernel, interrupts on in both; off in OneTick's handlers and         *)
(* throughout Sleep (its ASSERT).                                              *)
MachineFollowsThread ==
    /\ Running("user") => /\ machineStatus = "UserMode"
                          /\ machineRegs = currentThread
                          /\ pageTable = currentThread
    /\ Running("kernel") => machineStatus = "SystemMode"
    /\ Sleeping => machineStatus # "UserMode"
    /\ ~halted => (level = "IntOn" <=> Running("user") \/ Running("kernel"))

(* allocatedThreadID and ~Thread keep the ID table exact: two live threads     *)
(* share an ID only if both got -1, and an index is taken iff a live thread,   *)
(* or the carcass of one, has it.                                              *)
IDsAreExact ==
    /\ \A t, u \in Thread :
          /\ status[t] # "NONE" /\ status[u] # "NONE"
          /\ threadID[t] = threadID[u] /\ threadID[t] # -1
          => t = u
    /\ threadIDs = {threadID[t] : t \in {u \in Thread : status[u] # "NONE"}} \ {-1}

(* With the timer on, a ready thread eventually gets the CPU, whatever the     *)
(* others do, unless the machine halts (round robin: ReadyToRun appends,       *)
(* FindNextToRun takes the head).                                              *)
ReadyRuns ==
    \A t \in Thread : status[t] = "READY" ~> (halted \/ status[t] = "RUNNING")

(* The kernel's semaphores implement SemaphoreSpec: t waits while it is inside *)
(* P's loop.                                                                   *)
Sem == INSTANCE SemaphoreSpec WITH
    waiting <- [t \in Thread |-> IF status[t] # "NONE" /\ pc[t] = "P" THEN sem[t] ELSE NULL],
    stopped <- halted

(* P() takes one unit and only when there is one, V() adds exactly one.        *)
ImplementsSemaphores == Sem!Spec

(* As SemaphoreSpec's UnitsAreTaken.                                           *)
UnitsAreTaken == Sem!UnitsAreTaken

(* Thread.cc 136-140: Scheduler::Run() will call the destructor of a finished  *)
(* thread.  Every finished thread is deleted or is the one that will be.       *)
EveryCarcassIsReaped ==
    \A t \in Thread :
        pc[t] = "done" /\ status[t] # "NONE" => threadToBeDestroyed = t
=============================================================================
