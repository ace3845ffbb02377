----------------------------- MODULE Interrupt -----------------------------
(* The simulated clock and the list of pending interrupts (interrupt.cc,      *)
(* timer.cc, list.cc's sorted lists), as one CPU sees them: OneTick when      *)
(* interrupts are enabled or an instruction was executed, Idle when Sleep     *)
(* finds no thread to run.  Which thread runs is module Kernel's concern.     *)
EXTENDS Integers, Sequences, FiniteSets

CONSTANTS
    OneShot,    \* interrupt types of devices that interrupt once per request
    Poller,     \* interrupt types whose handlers reschedule themselves
    Latency,    \* how far ahead a device request schedules its interrupt
    PollTime,   \* ConsoleTime, NetworkTime: period of the pollers
    TimerTicks, \* stats.h: average time between timer interrupts
    SystemTick, \* stats.h: clock advance per enabling of interrupts
    UserTick,   \* stats.h: clock advance per user instruction
    TimerOn,    \* nachos -rs
    MaxTicks,   \* bound: no OneTick or Idle starts from here on
    MaxPending  \* bound: interrupts pending when a device request is made

Timer == "TimerInt"

ASSUME InterruptAssumption ==
    /\ Timer \notin OneShot \cup Poller
    /\ Latency \subseteq Nat \ {0}
    /\ PollTime \in Nat \ {0}
    /\ TimerTicks \in Nat \ {0}
    /\ SystemTick \in Nat \ {0}
    /\ UserTick \in Nat \ {0}
    /\ TimerOn \in BOOLEAN
    /\ MaxTicks \in Nat
    /\ MaxPending \in Nat

VARIABLES
    totalTicks, idleTicks, systemTicks, userTicks, \* Statistics
    pending,        \* Interrupt::pending
    level,          \* Interrupt::level
    yieldOnReturn,  \* Interrupt::yieldOnReturn
    status,         \* Interrupt::status
    phase,          \* "run", inside "OneTick" or inside "Idle", or "halt"
    lastFired,      \* history: when the last interrupt fired was due
    owed            \* history: interrupts each device has still to raise

ticks == <<totalTicks, idleTicks, systemTicks, userTicks>>
vars  == <<ticks, pending, level, yieldOnReturn, status, phase, lastFired, owed>>

Device  == OneShot \cup Poller
IntType == Device \cup {Timer}
PendingInterrupt == [when : Nat, type : IntType]

(* List::SortedInsert puts an interrupt before the first one that is due later. *)
InsertPosition(l, e, j) ==
    /\ j \in 1 .. Len(l) + 1
    /\ \A i \in 1 .. j - 1 : l[i].when <= e.when
    /\ j <= Len(l) => e.when < l[j].when

Inserted(l, e, j) ==
    [i \in 1 .. Len(l) + 1 |-> IF i < j THEN l[i] ELSE IF i = j THEN e ELSE l[i - 1]]

(* Mutant: walks past one interrupt that is due later.                         *)
SortedInsertLate(l, e) ==
    \E j \in 1 .. Len(l) + 1 :
        /\ InsertPosition(l, e, j)
        /\ pending' = Inserted(l, e, IF j <= Len(l) THEN j + 1 ELSE j)

SortedInsert(l, e) ==
    \E j \in 1 .. Len(l) + 1 : InsertPosition(l, e, j) /\ pending' = Inserted(l, e, j)

(* Timer::TimeOfNextInterrupt, "randomize" being on; the pollers' period.       *)
Delays(type) == IF type = Timer THEN 1 .. 2 * TimerTicks ELSE {PollTime}

(* Interrupt, Initialize up to Enable(): the timer has been started.            *)
Init ==
    /\ totalTicks = 0 /\ idleTicks = 0 /\ systemTicks = 0 /\ userTicks = 0
    /\ \/ TimerOn /\ \E d \in Delays(Timer) : pending = <<[when |-> d, type |-> Timer]>>
       \/ ~TimerOn /\ pending = <<>>
    /\ level = "IntOff"
    /\ yieldOnReturn = FALSE
    /\ status = "SystemMode"
    /\ phase = "run"
    /\ lastFired = 0
    /\ owed = [type \in Device |-> 0]
-----------------------------------------------------------------------------
(* Running code.                                                                *)

(* A device routine, called by the kernel, schedules its completion; a poller   *)
(* is started once (the constructors of Console and Network).                   *)
Schedule(type, fromNow) ==
    /\ phase = "run"
    /\ status = "SystemMode"
    /\ Len(pending) < MaxPending
    /\ type \in Poller => \A i \in DOMAIN pending : pending[i].type # type
    /\ SortedInsert(pending, [when |-> totalTicks + fromNow, type |-> type])
    /\ owed' = [owed EXCEPT ![type] = @ + 1]
    /\ UNCHANGED <<ticks, level, yieldOnReturn, status, phase, lastFired>>

(* SetLevel(IntOff).                                                            *)
Disable ==
    /\ phase = "run" /\ status = "SystemMode" /\ level = "IntOn"
    /\ level' = "IntOff"
    /\ UNCHANGED <<ticks, pending, yieldOnReturn, status, phase, lastFired, owed>>

(* Mutant: OneTick charges a user instruction to the total only.                *)
AdvanceNotUser ==
    IF status = "SystemMode"
    THEN /\ totalTicks' = totalTicks + SystemTick
         /\ systemTicks' = systemTicks + SystemTick
         /\ UNCHANGED <<userTicks, idleTicks>>
    ELSE /\ totalTicks' = totalTicks + UserTick
         /\ UNCHANGED <<systemTicks, userTicks, idleTicks>>

(* OneTick moves the clock.                                                     *)
Advance ==
    IF status = "SystemMode"
    THEN /\ totalTicks' = totalTicks + SystemTick
         /\ systemTicks' = systemTicks + SystemTick
         /\ UNCHANGED <<userTicks, idleTicks>>
    ELSE /\ totalTicks' = totalTicks + UserTick
         /\ userTicks' = userTicks + UserTick
         /\ UNCHANGED <<systemTicks, idleTicks>>

(* SetLevel(IntOn) when interrupts are off, or Machine::Run after an            *)
(* instruction.                                                                 *)
OneTick ==
    /\ phase = "run"
    /\ \/ status = "SystemMode" /\ level = "IntOff"
       \/ status = "UserMode" /\ level = "IntOn"
    /\ totalTicks < MaxTicks
    /\ Advance
    /\ level' = "IntOff"
    /\ phase' = "OneTick"
    /\ UNCHANGED <<pending, yieldOnReturn, status, lastFired, owed>>

(* Machine::Run's setStatus, or the end of a thread's OneTick that yielded.     *)
EnterUser ==
    /\ phase = "run" /\ status = "SystemMode" /\ level = "IntOn"
    /\ status' = "UserMode"
    /\ UNCHANGED <<ticks, pending, level, yieldOnReturn, phase, lastFired, owed>>

(* Interrupt::Halt called by the kernel, or by RaiseException for SC_Halt.      *)
Halt ==
    /\ phase = "run"
    /\ status' = "SystemMode"
    /\ phase' = "halt"
    /\ UNCHANGED <<ticks, pending, level, yieldOnReturn, lastFired, owed>>
-----------------------------------------------------------------------------
(* Interrupt::CheckIfDue.                                                       *)

(* Mutant: the timer is not set again.                                          *)
HandlerNoRearm(p, rest, now) ==
    /\ yieldOnReturn' = (yieldOnReturn \/ p.type = Timer)
    /\ lastFired' = p.when
    /\ \/ /\ p.type \in Poller
          /\ \E d \in Delays(p.type) : SortedInsert(rest, [when |-> now + d, type |-> p.type])
          /\ UNCHANGED owed
       \/ p.type = Timer /\ pending' = rest /\ UNCHANGED owed
       \/ p.type \in OneShot /\ pending' = rest /\ owed' = [owed EXCEPT ![p.type] = @ - 1]

(* The interrupt at the head of the list fires.  Timer::TimerExpired and the    *)
(* pollers schedule the next one; TimerInterruptHandler asks for a yield (the   *)
(* status it tests is the SystemMode that CheckIfDue has just set).             *)
Handler(p, rest, now) ==
    /\ yieldOnReturn' = (yieldOnReturn \/ p.type = Timer)
    /\ lastFired' = p.when
    /\ \/ /\ p.type \in Poller \cup {Timer}
          /\ \E d \in Delays(p.type) : SortedInsert(rest, [when |-> now + d, type |-> p.type])
          /\ UNCHANGED owed
       \/ p.type \in OneShot /\ pending' = rest /\ owed' = [owed EXCEPT ![p.type] = @ - 1]

(* Mutant: an interrupt due at this very tick waits.                            *)
DueStrict == pending # <<>> /\ Head(pending).when < totalTicks

(* CheckIfDue(FALSE) does not put the first interrupt back as "not time yet".   *)
Due == pending # <<>> /\ Head(pending).when <= totalTicks

(* In OneTick, something is due: CheckIfDue(FALSE) returns TRUE.                *)
TickFire ==
    /\ phase = "OneTick"
    /\ Due
    /\ Handler(Head(pending), Tail(pending), totalTicks)
    /\ UNCHANGED <<ticks, level, status, phase>>

(* Mutant: the interrupt that is not fired is forgotten.                        *)
PutBackLoses ==
    \/ pending = <<>> /\ UNCHANGED pending
    \/ pending # <<>> /\ pending' = Tail(pending)

(* SortedRemove, then SortedInsert: what is not due goes back, behind those due *)
(* at the same time.                                                            *)
PutBack ==
    \/ pending = <<>> /\ UNCHANGED pending
    \/ /\ pending # <<>>
       /\ SortedInsert(Tail(pending), Head(pending))

(* Nothing is due any more: OneTick re-enables interrupts, and, if a handler    *)
(* asked for it, yields: Yield disables them again.                             *)
TickEnd ==
    /\ phase = "OneTick"
    /\ ~Due
    /\ PutBack
    /\ phase' = "run"
    /\ IF yieldOnReturn
       THEN level' = "IntOff" /\ status' = "SystemMode" /\ yieldOnReturn' = FALSE
       ELSE level' = "IntOn" /\ UNCHANGED <<status, yieldOnReturn>>
    /\ UNCHANGED <<ticks, lastFired, owed>>

(* The clock runs on to the next interrupt, or stays if that is due.            *)
AdvanceIdle(when) ==
    /\ totalTicks' = IF when > totalTicks THEN when ELSE totalTicks
    /\ idleTicks' = idleTicks + (totalTicks' - totalTicks)
    /\ UNCHANGED <<systemTicks, userTicks>>

(* What SortedRemove took off is the timer's, and the list is now empty.        *)
OnlyTimer == pending # <<>> /\ Head(pending).type = Timer /\ Tail(pending) = <<>>

(* Thread::Sleep found no thread to run: Idle calls CheckIfDue(TRUE).           *)
IdleFire ==
    /\ phase = "run" /\ status = "SystemMode" /\ level = "IntOff"
    /\ totalTicks < MaxTicks
    /\ pending # <<>> /\ ~OnlyTimer
    /\ AdvanceIdle(Head(pending).when)
    /\ Handler(Head(pending), Tail(pending), totalTicks')
    /\ status' = "IdleMode"
    /\ phase' = "Idle"
    /\ UNCHANGED level

(* CheckIfDue(TRUE) returns FALSE, having moved the clock to the timer's next   *)
(* interrupt and put that back: Halt.                                           *)
IdleHalt ==
    /\ phase = "run" /\ status = "SystemMode" /\ level = "IntOff"
    /\ totalTicks < MaxTicks
    /\ \/ pending = <<>> /\ UNCHANGED ticks
       \/ OnlyTimer /\ AdvanceIdle(Head(pending).when)
    /\ PutBack
    /\ status' = "IdleMode"
    /\ phase' = "halt"
    /\ UNCHANGED <<level, yieldOnReturn, lastFired, owed>>

(* CheckIfDue(FALSE) for the others that are due.                               *)
IdleFireMore ==
    /\ phase = "Idle"
    /\ Due /\ ~OnlyTimer
    /\ Handler(Head(pending), Tail(pending), totalTicks)
    /\ UNCHANGED <<ticks, level, status, phase>>

(* Idle returns to Sleep's loop: the yield is automatic.                        *)
IdleReturn ==
    /\ phase = "Idle"
    /\ ~Due \/ OnlyTimer
    /\ PutBack
    /\ yieldOnReturn' = FALSE
    /\ status' = "SystemMode"
    /\ phase' = "run"
    /\ UNCHANGED <<ticks, level, lastFired, owed>>

Halted == phase = "halt" /\ UNCHANGED vars

Next ==
    \/ \E type \in OneShot, fromNow \in Latency : Schedule(type, fromNow)
    \/ \E type \in Poller : Schedule(type, PollTime)
    \/ Disable \/ OneTick \/ EnterUser \/ Halt
    \/ TickFire \/ TickEnd
    \/ IdleFire \/ IdleHalt \/ IdleFireMore \/ IdleReturn
    \/ Halted

Spec == Init /\ [][Next]_vars
-----------------------------------------------------------------------------
(* Properties.                                                                  *)

(* The clocks are naturals and the list holds interrupts of known types.        *)
TypeOK ==
    /\ totalTicks \in Nat /\ idleTicks \in Nat /\ systemTicks \in Nat /\ userTicks \in Nat
    /\ pending \in Seq(PendingInterrupt)
    /\ level \in {"IntOn", "IntOff"}
    /\ yieldOnReturn \in BOOLEAN
    /\ status \in {"IdleMode", "SystemMode", "UserMode"}
    /\ phase \in {"run", "OneTick", "Idle", "halt"}
    /\ lastFired \in Nat

(* Every tick of the clock is charged once: to the system, to the user program  *)
(* or to idling (OneTick and CheckIfDue add to two counters each).              *)
TicksAddUp == totalTicks = idleTicks + systemTicks + userTicks

(* Interrupts fire in the order of their due times and never early: none that   *)
(* is pending was due before the last one that fired, and that was not ahead of *)
(* the clock (SortedInsert keeps the list sorted, CheckIfDue looks at its head).*)
FiredInOrder ==
    /\ lastFired <= totalTicks
    /\ \A i \in DOMAIN pending : lastFired <= pending[i].when

(* With interrupts enabled, no interrupt is overdue: OneTick delivers all that  *)
(* are due before the interrupted code goes on.                                 *)
NoneOverdue ==
    phase = "run" /\ level = "IntOn" =>
        \A i \in DOMAIN pending : totalTicks < pending[i].when

(* The time-slice timer, once started, is always set: exactly one interrupt of  *)
(* it is pending, at most 2 * TimerTicks ahead, so that no thread keeps the CPU *)
(* for longer without being asked to yield (TimerExpired schedules the next).   *)
TimerStaysSet ==
    TimerOn =>
        \E i \in DOMAIN pending :
            /\ pending[i].type = Timer
            /\ pending[i].when <= totalTicks + 2 * TimerTicks
            /\ \A k \in DOMAIN pending : pending[k].type = Timer => k = i

(* The interrupts of a device on a list.                                        *)
Raised(l, type) == Cardinality({i \in DOMAIN l : l[i].type = type})

(* No interrupt a device was asked for is lost or delivered twice, through all  *)
(* that CheckIfDue takes off the list, tests and puts back: as many are pending *)
(* as it still owes.  So when Idle halts the machine no device has anything     *)
(* left to report, and no thread waiting for one is abandoned; with a console   *)
(* or a network running it does not halt at all (the comment in Idle).          *)
DevicesAreServed ==
    /\ owed = [type \in Device |-> Raised(pending, type)]
    /\ phase = "halt" /\ status = "IdleMode" => \A type \in Device : owed[type] = 0
=============================================================================
