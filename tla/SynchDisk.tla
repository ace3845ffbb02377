----------------------------- MODULE SynchDisk -----------------------------
(* Threads sharing the disk through SynchDisk (synchdisk.cc), whose lock is   *)
(* the stub of synch.cc: Acquire and Release do nothing.  A request and the   *)
(* first test of P run without a clock tick between them, hence in one step.  *)
EXTENDS Disk, Sequences, FiniteSets

CONSTANTS
    Thread,
    TickSizes,  \* SystemTick, UserTick
    MaxTicks    \* bound: the clock does not pass it

ASSUME SynchDiskAssumption ==
    /\ IsFiniteSet(Thread)
    /\ TickSizes \subseteq Nat \ {0}
    /\ MaxTicks \in Nat

VARIABLES
    value, queue,   \* SynchDisk::semaphore
    caller,         \* where a thread is: out of SynchDisk, or in P, asleep or readied
    status          \* "run"; "abort", an ASSERT failed; "halt"

vars == <<diskVars, value, queue, caller, status>>

Init ==
    /\ DiskInit
    /\ totalTicks \in TickSizes
    /\ value = 0
    /\ queue = <<>>
    /\ caller = [t \in Thread |-> "out"]
    /\ status = "run"
-----------------------------------------------------------------------------
(* Semaphore::P from the test of its loop.                                    *)
P(t) ==
    IF value = 0
    THEN /\ queue' = Append(queue, t)
         /\ caller' = [caller EXCEPT ![t] = "asleep"]
         /\ UNCHANGED value
    ELSE /\ value' = value - 1
         /\ caller' = [caller EXCEPT ![t] = "out"]
         /\ UNCHANGED queue

(* ReadSector and WriteSector up to P's sleep or return.                      *)
ReadWriteSector(t, s, writing) ==
    /\ status = "run"
    /\ caller[t] = "out"
    /\ Request(s, writing)
    /\ P(t)
    /\ UNCHANGED status

(* The same when the disk is busy: ASSERT(!active) aborts the machine.        *)
Abort(t) ==
    /\ status = "run"
    /\ caller[t] = "out"
    /\ active
    /\ status' = "abort"
    /\ UNCHANGED <<diskVars, value, queue, caller>>

(* A thread that V readied runs: P tests the value again.                     *)
Resume(t) ==
    /\ status = "run"
    /\ caller[t] = "ready"
    /\ P(t)
    /\ UNCHANGED <<diskVars, status>>

(* Mutant: V counts the completion only when nobody is waiting for it.        *)
VOrWake ==
    IF queue = <<>>
    THEN value' = value + 1 /\ UNCHANGED <<queue, caller>>
    ELSE /\ queue' = Tail(queue)
         /\ caller' = [caller EXCEPT ![Head(queue)] = "ready"]
         /\ UNCHANGED value

(* Mutant: V wakes a waiter only if there was a unit already.                 *)
VLate ==
    /\ value' = value + 1
    /\ IF queue = <<>> \/ value = 0
       THEN UNCHANGED <<queue, caller>>
       ELSE /\ queue' = Tail(queue)
            /\ caller' = [caller EXCEPT ![Head(queue)] = "ready"]

(* RequestDone: semaphore->V().                                               *)
V ==
    /\ value' = value + 1
    /\ IF queue = <<>>
       THEN UNCHANGED <<queue, caller>>
       ELSE /\ queue' = Tail(queue)
            /\ caller' = [caller EXCEPT ![Head(queue)] = "ready"]

(* The clock moves to "now"; a disk interrupt that is due is handled.         *)
ClockTo(now) ==
    /\ now <= MaxTicks
    /\ \/ HandleInterrupt(now) /\ V
       \/ /\ ~(active /\ doneAt <= now)
          /\ totalTicks' = now
          /\ UNCHANGED <<active, lastSector, bufferInit, doneAt, arrived, value, queue, caller>>
    /\ UNCHANGED status

(* OneTick, on behalf of a thread that runs.                                  *)
OneTick(d) ==
    /\ status = "run"
    /\ \E t \in Thread : caller[t] # "asleep"
    /\ ClockTo(totalTicks + d)

(* Idle: no thread is ready (those out of SynchDisk wait for something else), *)
(* and the clock runs on to the interrupt.                                    *)
Idle ==
    /\ status = "run"
    /\ \A t \in Thread : caller[t] # "ready"
    /\ active
    /\ ClockTo(IF doneAt > totalTicks THEN doneAt ELSE totalTicks)

(* Interrupt::Halt.                                                           *)
Halt ==
    /\ status = "run"
    /\ \E t \in Thread : caller[t] = "out"
    /\ status' = "halt"
    /\ UNCHANGED <<diskVars, value, queue, caller>>

Stopped == status # "run" /\ UNCHANGED vars

Next ==
    \/ \E t \in Thread, s \in Sector, writing \in BOOLEAN : ReadWriteSector(t, s, writing)
    \/ \E t \in Thread : Abort(t) \/ Resume(t)
    \/ \E d \in TickSizes : OneTick(d)
    \/ Idle \/ Halt \/ Stopped

Spec == Init /\ [][Next]_vars
-----------------------------------------------------------------------------
(* Properties.                                                                *)

Asleep == {t \in Thread : caller[t] = "asleep"}
Ready  == {t \in Thread : caller[t] = "ready"}

(* The clock, the head and the semaphore have their types; the value never    *)
(* goes below zero.                                                           *)
TypeOK ==
    /\ totalTicks \in Nat /\ doneAt \in Nat /\ bufferInit \in Nat /\ arrived \in Nat
    /\ active \in BOOLEAN
    /\ lastSector \in Sector
    /\ value \in Nat
    /\ queue \in Seq(Thread)
    /\ caller \in [Thread -> {"out", "asleep", "ready"}]
    /\ status \in {"run", "abort", "halt"}

(* ComputeLatency tells what the turning disk does: a read of a sector that   *)
(* has passed the head since the arm came to its track takes one transfer;    *)
(* any other request ends when the sector has first passed under the head.    *)
LatencyIsExact ==
    ~active => \A s \in Sector, writing \in BOOLEAN :
        ComputeLatency(s, writing) =
            IF ~writing /\ Track(s) = Track(lastSector) /\ InTrackBuffer(s)
            THEN RotationTime
            ELSE PassEnds(s) - totalTicks

(* One V for one request, one P for one call: the calls still in P are those  *)
(* the disk and the semaphore owe a unit to, however the calls overlap, and   *)
(* there is at most one of them.                                              *)
CompletionsMatchCalls ==
    LET owed == value + (IF active THEN 1 ELSE 0) IN
    Cardinality(Asleep \cup Ready) = owed /\ owed <= 1

(* Nobody waits in P for an interrupt that will not come: while a thread is   *)
(* asleep the disk is busy, or a readied thread is about to take a unit.      *)
SomebodyWakesMe ==
    Asleep # {} => active \/ (value > 0 /\ Ready # {})
=============================================================================
