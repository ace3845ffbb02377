---------------------------- MODULE SemaphoreSpec ----------------------------
(* What the semaphores of synch.h promise their callers, without threads,      *)
(* queues or interrupts: an integer that P waits for and decrements, and that  *)
(* V increments.                                                               *)
EXTENDS Integers

CONSTANTS Thread, Semaphore, InitialValue, NULL

VARIABLES
    value,   \* the semaphores' values
    waiting, \* waiting[t]: the semaphore thread t waits for, or NULL
    stopped  \* the machine has halted

vars == <<value, waiting, stopped>>

Init ==
    /\ value = InitialValue
    /\ waiting = [t \in Thread |-> NULL]
    /\ stopped = FALSE

Wait(t, s) ==
    /\ waiting[t] = NULL
    /\ value[s] = 0
    /\ waiting' = [waiting EXCEPT ![t] = s]
    /\ UNCHANGED <<value, stopped>>

Acquire(t, s) ==
    /\ waiting[t] \in {NULL, s}
    /\ value[s] > 0
    /\ value' = [value EXCEPT ![s] = @ - 1]
    /\ waiting' = [waiting EXCEPT ![t] = NULL]
    /\ UNCHANGED stopped

Release(s) ==
    /\ value' = [value EXCEPT ![s] = @ + 1]
    /\ UNCHANGED <<waiting, stopped>>

Stop ==
    /\ stopped' = TRUE
    /\ UNCHANGED <<value, waiting>>

Next ==
    /\ ~stopped
    /\ \/ \E t \in Thread, s \in Semaphore : Wait(t, s) \/ Acquire(t, s)
       \/ \E s \in Semaphore : Release(s)
       \/ Stop

Spec == Init /\ [][Next]_vars

(* A unit that somebody waits for is eventually taken, by that thread or by    *)
(* another one, unless the machine halts.                                      *)
UnitsAreTaken ==
    \A s \in Semaphore :
        (value[s] > 0 /\ \E t \in Thread : waiting[t] = s)
            ~> (stopped \/ value[s] = 0 \/ \A t \in Thread : waiting[t] # s)
=============================================================================
