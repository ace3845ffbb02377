------------------------------ MODULE MCKernel ------------------------------
(* Instances of Kernel for TLC.                                               *)
EXTENDS Kernel, TLC

CONSTANTS m, t1, t2, t3, mutex, io

(* A semaphore initialised to 1, as a mutual exclusion lock, and one           *)
(* initialised to 0, as the devices' completion semaphores are.                *)
MutexInit == [s \in Semaphore |-> IF s = mutex THEN 1 ELSE 0]

(* Interchangeable thread blocks: all but the main thread.                     *)
Interchangeable == Permutations(Thread \ {Main})
=============================================================================
