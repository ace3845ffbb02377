---------------------------- MODULE MCSynchDisk ----------------------------
(* SynchDisk for TLC.                                                         *)
EXTENDS SynchDisk, TLC

Symmetry == Permutations(Thread)
=============================================================================
