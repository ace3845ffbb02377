---------------------------- MODULE MCInterrupt ----------------------------
(* An instance of Interrupt for TLC.                                          *)
EXTENDS Interrupt

CONSTANTS disk, console
=============================================================================
