----------------------------- MODULE MCDevices -----------------------------
(* The test programs of the devices on a small instance.                      *)
EXTENDS Devices, TLC

CONSTANTS n1, n2

(* Two machines that each start once, one of them with a thread that sends    *)
(* mail of its own; or one of them is interrupted and started again.          *)
Off == n1 :> 0 @@ n2 :> 0
MCBudget ==
    {[starts |-> n1 :> 1 @@ n2 :> 1, quits |-> Off,              notes |-> n1 :> 1 @@ n2 :> 0],
     [starts |-> n1 :> 1 @@ n2 :> 2, quits |-> n1 :> 0 @@ n2 :> 1, notes |-> Off],
     [starts |-> Off, quits |-> Off, notes |-> Off]}
=============================================================================
