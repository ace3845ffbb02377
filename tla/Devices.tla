------------------------------ MODULE Devices ------------------------------
(* The test programs of the devices: mail between two machines, the console,  *)
(* or the elevators.  Each behaviour runs one; the others do not start.       *)
EXTENDS PostOffice

CONSTANTS
    Char, EOF, QuitChar, MaxTyped,
    NumElevators, NumFloors, DelayPerFloor, MaxRiders, SystemTick, MaxCalls

VARIABLES
    keyboard, closed, incoming, putBusy, conPending, readAvail, writeDone,
    echo, ch, conStatus, screen, typed

conVars == <<keyboard, closed, incoming, putBusy, conPending, readAvail, writeDone,
             echo, ch, conStatus, screen, typed>>

Con == INSTANCE Console WITH pending <- conPending, status <- conStatus

VARIABLES
    display, doorsOpen, inMotion, lastFloor, goingTo, willArrive, riders,
    riderEvents, controllerEvents, bankPending, heading,
    script, rpc, cpc, rider, controller, riderWakeup, controllerWakeup, calls, bankStatus

elVars == <<display, doorsOpen, inMotion, lastFloor, goingTo, willArrive, riders,
            riderEvents, controllerEvents, bankPending, heading,
            script, rpc, cpc, rider, controller, riderWakeup, controllerWakeup, calls, bankStatus>>

El == INSTANCE ElevatorTest WITH pending <- bankPending, status <- bankStatus

ASSUME DelaysAssumption == El!DelaysAreWhole

(* Nobody starts a machine of the network.                                    *)
NoMail == [n \in Node |-> 0]

DevInit ==
    /\ Init /\ Con!Boot /\ El!Boot
    /\ \/ starts # NoMail /\ conStatus = "off" /\ bankStatus = "off" /\ script = "free"
       \/ starts = NoMail /\ conStatus = "run"  /\ bankStatus = "off" /\ script = "free"
       \/ starts = NoMail /\ conStatus = "off" /\ bankStatus = "run"

DevNext ==
    \/ Next     /\ UNCHANGED <<conVars, elVars>>
    \/ Con!Next /\ UNCHANGED <<vars, elVars>>
    \/ El!Next  /\ UNCHANGED <<vars, conVars>>

DevSpec ==
    /\ DevInit /\ [][DevNext]_<<vars, conVars, elVars>>
    /\ Fairness /\ Con!Fairness /\ El!Fairness

(* ConsoleTest echoes what is typed in order, up to the first 'q', and        *)
(* PutChar's assertion never fails.                                           *)
EchoInOrder == Con!EchoInOrder

(* Everything typed is echoed, unless a 'q' or the end of input comes first.  *)
EchoCompletes == Con!EchoCompletes

(* A rider or controller asleep while the bank lists an event for it has an   *)
(* interrupt to come, and one that was woken finds its unit.                  *)
NobodySleepsOnEvents == El!NobodySleepsOnEvents

(* elevatortest.cc passes its assertions, ends and leaves nothing pending.    *)
SelfTestPasses == El!SelfTestPasses

(* Every elevator that is set in motion comes to rest.                        *)
ElevatorsArrive == El!ElevatorsArrive
=============================================================================
