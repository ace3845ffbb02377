---------------------------- MODULE ElevatorTest ----------------------------
(* A rider and a controller thread using a bank of elevators: the script of   *)
(* elevatortest.cc, or any calls the interface allows.  Both wait for events  *)
(* as in elevatortest.cc; the callbacks of the bank wake them.  Only one runs *)
(* at a time, and the clock stands while it runs: it ticks when P returns, or *)
(* runs on to the next interrupt when both wait.                              *)
EXTENDS Elevator

CONSTANTS
    SystemTick,
    MaxCalls        \* bound: calls of threads that do not follow the script

VARIABLES
    script,         \* "selfTest" or "free"
    rpc, cpc,       \* where RiderTest and ControllerTest are
    rider, controller,  \* "ready", "run", "asleep" in P, "woken" by V, "done"
    riderWakeup, controllerWakeup,      \* values of the semaphores
    calls,
    status          \* "off", "run", "halt", or "abort": an ASSERT failed

threads == <<script, rpc, cpc, rider, controller, riderWakeup, controllerWakeup, calls, status>>
vars == <<bank, threads>>

(* The clock counts whole ticks.                                              *)
DelaysAreWhole == DelayPerFloor \in Nat /\ SystemTick \in Nat

(* ElevatorSelfTest, after it has forked the controller.                      *)
Boot ==
    /\ BankInit
    /\ script \in {"selfTest", "free"}
    /\ rpc = 0 /\ cpc = 0
    /\ rider = "run" /\ controller = "ready"
    /\ riderWakeup = 0 /\ controllerWakeup = 0
    /\ calls = 0

Init == Boot /\ status = "run"

NothingDue == \A i \in DOMAIN pending : pending[i] > 0

(* A due interrupt is handled before any thread goes on.                      *)
HandleInterrupt ==
    /\ status = "run" /\ ~NothingDue
    /\ MoveCars
    /\ IF riderEvents = <<>> THEN UNCHANGED <<riderWakeup, rider>>
       ELSE riderWakeup' = riderWakeup + 1 /\ rider' = IF rider = "asleep" THEN "woken" ELSE rider
    /\ IF controllerEvents' = <<>> THEN UNCHANGED <<controllerWakeup, controller>>
       ELSE /\ controllerWakeup' = controllerWakeup + 1
            /\ controller' = IF controller = "asleep" THEN "woken" ELSE controller
    /\ UNCHANGED <<script, rpc, cpc, calls, status>>

(* Interrupt::Idle, when the ready list is empty: the clock runs on to the    *)
(* next interrupt, or the machine halts.                                      *)
Idle ==
    /\ status = "run" /\ NothingDue /\ {rider, controller} \subseteq {"asleep", "done"}
    /\ IF pending = <<>>
       THEN status' = "halt" /\ UNCHANGED bank
       ELSE Pass(pending[1]) /\ UNCHANGED status
    /\ UNCHANGED <<script, rpc, cpc, rider, controller, riderWakeup, controllerWakeup, calls>>
-----------------------------------------------------------------------------
(* The waiting loops.  With no event P sleeps, or takes a wakeup and ticks.   *)

RiderWaits ==
    /\ status = "run" /\ NothingDue /\ rider = "run" /\ riderEvents = <<>>
    /\ script = "selfTest" => rpc \in {1, 2}
    /\ IF riderWakeup = 0
       THEN rider' = "asleep" /\ UNCHANGED <<bank, riderWakeup>>
       ELSE riderWakeup' = riderWakeup - 1 /\ Pass(SystemTick) /\ UNCHANGED rider
    /\ UNCHANGED <<script, rpc, cpc, controller, controllerWakeup, calls, status>>

ControllerWaits ==
    /\ status = "run" /\ NothingDue /\ controller = "run" /\ controllerEvents = <<>>
    /\ script = "selfTest" => cpc \in {1, 2, 3}
    /\ IF controllerWakeup = 0
       THEN controller' = "asleep" /\ UNCHANGED <<bank, controllerWakeup>>
       ELSE controllerWakeup' = controllerWakeup - 1 /\ Pass(SystemTick) /\ UNCHANGED controller
    /\ UNCHANGED <<script, rpc, cpc, rider, riderWakeup, calls, status>>

(* The scheduler runs a thread that was forked or woken; it returns from      *)
(* ThreadRoot's enabling of interrupts, or from P, with a tick.               *)
RiderRunsAgain ==
    /\ status = "run" /\ NothingDue /\ rider = "woken" /\ controller # "run"
    /\ rider' = "run"
    /\ riderWakeup' = riderWakeup - 1
    /\ Pass(SystemTick)
    /\ UNCHANGED <<script, rpc, cpc, controller, controllerWakeup, calls, status>>

ControllerRunsAgain ==
    /\ status = "run" /\ NothingDue /\ controller \in {"ready", "woken"} /\ rider # "run"
    /\ controller' = "run"
    /\ controllerWakeup' = controllerWakeup - (IF controller = "woken" THEN 1 ELSE 0)
    /\ Pass(SystemTick)
    /\ UNCHANGED <<script, rpc, cpc, rider, riderWakeup, calls, status>>
-----------------------------------------------------------------------------
(* The self test; each step runs from an event to the next wait.              *)

RiderRuns(at) ==
    /\ status = "run" /\ NothingDue /\ script = "selfTest" /\ rider = "run" /\ rpc = at
    /\ UNCHANGED <<script, cpc, controller, riderWakeup, controllerWakeup, calls>>

ControllerRuns(at) ==
    /\ status = "run" /\ NothingDue /\ script = "selfTest" /\ controller = "run" /\ cpc = at
    /\ UNCHANGED <<script, rpc, rider, riderWakeup, controllerWakeup, calls>>

Expects(list, ev, floor) == list[1].event = ev /\ list[1].floor = floor

PressUp ==
    /\ RiderRuns(0)
    /\ PressButton(0, "Up")
    /\ rpc' = 1
    /\ UNCHANGED <<cars, riderEvents, rider, status>>

GetOn ==
    /\ RiderRuns(1) /\ riderEvents # <<>>
    /\ LET e == Head(riderEvents).elevator IN
       IF Expects(riderEvents, "DoorsOpened", 0) /\ display[e] = "Up" /\ AtDoor(0, e) /\ MayEnter(e)
       THEN /\ riderEvents' = Tail(riderEvents)
            /\ Enter("rider", e)
            /\ PressFloor(1, e)
            /\ rpc' = 2
            /\ UNCHANGED <<display, doorsOpen, inMotion, lastFloor, goingTo, willArrive, heading, rider, status>>
       ELSE status' = "abort" /\ UNCHANGED <<bank, rpc, rider>>

(* RiderTest ends, and ElevatorSelfTest deletes the bank.                     *)
GetOff ==
    /\ RiderRuns(2) /\ riderEvents # <<>>
    /\ LET e == Head(riderEvents).elevator IN
       IF Expects(riderEvents, "DoorsOpened", 1) /\ AtDoor(1, e) /\ MayExit("rider", e)
       THEN /\ riderEvents' = Tail(riderEvents)
            /\ Exit("rider", e)
            /\ rpc' = 3 /\ rider' = "done"
            /\ UNCHANGED <<display, doorsOpen, inMotion, lastFloor, goingTo, willArrive, heading>>
            /\ UNCHANGED <<controllerEvents, pending, status>>
       ELSE status' = "abort" /\ UNCHANGED <<bank, rpc, rider>>

AwaitCall ==
    /\ ControllerRuns(0)
    /\ status' = IF lastFloor[0] = 0 THEN status ELSE "abort"
    /\ cpc' = 1
    /\ UNCHANGED <<bank, controller>>

LetIn ==
    /\ ControllerRuns(1) /\ controllerEvents # <<>>
    /\ IF Expects(controllerEvents, "UpButtonPressed", 0) /\ MayOpenDoors(0)
       THEN /\ controllerEvents' = Tail(controllerEvents)
            /\ MarkDirection(0, "Up")
            /\ OpenDoors(0)
            /\ cpc' = 2
            /\ UNCHANGED <<inMotion, lastFloor, goingTo, willArrive, riders, heading, controller, status>>
       ELSE status' = "abort" /\ UNCHANGED <<bank, cpc, controller>>

(* Mutant: the doors stay open.                                               *)
GoDoorsOpen ==
    /\ ControllerRuns(2) /\ controllerEvents # <<>>
    /\ controllerEvents' = Tail(controllerEvents)
    /\ MoveTo(1, 0)
    /\ cpc' = 3
    /\ UNCHANGED <<display, doorsOpen, lastFloor, riders, riderEvents, controller, status>>

Go ==
    /\ ControllerRuns(2) /\ controllerEvents # <<>>
    /\ IF Expects(controllerEvents, "FloorButtonPressed", 1) /\ doorsOpen[0] /\ MayMoveTo(1, 0)
       THEN /\ controllerEvents' = Tail(controllerEvents)
            /\ CloseDoors(0)
            /\ MoveTo(1, 0)
            /\ cpc' = 3
            /\ UNCHANGED <<display, lastFloor, riders, riderEvents, controller, status>>
       ELSE status' = "abort" /\ UNCHANGED <<bank, cpc, controller>>

LetOut ==
    /\ ControllerRuns(3) /\ controllerEvents # <<>>
    /\ LET e == Head(controllerEvents).elevator IN
       IF Expects(controllerEvents, "ElevatorArrived", 1) /\ e = 0 /\ MayOpenDoors(e)
       THEN /\ controllerEvents' = Tail(controllerEvents)
            /\ OpenDoors(e)
            /\ cpc' = 4 /\ controller' = "done"
            /\ UNCHANGED <<display, inMotion, lastFloor, goingTo, willArrive, riders, heading, status>>
       ELSE status' = "abort" /\ UNCHANGED <<bank, cpc, controller>>
-----------------------------------------------------------------------------
(* Threads that use the bank as they like, within the ASSERTs.  Which button  *)
(* is pressed, and what the display shows, is nothing to the bank.            *)

Free(thread) ==
    /\ status = "run" /\ NothingDue /\ script = "free" /\ thread = "run"
    /\ UNCHANGED <<script, rpc, cpc, rider, controller, riderWakeup, controllerWakeup, status>>

Call(thread) == Free(thread) /\ calls < MaxCalls /\ calls' = calls + 1

Ride ==
    \/ /\ Call(rider)
       /\ PressButton(0, "Down")
       /\ UNCHANGED <<cars, riderEvents>>
    \/ /\ Call(rider)
       /\ \E e \in Elevators : MayExit("rider", e) /\ PressFloor(0, e)
       /\ UNCHANGED <<cars, riderEvents>>
    \/ /\ Call(rider)
       /\ \E e \in Elevators :
            IF MayExit("rider", e)
            THEN AtDoor(lastFloor[e], e) /\ Exit("rider", e)
            ELSE (\A d \in Elevators : riders[d] = <<>>) /\ AtDoor(lastFloor[e], e) /\ MayEnter(e) /\ Enter("rider", e)
       /\ UNCHANGED <<display, doorsOpen, inMotion, lastFloor, goingTo, willArrive, heading>>
       /\ UNCHANGED <<riderEvents, controllerEvents, pending>>

Control ==
    \/ /\ Call(controller)
       /\ \E e \in Elevators : MayOpenDoors(e) /\ OpenDoors(e)
       /\ UNCHANGED <<display, inMotion, lastFloor, goingTo, willArrive, riders, heading, controllerEvents>>
    \/ /\ Call(controller)
       /\ \E e \in Elevators : doorsOpen[e] /\ CloseDoors(e)
       /\ UNCHANGED <<display, inMotion, lastFloor, goingTo, willArrive, riders, heading>>
       /\ UNCHANGED <<riderEvents, controllerEvents, pending>>
    \/ /\ Call(controller)
       /\ \E e \in Elevators, f \in Floors : ~doorsOpen[e] /\ MayMoveTo(f, e) /\ MoveTo(f, e)
       /\ UNCHANGED <<display, doorsOpen, lastFloor, riders, riderEvents, controllerEvents>>

(* getNextRiderEvent and getNextControllerEvent.                              *)
TakeEvent ==
    \/ /\ Free(rider) /\ riderEvents # <<>>
       /\ riderEvents' = Tail(riderEvents)
       /\ UNCHANGED <<cars, controllerEvents, pending, calls>>
    \/ /\ Free(controller) /\ controllerEvents # <<>>
       /\ controllerEvents' = Tail(controllerEvents)
       /\ UNCHANGED <<cars, riderEvents, pending, calls>>

(* A thread that runs does something else for a tick.                         *)
Work ==
    /\ Free(rider) \/ Free(controller)
    /\ pending # <<>>
    /\ Pass(SystemTick)
    /\ UNCHANGED calls

Stopped == status # "run" /\ UNCHANGED vars

Next ==
    \/ HandleInterrupt \/ Idle
    \/ RiderWaits \/ RiderRunsAgain \/ ControllerWaits \/ ControllerRunsAgain
    \/ PressUp \/ GetOn \/ GetOff
    \/ AwaitCall \/ LetIn \/ Go \/ LetOut
    \/ Ride \/ Control \/ TakeEvent \/ Work
    \/ Stopped

(* The machine goes on: an interrupt that is due is handled, the scheduler    *)
(* runs a thread that is ready, and a thread that runs follows its script, or *)
(* takes its events and waits.                                                *)
Fairness ==
    WF_vars(\/ HandleInterrupt \/ Idle
            \/ RiderWaits \/ RiderRunsAgain \/ ControllerWaits \/ ControllerRunsAgain
            \/ PressUp \/ GetOn \/ GetOff \/ AwaitCall \/ LetIn \/ Go \/ LetOut \/ TakeEvent)

Spec == Init /\ [][Next]_vars /\ Fairness
-----------------------------------------------------------------------------
(* Properties.                                                                *)

(* No lost wakeup: a thread asleep in P sleeps on a semaphore at zero, and    *)
(* while an event for it is listed it has an interrupt to come, whose         *)
(* callback wakes it; one that was woken finds its unit.                      *)
NobodySleepsOnEvents ==
    /\ rider = "asleep" => riderWakeup = 0 /\ (riderEvents # <<>> => pending # <<>>)
    /\ rider = "woken" => riderWakeup > 0
    /\ controller = "asleep" => controllerWakeup = 0 /\ (controllerEvents # <<>> => pending # <<>>)
    /\ controller = "woken" => controllerWakeup > 0

(* elevatortest.cc passes its assertions and ends, the machine halts, and no  *)
(* interrupt comes for the bank once it is deleted.                           *)
SelfTestPasses ==
    /\ <>(script = "selfTest" => status = "halt" /\ rider = "done" /\ controller = "done")
    /\ [](rider = "done" => pending = <<>>)

(* Every elevator that is set in motion comes to rest, all of them once the   *)
(* calls end.                                                                 *)
ElevatorsArrive == []<>(\A e \in Elevators : ~inMotion[e])

(* "If the new destination is behind us, wait until we get to the next even   *)
(* floor boundary, then change direction" (elevator.cc): an elevator reaches  *)
(* the next floor in the direction in which it left the last one.             *)
TurnsAtAFloor ==
    [][\A e \in Elevators : lastFloor'[e] \in {lastFloor[e], lastFloor[e] + heading[e]}]_vars
=============================================================================
