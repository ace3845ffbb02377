------------------------------ MODULE Elevator ------------------------------
(* The bank of elevators (machine/elevator.cc) and its interrupts.  Times are *)
(* kept relative to the clock: how long until an interrupt or an arrival is   *)
(* due.                                                                       *)
EXTENDS Integers, Sequences, FiniteSets

CONSTANTS
    NumElevators, NumFloors,
    DelayPerFloor,  \* from floor to floor, in units of the delay of an event
    MaxRiders

VARIABLES
    display, doorsOpen, inMotion, lastFloor, goingTo, willArrive,
    riders,         \* who is on board
    riderEvents, controllerEvents,
    pending,        \* elevator interrupts, sorted: when each is due
    heading         \* history: the direction in which an elevator left its last floor

cars == <<display, doorsOpen, inMotion, lastFloor, goingTo, willArrive, riders, heading>>
bank == <<cars, riderEvents, controllerEvents, pending>>

Elevators == 0 .. NumElevators - 1
Floors == 0 .. NumFloors - 1
Event(ev, floor, e) == [event |-> ev, floor |-> floor, elevator |-> e]

BankInit ==
    /\ display = [e \in Elevators |-> "Neither"]
    /\ doorsOpen = [e \in Elevators |-> FALSE]
    /\ inMotion = [e \in Elevators |-> FALSE]
    /\ lastFloor = [e \in Elevators |-> 0]
    /\ goingTo = [e \in Elevators |-> 0]
    /\ willArrive = [e \in Elevators |-> 0]
    /\ riders = [e \in Elevators |-> <<>>]
    /\ riderEvents = <<>> /\ controllerEvents = <<>>
    /\ pending = <<>>
    /\ heading = [e \in Elevators |-> 0]

(* Interrupt::Schedule: after those due no later.                             *)
Scheduled(p, when) ==
    LET sooner == Cardinality({i \in DOMAIN p : p[i] <= when})
    IN  SubSeq(p, 1, sooner) \o <<when>> \o SubSeq(p, sooner + 1, Len(p))

(* PostEvent by a thread: an interrupt picks the event up.                    *)
PostRider(ev, floor, e) ==
    riderEvents' = Append(riderEvents, Event(ev, floor, e)) /\ pending' = Scheduled(pending, 1)

(* Mutant: no interrupt is scheduled for the event.                           *)
PostControllerSilent(ev, floor, e) ==
    controllerEvents' = Append(controllerEvents, Event(ev, floor, e)) /\ UNCHANGED pending

PostController(ev, floor, e) ==
    controllerEvents' = Append(controllerEvents, Event(ev, floor, e)) /\ pending' = Scheduled(pending, 1)
-----------------------------------------------------------------------------
(* The controller's calls.  Each says what it changes; what it does not       *)
(* mention is left to the caller.  "May" is what its ASSERTs demand.          *)

MayOpenDoors(e) == ~doorsOpen[e] /\ ~inMotion[e]
OpenDoors(e) ==
    doorsOpen' = [doorsOpen EXCEPT ![e] = TRUE] /\ PostRider("DoorsOpened", lastFloor[e], e)

CloseDoors(e) == doorsOpen' = [doorsOpen EXCEPT ![e] = FALSE]

MayMoveTo(floor, e) == inMotion[e] \/ lastFloor[e] # floor
MoveTo(floor, e) ==
    /\ goingTo' = [goingTo EXCEPT ![e] = floor]
    /\ IF inMotion[e]
       THEN UNCHANGED <<willArrive, inMotion, pending, heading>>
       ELSE /\ willArrive' = [willArrive EXCEPT ![e] = DelayPerFloor]
            /\ inMotion' = [inMotion EXCEPT ![e] = TRUE]
            /\ pending' = Scheduled(pending, DelayPerFloor)
            /\ heading' = [heading EXCEPT ![e] = IF floor > lastFloor[e] THEN 1 ELSE -1]

MarkDirection(e, dir) == display' = [display EXCEPT ![e] = dir]
-----------------------------------------------------------------------------
(* The riders' calls.                                                         *)

PressButton(floor, dir) ==
    PostController(IF dir = "Up" THEN "UpButtonPressed" ELSE "DownButtonPressed", floor, 0)

(* EnterElevator and ExitElevator return FALSE when the doors have closed or  *)
(* the elevator is elsewhere.                                                 *)
AtDoor(floor, e) == doorsOpen[e] /\ lastFloor[e] = floor

MayEnter(e) == Len(riders[e]) < MaxRiders
Enter(r, e) == riders' = [riders EXCEPT ![e] = Append(@, r)]

MayExit(r, e) == \E i \in DOMAIN riders[e] : riders[e][i] = r
Exit(r, e)  == riders' = [riders EXCEPT ![e] = SelectSeq(@, LAMBDA x : x # r)]

PressFloor(floor, e) == PostController("FloorButtonPressed", floor, e)
-----------------------------------------------------------------------------
(* The handler.                                                               *)

(* Mutant: an elevator is there when its time has passed, not when it comes.  *)
ReachedNextFloorLate(e) == inMotion[e] /\ willArrive[e] < 0

ReachedNextFloor(e) == inMotion[e] /\ willArrive[e] <= 0
NextFloor(e) == lastFloor[e] + (IF goingTo[e] > lastFloor[e] THEN 1 ELSE -1)
Arrived == {e \in Elevators : ReachedNextFloor(e) /\ NextFloor(e) = goingTo[e]}
GoingOn == {e \in Elevators : ReachedNextFloor(e) /\ NextFloor(e) # goingTo[e]}
First(S) == CHOOSE e \in S : \A d \in S : e <= d
InOrder(S) ==
    CHOOSE s \in [1 .. Cardinality(S) -> S] : \A i, j \in 1 .. Cardinality(S) : i < j => s[i] < s[j]

(* HandleInterrupt up to the callbacks: elevators that are due move by a      *)
(* floor; of those that go on only the first is given its next arrival.       *)
MoveCars ==
    /\ lastFloor' = [e \in Elevators |-> IF ReachedNextFloor(e) THEN NextFloor(e) ELSE lastFloor[e]]
    /\ inMotion' = [e \in Elevators |-> inMotion[e] /\ e \notin Arrived]
    /\ heading' = [e \in Elevators |-> IF e \in GoingOn THEN
                    (IF goingTo[e] > NextFloor(e) THEN 1 ELSE -1) ELSE heading[e]]
    /\ controllerEvents' = controllerEvents \o
            [i \in 1 .. Cardinality(Arrived) |->
                Event("ElevatorArrived", goingTo[InOrder(Arrived)[i]], InOrder(Arrived)[i])]
    /\ IF GoingOn = {}
       THEN pending' = Tail(pending) /\ UNCHANGED willArrive
       ELSE /\ pending' = Scheduled(Tail(pending), DelayPerFloor)
            /\ willArrive' = [willArrive EXCEPT ![First(GoingOn)] = @ + DelayPerFloor]
    /\ UNCHANGED <<display, doorsOpen, goingTo, riders, riderEvents>>

(* The clock moves on.                                                        *)
Pass(d) ==
    /\ pending' = [i \in DOMAIN pending |-> pending[i] - d]
    /\ willArrive' = [e \in Elevators |-> IF inMotion[e] THEN willArrive[e] - d ELSE willArrive[e]]
    /\ UNCHANGED <<display, doorsOpen, inMotion, lastFloor, goingTo, riders, heading, riderEvents, controllerEvents>>
=============================================================================
