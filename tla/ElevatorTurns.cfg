CONSTANTS
    NumElevators = 1
    NumFloors = 3
    DelayPerFloor = 5
    SystemTick = 2
    MaxRiders = 1
    MaxCalls = 5
SPECIFICATION Spec
PROPERTY TurnsAtAFloor
