CONSTANTS
    SectorsPerTrack = 3
    NumTracks = 2
    RotationTime = 2
    SeekTime = 3
    Thread = {t1, t2, t3}
    TickSizes = {1, 2}
    MaxTicks = 24
SYMMETRY Symmetry
SPECIFICATION Spec
INVARIANT LatencyIsExact
INVARIANT CompletionsMatchCalls
INVARIANT SomebodyWakesMe
