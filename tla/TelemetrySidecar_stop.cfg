SPECIFICATION Spec
CONSTANTS
    QualGap = 1
    GapStop = 2
    BeatStop = 2
    Faults = {}
    MaxFaults = 0
INVARIANT CleanStop
CHECK_DEADLOCK FALSE
