SPECIFICATION FairSpec
CONSTANTS
    QualGap = 1
    GapStop = 2
    BeatStop = 1
    Faults <- MCFaults
    MaxFaults = 1
INVARIANTS
    AlarmIsTrue
    CaptureIsWhole
PROPERTIES
    StuckThreadIsSeen
    SessionCallsReturn
CHECK_DEADLOCK FALSE
