SPECIFICATION Spec
CONSTANTS
    w1 = w1
    n1 = n1
    s1 = s1
    s2 = s2
    Main = Main
    NoOne = NoOne
    Watchers = {w1}
    Navigators = {n1}
    Sessions = {s1, s2}
    Backlog = 1
    ConsoleBacklog = 1
    MaxEvents = 2
SYMMETRY Symmetry
INVARIANTS
    TypeOK
    WaitersWakeForTheirTarget
    NothingReadableIsSkipped
    LoadIsNeverMissed
    CaptureHasNoGaps
CHECK_DEADLOCK FALSE
