SPECIFICATION Spec
CONSTANTS
    w1 = w1
    n1 = n1
    s1 = s1
    s2 = s2
    Main = Main
    NoOne = NoOne
    Watchers = {w1}
    Navigators = {n1}
    Sessions = {}
    Backlog = 1
    ConsoleBacklog = 1
    MaxEvents = 2
INVARIANT CaptureLastsAsLongAsTheAgent
CHECK_DEADLOCK FALSE
