SPECIFICATION Spec
CONSTANTS
    c1 = c1
    c2 = c2
    Calls = {c1, c2}
    Cancellable = {}
    Replies = {"result"}
    Durations = {0, 500, 30000000}
INVARIANT NobodyLeftToTimeOut
CHECK_DEADLOCK FALSE
