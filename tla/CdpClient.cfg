SPECIFICATION FairSpec
CONSTANTS
    c1 = c1
    c2 = c2
    Calls = {c1, c2}
    Cancellable = {c1, c2}
    Replies = {"result"}
    Durations = {0, 500, 30000000}
INVARIANTS
    TypeOK
    RepliesReachTheirCallers
    RegisteredBeforeSent
    WaitersAreRegistered
    NoDanglingEntry
PROPERTIES
    ImplementsCommandService
    TimedCallsReturn
    InFlightFailAtTheEnd
    AnsweredCallsReturn
    WriterEndsWithClient
CHECK_DEADLOCK FALSE
