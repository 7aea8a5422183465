\* Everything Mux promises: two submitters, two sinks, unbuffered and buffered.
SPECIFICATION FairSpec
CONSTANTS
    p1 = p1
    p2 = p2
    s1 = s1
    s2 = s2
    Submitters <- TwoSubmitters
    Sinks <- TwoSinks
    MaxSubmits = 1
    BufSizes = {0, 2}
INVARIANTS
    TypeOK
    InOrder
    ExitDeliversAll
    SinkClosedOnce
    Synchronous
PROPERTIES
    NoSubmitAfterClose
    ImplementsBroadcast
    SubmitReturns
    ShutdownCompletes
    SubscriberReturns
