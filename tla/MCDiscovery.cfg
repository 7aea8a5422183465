\* One subscriber, two devices, two changes, one failure of the socket.
SPECIFICATION FairSpec
CONSTANTS
    s1 = s1
    d1 = d1
    d2 = d2
    Monitor = Monitor
    Subs <- OneSub
    Devices <- TwoDevices
    MaxChanges = 2
    MaxBreaks = 1
INVARIANTS
    TypeOK
    StateTracksDevices
    ViewTracksState
PROPERTIES
    ImplementsFeed
    RequestsReturn
    EndReachesSubscribers
\* Without changes and calls the monitor waits at its select.
CHECK_DEADLOCK FALSE
