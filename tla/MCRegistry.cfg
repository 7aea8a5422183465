\* Two calls of Add of one name, two kubelet starts; no symmetry, for liveness.
SPECIFICATION FairSpec
CONSTANTS
    Names = {n1}
    Path <- OnePath
    Adders = {a1, a2}
    MaxRestarts = 2
    NoName = NoName
INVARIANTS
    TypeOK
    SocketServed
    OneServer
    RestartAnswered
PROPERTIES
    NameKeepsResource
    RestartIsAnswered
    ShutdownCompletes
\* After a shutdown, and when the bounds are used up, nothing is left to do.
CHECK_DEADLOCK FALSE
