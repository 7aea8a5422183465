\* Two streams, two health events.
SPECIFICATION Spec
CONSTANTS
    w1 = w1
    w2 = w2
    Owner = Owner
    Watchers <- TwoWatchers
    MaxSubmits = 2
SYMMETRY Symmetry
INVARIANTS
    TypeOK
    NoMissedUpdate
    ReplayAtMostOneLate
    LiveStreamsStayOpen
\* A run blocked on the channel of a stream nobody reads stops the resource.
CHECK_DEADLOCK FALSE
