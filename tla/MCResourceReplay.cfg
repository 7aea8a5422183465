\* What ListAndWatch says of the replay.
SPECIFICATION Spec
CONSTANTS
    w1 = w1
    w2 = w2
    Owner = Owner
    Watchers <- OneWatcher
    MaxSubmits = 2
INVARIANTS
    ReplayFirst
\* A run blocked on the channel of a stream nobody reads stops the resource.
CHECK_DEADLOCK FALSE
