\* What ListAndWatch says of its context.
SPECIFICATION FairSpec
CONSTANTS
    w1 = w1
    w2 = w2
    Owner = Owner
    Watchers <- OneWatcher
    MaxSubmits = 2
PROPERTIES
    ContextEndsSubscription
\* A run blocked on the channel of a stream nobody reads stops the resource.
CHECK_DEADLOCK FALSE
