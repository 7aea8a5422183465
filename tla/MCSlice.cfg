\* Two subscribers, one device, two changes.
SPECIFICATION FairSpec
CONSTANTS
    s1 = s1
    s2 = s2
    d1 = d1
    d2 = d2
    Slicer = Slicer
    None = None
    Subs = {s1, s2}
    Devices = {d1}
    MaxChanges = 2
INVARIANTS
    TypeOK
    SliceTracksSource
    ReplayThenUpdates
    PanicNeedsCancel
PROPERTIES
    NobodyStuck
    EndClosesSinks
\* A slice whose source is quiet, or a program that has panicked, is at rest.
CHECK_DEADLOCK FALSE
