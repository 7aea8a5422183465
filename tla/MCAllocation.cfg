\* Two devices, three events, each kind of entry; integers of three bits.
SPECIFICATION Spec
CONSTANTS
    d1 = d1
    d2 = d2
    x = x
    y = y
    z = z
    lx = lx
    ly = ly
    pre = pre
    ex = ex
    ey = ey
    Devices = {d1, d2}
    Entries <- SmallEntries
    Unreadable = Unreadable
    Unknown = Unknown
    Fold <- SmallFold
    Width = 3
    MaxChanges = 3
INVARIANTS
    TypeOK
    OffersFollowDevices
    AnswerIsWhole
\* A panic ends the program, and devices need not come.
CHECK_DEADLOCK FALSE
