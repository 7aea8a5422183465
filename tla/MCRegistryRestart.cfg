\* One name and one kubelet start during its Add.
SPECIFICATION Spec
CONSTANTS
    Names = {n1}
    Path <- OnePath
    Adders = {a1}
    MaxRestarts = 1
    NoName = NoName
INVARIANT RestartRenewsAll
\* After a shutdown, and when the bounds are used up, nothing is left to do.
CHECK_DEADLOCK FALSE
