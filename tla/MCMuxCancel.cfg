\* What the comment of Subscribe says of a CancelFunc.
SPECIFICATION Spec
CONSTANTS
    p1 = p1
    p2 = p2
    s1 = s1
    s2 = s2
    Submitters <- OneSubmitter
    Sinks <- OneSink
    MaxSubmits = 1
    BufSizes = {0, 1}
PROPERTIES
    CancelSilences
