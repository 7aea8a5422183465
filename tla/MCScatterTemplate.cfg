\* One scatter, one device at a time, a kubelet that may start late.
SPECIFICATION Spec
CONSTANTS
    s1 = s1
    s2 = s2
    b1 = b1
    d1 = d1
    d2 = d2
    i1 = i1
    i2 = i2
    part = part
    batch = batch
    seat = seat
    None = None
    NoName = NoName
    Scatters = {s1, s2}
    Batches = {b1}
    Configs = {{s1}}
    Devices = {d1, d2}
    Names = {part, batch}
    Ids = {i1, i2, seat}
    Template <- Overlapping
    Instances <- OneEach
    BatchName <- OneBatchName
    Matched <- AllMatch
    Seats = {seat}
    Links = {i1}
    MaxChanges = 1
    MaxStarts = 1
INVARIANT TemplateGetsResource
\* The devices may stop changing.
CHECK_DEADLOCK FALSE
