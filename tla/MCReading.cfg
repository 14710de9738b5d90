SPECIFICATION ReadingSpec
CONSTANTS
    long = long
    other = other
    short = short
    Paths = {p, q}
    Contents <- MCContents
    Size <- MCSize
    Requests = {r1}
    MaxFaults = 2
    Absent = Absent
    Live = Live
    Idle = Idle
    f = f
    g = g
    VersionNames = {1, 2, 3}
    FileNames = {f, g}
    MaxTime = 3
    Second = 2
    Legacy <- MCLegacy
    NoRow = NoRow
    None = None
SYMMETRY Symmetry
INVARIANTS
    CompleteIsExact
    ArchiveOfOneInstant
    NoStrayArchives
    SummariesRight
    LastUploadIsLatest
