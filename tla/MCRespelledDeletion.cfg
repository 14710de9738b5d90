SPECIFICATION Spec
CONSTANTS
    lib = lib
    libBin = libBin
    respelled = respelled
    climb = climb
    Versions = {v1}
    Paths = {libBin}
    Names = {libBin, respelled}
    Norm <- MCNorm
    Inside <- MCInside
    Contents = {c1}
    Defaults <- MCDefaults
    Partial = Partial
    Absent = Absent
    NoPath = NoPath
    NoRow = NoRow
    Unknown = Unknown
    Idle = Idle
    NoFile = NoFile
    MaxFaults = 0
    ReadErrors = FALSE
INVARIANTS
    DeletionsComplete
