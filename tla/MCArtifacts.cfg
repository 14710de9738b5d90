SPECIFICATION FairSpec
CONSTANTS
    lib = lib
    libBin = libBin
    respelled = respelled
    climb = climb
    Versions = {v1}
    Paths = {lib, libBin}
    Names = {lib, libBin, respelled, climb}
    Norm <- MCNorm
    Inside <- MCInside
    Contents = {c1}
    Defaults <- MCDefaults
    Partial = Partial
    Absent = Absent
    NoPath = NoPath
    NoRow = NoRow
    Unknown = Unknown
    Idle = Idle
    NoFile = NoFile
    MaxFaults = 2
    ReadErrors = FALSE
INVARIANTS
    TypeOK
    UploadsKept
    DeletedFilesAbsent
    DeletedRowsGone
    EpochExplained
PROPERTIES
    HandlersEnd
