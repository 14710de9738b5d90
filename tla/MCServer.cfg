SPECIFICATION Spec
CONSTANTS
    admin = admin
    alice = alice
    p1 = p1
    lib = lib
    Users = {admin, alice}
    Projects = {proj}
    Passwords = {p1}
    Tasks = {s1}
    DefaultAccounts <- MCDefaultAccounts
    NoAccount = NoAccount
    Versions = {v1}
    Paths = {lib}
    Names = {lib}
    Norm <- MCNorm
    Inside = {}
    Contents = {c1}
    Partial = Partial
    Absent = Absent
    NoPath = NoPath
    NoRow = NoRow
    Unknown = Unknown
    Idle = Idle
    NoFile = NoFile
    MaxFaults = 1
    ReadErrors = FALSE
PROPERTIES
    ServesAccounts
    ServesArtifacts
