SPECIFICATION Spec
CONSTANTS
    admin = admin
    alice = alice
    p1 = p1
    Users = {admin, alice}
    Projects = {proj}
    Passwords = {p1, p2}
    Tasks = {s1, s2}
    DefaultAccounts <- MCDefaultAccounts
    Defaults <- MCDefaults
    NoAccount = NoAccount
    Unknown = Unknown
    Idle = Idle
    NoFile = NoFile
    MaxFaults = 1
    ReadErrors = FALSE
SYMMETRY Symmetry
INVARIANTS
    TypeOK
    HasAdmin
    NoOrphanGrant
    AnsweredAccountsKept
    AnsweredGrantsKept
PROPERTIES
    ImplementsBook
