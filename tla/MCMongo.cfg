SPECIFICATION Spec
CONSTANTS
    admin = admin
    alice = alice
    p1 = p1
    Users = {admin, alice}
    Projects = {projA, projB}
    Passwords = {p1, p2}
    Servers = {s1, s2}
    DefaultAccounts <- MCDefaultAccounts
    NoAccount = NoAccount
    MaxFaults = 1
SYMMETRY Symmetry
INVARIANTS
    RemovedStayRemoved
PROPERTIES
    AdminRemains
    NoTakeover
    ImplementsBook
