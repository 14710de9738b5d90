SPECIFICATION Spec
CONSTANTS
    a = a
    b = b
    c = c
    v = v
    w = w
    Files = {a, b, c}
    Versions = {v, w}
    VersionOf <- MCVersionOf
    Servers = {s1, s2}
    MaxFaults = 2
SYMMETRY Symmetry
INVARIANTS
    AnswersKept
PROPERTIES
    StartHeals
