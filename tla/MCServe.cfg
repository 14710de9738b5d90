SPECIFICATION Spec
CONSTANTS
    k1 = k1
    k2 = k2
    ec = ec
    pw = pw
    other = other
    Keys <- MCKeys
    RsaKeys <- MCRsaKeys
    Tree <- MCTree
    KeystorePaths <- MCKeystorePaths
    JksPaths <- MCJksPaths
    Folded <- MCFolded
    Environments <- MCEnvironments
    MaxSignals = 2
    MaxBusy = 1
    Unset = Unset
    Blank = Blank
    None = None
    Broken = Broken
    Secret = Secret
CHECK_DEADLOCK FALSE
INVARIANTS
    TokensAsConfigured
    OneSignalCutsNothing
    SignalsAreHeard
PROPERTIES
    NeverHttpOnly
    StopsWhenIdle
