SPECIFICATION Spec
CONSTANTS
    alice = alice
    People = {admin, alice, zoe}
    RoleOf <- MCRoleOf
    Projects = {projA, projB}
    Versions = {v1, v2}
    Tasks = {t1, t2}
    MayFail = TRUE
    Patient = TRUE
    Nobody = Nobody
    None = None
    Idle = Idle
SYMMETRY Symmetry
INVARIANTS
    PageAgreesWhenSettled
    ShownUserIsCaller
PROPERTIES
    DeletesWhatItShows
