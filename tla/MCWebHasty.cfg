SPECIFICATION HastySpec
CONSTANTS
    alice = alice
    People = {admin, alice}
    RoleOf <- MCRoleOf
    PageProjects = {projA}
    Projects = {projA, projB}
    Versions = {v1}
    Files = {f1, f2}
    Tasks = {t1, t2}
    MayFail = TRUE
    Patient = FALSE
    Nobody = Nobody
    None = None
    Idle = Idle
SYMMETRY Symmetry
PROPERTIES
    NothingDoneSignedOut
    BatchUploaded
    ClearsOnlyUploaded
