SPECIFICATION Spec
CONSTANTS
    Users = {u1, u2}
    Keys = {k1}
    Requests = {r1, r2}
    OfferedRoles = {"owner", "admin", "developer"}
    MaxProjects = 1
    MaxServed = 4
SYMMETRY MCSymmetry
CHECK_DEADLOCK FALSE
INVARIANT TypeOK OwnerlessOnlyByRace ProjectsOverOnlyByRace KeyConfined
