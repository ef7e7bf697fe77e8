\* Four members, two handlers, two plans; limits of one (no plan) and two.
SPECIFICATION Spec
CONSTANTS
    m1 = m1
    m2 = m2
    m3 = m3
    m4 = m4
    h1 = h1
    h2 = h2
    trial = trial
    gold = gold
    Nobody = Nobody
    Members = {m1, m2, m3, m4}
    Roles = {"SUPER_ADMIN", "SUPERVISOR"}
    Plans = {trial, gold}
    DefaultPlan = trial
    Limits = {2}
    FallbackLimit = 1
    Handlers = {h1, h2}
INVARIANTS AdminRemains OvershootIsBounded
PROPERTY LeavingKeepsChains
SYMMETRY StaffSymmetry
CONSTRAINT Followed
