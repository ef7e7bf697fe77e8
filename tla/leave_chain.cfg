\* Every org chart of three, two absences, up to two stand-ins.
SPECIFICATION Spec
CONSTANTS
    m1 = m1
    m2 = m2
    m3 = m3
    h1 = h1
    h2 = h2
    annual = annual
    Nobody = Nobody
    Members = {m1, m2, m3}
    Admins = {}
    Types = {annual}
    DefaultDays <- TwoDays
    LastDay = 1
    NumRequests = 2
    Handlers = {h1}
    MaxDelegations = 2
INVARIANTS NearestAvailableDecides OwnRequestNeedsDelegation
SYMMETRY ChartSymmetry
