\* Two handlers that may die anywhere, rows locked; two employees, no stand-ins.
SPECIFICATION LockingSpec
CONSTANTS
    m1 = m1
    m2 = m2
    m3 = m3
    h1 = h1
    h2 = h2
    annual = annual
    Nobody = Nobody
    Members = {m1, m2}
    Admins = {m2}
    Types = {annual}
    DefaultDays <- TwoDays
    LastDay = 2
    NumRequests = 2
    Handlers = {h1, h2}
    MaxDelegations = 0
INVARIANT UsedMatchesApproved
PROPERTIES OnceSpec DecisionsReachRequester
