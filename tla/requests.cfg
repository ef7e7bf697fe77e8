\* Two requests, two handlers that may die anywhere, rows locked.
SPECIFICATION LockingSpec
CONSTANTS
    r1 = r1
    r2 = r2
    h1 = h1
    h2 = h2
    c1 = c1
    NoCategory = NoCategory
    Requests = {r1, r2}
    Categories = {c1}
    Handlers = {h1, h2}
INVARIANT ApprovedHasAdvance
PROPERTIES OnceSpec DecisionsReachRequester
\* Every request decided and every name used up: nothing is left to do.
CHECK_DEADLOCK FALSE
