\* The services of the workplace, one in each behaviour.
SPECIFICATION WorkplaceSpec
CONSTANTS
    p1 = p1
    p2 = p2
    x1 = x1
    x2 = x2
    x3 = x3
    h1 = h1
    h2 = h2
    one = one
    None = None
    Racks = {p1, p2}
    RackNames = {p1, p2}
    Assignments = {x1, x2, x3}
    Cleanings = {p1, p2}
    RackHandlers = {h1, h2}
    AttMembers = {one}
    Places = {one}
    AttHandlers = {h1, h2}
    Window = 3
    DayLength = 4
    Horizon = 6
    MaxCorrections = 1
    DashMembers = {p1, p2, one}
    MyReports = {p1, p2}
    MaxChanges = 2
    Vendors = {one}
    Products = {one}
    BillNumbers = {one}
    Receipts = {p1, p2}
    Bills = {x1, x2, x3}
    Clerks = {h1, h2}
    Shifts = {p1, p2}
    ShiftNames = {p1, p2}
    Rostered = {one}
    Dates = {1, 2}
    Tasks = {one}
    Planners = {h1, h2}
    Slots = {p1, p2}
    Documents = {x1, x2, x3}
    Uploaders = {h1, h2}
    Logins = {p1, p2}
    Tokens = {x1, x2, x3}
    ResetLinks = {one}
    SessionHandlers = {h1, h2}
    ApiKeys = {one}
SYMMETRY RowSymmetry
CONSTRAINT Followed
INVARIANTS
    OneOpenAssignment
    CompletedHasItsCleaning
    DerivedDayIsInOrder
    OneCheckOutToday
    SummaryDriftIsBounded
    OneBillPerDelivery
    RosteredShiftExists
    SentIsCurrent
    ResetEndsSessions
    SessionHasOneToken
    MapAgreesWithGuards
PROPERTIES
    PaidStaysPaid
CHECK_DEADLOCK FALSE
