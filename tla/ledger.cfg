\* One employee, two advances given on one or two dates, two pay periods;
\* pay of 5 or, under the steep rates, of -1, to which 0 or 2 is added.
SPECIFICATION Spec
CONSTANTS
    m1 = m1
    Members = {m1}
    NumAdvances = 2
    NumPeriods = 2
    Amounts = {1, 2}
    Instalments <- Unchecked
    None = None
    Dates = {1, 2}
    Salaries = {5}
    Rates <- SteepRates
    Receivables = {0, 2}
INVARIANTS TypeOK RecoveredMatchesRows NeverOverRecovered
PROPERTIES RecoveryWithinPay Traceable ClosedIsFinal OldestFirst
CONSTRAINT Followed
