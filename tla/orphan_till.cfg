\* Two employees on one counter, which is then deleted.
SPECIFICATION CountersSpec
CONSTANTS
    m1 = m1
    m2 = m2
    c1 = c1
    s1 = s1
    s2 = s2
    Nobody = Nobody
    Members = {m1, m2}
    NumAdvances = 1
    NumPeriods = 1
    Amounts = {1}
    Instalments = {}
    None = None
    Dates = {1}
    Salaries = {1}
    Rates <- NoRates
    Receivables = {0}
    Counters = {c1}
    Sessions = {s1, s2}
    Readings = {1}
INVARIANT NobodyOnDeletedCounter
