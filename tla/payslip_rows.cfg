\* Payroll only, one employee, one advance, one period.
SPECIFICATION PayrollSpec
CONSTANTS
    m1 = m1
    Members = {m1}
    NumAdvances = 1
    NumPeriods = 1
    Amounts = {3}
    Instalments = {}
    None = None
    Dates = {1}
    Salaries = {4}
    Rates <- SteepRates
    Receivables = {0}
INVARIANT PayslipMatchesRows
