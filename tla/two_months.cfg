\* Two months recovered at the same time; one advance.
SPECIFICATION Spec
CONSTANTS
    t1 = t1
    t2 = t2
    Txs = {t1, t2}
    NumAdvances = 1
    NumPeriods = 2
    DateGiven <- OneDate
    Amounts = {2}
    Instalments <- SomeInstalments
    None = None
INVARIANT NoDrift
