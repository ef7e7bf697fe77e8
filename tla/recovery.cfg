\* Retried recoveries, removals, edits and aborts; two advances, two periods.
SPECIFICATION RetrySpec
CONSTANTS
    t1 = t1
    t2 = t2
    Txs = {t1, t2}
    NumAdvances = 2
    NumPeriods = 2
    DateGiven <- SwappedDates
    Amounts = {1, 2}
    Instalments <- SomeInstalments
    None = None
INVARIANTS NoDrift NotRecoveredTwice RowsKeepTheirAdvance
PROPERTY EveryRequestEnds
