SPECIFICATION BooksSpec
CONSTANTS
    Trades = {"a", "b"}
    Scripts <- MCScripts
    Start = 1000
    SavingsPct = 20
    ReservePct = 10
    Goal = 200
    Omin = 2
    WeekLen = 1
    MonthLen = 2
    MaxBatch = 2
    MaxTime = 2
    MaxFaults = 0
    MaxCrashes = 1
INVARIANT LotsLedgeredOnce
