\* Calls with targets below, at and above the balance; spending, restarts,
\* dropped updates and a reverted block in between.
CONSTANTS
    Unit = 2
    Targets = {0, 1, 2}
    Calls = 3
    Reverts = 1
    Initial = 3
SPECIFICATION TopUpSpec
CHECK_DEADLOCK FALSE
INVARIANTS
    TopUpTypeOK
    NeverOverfilled

    
