\* A pool created between the sync of main and the subscription of the oracle.
SPECIFICATION Spec
CONSTANTS
    p1 = p1
    p2 = p2
    f1 = f1
    f2 = f2
    Pool = {p1, p2}
    Factory = {f1, f2}
    FactoryOf <- OneEach
    Step = 2
    Interval = 2
    Flaky = FALSE
    Checked = TRUE
    MaxBlock = 6
    MaxEpoch = 0
INVARIANT
    EveryPoolAdded
