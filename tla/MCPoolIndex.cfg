\* Two factories, ranges of two blocks, a sync at every second block.
SPECIFICATION Spec
CONSTANTS
    p1 = p1
    p2 = p2
    f1 = f1
    f2 = f2
    Pool = {p1, p2}
    Factory = {f1, f2}
    FactoryOf <- OneEach
    Step = 2
    Interval = 2
    Flaky = TRUE
    Checked = TRUE
    MaxBlock = 6
    MaxEpoch = 1
INVARIANTS
    TypeOK
    Fresh
PROPERTIES
    MainComplete
