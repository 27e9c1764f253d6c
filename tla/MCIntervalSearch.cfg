\* Three intervals; every market of zeros and ones up to a balance of 12, and tents.
SPECIFICATION Spec
CONSTANTS
    SmallBalance = 12
    SmallRevenue = 1
    LargeBalance = 28
    Slope = 2
    Market <- Markets
    Intervals = 3
    GiveUp = 3
    Base = 7
    Need <- Lengths
INVARIANTS
    TypeOK
    WithinBalance
    NoUnderflow
    NearOptimal
PROPERTY
    SearchEnds
CHECK_DEADLOCK FALSE
