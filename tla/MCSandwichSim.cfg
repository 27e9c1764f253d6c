\* Up to two victims; amounts that do not fit four bytes and units that do not divide.
SPECIFICATION Spec
CONSTANTS
    alice = alice
    bob = bob
    None = None
    Meat <- Mempool
    MaxMeats = 2
    BaseFee = 1
    StartWeth = 7
    Optimal = {1, 7}
    Dust = {0, 1}
    Out = {0, 5, 11}
    WethUnit = 2
    TokenUnit = 3
    Funds = {3, 9, 20}
    GasLimit = 2
    Gas = {1, 2}
    Scale = 4
    LeastShare = 2
    Overpay = 2
    Unit = {1, 2, 4, 8}
    Byte = 2
    Largest = 12
    Fits = 4
SYMMETRY Senders
CHECK_DEADLOCK FALSE
INVARIANTS TypeOK Honoured DustKept Replayable PanicsOnly FeesEarned
