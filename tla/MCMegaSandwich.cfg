\* Two pools, three recipes, three blocks, and every unwrap may panic.
SPECIFICATION Spec
CONSTANTS
    r1 = r1
    r2 = r2
    r3 = r3
    p1 = p1
    p2 = p2
    Recipe = {r1, r2, r3}
    Pool = {p1, p2}
    PoolOf <- OneAndTwo
    Oracle = oracle
    Panics = TRUE
    MaxBlock = 3
INVARIANTS
    TypeOK
    NeverTwice
    AllOrNothing
PROPERTIES
    EveryAddEnds
    OracleReturns
