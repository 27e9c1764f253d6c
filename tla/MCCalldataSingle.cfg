SPECIFICATION Spec
CONSTANTS
    Shift = {0, 28}
    MaxSwaps = 3
INVARIANT
    RealValue
