SPECIFICATION Spec
CONSTANTS
    DECIMAL_FRACTION = 10
    MaxAmount = 60
    Rates = {0, 1, 2, 3, 5, 7, 10, 15}
    Caps = {0, 1, 3, 8, 100}
INVARIANTS
    SpendCovered
    CoinIsLargest
\* The amount stops at MaxAmount.
CHECK_DEADLOCK FALSE
