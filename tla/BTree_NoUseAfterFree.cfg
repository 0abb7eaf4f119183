\* Order 3, five keys: the shortest sequence of calls that violates NoUseAfterFree.
CONSTANTS
    Keys <- MCKeys5
    Vals <- MCVals
    Order = 3
    LongSize = 4
    MaxPage = 8
SPECIFICATION Spec
VIEW ShapeView
INVARIANT NoUseAfterFree
