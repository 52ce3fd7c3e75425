SPECIFICATION Spec
CONSTANTS
    NumCores = 2
    EventIds = {e1}
    MAX_SLICE_LENGTH = 3
    Delays <- ShortAndLong
    min_delay = 1
    MaxOvershoot = 1
    Horizon = 8
 
INVARIANT LagBounded
PROPERTY ClocksMonotonic
CHECK_DEADLOCK FALSE
