SPECIFICATION Spec
CONSTANTS
    Callers = {r1, r2, r3}
    Interval = 2
    Burst = 1
    MaxRetries = 1
    Backoff <- Backoffs
    Pause = 3
    MaxPauseWait = 4
    MaxLate = 1
    MaxFetches = 3
SYMMETRY Symmetry
CHECK_DEADLOCK FALSE
INVARIANTS NothingWasted
PROPERTIES Paced OwnPauseWaited
