SPECIFICATION Spec
CONSTANTS
    Task = {t1, t2, t3, t4}
    UINT64_MAX = 2
    QueueCapacity = 2
    NoTask = NoTask
SYMMETRY Symmetry
INVARIANTS HeldExactlyOnce RunsInTimeOrder PassIsExact NextTaskTimeExact CleanUpCancelsAll
CHECK_DEADLOCK FALSE
