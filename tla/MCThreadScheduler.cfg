SPECIFICATION Spec
CONSTANTS
    Task = {t1, t2}
    NoTask = NoTask
    QueueCapacity = 1
    UINT64_MAX = 7
    Client = {c1, c2}
    Creator = c1
    Times = {0, 1, 6}
    MaxNow = 1
INVARIANTS HandedOverOnce NoLostWakeUp QuietWhenDestroyed
PROPERTIES DueTaskIsCalled DestroyTerminates
CHECK_DEADLOCK FALSE
