SPECIFICATION Spec
CONSTANTS
    x1 = x1
    x2 = x2
    x3 = x3
    y1 = y1
    y2 = y2
    y3 = y3
    Item <- MCItem
    Prio <- MCPrio
    MaxSize = 6
    SIZE_MAX = 99
    NoItem = NoItem
    Error = Error
SYMMETRY Symmetry
INVARIANTS TypeOK HeapOrder HandlesExact
PROPERTIES ImplementsPriorityQueue
CHECK_DEADLOCK FALSE
