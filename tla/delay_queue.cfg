SPECIFICATION Spec
CONSTANTS
    p1 = p1
    p2 = p2
    p3 = p3
    p4 = p4
    p5 = p5
    p6 = p6
    p7 = p7
    Items <- Delayed
    cmp <- Later
    address <- SlotOf
SYMMETRY Alike
INVARIANTS
    HeapOrder
PROPERTIES
    ImplementsPriorityQueue
