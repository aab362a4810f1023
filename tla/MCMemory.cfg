CONSTANTS
    Block = {b1, b2, b3, b4, b5}
    Sizes = {0, 1, 2, 3, 4}
    Capacity = 8
    MaxShift = 2
    Variable = {v1, v2, v3}
    Thread = {t1, t2}
    Alloc = {a1, a2, a3}
    Size = {0, 8}
    NoAlloc = NoAlloc
    FUNCTOR = FUNCTOR
    KERNEL = KERNEL
SPECIFICATION MemorySpec
SYMMETRY MemorySymmetry
INVARIANTS ListsMatchHeap LentBlocksFit FailsOnlyForCause CountsExact NothingDangles
