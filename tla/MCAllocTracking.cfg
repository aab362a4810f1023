CONSTANTS
    Alloc = {a1, a2, a3}
    Sizes = {1, 2}
    nullptr = nullptr
SPECIFICATION Spec
INVARIANT RecordsAddUp
CHECK_DEADLOCK FALSE
