SPECIFICATION Spec
CONSTANTS
    Count = 3
    Long = {2, 3}
    Trees <- MCTrees
    Kept = {{}, {1}, {3}}
INVARIANTS
    PoliciesComeBack
CHECK_DEADLOCK FALSE
