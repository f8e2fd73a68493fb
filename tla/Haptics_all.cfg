SPECIFICATION HapticsSpec
CONSTANTS
    Client = {gui, keyboard}
    Worker = worker
    Free = free
    Asked <- const_Asked
    MaxCalls = 4
INVARIANTS
    LockDiscipline
    QuietAtRest
PROPERTIES
    PlaysLatest
CHECK_DEADLOCK FALSE
