CONSTANTS
    card = card
    data = data
    Partitions <- CardThenData
    DataMedia = {data}
    Removable = {card}
    FBE = {data}
    Faults <- EachFault
    MaxOps = 3
SPECIFICATION Spec
INVARIANTS
    ServedIsMounted
    Exclusive
    ZombieForOther
PROPERTIES
    MtpComesBack
CHECK_DEADLOCK FALSE
