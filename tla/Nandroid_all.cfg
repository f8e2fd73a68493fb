CONSTANTS
    data = data
    datadata = datadata
    boot = boot
    Part = {data, datadata, boot}
    List <- DataThenBoot
    Sub <- MCSub
    Method <- MCMethod
    Split = {data}
    Blocks = 2
    UseDigest = TRUE
    NameKept = TRUE
    Faults = {TRUE, FALSE}
    MaxRuns = 2
    Boots <- MCBoots
    Disk = {"sda", "sdb"}
    PartsOf <- MCPartsOf
    BusOf <- MCBusOf
    MaxPlugs = 2
    Text <- MCText
    MountOf <- MCMountOf
SPECIFICATION RecoverySpec
INVARIANTS
    SuccessIsWhole
    FailureIsClean
    DamageHasCause
    TableSound
    PlugAgrees
PROPERTIES
    ThreadsEnd
CHECK_DEADLOCK FALSE
