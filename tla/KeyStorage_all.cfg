\* Keystore keys: one key path, two storing attempts, every call may fail.
SPECIFICATION Spec
CONSTANTS
    Slot = {s1}
    Tmp = tmp
    NoDir = NoDir
    None = None
    UsesKeystore = TRUE
    CanFail = TRUE
    MaxKey = 2
INVARIANTS
    NoTornKey
    OneBindingPerBoot
PROPERTIES
    KeepsAndDestroys
