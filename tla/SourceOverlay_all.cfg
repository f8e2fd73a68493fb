CONSTANTS
    f1 = f1
    f2 = f2
    treeA = treeA
    treeB = treeB
    p1 = p1
    p2 = p2
    File = {f1, f2}
    Tree = {treeA, treeB}
    Patch = {p1, p2}
    Pristine = Pristine
    Local = Local
    Torn = Torn
    Absent = Absent
    Manifest <- MCManifest
    Overlays <- MCOverlays
    Scenarios = {
        {"crash", "force", "recover", "regenerate"},
        {"force", "recover"},
        {"crash"}}
SPECIFICATION Spec
INVARIANTS
    SuccessIsComplete
PROPERTIES
    KeepsBase
    KeepsEverything
