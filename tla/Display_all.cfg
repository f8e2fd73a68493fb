SPECIFICATION DisplaySpec
CONSTANTS
    Screens <- MCScreens
    MaxAge = 3
INVARIANTS
    AtMostOneBehind
    BlankAgrees
