SPECIFICATION TouchSpec
CONSTANTS
    Screen = screen
    Keypad = keypad
    Sensor = sensor
    Blacklisted = {}
    Drivers = {"slots", "anonymous", "pressure", "single", "packed"}
    Orders <- const_Orders
    Pos <- const_Pos
    KeyArea <- const_KeyArea
    MaxMoves = 3
    MaxOthers = 2
    MaxQueue = 1
INVARIANTS
    GuiAgrees
PROPERTIES
    GestureOrder
    FirstFinger
    TouchEnds
CHECK_DEADLOCK FALSE
