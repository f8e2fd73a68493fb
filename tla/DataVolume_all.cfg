SPECIFICATION Spec
CONSTANTS
    User_Ids <- TwoUsers
    Attempts = 3
    MaxCalls = 3
INVARIANTS
    FormattedIsKeyless
    ActualIsMounted
    AsksForPassword
PROPERTIES
    MediaSurvives
    CallsReturn
CHECK_DEADLOCK FALSE
