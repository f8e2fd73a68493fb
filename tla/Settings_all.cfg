SPECIFICATION SettingsSpec
CONSTANTS
    Thread = {gui, operation}
    Storage = {internal, card, gone}
    Internal = internal
    Known = {internal, card}
    Language = {english, german}
    English = english
    NoValue = none
    MaxCalls = 5
INVARIANTS
    FoldersFollow
PROPERTIES
    FlushedComesBack
CHECK_DEADLOCK FALSE
