\* Two typed values, two saves, three panels, one trouble.
SPECIFICATION SettingsSpec
CONSTANTS
    Items <- MCItems
    Types <- MCTypes
    Limits <- MCLimits
    FirstLimit = 2
    DefaultLimit = 3
    Tours <- MCTours
    MaxTyped = 2
    MaxSaves = 2
    MaxMounts = 3
    MaxTroubles = 1
INVARIANTS
    OrderIsAsDragged
    AddedOnce
    StoredWhereTyped
PROPERTIES
    OnlyUnseenLimitsAreReverted
