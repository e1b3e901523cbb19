\* Three tabs beside the first and no PUT; one tab and two PUTs that overtake each other; or
\* two tabs, one at a time, of which one has a label that is too long.
SPECIFICATION MCSpec
CONSTANTS
    p1 = p1
    Projects <- MCProjects
    NoProject = NoProject
    LongNames <- MCProjects
    Views <- MCViews
    Limit = 1
    DefaultLimit = 2
    Saves = {1}
    MaxPuts = 2
    MaxNew = 3
    MaxEntries = 2
INVARIANTS
    ActiveTabIsShown
    OneTabPerPage
    TabsAreRemembered
PROPERTIES
    TurningIsRecorded
