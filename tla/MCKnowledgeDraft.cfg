\* An edit, a row opened, a message lost: any two of these, or two edits.
SPECIFICATION FairSpec
CONSTANTS
    memo = memo
    guide = guide
    Docs <- MCDocs
    NewDoc = memo
    OldRows <- MCOldRows
    NoDoc = NoDoc
    Values = {0, 1}
    Tables = {"wiki", "other"}
    Valid = {TRUE, FALSE}
    MaxEdits = 2
    MaxOpens = 1
    MaxLosses = 1
    MaxSteps = 2
INVARIANTS
    OneRowWhenCalm
PROPERTIES
    SavedTextsAreKept
    DraftsAreAutosaved
CHECK_DEADLOCK FALSE
