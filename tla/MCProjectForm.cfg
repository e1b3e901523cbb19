\* Two edits, two saves, one lost message or task of another user: four of these five.
SPECIFICATION FairFormSpec
CONSTANTS
    Ids <- Nat
    Projects = {1, 2, 3}
    NoProject = 0
    Days <- MCDays
    NoDay = 0
    Columns <- MCColumns
    Holidays <- MCHolidays
    FirstActivity <- MCFirstActivity
    FirstFinish = 2
    MaxEdits = 2
    MaxSaves = 2
    MaxTroubles = 1
    MaxSteps = 4
INVARIANTS
    SavedAsPlanned
    DeletesWereDropped
PROPERTIES
    SavesEnd
