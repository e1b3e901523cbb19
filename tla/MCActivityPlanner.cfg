\* The page hands over one more plan while the planner is used.
SPECIFICATION Spec
CONSTANTS
    a = a
    b = b
    Ids <- MCIds
    NoId = NoId
    NoDay = NoDay
    LastDay = 3
    Holidays <- MCHolidays
    Columns <- MCColumns
    Offered <- MCOffered
    MaxGiven = 1
PROPERTIES
    
    ImplementsPlan
