\* Two requests at a time, over both back ends.
SPECIFICATION FairSpec
CONSTANTS
    ana = ana
    bob = bob
    Users <- MCUsers
    Requests = {r1, r2}
    LongTime = 0
    NoUser = NoUser
    MaxEntries = 2
    MaxClock = 2
INVARIANTS
    OneRunningTimer
    SerialTimersAreDisjoint
    RefusedOnlyWhenRaced
PROPERTIES
    OnlyOwnEntriesChange
    EveryRequestEnds
CHECK_DEADLOCK FALSE
