\* Two submissions of one project race: both were read while it was open.
SPECIFICATION Spec
CONSTANTS
    mgr = mgr
    usr = usr
    p1 = p1
    Users <- MCUsers
    Managers <- MCManagers
    Projects <- MCProjects
    Creator <- MCCreator
    Keys = {k1}
    NoKey = NoKey
    Requests = {r1, r2}
    InitialStatus = {"active"}
    PeopleLists <- MCPeopleLists
    MaxUpdates = 1
PROPERTIES
    FinishOnlyOpenProjects
CHECK_DEADLOCK FALSE
