\* Two requests at a time, one key per user value, at most one update of the people.
SPECIFICATION FairSpec
CONSTANTS
    mgr = mgr
    usr = usr
    p1 = p1
    Users <- MCUsers
    Managers <- MCManagers
    Projects <- MCProjects
    Creator <- MCCreator
    Keys = {k1}
    NoKey = NoKey
    Requests = {r1, r2}
    InitialStatus = {"on_hold", "done"}
    PeopleLists <- MCPeopleLists
    MaxUpdates = 1
INVARIANTS
    TypeOK
    OncePerKey
    AllOrNothing
    StatusMatchesReviews
PROPERTIES
    LegalTransitions
    ImplementsLifecycle
    EveryRequestAnswered
CHECK_DEADLOCK FALSE
