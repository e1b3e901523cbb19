\* Two transactions at a time; two submissions to one reviewer, or one and a review by hand.
SPECIFICATION FairSpec
CONSTANTS
    ana = ana
    bob = bob
    p1 = p1
    Users <- MCUsers
    Projects <- MCProjects
    Reviewers <- MCOneReviewer
    Tx = {t1, t2}
    MaxReviews = 2
    MaxLog = 3
    None = None
    InitialStatus = {"planning"}
    EditStatuses = {"active", "completed"}
INVARIANTS
    FinishedByAll
    AuditIsHistory
    ReopenedBetweenSubmissions
PROPERTIES
    EveryTransactionEnds
CHECK_DEADLOCK FALSE
