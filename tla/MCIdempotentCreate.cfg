\* Three requests at a time with two keys, at most four resources.
SPECIFICATION Spec
CONSTANTS
    order = order
    reorder = reorder
    task = task
    wc17 = wc17
    NoSource = NoSource
    Payloads <- MCPayloads
    SourceRef <- MCSourceRef
    Keys = {k1, k2}
    Requests = {r1, r2, r3}
    MaxCreated = 4
SYMMETRY MCSymmetry
INVARIANTS
    OneProjectPerSource
    AnswersFitTheirBody
    OnceUnlessTroubled
CHECK_DEADLOCK FALSE
