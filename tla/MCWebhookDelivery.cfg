\* Two processes, two events for one subscription, two attempts where the code has five.
SPECIFICATION FairSpec
CONSTANTS
    Events = {e1, e2}
    Subs = {s1}
    Workers = {w1, w2}
    MaxAttempts = 2
    MaxCrashes = 1
INVARIANTS
    OutcomesHappened
PROPERTIES
    EveryDeliverySettles
CHECK_DEADLOCK FALSE
