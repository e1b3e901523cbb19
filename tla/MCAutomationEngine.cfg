\* Two workers, two events, two rules that are created and switched at any time.
SPECIFICATION FairSpec
CONSTANTS
    e1 = e1
    e2 = e2
    ruleA = ruleA
    ruleB = ruleB
    Events <- MCEvents
    Rules <- MCRules
    Matches <- MCMatches
    Workers = {w1, w2}
INVARIANTS
    AppliedOnce
    CompletedRanAll
PROPERTIES
    EventsSettle
CHECK_DEADLOCK FALSE
