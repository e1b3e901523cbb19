------------------------- MODULE MCAutomationEngine -------------------------
(* One rule matches both events, the other one of them. *)
EXTENDS AutomationEngine

CONSTANTS e1, e2, ruleA, ruleB

MCEvents == {e1, e2}
MCRules == {ruleA, ruleB}
MCMatches == {<<ruleA, e1>>, <<ruleA, e2>>, <<ruleB, e1>>}
=============================================================================
