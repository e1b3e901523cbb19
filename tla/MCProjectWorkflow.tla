------------------------- MODULE MCProjectWorkflow -------------------------
(* One project, a manager who created it and a user who may be put on it.  *)
EXTENDS ProjectWorkflow

CONSTANTS mgr, usr, p1

MCUsers == {mgr, usr}
MCManagers == {mgr}
MCProjects == {p1}
MCCreator == [p \in MCProjects |-> mgr]
MCPeopleLists == {[member |-> {}, reviewer |-> v] : v \in {{}, {usr}}}
=============================================================================
