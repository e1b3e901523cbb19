-------------------------- MODULE MCWorkspaceTabs --------------------------
(***************************************************************************)
(* One project, four views, and so few tabs that the limit bites.  There   *)
(* are three kinds of sessions, each with room for what it is about: the   *)
(* pages opened, the PUTs, and the labels that the server refuses.         *)
(***************************************************************************)
EXTENDS WorkspaceTabs

CONSTANT p1

MCProjects == {p1}
MCViews == {"overview", "knowledge", "project-detail", "project-edit"}

VARIABLE session

NoSaves == \A s \in Saves : callbacks'[s] = NoSave

Within ==
    CASE session = "pages" -> puts' = <<>> /\ \A t \in Elems(tabs') : ~t.long
      [] session = "puts" -> fresh' <= 2 /\ NoSaves
      [] session = "labels" ->
            /\ fresh' <= 3 /\ NoSaves
            /\ Len(tabs') = 1 /\ Len(puts') <= 1 /\ view' # "project-edit"

MCInit == TabsInit /\ session \in {"pages", "puts", "labels"}
MCNext == TabsNext /\ Within /\ UNCHANGED session
MCSpec == MCInit /\ [][MCNext]_<<tabsVars, session>>
=============================================================================
