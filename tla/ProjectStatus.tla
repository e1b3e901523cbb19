--------------------------- MODULE ProjectStatus ---------------------------
(***************************************************************************)
(* The statuses of a project (the CHECK of the projects table) and the two *)
(* commands that move it.  Shared by the detailed and the abstract         *)
(* specification of the project workflow.                                  *)
(***************************************************************************)

Status == {"planning", "active", "on_hold", "review", "done", "archived"}

\* The statuses submit-review may leave and those reopen may leave.
Open == {"planning", "active", "on_hold"}
Closed == {"review", "done"}

Command == {"submit_review", "reopen"}

Source(cmd) == IF cmd = "reopen" THEN Closed ELSE Open

Targets(cmd) == IF cmd = "reopen" THEN {"active"} ELSE {"review", "done"}
=============================================================================
