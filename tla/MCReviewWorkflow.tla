-------------------------- MODULE MCReviewWorkflow --------------------------
(* One project, with one of two users or both as its reviewers. *)
EXTENDS ReviewWorkflow

CONSTANTS ana, bob, p1

MCUsers == {ana, bob}
MCProjects == {p1}
MCOneReviewer == [p \in MCProjects |-> {ana}]
MCTwoReviewers == [p \in MCProjects |-> {ana, bob}]
=============================================================================
