-------------------------- MODULE MCKnowledgeDraft --------------------------
(* A panel opened for a new document, beside a draft of an earlier day. *)
EXTENDS KnowledgeDraft

CONSTANTS memo, guide

MCDocs == {memo, guide}
MCOldRows ==
    <<[doc |-> guide, words |-> 1, content |-> 0, heading |-> 0, details |-> 0,
       table |-> "wiki", valid |-> TRUE]>>
=============================================================================
