------------------------ MODULE MCIdempotentCreate ------------------------
(* Two bodies that name one source and one that names none. *)
EXTENDS IdempotentCreate, TLC

CONSTANTS order, reorder, task, wc17

MCPayloads == {order, reorder, task}
MCSourceRef == [b \in MCPayloads |-> IF b = task THEN NoSource ELSE wc17]
MCSymmetry == Permutations(Requests) \cup Permutations(Keys)
=============================================================================
