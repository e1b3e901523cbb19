--------------------------- MODULE MCProjectForm ---------------------------
(* The project there is and one to make; two days, the last a holiday. *)
EXTENDS ProjectForm

MCDays == {1, 2}
MCHolidays == {2}
MCColumns == {"todo"}
MCFirstActivity == [date |-> 1, column |-> "todo"]
=============================================================================
