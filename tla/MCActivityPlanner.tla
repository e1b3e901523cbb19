------------------------- MODULE MCActivityPlanner -------------------------
(* Two activities, three days of which one is a holiday, two columns. *)
EXTENDS ActivityPlanner, TLC

CONSTANTS a, b

MCIds == {a, b}
MCHolidays == {2}
MCOffered ==
    {[activities |-> <<>>, finishDate |-> NoDay],
     [activities |-> a :> [date |-> 3, column |-> "todo"], finishDate |-> NoDay],
     [activities |-> a :> [date |-> 1, column |-> "done"] @@ b :> [date |-> 2, column |-> "todo"],
      finishDate |-> 3]}
MCColumns == {"todo", "done"}
=============================================================================
