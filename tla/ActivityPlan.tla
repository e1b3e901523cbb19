---------------------------- MODULE ActivityPlan ----------------------------
(***************************************************************************)
(* What the activity planner promises to the page that shows it: the plan  *)
(* changes one activity at a time, nothing is put on the finish day, and a *)
(* read-only plan changes only when the page replaces it.  What the page   *)
(* hands over may have anything on its finish day: the tasks and the       *)
(* project come from two queries, and anyone may have made them.           *)
(***************************************************************************)
EXTENDS Naturals

CONSTANTS
    Ids,        \* ids of activities
    Days,       \* dates
    NoDay,      \* no finish date: ""
    Columns,    \* of the Kanban board
    Offered     \* plans the page may hand over

Activity == [date : Days, column : Columns]

Plans ==
    [activities : UNION {[D -> Activity] : D \in SUBSET Ids}, finishDate : Days \cup {NoDay}]

VARIABLES
    activities, \* id |-> activity, of the activities there are
    finishDate,
    readOnly,
    given       \* how often the page has handed something over

planVars == <<activities, finishDate, readOnly, given>>

Init ==
    /\ \E p, q \in Offered : activities = p.activities /\ finishDate = q.finishDate
    /\ readOnly \in BOOLEAN
    /\ given = 0

\* An activity is put on a day that is not the last, or keeps its day.
Put(i, a) ==
    /\ ~readOnly
    /\ i \in Ids /\ a \in Activity
    /\ a.date # finishDate \/ (i \in DOMAIN activities /\ a.date = activities[i].date)
    /\ activities' = [j \in DOMAIN activities \cup {i} |-> IF j = i THEN a ELSE activities[j]]
    /\ UNCHANGED finishDate

Remove(i) ==
    /\ ~readOnly
    /\ activities' = [j \in DOMAIN activities \ {i} |-> activities[j]]
    /\ UNCHANGED finishDate

\* Work ends on day d, and what was planned for d is gone.
FinishOn(d) ==
    /\ ~readOnly
    /\ d \in Days /\ finishDate' = d
    /\ activities' = [j \in {i \in DOMAIN activities : activities[i].date # d} |-> activities[j]]

\* The page hands over other activities, another finish date or both.
Replace ==
    /\ \E p \in Offered : /\ activities' \in {activities, p.activities}
                          /\ finishDate' \in {finishDate, p.finishDate}
    /\ given' = given + 1
    /\ UNCHANGED readOnly

Change ==
    \/ \E i \in Ids, a \in Activity : Put(i, a)
    \/ \E i \in Ids : Remove(i)
    \/ \E d \in Days : FinishOn(d)

Next == (Change /\ UNCHANGED <<readOnly, given>>) \/ Replace

Spec == Init /\ [][Next]_planVars
=============================================================================
