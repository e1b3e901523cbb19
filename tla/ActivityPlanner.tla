-------------------------- MODULE ActivityPlanner --------------------------
(***************************************************************************)
(* ActivityCalendar.tsx: the planner of a project's activities, in the     *)
(* project form, where the plan is edited, and on the project's page,      *)
(* where it is read-only.                                                  *)
(*                                                                         *)
(* The plan belongs to the page, which may hand over another one (a        *)
(* refetch, another project) while the editor is open, its activities and  *)
(* its finish date together or one of them alone, the calendar of          *)
(* holidays may come and go, and a day may end.  An activity's text is     *)
(* left out but for its being there; the months shown, and the order of    *)
(* the activities, which the form alone uses, are left out.                *)
(***************************************************************************)
EXTENDS Naturals

CONSTANTS
    Ids, NoId,      \* ids of activities, and "" of a new one
    NoDay,          \* ""
    LastDay,        \* bound: the days are 1 .. LastDay
    Holidays,       \* public holidays
    Columns,        \* of the Kanban board, "todo" among them
    Offered,        \* plans of which the page may hand over either part
    MaxGiven        \* bound: how often it does

Days == 1 .. LastDay

VARIABLES
    activities, finishDate, readOnly, given,    \* the props, as in ActivityPlan
    today,
    mode,           \* "calendar", "tree" or "kanban"
    holidaysKnown,  \* holidayQuery.isSuccess
    editingDate, editingID, editingColumn,      \* the editor
    described,      \* its description is not blank
    markFinish

plan == <<activities, finishDate, readOnly, given>>
editor == <<editingDate, editingID, editingColumn, described, markFinish>>
vars == <<plan, today, mode, holidaysKnown, editor>>

Plan == INSTANCE ActivityPlan

ASSUME PlannerAssumption ==
    /\ NoId \notin Ids /\ NoDay \notin Nat
    /\ LastDay \in Nat \ {0} /\ MaxGiven \in Nat
    /\ Holidays \subseteq Days /\ "todo" \in Columns
    /\ Offered \subseteq Plan!Plans

TypeOK ==
    /\ activities \in UNION {[D -> Plan!Activity] : D \in SUBSET Ids}
    /\ finishDate \in Days \cup {NoDay}
    /\ readOnly \in BOOLEAN /\ given \in Nat
    /\ today \in Days
    /\ mode \in {"calendar", "tree", "kanban"}
    /\ holidaysKnown \in BOOLEAN
    /\ editingDate \in Days \cup {NoDay}
    /\ editingID \in Ids \cup {NoId}
    /\ editingColumn \in Columns
    /\ described \in BOOLEAN /\ markFinish \in BOOLEAN

-----------------------------------------------------------------------------
(* What is shown and enabled. *)

\* The calendar lets nothing be opened on a holiday, nor before it knows the holidays.
Closed(d) == mode = "calendar" /\ (~holidaysKnown \/ d \in Holidays)

\* defaultTreeDate: where tree and board put a new activity.
DefaultDates == {IF today # finishDate THEN today ELSE today + 1} \cap Days

\* A read-only activity is shown in the reader; the editor is for all else, also for an
\* activity that is no longer there.
Reading == editingDate # NoDay /\ readOnly /\ editingID \in DOMAIN activities
Editing == editingDate # NoDay /\ ~Reading

Dismissed ==
    /\ editingDate' = NoDay /\ editingID' = NoId /\ editingColumn' = "todo"
    /\ described' = FALSE /\ markFinish' = FALSE

\* The "+" of a day, "Add Activity" of the tree, and that of each column of the board.
CalendarOffers(d, c) ==
    mode = "calendar" /\ ~readOnly /\ d >= today /\ d # finishDate /\ ~Closed(d) /\ c = "todo"
TreeOffers(d, c) == mode = "tree" /\ ~readOnly /\ d \in DefaultDates /\ c = "todo"
BoardOffers(d) == mode = "kanban" /\ ~readOnly /\ d \in DefaultDates

-----------------------------------------------------------------------------
(* Opening and filling the editor. *)

OpenNew(d, c) ==
    /\ CalendarOffers(d, c) \/ TreeOffers(d, c) \/ BoardOffers(d)
    /\ ~readOnly /\ d >= today /\ d # finishDate /\ ~Closed(d)
    /\ editingDate' = d /\ editingID' = NoId /\ editingColumn' = c
    /\ described' = FALSE /\ markFinish' = FALSE
    /\ UNCHANGED <<plan, today, mode, holidaysKnown>>

OpenEdit(i) ==
    /\ i \in DOMAIN activities /\ ~Closed(activities[i].date)
    /\ editingDate' = activities[i].date /\ editingID' = i
    /\ editingColumn' = activities[i].column
    /\ described' = TRUE /\ markFinish' = FALSE
    /\ UNCHANGED <<plan, today, mode, holidaysKnown>>

\* The date input takes a day before its minimum, and can be cleared.
EditDate(d) ==
    /\ Editing /\ editingDate' = d
    /\ UNCHANGED <<plan, today, mode, holidaysKnown, editingID, editingColumn, described,
                   markFinish>>

EditText(b, c) ==
    /\ Editing /\ ~markFinish
    /\ described' = b /\ editingColumn' = c
    /\ UNCHANGED <<plan, today, mode, holidaysKnown, editingDate, editingID, markFinish>>

MarkFinish(b) ==
    /\ Editing /\ editingID = NoId
    /\ markFinish' = b
    /\ UNCHANGED <<plan, today, mode, holidaysKnown, editingDate, editingID, editingColumn,
                   described>>

CloseEditor ==
    /\ editingDate # NoDay
    /\ Dismissed
    /\ UNCHANGED <<plan, today, mode, holidaysKnown>>

-----------------------------------------------------------------------------
(* Changing the plan. *)

\* saveDisabled, but for what the two ways to save look at themselves.
SaveEnabled == Editing /\ editingDate >= today /\ ~Closed(editingDate)

\* Deviation: the finish day is marked and its activities stay.
SaveFinishKeeping ==
    /\ SaveEnabled /\ markFinish
    /\ finishDate' = editingDate
    /\ Dismissed
    /\ UNCHANGED <<activities, readOnly, given, today, mode, holidaysKnown>>

\* save, with Finish ticked: the day's activities go.
SaveFinish ==
    /\ SaveEnabled /\ markFinish
    /\ activities' = [i \in {j \in DOMAIN activities : activities[j].date # editingDate}
                        |-> activities[i]]
    /\ finishDate' = editingDate
    /\ Dismissed
    /\ UNCHANGED <<readOnly, given, today, mode, holidaysKnown>>

Edited == [date |-> editingDate, column |-> editingColumn]

\* save of a new activity.
SaveNew(i) ==
    /\ SaveEnabled /\ ~markFinish /\ described /\ editingDate # finishDate
    /\ editingID = NoId /\ i \in Ids \ DOMAIN activities
    /\ activities' = [j \in DOMAIN activities \cup {i} |->
                        IF j = i THEN Edited ELSE activities[j]]
    /\ Dismissed
    /\ UNCHANGED <<finishDate, readOnly, given, today, mode, holidaysKnown>>

\* Deviation: an activity that has gone is added again.
SaveChangeAdding ==
    /\ SaveEnabled /\ ~markFinish /\ described /\ editingDate # finishDate
    /\ editingID # NoId
    /\ activities' = [i \in DOMAIN activities \cup {editingID} |->
                        IF i = editingID THEN Edited ELSE activities[i]]
    /\ Dismissed
    /\ UNCHANGED <<finishDate, readOnly, given, today, mode, holidaysKnown>>

\* save of an activity that is edited; when it has gone, nothing changes.
SaveChange ==
    /\ SaveEnabled /\ ~markFinish /\ described /\ editingDate # finishDate
    /\ editingID # NoId
    /\ activities' = [i \in DOMAIN activities |->
                        IF i = editingID THEN Edited ELSE activities[i]]
    /\ Dismissed
    /\ UNCHANGED <<finishDate, readOnly, given, today, mode, holidaysKnown>>

\* Whatever its date: not even a day that is past protects it.
DeleteActivity ==
    /\ Editing /\ editingID # NoId
    /\ activities' = [i \in DOMAIN activities \ {editingID} |-> activities[i]]
    /\ Dismissed
    /\ UNCHANGED <<finishDate, readOnly, given, today, mode, holidaysKnown>>

\* A card is dragged to a column of the board.
MoveActivity(i, c) ==
    /\ mode = "kanban" /\ ~readOnly /\ i \in DOMAIN activities
    /\ activities' = [activities EXCEPT ![i] = [date |-> activities[i].date, column |-> c]]
    /\ UNCHANGED <<finishDate, readOnly, given, today, mode, holidaysKnown, editor>>

-----------------------------------------------------------------------------
(* The surroundings. *)

\* The page hands over other activities, when its tasks are fetched, another finish date, when
\* its project is, or both, of this project or of the one a tab switches to; the editor keeps
\* what it holds.
HandOver(p) ==
    /\ given < MaxGiven /\ given' = given + 1
    /\ \/ activities' = p.activities /\ finishDate' = p.finishDate
       \/ activities' = p.activities /\ UNCHANGED finishDate
       \/ finishDate' = p.finishDate /\ UNCHANGED activities
    /\ UNCHANGED <<readOnly, today, mode, holidaysKnown, editor>>

SetMode(m) ==
    /\ mode' = m
    /\ UNCHANGED <<plan, today, holidaysKnown, editor>>

\* The holidays arrive, or a year is shown whose holidays are missing.
HolidayQuery ==
    /\ holidaysKnown' = ~holidaysKnown
    /\ UNCHANGED <<plan, today, mode, editor>>

Midnight ==
    /\ today < LastDay /\ today' = today + 1
    /\ UNCHANGED <<plan, mode, holidaysKnown, editor>>

-----------------------------------------------------------------------------
Init ==
    /\ Plan!Init
    /\ today = 1 /\ mode = "calendar" /\ holidaysKnown = FALSE
    /\ editingDate = NoDay /\ editingID = NoId /\ editingColumn = "todo"
    /\ described = FALSE /\ markFinish = FALSE

Next ==
    \/ \E d \in Days, c \in Columns : OpenNew(d, c)
    \/ \E i \in Ids : OpenEdit(i)
    \/ \E d \in Days \cup {NoDay} : EditDate(d)
    \/ \E b \in BOOLEAN, c \in Columns : EditText(b, c)
    \/ \E b \in BOOLEAN : MarkFinish(b)
    \/ CloseEditor
    \/ SaveFinish
    \/ \E i \in Ids : SaveNew(i)
    \/ SaveChange
    \/ DeleteActivity
    \/ \E i \in Ids, c \in Columns : MoveActivity(i, c)
    \/ \E p \in Offered : HandOver(p)
    \/ \E m \in {"calendar", "tree", "kanban"} : SetMode(m)
    \/ HolidayQuery
    \/ Midnight

Spec == Init /\ [][Next]_vars

-----------------------------------------------------------------------------
(* Properties. *)

\* A day on which work may be planned now.
Free(d) == d >= today /\ ~Closed(d)

\* What the planner itself places, it places on a free day, and never an activity on the day
\* the work ends nor the end on a day with activities, although the mode, the holidays, the
\* date and the plan may have changed since the editor was opened.
PlacedOnFreeDays ==
    [][given' = given =>
          /\ finishDate' # finishDate =>
                Free(finishDate') /\ \A i \in DOMAIN activities' : activities'[i].date # finishDate'
          /\ \A i \in DOMAIN activities' :
                i \notin DOMAIN activities \/ activities'[i].date # activities[i].date
                    => Free(activities'[i].date) /\ activities'[i].date # finishDate']_vars

\* The planner keeps the promises of ActivityPlan: an activity goes only by Delete or with
\* the day that becomes the finish, and a read-only plan stays as it is, although its
\* activity may go while it is read and the editor takes the reader's place.
ImplementsPlan == Plan!Spec
=============================================================================
