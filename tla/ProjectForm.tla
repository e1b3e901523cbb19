---------------------------- MODULE ProjectForm ----------------------------
(***************************************************************************)
(* ProjectCreateForm.tsx: the form that makes and edits a project with its *)
(* planned activities, and the server's projects and tasks behind it.      *)
(*                                                                         *)
(* Saving sends the project first and then, all at once, a request per     *)
(* task; one that fails fails the save, while the others go on.  Nothing   *)
(* keeps the user from leaving while the form saves: the save goes on, the *)
(* form may be opened again and save once more, and whichever save ends    *)
(* well shows its project.  The form is filled once, when the project and  *)
(* its tasks are both there, which come by requests of their own and are   *)
(* fetched again whenever the window gets the focus; when one of them      *)
(* fails it is shown as it is.  Going from the form of one project to that *)
(* of another is leaving one and opening the other.  Other users add and   *)
(* remove tasks meanwhile.  The plan is edited as ActivityPlan says; of    *)
(* the project's own fields only the finish date is kept.                  *)
(***************************************************************************)
EXTENDS Naturals, FiniteSets, Functions

CONSTANTS
    Ids,            \* ids of activities and tasks, given in the order 1, 2, ...
    Projects,       \* projects 1 .. n; the first is there from the start
    NoProject,      \* the form is for a new project
    Days, NoDay, Columns,
    Holidays,       \* days on which the server takes no task
    FirstActivity, FirstFinish, \* the task and the finish date of the first project
    MaxEdits,       \* bound: steps by which the plan is edited
    MaxSaves,       \* bound: attempts to save
    MaxTroubles,    \* bound: requests or answers that get lost, tasks that other users
                    \* add or remove
    MaxSteps        \* bound on the three together

Saves == 1 .. MaxSaves

ASSUME FormAssumption ==
    /\ Ids = Nat /\ Projects \subseteq Nat /\ 1 \in Projects
    /\ NoProject \notin Projects /\ NoDay \notin Days /\ Holidays \subseteq Days
    /\ FirstActivity \in [date : Days, column : Columns] /\ FirstFinish \in Days
    /\ MaxEdits \in Nat /\ MaxSaves \in Nat /\ MaxTroubles \in Nat /\ MaxSteps \in Nat

VARIABLES
    tasks,          \* server: id |-> [project, date, column], of the tasks not deleted
    finish,         \* server: project |-> finish date, of the projects there are
    listed,         \* project |-> the tasks fetched last, if they were
    dated,          \* project |-> the finish date fetched last, or NoDay
    target,         \* projectID of the form, or NoProject
    form,           \* "closed", "loading", "unfilled" or "open"
    activities, finishDate,     \* the plan in the form
    saves,          \* what each save under way took from the form when it began
    requests,       \* requests for tasks under way, those of failed saves included
    attempt,        \* number of the last save
    fresh,          \* the next id
    edits, troubles,
    clean,          \* history: the save that began alone, with the list of the tasks there
                    \* are, and has met no trouble and nobody else, or 0
    absent,         \* history: tasks that the plan in the form is without
    dropped,        \* history: tasks that a plan was without when it was saved
    saved           \* history: the last save, if it was clean and nothing has come after it

plan == <<activities, finishDate>>
server == <<tasks, finish>>
cached == <<listed, dated>>
saving == <<saves, requests, attempt>>
history == <<clean, absent, dropped, saved>>
counts == <<fresh, edits, troubles>>
formVars == <<server, cached, target, form, plan, saving, counts, history>>

Plan == INSTANCE ActivityPlan WITH readOnly <- FALSE, given <- 0, Offered <- {}

Empty == Restrict(<<>>, {})
NotListed == [tasks |-> Empty, there |-> FALSE]
NoSave ==
    [phase |-> "idle", activities |-> Empty, finishDate |-> NoDay, known |-> Empty,
     project |-> NoProject, left |-> FALSE]
NotSaved == [project |-> NoProject, tasks |-> Empty, finish |-> NoDay]

UnderWay(n) == saves[n].phase # "idle"

TasksOf(p) == {i \in DOMAIN tasks : tasks[i].project = p}
ActivityOf(t) == [date |-> t.date, column |-> t.column]
TaskOf(p, a) == [project |-> p, date |-> a.date, column |-> a.column]

\* GET /tasks?project_id=p
Listed(p) == [tasks |-> [i \in TasksOf(p) |-> ActivityOf(tasks[i])], there |-> TRUE]

\* Not a part of the code: the bounds.
StepsLeft == edits + attempt + troubles < MaxSteps
Trouble == troubles < MaxTroubles /\ StepsLeft /\ troubles' = troubles + 1

-----------------------------------------------------------------------------
(* Opening, filling and editing the form. *)

Shown == form \in {"unfilled", "open"}

\* editingTasks.data
Known == IF target = NoProject THEN Empty ELSE listed[target].tasks

\* The effect behind initialized: once both are there the form takes over what was fetched.
Filled(list, date) ==
    /\ form' = "open"
    /\ activities' = list.tasks /\ finishDate' = date
    /\ absent' = {}

\* The form is unmounted; a save of it that is under way goes on.
Unmount(s) ==
    /\ form' = "closed" /\ target' = NoProject
    /\ activities' = Empty /\ finishDate' = NoDay
    /\ saves' = [n \in Saves |-> IF s[n].phase = "idle" THEN NoSave
                                 ELSE [s[n] EXCEPT !.left = TRUE]]
    /\ absent' = {}

OpenNew ==
    /\ form = "closed" /\ form' = "open" /\ target' = NoProject
    /\ activities' = Empty /\ finishDate' = NoDay
    /\ UNCHANGED <<server, cached, saving, counts, history>>

\* What was fetched before is taken, however old.
OpenEdit(p) ==
    /\ form = "closed" /\ p \in DOMAIN finish /\ target' = p
    /\ IF listed[p].there /\ dated[p] # NoDay THEN Filled(listed[p], dated[p])
       ELSE form' = "loading" /\ UNCHANGED <<plan, absent>>
    /\ UNCHANGED <<server, cached, saving, counts, clean, dropped, saved>>

WaitsFor(p) == target = p /\ form \in {"loading", "unfilled"}

\* The tasks are fetched, because the form opens, the window has the focus again or another
\* page shows them.  An open form compares with the new list and shows none of its new tasks.
FetchTasks(p) ==
    /\ p \in DOMAIN finish /\ listed' = [listed EXCEPT ![p] = Listed(p)]
    /\ IF WaitsFor(p) /\ dated[p] # NoDay THEN Filled(Listed(p), dated[p])
       ELSE /\ absent' = absent \cup
                            {i \in TasksOf(p) \ (DOMAIN activities \cup DOMAIN listed[p].tasks) :
                                target = p /\ form = "open"}
            /\ UNCHANGED <<form, plan>>
    /\ UNCHANGED <<server, dated, target, saving, counts, clean, dropped, saved>>

\* GET /projects/p
FetchProject(p) ==
    /\ p \in DOMAIN finish /\ dated' = [dated EXCEPT ![p] = finish[p]]
    /\ IF WaitsFor(p) /\ listed[p].there THEN Filled(listed[p], finish[p])
       ELSE UNCHANGED <<form, plan, absent>>
    /\ UNCHANGED <<server, listed, target, saving, counts, clean, dropped, saved>>

\* What the form waits for cannot be fetched: neither query is pending any more.
CannotFill ==
    /\ form = "loading" /\ form' = "unfilled"
    /\ Trouble
    /\ UNCHANGED <<server, cached, target, plan, saving, fresh, edits, history>>

\* The planner: a new activity has an id of its own.
EditPlan ==
    /\ Shown /\ edits < MaxEdits /\ StepsLeft /\ edits' = edits + 1
    /\ \/ \E a \in Plan!Activity : Plan!Put(fresh, a) /\ fresh' = fresh + 1
       \/ \E i \in DOMAIN activities, a \in Plan!Activity : Plan!Put(i, a) /\ UNCHANGED fresh
       \/ \E i \in DOMAIN activities : Plan!Remove(i) /\ UNCHANGED fresh
       \/ \E d \in Days : Plan!FinishOn(d) /\ UNCHANGED fresh
    /\ absent' = absent \cup (DOMAIN activities \ DOMAIN activities')
    /\ UNCHANGED <<server, cached, target, form, saving, troubles, clean, dropped, saved>>

\* Cancel, or another tab: also while the form saves.
Leave ==
    /\ form # "closed"
    /\ Unmount(saves)
    /\ UNCHANGED <<server, cached, requests, attempt, counts, clean, dropped, saved>>

-----------------------------------------------------------------------------
(* Saving. *)

\* Nothing else that could change the tasks is under way.
Alone == requests = {} /\ \A n \in Saves : ~UnderWay(n)

\* save.mutate, which is disabled while a save of this form is pending.
Submit ==
    /\ Shown /\ finishDate # NoDay /\ attempt < MaxSaves /\ StepsLeft
    /\ \A n \in Saves : UnderWay(n) => saves[n].left
    /\ attempt' = attempt + 1
    /\ saves' = [saves EXCEPT ![attempt'] =
                    [phase |-> "project", activities |-> activities, finishDate |-> finishDate,
                     known |-> Known, project |-> target, left |-> FALSE]]
    /\ clean' = IF Alone /\ DOMAIN Known = TasksOf(target) THEN attempt' ELSE 0
    /\ dropped' = dropped \cup (IF form = "open" THEN absent ELSE DOMAIN Known)
    /\ saved' = NotSaved
    /\ UNCHANGED <<server, cached, target, form, plan, requests, counts, absent>>

\* Deviation: the tasks to delete are looked up on the server.
TaskRequestsOfServer(n, p) ==
    {[attempt |-> n, project |-> p, kind |-> "delete", id |-> i] :
        i \in TasksOf(p) \ DOMAIN saves[n].activities}
    \cup
    {[attempt |-> n, project |-> p, id |-> i, activity |-> saves[n].activities[i],
      kind |-> IF i \in DOMAIN saves[n].known THEN "patch" ELSE "post"] :
        i \in DOMAIN saves[n].activities}

\* Deviation: every activity is added.
TaskRequestsAdding(n, p) ==
    {[attempt |-> n, project |-> p, kind |-> "post", id |-> i,
      activity |-> saves[n].activities[i]] : i \in DOMAIN saves[n].activities}

\* One request per task: delete, change or add.
TaskRequests(n, p) ==
    {[attempt |-> n, project |-> p, kind |-> "delete", id |-> i] :
        i \in DOMAIN saves[n].known \ DOMAIN saves[n].activities}
    \cup
    {[attempt |-> n, project |-> p, id |-> i, activity |-> saves[n].activities[i],
      kind |-> IF i \in DOMAIN saves[n].known THEN "patch" ELSE "post"] :
        i \in DOMAIN saves[n].activities}

NewProjects == {p \in Projects \ DOMAIN finish : \A q \in Projects \ DOMAIN finish : p <= q}

\* The server makes or changes the project.
ProjectStored(n, p) ==
    /\ IF saves[n].project = NoProject THEN p \in NewProjects ELSE p = saves[n].project
    /\ finish' = [q \in DOMAIN finish \cup {p} |->
                    IF q = p THEN saves[n].finishDate ELSE finish[q]]

ServeProject(n, p) ==
    /\ saves[n].phase = "project" /\ ProjectStored(n, p)
    /\ saves' = [saves EXCEPT ![n] = [@ EXCEPT !.phase = "tasks", !.project = p]]
    /\ requests' = requests \cup TaskRequests(n, p)
    /\ UNCHANGED <<tasks, cached, target, form, plan, attempt, counts, history>>

\* The request for the project is lost, or its answer is.
LoseProject(n) ==
    /\ saves[n].phase = "project" /\ Trouble
    /\ UNCHANGED finish \/ \E p \in Projects : ProjectStored(n, p)
    /\ saves' = [saves EXCEPT ![n] = NoSave] /\ clean' = 0
    /\ UNCHANGED <<tasks, cached, target, form, plan, requests, attempt, fresh, edits,
                   absent, dropped, saved>>

\* createTask, updateTask and deleteTask: a task that is not there is not found, and a
\* holiday takes no task.
Refused(r) ==
    \/ r.kind # "post" /\ r.id \notin DOMAIN tasks
    \/ r.kind # "delete" /\ r.activity.date \in Holidays

TaskStored(r) ==
    CASE r.kind = "delete" -> tasks' = Restrict(tasks, DOMAIN tasks \ {r.id}) /\ UNCHANGED fresh
      [] r.kind = "patch" ->
            tasks' = [tasks EXCEPT ![r.id] = TaskOf(r.project, r.activity)] /\ UNCHANGED fresh
      [] r.kind = "post" ->
            /\ fresh' = fresh + 1
            /\ tasks' = [i \in DOMAIN tasks \cup {fresh} |->
                            IF i = fresh THEN TaskOf(r.project, r.activity) ELSE tasks[i]]

\* Promise.all: the first request that fails ends the save.
Failed(r) == saves' = [saves EXCEPT ![r.attempt] = NoSave] /\ clean' = 0

\* Deviation: a request that is refused is sent again.
ServeTaskRetrying(r) ==
    /\ r \in requests
    /\ IF Refused(r) THEN UNCHANGED <<requests, tasks, fresh>>
       ELSE requests' = requests \ {r} /\ TaskStored(r)
    /\ UNCHANGED <<finish, cached, target, form, plan, saves, attempt, edits, troubles,
                   history>>

ServeTask(r) ==
    /\ r \in requests /\ requests' = requests \ {r}
    /\ IF Refused(r) THEN Failed(r) /\ UNCHANGED <<tasks, fresh>>
       ELSE TaskStored(r) /\ UNCHANGED <<saves, clean>>
    /\ UNCHANGED <<finish, cached, target, form, plan, attempt, edits, troubles, absent,
                   dropped, saved>>

LoseTask(r) ==
    /\ r \in requests /\ requests' = requests \ {r}
    /\ Trouble
    /\ \/ UNCHANGED <<tasks, fresh>>
       \/ ~Refused(r) /\ TaskStored(r)
    /\ Failed(r)
    /\ UNCHANGED <<finish, cached, target, form, plan, attempt, edits, absent, dropped,
                   saved>>

\* onSuccess: the project's page is shown, whatever page was, and a form that is open goes.
Succeed(n) ==
    /\ saves[n].phase = "tasks" /\ ~\E r \in requests : r.attempt = n
    /\ Unmount([saves EXCEPT ![n] = NoSave])
    /\ saved' = IF clean = n THEN [project |-> saves[n].project, tasks |-> saves[n].activities,
                                  finish |-> saves[n].finishDate]
                ELSE NotSaved
    /\ clean' = 0
    /\ UNCHANGED <<server, cached, requests, attempt, counts, dropped>>

-----------------------------------------------------------------------------
(* Other users. *)

OtherAddsTask(p, a) ==
    /\ Trouble
    /\ p \in DOMAIN finish /\ fresh' = fresh + 1
    /\ tasks' = [i \in DOMAIN tasks \cup {fresh} |->
                    IF i = fresh THEN TaskOf(p, a) ELSE tasks[i]]
    /\ clean' = 0 /\ saved' = NotSaved
    /\ UNCHANGED <<finish, cached, target, form, plan, saving, edits, absent, dropped>>

OtherRemovesTask(i) ==
    /\ Trouble
    /\ i \in DOMAIN tasks /\ tasks' = Restrict(tasks, DOMAIN tasks \ {i})
    /\ clean' = 0 /\ saved' = NotSaved
    /\ UNCHANGED <<finish, cached, target, form, plan, saving, fresh, edits, absent, dropped>>

-----------------------------------------------------------------------------
\* The first project has one task and a finish date.
FormInit ==
    /\ tasks = [i \in {1} |-> TaskOf(1, FirstActivity)]
    /\ finish = [p \in {1} |-> FirstFinish]
    /\ listed = [p \in Projects |-> NotListed] /\ dated = [p \in Projects |-> NoDay]
    /\ target = NoProject /\ form = "closed"
    /\ activities = Empty /\ finishDate = NoDay
    /\ saves = [n \in Saves |-> NoSave] /\ requests = {} /\ attempt = 0
    /\ fresh = 2 /\ edits = 0 /\ troubles = 0
    /\ clean = 0 /\ absent = {} /\ dropped = {} /\ saved = NotSaved

FormNext ==
    \/ OpenNew
    \/ \E p \in Projects : OpenEdit(p)
    \/ \E p \in Projects : FetchTasks(p)
    \/ \E p \in Projects : FetchProject(p)
    \/ CannotFill
    \/ EditPlan
    \/ Leave
    \/ Submit
    \/ \E n \in Saves, p \in Projects : ServeProject(n, p)
    \/ \E n \in Saves : LoseProject(n)
    \/ \E r \in requests : ServeTask(r)
    \/ \E r \in requests : LoseTask(r)
    \/ \E n \in Saves : Succeed(n)
    \/ \E p \in Projects, a \in Plan!Activity : OtherAddsTask(p, a)
    \/ \E i \in DOMAIN tasks : OtherRemovesTask(i)

FormSpec == FormInit /\ [][FormNext]_formVars

\* Requests are answered or fail, and the browser goes on with the answers.
FairFormSpec ==
    /\ FormSpec
    /\ WF_formVars(\E n \in Saves, p \in Projects : ServeProject(n, p))
    /\ WF_formVars(\E r \in requests : ServeTask(r))
    /\ WF_formVars(\E n \in Saves : Succeed(n))

-----------------------------------------------------------------------------
(* Properties. *)

\* A save that began alone, with the list of the tasks that there are, and met no trouble and
\* nobody else leaves the server with the plan it took from the form: each activity is one
\* task, no other task is left, and the finish date is the plan's.  It does so after saves
\* that failed half-way, once the tasks are fetched again, and when the form is left.
SavedAsPlanned ==
    saved # NotSaved =>
        /\ finish[saved.project] = saved.finish
        /\ \A a \in Plan!Activity :
              Cardinality({i \in TasksOf(saved.project) : ActivityOf(tasks[i]) = a})
                = Cardinality({i \in DOMAIN saved.tasks : saved.tasks[i] = a})

\* What a save deletes, also late, left or failed, was taken out of the plan that was saved,
\* or came with a list after the form was filled.  A form that could not be filled is without
\* all its tasks.
DeletesWereDropped == \A r \in requests : r.kind = "delete" => r.id \in dropped

\* Every save comes to an end, the form it began in open or left.
SavesEnd == \A n \in Saves : UnderWay(n) ~> ~UnderWay(n)
=============================================================================
