# NPMS: a TLA+ verification of the work-management system

NPMS keeps an organisation's projects, tasks, reviews, time, knowledge and
integrations.  One PostgreSQL schema (`db/migrations`) serves two back ends: the
Laravel application under `backend/`, which is the active one, and the Go services
under `internal/` (started by `cmd/api/main.go`), which hold the background workers:
webhook delivery and the automation engine.  The React client under `web/` talks to
either through `/api/v1`.

On the servers, the code has no threads of its own to speak of; what makes it hard is that every
request is a short program over shared rows, that several of them and the workers of
several processes interleave between their statements, that clients retry, and that a
process may die between two commits.  PostgreSQL runs at its default isolation level,
READ COMMITTED, so a statement sees what was committed when it began, and a row lock
is held until the transaction ends.  The models are at that grain: one action per
statement that another request can tell apart, a transaction that nobody can observe
half-done in one action.

In the client, one event handler runs at a time with the effects that React runs after
it, and is one action.  What is hard there is the time between: an answer that comes
when the user is elsewhere, a form filled from a copy fetched earlier, several requests
of one save under way at once, a timer that fires later, the browser's Back.

## Inventory

| Component | State | Operations | Speaks to | Hard behaviour |
| --- | --- | --- | --- | --- |
| Project workflow (Laravel `ProjectWorkflowController`) | `projects.status`, `reviews`, `user_idempotency_keys`, `audit_events` | submitReview, reopen, replay, remember | people edited by `updateProject` | check before the transaction, retries with a key, expiring keys, crashes |
| Reviews and status (Go `reviews`, `projects`) | `reviews.status`, `projects.status` | Create, Update (verdict), SubmitReview, projects.Update | audit log, notifications | write skew between reviewers, verdicts after the end, lock order |
| Idempotent creation (Go `idempotency` and its handlers) | `idempotency_keys` | Reserve, Complete around Create | projects, tasks, checklists | overlap, crash between commit and answer, expiry |
| Webhooks (Go `webhooks`, trigger of 000007) | `webhook_subscriptions`, `webhook_deliveries` | Create, Disable, DeliverOne, recordAttempt | audit trigger, targets outside | two workers with one delivery, back-off, limit, crash |
| Automation (Go `automation`, trigger of 000009) | `automation_rules`, `automation_events`, `automation_runs` | Create, SetActive, ProcessOne (claim, load, execute, fail) | audit trigger, tasks, reviews, notifications | claim without recovery, partial failure |
| Execution (Laravel `ExecutionController`) | projects, tasks, notes, checklists, attachments, links | about thirty handlers | GitHub, audit | positions max+1, check-then-insert |
| Time tracking (Go and Laravel) | `time_entries` | Start, Stop | audit | two starts at once |
| Display numbers, simulation batches | `projects.display_number`, `simulation_batches` | createProject, loadSimulation, deleteSimulation | | lock taken by one side only |
| Organization | divisions, teams, memberships | create, replaceRelation, SetLeads | | replace-all against replace-all |
| Workspace settings and tabs | tenant settings, `workspace_tabs` | updates | frontend | last writer wins |
| Knowledge (Laravel, Go) | wiki and SOP pages, versions, publication | create, update, publish, upload | version trigger | publish from a stale row |
| GitHub integration | links, deliveries | link, webhook | tasks | duplicate deliveries |
| API clients, scopes, rate limiter | `api_clients`, in-memory buckets | Register, Token, allow | all routes | window boundary |
| Sessions and SSO | signed tokens | SSO upsert, session | users | none that interleaves |
| Holiday calendar | cache entries | get | external source | stale copy |
| Notifications, reports, dashboards, SOPs, assistant | rows, queries | single transactions | | none |
| Workspace tabs (`App.tsx`) | tabs, active tab, view, project, browser history, `user_workspace_states` | open, close, turn, Back, restore, debounced save | `saveWorkspaceTabs` | four copies of "where am I", history of closed tabs, answers for a page that was left, PUTs that overtake each other |
| Activity planner (`ActivityCalendar.tsx`) | the plan of its page, the editor | add, edit, move, delete, set the finish | project form, holiday query | rules on dates that change under an open editor |
| Project form (`ProjectCreateForm.tsx`) | the plan, the copies fetched, the save under way | submit, one request per task | Laravel's projects and tasks | a save that fails half-way and is tried again, a form left while it saves, two answers that fill it |
| Settings forms (`SettingsPage.tsx`, `OrganizationPage.tsx`) | panels, drawers, fields, the order dragged | add, edit, reorder, save | settings and organization endpoints | answers for a form that was left, writes of more than was edited |
| Knowledge panel (`KnowledgePanel.tsx`) | editor, autosave refs, cached lists | autosave, save, publish, open, close, upload | create/updateKnowledge | two requests for one row, late answers, old lists |
| Other pages of the client | queries | | API | none of their own |

What makes each correct is stated below with its module; `PROJECT.json` lists every
hazard at its line, with the property that would catch it.

## Modules and plan

In the order they are written.

| # | Module | Models | Composes or refines | Proofs |
| --- | --- | --- | --- | --- |
| 1 | `ProjectWorkflow` (with `ProjectStatus`) | Laravel's submit-review and reopen, beside `updateProject` | implements `ProjectLifecycle` | `ProjectWorkflowProofs` |
| 2 | `ReviewWorkflow` (with `ProjectStatus`) | the Go service's submissions, verdicts and edits | | `ReviewWorkflowProofs` |
| 3 | `IdempotentCreate` | `Idempotency-Key` around the Go service's creations | | `CreationProofs` |
| 4 | `WebhookDelivery` | outbox, workers, back-off and limit | | `WebhookDeliveryProofs` |
| 5 | `AutomationEngine` | claim, load, execute, fail | | `AutomationEngineProofs` |
| 6 | `TimeTracking` | timers, started and stopped by two back ends | composes both | `TimeTrackingProofs` |
| 7 | `KnowledgeDraft` | editor, autosave, publication, versions | composes client and server | `PanelProofs` |
| 8 | `WorkspaceTabs` | tabs, browser history, the stored tabs | composes client and server | `WorkspaceProofs` |
| 9 | `ActivityPlanner` | the planner with its editor | implements `ActivityPlan` | `WorkspaceProofs` |
| 10 | `ProjectForm` | saving a plan as a project with tasks | edits by the operators of `ActivityPlan` (INSTANCE); composes client and server | `CreationProofs` |
| 11 | `SettingsForms` | drawers, forms and lists of the settings and organization pages | composes client and server | `PanelProofs` |

Abstract specifications: `ProjectLifecycle` says what the project commands promise
whatever the interleaving, `ActivityPlan` what the planner promises to the page that
shows it.  The second is used twice: the planner is shown to implement it, and the
project form takes its edits from it, so the form may rely on what the planner was
shown to do.  An abstract at-most-once creation for module 3 is not stated: the code
refines it only for keys without trouble, which is what `OnceUnlessTroubled` says.

Conventions.  One action is one statement, or one transaction, that another request can
tell apart; `pc` in a request, transaction or worker record is the place the code has
reached.  Variables marked *history* hold nothing the code keeps; only properties read
them, apart from the numbers that bound a model.  An operator whose comment says
*Deviation* is not part of the system: it is the definition below it with a plausible
bug, and `PROJECT.json` ("mutants") names the property that the bug violates.  An `MC`
module gives a small instance; each `.cfg` opens with what is in it.

### 1. ProjectWorkflow — `backend/app/Http/Controllers/ProjectWorkflowController.php`

`status`, `people`, `reviews`, `keys` and `audit` are the tables `projects`,
`project_people`, `reviews`, `user_idempotency_keys` and `audit_events`; `req[r]` is a
request.  Its steps follow `submitReview` and `reopen`:

| Action | Code |
| --- | --- |
| `Arrive` | `replay()`: no live row of the user's key |
| `Admit`, `Refuse` | the project is read, the right to manage it and its status are checked |
| `ReadReviewers` | the reviewers are read, before the transaction |
| `Update` | `UPDATE projects ... WHERE status IN (...)`; a match locks the row, and the count is not looked at |
| `WriteRows` | reviews and audit row are inserted, the project is read for the answer |
| `Commit`, `FailDuplicateKey` | `remember()` inserts the key and the transaction commits, or the UNIQUE constraint rolls it back |
| `Crash`, `ExpireKey`, `UpdateProject` | worker or connection lost; 24 hours; PATCH of the people |

A key row that has expired is not replayed but is still unique: the retry fails at its
last statement, and `OncePerKey` and `AllOrNothing` say that nothing of it stays.
`StatusMatchesReviews` is the reason why the reviewers must not be read twice.
`LegalTransitions` holds although the check is made before the transaction, since the
UPDATE repeats it; what it does not repeat is the *finding* below.  `ImplementsLifecycle`
maps stored keys to applied commands; a step of a request that commits nothing stutters.

### 2. ReviewWorkflow — `internal/reviews`, `internal/projects/people.go`, `operations.go`

`tx[t]` is an open transaction: deciding (`Record`, `Follow`, `MoveProject`,
`CommitDecision`, from `reviews.Update`), submitting (`LockToSubmit`, `CommitSubmit`)
or editing (`LockToEdit`, `CommitEdit`).  A decision locks its review, then counts the
others as they were committed, then may wait for the project's row.  Statuses an edit
may ask for are those of the handler; two of them the table's CHECK refuses, which is a
`Rollback`.  `FinishedByAll` is stated with history variables, because a reviewer may
change a verdict after the count: what is safe is that all had approved at some time,
not that all approvals still stand.

### 3. IdempotentCreate — `internal/idempotency`, handlers of projects and tasks

Three commits, `Reserve`, `Insert`, `Complete`, with a lookup by source before the
second.  `troubled` holds the keys whose requests overlapped, or whose request died
between the commit and `Complete`: for all others `OnceUnlessTroubled` says that the
key did its work.  The task and the project without a source are one kind of body.
The same statements run over `user_idempotency_keys`, where since migration 000044 the
reservation lacks a NOT NULL column; that path stores nothing and is not modelled.

### 4. WebhookDelivery — `internal/webhooks`, trigger of 000007

`Select` leaves the row as it was: the lock of the selection ends with its own
transaction, so two workers may have one delivery in hand.  `Post` is the target
outside, which answers, refuses or lets time out.  `RecordSuccess`, `RecordFailure` and
`GiveUp` are the branches of `recordAttempt`; the next attempt counts from the value
selected.  `ComeDue` requires that nobody has the delivery in hand, because a request
ends after ten seconds and the shortest wait is two minutes.  `OutcomesHappened` does not
need that timing: its proof never uses the guard.

### 5. AutomationEngine — `internal/automation`, trigger of 000009

`Claim` commits the status *processing*; `Load` reads the rules; each `Execute` is one
transaction with its `automation_runs` row; `Fail` and `Finish` settle the event.
Nothing takes a claim back, so `EventsSettle` excepts the event of a killed worker
(`Orphan`).  Conditions are the relation `Matches`; what an action does is one effect.

### 6. TimeTracking — `internal/timetracking`, `ExecutionController::startTime`, `stopTime`

Go: `GoBegin` takes the transaction's date, `GoAsk` finds the running entry in the
snapshot of its `SELECT ... FOR UPDATE`, `GoLock` is the grant (an entry that was ended
meanwhile is skipped, and its successor not seen), `GoCommit` closes, inserts and
commits or is refused by the partial unique index.  `GoStop` is an UPDATE by id with
the owner compared afterwards.  Laravel runs statements without a transaction:
`LaravelCheck`/`LaravelInsert`, `LaravelRead`/`LaravelStamp`/`LaravelUpdate`, the last
of which writes over an end that was set since.  The two clocks are taken to agree;
tasks and tenants are left out; Carbon's `diffInSeconds` has no sign.

### 7. KnowledgeDraft — `web/src/KnowledgePanel.tsx`, `PlatformController` (create/updateKnowledge), trigger of 000009

One panel of one author.  A text is the document the author has in mind, the number of
its words, what its content is among those with as many words, its heading (title and
tags), its other details, the table that its first type belongs to, and whether the
server takes it.  `form`, `ref`, `kind`, `saved`, `saving` are the editor's state and
refs; `auto` and `save` are the two requests that may be under way at a time.

| Action | Code |
| --- | --- |
| `Type`, `EditHeading`, `EditDetails` | the fields; a document without a title or a type is not `complete`, and neither autosave nor publishing does anything |
| `UploadCover`, `CreateType`; `CoverArrives`, `TypeArrives` | an upload, and its answer, which sets a detail of whatever document is in the editor by then |
| `ResumeDraft`, `OpenKnowledgeDetail`, `Refetch`, `Close` | a row is opened as it was when its list was fetched |
| `Autosave`, `Autosaved`, `AutosaveFailed` | every 20 seconds, if `Unsaved`: another number of words, or another signature of the details |
| `SaveOrPublish`, `SaveChanges`, `Saved`, `SaveFailed` | the buttons |
| `ServeAuto`, `ServeSave` | `createKnowledge`, `updateKnowledge`, in one step, as nobody else may edit the author's rows |

`Refuses` has the server's refusals: a text that is not valid (more tags or resources than
it takes, a title too long), and a row that is not in the table of the `kind` it is
addressed by; `KindOf` is what the lists give a row as its kind, by the first of its types.
`Written` makes a version as the trigger does: of a wiki page, when its title, content or
tags change.  `SavedTextsAreKept` is therefore about these, which are a `Page`, and about
wiki pages.  A request whose client gave up is served before or never.  `calm` is the
history of a session in which requests did not overlap or fail: `OneRowWhenCalm` names
exactly what the editor does not guarantee otherwise.  `DraftsAreAutosaved` says what the
autosave looks at (`LooksStored`), and not more, has been stored when it comes to rest.

What the model shows besides, and no property forbids: an edit that leaves the number of
words and the details as they were is not autosaved; a draft that the server refuses is
sent again every 20 seconds; a draft of `wiki_pages` whose first type was changed to one
with a table of its own is listed under a kind by which it is not found again; types,
divisions, resources and cover, and rows of the other tables, are overwritten without a
version; a draft opened from an old list after its publication is autosaved back to a
draft; a cover that arrives late is set on the document opened since.

### 8. WorkspaceTabs — `web/src/App.tsx`, `WorkspaceController` (workspaceTabs, saveWorkspaceTabs)

`tabs`, `activeTabID`, `view` and `selectedProject` are the window's states of those
names, `entries` and `here` the browser's history.  Opening, closing and turning to a tab,
renaming a draft, the entry a knowledge panel pushes, `PopState`, reloading and signing
out are actions of the user or the browser, and the links that lead from a page to another
are those in the code.  A tab opened while the settings are not known obeys the default
limit, so either limit may apply.

`callbacks` are the saves under way that open another page when they are answered: those
of the two project forms and of the knowledge panel (`StartSave`, `Answer`, `FailSave`).
A page that is left meanwhile does not take its callback along: `Leaving` keeps in it what
`openTab` found in the list of tabs of the page's last render.  Such a late answer may turn
to a tab that was closed since (`stray`), or add one for a page that has one by now
(`unsearched`), as Back and Forward may when they reopen a closed tab.

The stored tabs are read by `FetchTabs`, at the server, and `RestoreTabs`, in the window.
450 ms after the last change `SendTabs` sends a PUT; those under way are `puts`, which the
server handles (`SaveWorkspaceTabs`) or the network loses (`LoseTabs`) in any order.  The
server refuses the whole list for a tab that edits a project or a label that is too long,
and the window does not listen to the answer.  `behind` is the history of a server that
missed the newest PUT, or stored an older one after it.

`ActiveTabIsShown` allows a `stray` window and nothing else, and asks that even then the
page shown is that of the active tab.  `OneTabPerPage` tells the duplicates that a step
which does not search the tabs may make from others, which must not come about.
`TabsAreRemembered` excepts a list the server refuses and a server left `behind`: what it
does hold the code to is that every change of the tabs, their labels and the active one is
sent, in whatever state the earlier PUTs are, and is stored as soon as it can be.
Of the row, the editor's preference is not modelled: `updateEditorPreference`
(`WorkspaceController.php:58`) writes the tabs back that it has read, and so may undo a PUT.

### 9. ActivityPlanner — `web/src/ActivityCalendar.tsx`

The plan (`activities`, `finishDate`) belongs to the page; the editor is the five
states `editingDate`, `editingID`, `editingColumn`, the description and `markFinish`.
`OpenNew`, `OpenEdit`, the edits, `SaveFinish`, `SaveNew`, `SaveChange`,
`DeleteActivity` and `MoveActivity` (drag and drop, in the three modes) have the
handlers' guards; `HandOver`, `HolidayQuery` and `Midnight` happen under an open editor.
The page's tasks and its project come by queries of their own and are anybody's: `HandOver`
replaces either part of the plan or both, by any plan, one with activities on the finish
day or on a holiday among them.  `PlacedOnFreeDays` is therefore about what the planner
itself places: not in the past, not, in the calendar, on a holiday or before the holidays
are known (board and tree do not look at holidays), and neither an activity on the finish day
nor the finish on a day with activities.  `ImplementsPlan` maps the plan to itself and hides the
rest.  The refinement is not by construction: the editor may be open on an activity that is
no longer there, or of a plan that was replaced or is read-only, and which of its saves then
put, drop or do nothing is the code's.

### 10. ProjectForm — `web/src/ProjectCreateForm.tsx`, `ExecutionController` (createProject, updateProject, tasks)

`Submit` sends the project, `ServeProject` answers it and sends a request per task at
once, `ServeTask` runs one of them (a task on a holiday is refused), `LoseProject` and
`LoseTask` lose a request or an answer, `Succeed` shows the project when all have come.  A
failed save leaves its requests under way while the next one runs.  Cancel and the tabs are
not disabled while the form saves: `Leave` may come at any time, the save goes on, and the
form may be opened again, from what is cached, and save beside it; `saves` are all that are
under way.  Going from the form of one project to that of another is `Leave` and `OpenEdit`.

The tasks and the project are fetched by requests of their own (`FetchTasks`,
`FetchProject`), which fill the form when both are there and replace what is `listed` and
`dated` at any time later; `listed` decides what a save creates, patches and deletes.  When
one of them fails (`CannotFill`) the form is shown `unfilled`, and can be saved.
`OtherAddsTask` and `OtherRemovesTask` are other users.

`SavedAsPlanned` is about a save that began alone, with the list of the tasks there are, and
that nothing interfered with (`clean`).  `DeletesWereDropped` follows what a save may
delete: `absent` are the tasks that the plan in the form is without, because they were
taken out or came with a list after the form was filled, and `dropped` those that some plan
was without when it was saved.

What the model shows besides, and no property forbids: the DELETE of a save whose form was
left, or of one that failed, hits a task that the reopened form shows; a form that could
not be filled deletes every task of the list; a save repeated from an old list repeats the
creations of the one that failed; the answer to a save takes away a form opened since.

### 11. SettingsForms — `web/src/SettingsPage.tsx`, `web/src/OrganizationPage.tsx`, their endpoints

Four kinds of form: drawers that add (`AddForm`), drawers that change an item
(`ItemDrawer`), forms that follow a query (`MirrorForm`), and the two that write parts of
the one row of general settings (`GeneralSettings`, `KnowledgeTypes`).  `requests` are
those under way, `saves` the mutations that wait for them; `Serve`, `Lose` and `Finish`
come in any order, after the panel was left, too.  A value is the number of the moment it
was typed in, and what an item has at the start is a value of its own, so that `added`,
`stored` and `meant` can say where each went.  The form that adds a team and the drawer of a
team's members have one list of members in the code: the answer to the one empties the other
while it is open, and its Save removes everyone.  `cleared` is the history of these drawers,
and `StoredWhereTyped` says that nothing else is ever emptied or mixed up.  `order` is
the list on the screen; a drag sends a PATCH per item, all at once.  `dragged` is what the
last drag must lead to, or nothing when requests of an earlier one, lost or left with its
panel, were still under way: nothing in the code keeps those apart.

## Runs

| Run | Shows | Instance | Distinct states |
| --- | --- | --- | --- |
| `project_workflow` | at most once, whole, legal, refining, answered | 2 requests, a manager and a user, 1 key value (2 keys, as keys are per user), 1 update of the people | 111 thousand |
| `project_finish` | finding 1 | the same, from an active project | violation |
| `review_workflow` | finished by all, true history, one submission per opening, no deadlock | 2 transactions, 2 users, 2 review rows, 3 audit rows | 141 thousand |
| `idempotent_create` | one project per source, answers fit, once unless troubled | 3 requests, 2 keys, 3 bodies, 4 resources | 27 thousand (symmetry of requests and keys) |
| `webhook_delivery` | outcomes happened, settled | 2 workers, 2 events, 1 subscription, 2 attempts for the code's 5, 1 crash | 33 thousand |
| `automation_engine` | applied once, all ran, settled | 2 workers, 2 events, 2 rules | 3 thousand |
| `time_tracking` | one timer, disjoint, own, refused only when raced, all end | 2 users, 2 requests, 2 entries, 2 moments | 57 thousand |
| `knowledge_draft` | pages kept, one row when calm, autosaved | 1 new document, 1 old draft, 2 tables, texts that are refused; two of: an edit or upload, an opening, a loss | 649 thousand |
| `workspace_tabs` | active tab shown, one tab per page, turning recorded, tabs remembered | 4 views, 1 project, limit 1 (2 until it is known), 2 entries of history; 3 tabs beside the first and a save, or 1 tab and 2 PUTs, or 2 tabs, one at a time, and a label that is too long | 1,339 thousand |
| `activity_planner` | placed on free days, implements the plan | 2 activities, 3 days with a holiday, 2 columns, 1 plan handed over | 327 thousand |
| `project_form` | saved as planned, only dropped tasks deleted, saves end | 1 old and 2 new projects; 4 of 2 edits, 2 saves, 1 trouble | 234 thousand |
| `settings_forms` | order as dragged, added once, stored where typed, only unseen limits reverted | 14 sessions of panels and forms, each with 2 values, 2 saves, 3 panels shown, 1 trouble | 498 thousand |

Why these bounds are enough to be worth something.  Every interference in this code is
between two parties over one row: two requests with one key, two transactions on one
project, two workers with one delivery.  Each instance has the two parties, and the one
row; where a third step matters (a retry after a crash, a third request with a key)
there is room for it, because a request slot is used again.  The instance of
`idempotent_create` has a third request so that a replay can meet two that overlap.
With two attempts every branch of `recordAttempt` is taken: the limit is a constant of
the comparison.  In the client the two parties are a save and what is done while it is
under way: two saves, two documents, two plans, a drawer opened on another item.  A limit
of one tab is reached by every opening, and with two entries of history Back and Forward
come to a tab that was closed.  Two of an edit, an opening and a loss are what it takes for
an answer to meet another document, another text or a repeated request; four of the form's
steps are two edits and two saves, or a save that fails and the one that follows it.  The three kinds
of sessions of `workspace_tabs` (`MCWorkspaceTabs`, `Within`) are kept apart because the
product of what they are about is too large; what they have in common the proofs cover.  Three days are a free one, a holiday and the finish.  The sessions of
`settings_forms` are the fourteen sets of panels that share a row or a list; forms that
share nothing cannot meet, and running each set by itself is what keeps the instance
small.  With `LongTime` 0 in `time_tracking` the flag is exercised within two
moments.  `MaxLog`, `MaxReviews`, `MaxCreated`, `MaxEntries`, `MaxUpdates`, `MaxEdits`,
`MaxOpens`, `MaxLosses`, `MaxSteps`, `MaxCrashes`, `MaxClock`, `MaxNew`, `MaxGiven`, `MaxSaves`,
`MaxTroubles`, `MaxTyped`, `MaxMounts`, `MaxPuts`, the set `Saves` and `LastDay` end the models; each stands in the guard of what the
surroundings do (a request, an edit, a loss, a crash, a moment passing) and never in
that of a step by which a request goes on, so no bound stops one half-way
(only in `WorkspaceTabs`, checked for safety alone, an answer that would open a tab beyond the
bound does not come).
`CHECK_DEADLOCK FALSE`: these are services; when everybody is idle and the bounds are
used up nothing has to happen.  In the four modules of the client without that line
something can always happen, and TLC checks it.  That nobody waits for ever is said by the liveness
properties instead.

Fairness.  Weak fairness for a step of a request, transaction or worker that has begun:
the process runs on unless it is killed.  Strong fairness where a step waits for a row
lock, because PostgreSQL grants a row lock in the order of asking, so a waiter is not
overtaken for ever (`Update`, `MoveProject`, `Serve`).  Webhooks: the longest due is
selected first, so one that is due again and again is selected (strong, per delivery),
and the clock goes on (`ComeDue`).  Automation: the oldest pending event is claimed
first (strong, per event).  Autosave: the interval comes round while the editor is open,
a request is answered or refused, and the losses are bounded.  Project form: a request is answered or fails, and the browser
goes on with the answers (weak).  `WorkspaceTabs`, `ActivityPlanner` and `SettingsForms`
are checked for safety only: what follows there waits for the user.  Clients, users and expiry owe nothing, and
`IdempotentCreate` is checked for safety only and assumes no fairness.

## Findings

`project_finish`: two submissions pass the status check, the second one's UPDATE
matches nothing, and it still inserts pending reviews and answers 200.  It is quoted in
`PROJECT.json`.

Four more disagreements with a sentence of `specs/` are known.  Their configurations are
kept beside the runs, each with a property that TLC finds violated
(`tlc -config <cfg> <module>`):

| Configuration (module) | Property | The code | The sentence |
| --- | --- | --- | --- |
| `MCReviewApproval` (`MCReviewWorkflow`) | `ApprovedProjectsLeaveReview` | two simultaneous approvals count each other as outstanding; the approved project stays in review | `specs/modules/review-workflow.md:20` |
| `MCIdempotencyKey` (`MCIdempotentCreate`) | `OncePerKeyInADay` | a retry before `Complete` creates the resource again | `specs/modules/integration-framework.md:77` |
| `MCForgottenTimer` (`MCTimeTracking`) | `ForgottenTimersAreFlagged` | a timer that ran too long and is stopped by hand carries no `auto_closed` flag; no background stop exists | `specs/modules/time-tracking.md:17` |
| `MCAutosaveRetry` (`MCKnowledgeDraft`) | `AutosaveCreatesOnce` | the key of the first autosave is not looked at by `createKnowledge`, so a lost answer makes a second draft | `specs/modules/knowledge-management.md:47` |

Whether the code or the sentence is to change is not decided here.

## Proofs

TLC checks the instances above; the following is proved by TLAPS for every value of the
constants, from the `ASSUME` of the module alone.  Three modules hold the proofs of two
components each, which share no variable: `CreationProofs`, `PanelProofs` and
`WorkspaceProofs`.

`ProjectWorkflowProofs` (assumes `ConstantsAssumption`): `TypeCorrect`,
`CommandsOncePerKey`, `CommandsAllOrNothing`, `StatusAndReviews`,
`TransitionsAreLegal`, `Refinement`.  None of the properties is inductive by itself.
The strengthening `IInv` adds that a row lock has one holder and that the status a
matching UPDATE found is still there (`LockInv`: without it the commit might leave a
status that is not a source of its command), that a reopen carries no reviewers and the
answer of a matching UPDATE is its target (`RequestInv`), that a user's key has one row
and every command in the log has one (`LogInv`: from the log to the keys, the direction that
`AllOrNothing` lacks, and what lets a new commit conclude from `Stored = {}` that the
log has no such command), and that causes are positions in the log (`CauseInv`).  The
refinement follows per step: `Commit` is `Apply` with `Move` or `Late`, everything
else leaves the status and the set of applied commands alone; expiry changes a key row
and not the command it names.

`TimeTrackingProofs` (assumes `TimeAssumption`): `TypeCorrect`, `OneTimer`,
`RefusalNeedsARace`, `OwnEntriesOnly`, `SerialTimers`.  The strengthening says what a request carries
(`RequestsInv`: the entry it holds is its user's and runs), that a row lock has one
holder (`HoldersInv`), that two requests of a user at a time are remembered
(`RaceInv`), and that a start without a rival has found the one running entry
(`FoundInv`), which makes the refusal of the index impossible for it.  Two lemmas carry
the steps: `RequestStep` for those that leave the entries alone and `EntriesStep` for
those that end a request by writing entries of its user; the latter needs that what it
writes is held by nobody else, which is `HoldersInv` or the guard `~Held`.
`SerialTimers` has an invariant of its own, `SerialInv`: no time that is written or
carried lies in the future (`PastInv`), the entries of a user without rivals follow one
another (`ConsecutiveInv`), and what such a user's request knows stays so until it ends
(`KnowsInv`: a Go transaction began after all that the user's entries hold, a Laravel
stop's entry still runs).  The last is what makes the date that a transaction took at
its beginning good at its end, and what a second request would break.

`ReviewWorkflowProofs` (assumes `ReviewAssumption`): `ApprovalsFinish`, `NoLostUpdate`,
`OneSubmissionPerOpening`.  `IInv` is `TypeOK` with four parts: a project's row has one
holder (`Locks`); what a transaction read under the lock is still so (`Reading`); every
review that a decision counted as approved has been approved (`Counting`: the statuses
themselves may change after the count); and between two submissions something opened the
project (`OpenedSince`).  The lemmas `Logged`, `OnlyTx` and `Ended` carry the steps that
write a log row, that change one transaction only, and that end one.

`CreationProofs`, of `IdempotentCreate` (assumes `CreateAssumption`): `SourcesAreUnique`,
`NoForeignAnswers`, `OnceWithoutTrouble`.  `IInv` follows a body through the request,
the row and the answer (`Held`, `Stored`, `Told`), and says what trouble is needed for:
a key that is not troubled has one request at a time and none once it is answered
(`CalmKeys`).  `OnceUnlessTroubled` follows from the latter, since a second creation
would need a second request that found no answer.

`WebhookDeliveryProofs` (assumes `WebhookAssumption`): `TheOutboxTellsTheTruth`.  The
row's outcome is written by a worker that has held the delivery for some time while
another may have written it, so the invariant is about the workers: what each of them
will record, it has evidence of (`Carried`), and who sends has an attempt left
(`AttemptLeft`).

`AutomationEngineProofs`: `RulesActOnce`, `CompletedMeansRan`.  `Owned` says that a
worker's event is in processing and nobody else's, `Untouched` that nothing ran for an
event before its rules were loaded, `Accounted` that what ran and what is left add up to
what was loaded.

`CreationProofs`, of `ProjectForm` (assumes `FormAssumption`): `SavesDeleteWhatWasDropped`
and `SavesLeaveThePlan`.  For the first the tasks that a plan is without are followed from
the form to the save that waits for its project and to the requests under way (`Without`),
those of earlier saves and of forms that were left included; a new id is in none of them
(`FreshIsNew`), and saves that are not under way hold nothing (`Forms`).  The second
compares how often each activity occurs in the plan and on the server, and ids do not help:
the server gives its own.  `CleanInv` therefore keeps a matching, one by one (`Match`),
between the activities and the tasks that no request of the save is about any more.  It
holds of the empty rest when the requests are sent, because the list the form knew is the
list of the tasks there are; each request is what the plan asks of its task (`Due`), so each
that is served takes one more pair in or leaves the matching alone; when the last answer has
come it matches the whole plan (`SavedInv`), and a bijection keeps cardinalities
(`MatchCounts`).

`WorkspaceProofs`, of `ActivityPlanner` (assumes `PlannerAssumption`, by which a plan handed
over is any finish date with any activities): `PlacementsAreFree` and
`PlannerImplementsPlan`.  `IInv` adds to the types that on a read-only page the editor holds
an activity and marks no finish (`ReadOnlyEditor`): that alone is what keeps its save and
delete from changing such a plan once the activity is gone.  Nothing else is assumed of what
the editor is open on: that it places on free days follows from its saves alone.

`WorkspaceProofs`, of `WorkspaceTabs` (assumes `TabsAssumption`): `ATabIsShown`,
`NoPageTwice`, `TheServerRemembers`, `TheWayBackIsKept`.  `TabsIInv` has four parts beside
the types and the first property.  What will replace the window's list, the stored row, an
answer to the GET or a PUT under way, is as good as it: no id twice, no page twice but by an
unsearched tab (`ListsAreGood`).  An id stays with the page it was given for, in everything that
still knows it: the tabs, the history, the row, answers, PUTs and the callbacks of pages
that were left (`PagesStay(Known, fresh)`); this is what lets a late answer turn to a closed
tab without showing the page of another.  PUTs that were overtaken were sent first, and when
none is due the last of the others, or else the server, has what the window shows
(`MemoryInv`).  The work is in the lists: the tabs are filtered, cut to the limit, reordered and
merged with those of an earlier session, and the lemmas say what each of these returns
(`FilteredFacts`, `PartFacts`, `AddedFacts`, `MovedFacts`).  That a filter exists at all is
`RisingExists`, by a least number that would have none (`LeastNumber`): an induction
over numbers without the library's induction theorems, whose operator parameter the
provers cannot take.  `TheWayBackIsKept` is an action property; it follows from what
`activateTab` and Back do to the current entry.

`PanelProofs`, of `KnowledgeDraft` (assumes `DraftAssumption` and `OldAssumption`: the
rows there were at the start are of one document each): `DraftTypeCorrect`, `OneRow`,
`NoSavedTextIsLost`.  The argument follows the row that the editor refers to.  While the
session is calm, the document in the editor has no row but that one, or the one named by
an answer that has not come (`RefInv`, `Announced`), a request under way is of the
document in the editor (`CalmRequest`), and an entry of a list is of the document its
row has.  A request that is lost, refused or served leaves each of these as it is
(`FailedKeeps`, `RefusedKeeps`, `ServedKeepsPages`).  `NoSavedTextIsLost` needs none of
calm: every serving of a wiki page keeps its old page as a version or writes the same one,
whoever sent it.

`PanelProofs`, of `SettingsForms` (assumes `SettingsAssumption`): `DraggedOrderArrives`,
`NothingIsAddedTwice`, `NoMixedUpItems`, `NoSeenLimitIsReverted`.  `SettingsIInv` has a
part for each: what the last drag wants of a type is stored or requested and nothing
else is (`DragInv`); a value that is not mislaid is in one request, and while the form
shows it, its mutation is pending and the button disabled (`AddInv`); every copy of an
item's value is what it had or was typed in that item's drawer, or its drawer was emptied
(`ItemInv`); who knows the last change of
the limit knows the limit (`LimitInv`).  Every step is first reduced to one of a few
kinds (`KindsOfSteps`), so that fourteen forms need no fourteen proofs.

With these, every invariant and every action property of the passing runs is a theorem.
Only model-checked are the
liveness properties (`EveryRequestAnswered`, `EveryTransactionEnds`,
`EveryDeliverySettles`, `EventsSettle`, `EveryRequestEnds`, `DraftsAreAutosaved`,
`SavesEnd`), since fairness and ENABLED are beyond the prover, and the counterexamples
of the findings.

## What is left out

Routing, authentication, tenants (every model is one tenant), encoding and validation
messages.  Reports, dashboards, notifications, SOPs and the assistant are queries or
single transactions without interleaving of their own.  The Go knowledge service runs the
same statements as Laravel's over the same trigger.  A GitHub delivery is one insert that
a UNIQUE constraint decides, an activity's realization one transaction, the rate limiter
one counter under one mutex; the holiday calendar is a cache entry.  Loading the
simulation takes display numbers without the lock of `createProject`; it is
not modelled, as one administrator does it.

Of the modelled parts: in the knowledge panel the document tabs, the prefill from a source
project (`KnowledgePanel.tsx:563`, whose late answer replaces the text of the active tab)
and the rich text editor (`KnowledgeRichEditor.tsx:666` writes a published text back over
what was typed since); of the row of the tabs the editor's preference; in the planner the month shown and the toolbar; in the settings the
switches of items, the test of a webhook, the simulation, roles and validation; of a
project's fields in its form all but the finish date; notes, checklists, attachments and
links of a task.

Seen while modelling and covered by no property: a creation repeated after a lost answer
has a new `Idempotency-Key` and makes a second project; a reordering that fails keeps the
order on the screen, where `specs/05-security-performance-standards.md:90` asks for a
rollback; the answer to a save of a team's members clears the members ticked meanwhile for
a new team; two windows save their
tabs over each other, the last one wins.
