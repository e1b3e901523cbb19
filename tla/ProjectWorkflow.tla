-------------------------- MODULE ProjectWorkflow --------------------------
(***************************************************************************)
(* The two project commands of the Laravel backend, submit-review and      *)
(* reopen (ProjectWorkflowController), with the update of a project's      *)
(* people (ExecutionController::updateProject) that races them.            *)
(*                                                                         *)
(* A request looks its Idempotency-Key up, reads the project, reads the    *)
(* reviewers and only then opens a transaction: a conditional UPDATE of    *)
(* the project, the rows that go with it, the stored key, the commit.      *)
(* PostgreSQL runs it READ COMMITTED, so each statement sees what is       *)
(* committed when it starts, and an UPDATE that matches keeps the row      *)
(* locked until the transaction ends.  Each of those points is a step.     *)
(***************************************************************************)
EXTENDS ProjectStatus, Naturals, Sequences, FiniteSets

CONSTANTS
    Projects,       \* projects (none is deleted while a command runs)
    Users,          \* users of one tenant
    Managers,       \* those whose role is admin or manager
    Creator,        \* Creator[p] is the user who created p
    Keys,           \* Idempotency-Key header values
    NoKey,          \* the key column of an audit row without a key
    Requests,       \* requests the server works on at a time
    InitialStatus,  \* what createProject and loadSimulation insert
    PeopleLists,    \* the role lists that createProject and updateProject are given
    MaxUpdates      \* bound: updateProject is called at most this often

People == [member : SUBSET Users, reviewer : SUBSET Users]

ASSUME ConstantsAssumption ==
    /\ Managers \subseteq Users
    /\ Creator \in [Projects -> Users]
    /\ NoKey \notin Keys
    /\ InitialStatus \subseteq Status
    /\ PeopleLists \subseteq People
    /\ MaxUpdates \in Nat

VARIABLES
    status,     \* projects.status
    people,     \* project_people: the users of each role
    reviews,    \* review rows of entity_type project
    keys,       \* user_idempotency_keys
    audit,      \* audit_events of the projects, in commit order
    req,        \* the requests being served
    lastMove    \* history: the audit row of the last change of status

vars == <<status, people, reviews, keys, audit, req, lastMove>>

-----------------------------------------------------------------------------
(* Types *)

Review == [cause : Nat, project : Projects, reviewer : Users]

KeyRow == [user : Users, key : Keys, cmd : Command, project : Projects,
           snapshot : Status, live : BOOLEAN]

AuditRow == [action : Command \cup {"update"}, actor : Users,
             key : Keys \cup {NoKey}, project : Projects, after : Status]

Idle == [pc |-> "idle"]

Busy == [pc : {"looked", "admitted", "ready", "updated", "written"},
         user : Users, key : Keys, cmd : Command, project : Projects,
         reviewers : SUBSET Users, hit : BOOLEAN, after : Status]

TypeOK ==
    /\ status \in [Projects -> Status]
    /\ people \in [Projects -> People]
    /\ reviews \subseteq Review
    /\ keys \subseteq KeyRow
    /\ audit \in Seq(AuditRow)
    /\ req \in [Requests -> {Idle} \cup Busy]
    /\ lastMove \in [Projects -> Nat]

-----------------------------------------------------------------------------
(* Simulated projects are loaded in any status, with no review rows.       *)

Init ==
    /\ status \in [Projects -> InitialStatus]
    /\ people \in [Projects -> PeopleLists]
    /\ reviews = {}
    /\ keys = {}
    /\ audit = <<>>
    /\ req = [r \in Requests |-> Idle]
    /\ lastMove = [p \in Projects |-> 0]

-----------------------------------------------------------------------------
(* Helpers *)

\* Being on the project's team is not enough, unlike for reading it.
CanManage(u, p) ==
    \/ u \in Managers
    \/ u = Creator[p]
    \/ u \in people[p].member \cup people[p].reviewer

\* Deviation: an index on the live rows only.
StoredLiveOnly(u, k) == {row \in keys : row.user = u /\ row.key = k /\ row.live}

\* The row of this user and key, expired or not: what UNIQUE looks at.
Stored(u, k) == {row \in keys : row.user = u /\ row.key = k}

\* What replay() looks at: an expired row is no row.
LiveRow(u, k) == {row \in Stored(u, k) : row.live}

InTransaction(r) == req[r].pc \in {"updated", "written"}

\* Project p is locked by a transaction whose UPDATE matched it.
Locked(p) ==
    \E r \in Requests : InTransaction(r) /\ req[r].hit /\ req[r].project = p

\* Deviation: the name the older service gave the final status.
TargetCompleted(q) ==
    IF q.cmd = "reopen" THEN "active"
    ELSE IF q.reviewers = {} THEN "completed" ELSE "review"

Target(q) ==
    IF q.cmd = "reopen" THEN "active"
    ELSE IF q.reviewers = {} THEN "done" ELSE "review"

\* Deviation: the reviewers are read again inside the transaction.
ReviewRowsReread(q, n) ==
    {[cause |-> n, project |-> q.project, reviewer |-> u] : u \in people[q.project].reviewer}

\* One pending review per reviewer that was read, in the n-th commit.
ReviewRows(q, n) ==
    {[cause |-> n, project |-> q.project, reviewer |-> u] : u \in q.reviewers}

Release(r) == req' = [req EXCEPT ![r] = Idle]

-----------------------------------------------------------------------------
(* The steps of a request *)

\* A live row of this key answers the request, by its snapshot or by a 409
\* when it belongs to another command: nothing changes.  Otherwise go on.
Arrive(r, u, k, c, p) ==
    /\ req[r].pc = "idle"
    /\ LiveRow(u, k) = {}
    /\ req' = [req EXCEPT ![r] =
                [pc |-> "looked", user |-> u, key |-> k, cmd |-> c, project |-> p,
                 reviewers |-> {}, hit |-> FALSE, after |-> "active"]]
    /\ UNCHANGED <<status, people, reviews, keys, audit, lastMove>>

Admit(r) ==
    LET q == req[r] IN
    /\ q.pc = "looked"
    /\ CanManage(q.user, q.project)
    /\ status[q.project] \in Source(q.cmd)
    /\ req' = [req EXCEPT ![r].pc = IF q.cmd = "reopen" THEN "ready" ELSE "admitted"]
    /\ UNCHANGED <<status, people, reviews, keys, audit, lastMove>>

Refuse(r) ==
    LET q == req[r] IN
    /\ q.pc = "looked"
    /\ ~ (CanManage(q.user, q.project) /\ status[q.project] \in Source(q.cmd))
    /\ Release(r)
    /\ UNCHANGED <<status, people, reviews, keys, audit, lastMove>>

ReadReviewers(r) ==
    /\ req[r].pc = "admitted"
    /\ req' = [req EXCEPT ![r].pc = "ready",
                          ![r].reviewers = people[req[r].project].reviewer]
    /\ UNCHANGED <<status, people, reviews, keys, audit, lastMove>>

\* Deviation: UPDATE by id, trusting the status that was read.
UpdateUnconditional(r) ==
    /\ req[r].pc = "ready"
    /\ ~ Locked(req[r].project)
    /\ req' = [req EXCEPT ![r].pc = "updated", ![r].hit = TRUE]
    /\ UNCHANGED <<status, people, reviews, keys, audit, lastMove>>

\* UPDATE projects ... WHERE status IN (...): the number of rows it matched is
\* not looked at.
Update(r) ==
    LET q == req[r] IN
    /\ q.pc = "ready"
    /\ ~ Locked(q.project)
    /\ req' = [req EXCEPT ![r].pc = "updated",
                          ![r].hit = status[q.project] \in Source(q.cmd)]
    /\ UNCHANGED <<status, people, reviews, keys, audit, lastMove>>

\* The review rows and the audit row are inserted, the project is read again.
WriteRows(r) ==
    LET q == req[r] IN
    /\ q.pc = "updated"
    /\ req' = [req EXCEPT ![r].pc = "written",
                          ![r].after = IF q.hit THEN Target(q) ELSE status[q.project]]
    /\ UNCHANGED <<status, people, reviews, keys, audit, lastMove>>

\* Deviation: remember() after the transaction, and lost.
CommitForgetsKey(r) ==
    LET q == req[r]
        n == Len(audit) + 1
    IN
    /\ q.pc = "written"
    /\ Stored(q.user, q.key) = {}
    /\ status' = IF q.hit THEN [status EXCEPT ![q.project] = Target(q)] ELSE status
    /\ reviews' = reviews \cup ReviewRows(q, n)
    /\ audit' = Append(audit, [action |-> q.cmd, actor |-> q.user, key |-> q.key,
                               project |-> q.project, after |-> q.after])
    /\ lastMove' = IF q.hit THEN [lastMove EXCEPT ![q.project] = n] ELSE lastMove
    /\ Release(r)
    /\ UNCHANGED <<people, keys>>

\* remember() inserts the key, the transaction commits and all its rows appear.
Commit(r) ==
    LET q == req[r]
        n == Len(audit) + 1
    IN
    /\ q.pc = "written"
    /\ Stored(q.user, q.key) = {}
    /\ status' = IF q.hit THEN [status EXCEPT ![q.project] = Target(q)] ELSE status
    /\ reviews' = reviews \cup ReviewRows(q, n)
    /\ audit' = Append(audit, [action |-> q.cmd, actor |-> q.user, key |-> q.key,
                               project |-> q.project, after |-> q.after])
    /\ keys' = keys \cup {[user |-> q.user, key |-> q.key, cmd |-> q.cmd,
                           project |-> q.project, snapshot |-> q.after, live |-> TRUE]}
    /\ lastMove' = IF q.hit THEN [lastMove EXCEPT ![q.project] = n] ELSE lastMove
    /\ Release(r)
    /\ UNCHANGED people

\* Deviation: the review rows are inserted before the transaction.
FailKeepsReviews(r) ==
    LET q == req[r] IN
    /\ q.pc = "written"
    /\ Stored(q.user, q.key) # {}
    /\ reviews' = reviews \cup ReviewRows(q, Len(audit) + 1)
    /\ Release(r)
    /\ UNCHANGED <<status, people, keys, audit, lastMove>>

\* Deviation: the failed transaction is tried again.
FailRetries(r) ==
    /\ req[r].pc = "written"
    /\ Stored(req[r].user, req[r].key) # {}
    /\ req' = [req EXCEPT ![r].pc = "ready"]
    /\ UNCHANGED <<status, people, reviews, keys, audit, lastMove>>

\* UNIQUE (tenant_id, user_id, key) refuses the row, whether it is live (another
\* request with this key was faster) or expired (nothing deletes it): rollback.
FailDuplicateKey(r) ==
    /\ req[r].pc = "written"
    /\ Stored(req[r].user, req[r].key) # {}
    /\ Release(r)
    /\ UNCHANGED <<status, people, reviews, keys, audit, lastMove>>

\* The PHP worker or its connection dies: an open transaction is rolled back.
Crash(r) ==
    /\ req[r].pc # "idle"
    /\ Release(r)
    /\ UNCHANGED <<status, people, reviews, keys, audit, lastMove>>

-----------------------------------------------------------------------------
(* What happens beside them *)

\* PATCH /projects/{id}: any user of the tenant, any role list.  Its UPDATE has
\* no condition on status, so it waits for the row and holds it to its commit.
UpdateProject(u, p) ==
    /\ Cardinality({i \in DOMAIN audit : audit[i].action = "update"}) < MaxUpdates
    /\ ~ Locked(p)
    /\ \E new \in PeopleLists : people' = [people EXCEPT ![p] = new]
    /\ audit' = Append(audit, [action |-> "update", actor |-> u, key |-> NoKey,
                               project |-> p, after |-> status[p]])
    /\ UNCHANGED <<status, reviews, keys, req, lastMove>>

\* expires_at passes, 24 hours after the command.
ExpireKey(row) ==
    /\ row.live
    /\ keys' = (keys \ {row}) \cup {[row EXCEPT !.live = FALSE]}
    /\ UNCHANGED <<status, people, reviews, audit, req, lastMove>>

-----------------------------------------------------------------------------
Next ==
    \/ \E r \in Requests, u \in Users, k \in Keys, c \in Command, p \in Projects :
          Arrive(r, u, k, c, p)
    \/ \E r \in Requests :
          \/ Admit(r) \/ Refuse(r) \/ ReadReviewers(r)
          \/ Update(r) \/ WriteRows(r) \/ Commit(r)
          \/ FailDuplicateKey(r) \/ Crash(r)
    \/ \E u \in Users, p \in Projects : UpdateProject(u, p)
    \/ \E row \in keys : ExpireKey(row)

Spec == Init /\ [][Next]_vars

\* A worker goes on with the request it serves; the row lock is granted in the
\* order it was asked for, so a waiting UPDATE is not overtaken for ever.
\* Clients and the clock owe nothing.
Fairness ==
    \A r \in Requests :
        /\ WF_vars(Admit(r) \/ Refuse(r))
        /\ WF_vars(ReadReviewers(r))
        /\ SF_vars(Update(r))
        /\ WF_vars(WriteRows(r))
        /\ WF_vars(Commit(r) \/ FailDuplicateKey(r))

FairSpec == Spec /\ Fairness

-----------------------------------------------------------------------------
(* Properties *)

\* Safety: however requests with one key interleave, crash, are retried or
\* come back after the key expired, its command takes effect at most once.
OncePerKey ==
    \A i, j \in DOMAIN audit :
        (audit[i].key # NoKey /\ audit[i].key = audit[j].key
            /\ audit[i].actor = audit[j].actor) => i = j

\* Safety: the rows of a command are all there or none is.  A stored key has the
\* audit row of its command, with the answer it stored; a review row has the
\* audit row of the submission that inserted it.
AllOrNothing ==
    /\ \A row \in keys : \E i \in DOMAIN audit :
          /\ audit[i].key = row.key /\ audit[i].actor = row.user
          /\ audit[i].action = row.cmd /\ audit[i].project = row.project
          /\ audit[i].after = row.snapshot
    /\ \A rv \in reviews :
          /\ rv.cause \in DOMAIN audit
          /\ audit[rv.cause].action = "submit_review"
          /\ audit[rv.cause].project = rv.project

\* Safety: the status says whether someone was asked.  After the change of status
\* that put it there, a project in review has a review row of that submission, and
\* a project that is done has none, although the reviewers may have changed between
\* the read that chose the status and the inserts.
StatusMatchesReviews ==
    \A p \in Projects : lastMove[p] # 0 =>
        /\ status[p] = "review" => \E rv \in reviews : rv.cause = lastMove[p]
        /\ status[p] = "done" => \A rv \in reviews : rv.cause # lastMove[p]

\* Action property: a change of status leaves the source statuses of the command
\* that commits with it for one of its targets, even when the project moved on
\* between the check and the UPDATE; updates of the project never change it.
LegalTransitions ==
    [][\A p \in Projects : status'[p] # status[p] =>
          /\ Len(audit') = Len(audit) + 1
          /\ LET row == audit'[Len(audit')] IN
               /\ row.action \in Command /\ row.project = p
               /\ status[p] \in Source(row.action)
               /\ status'[p] \in Targets(row.action)
               /\ row.after = status'[p]]_vars

\* Refinement: the requests implement the abstract lifecycle.
Lifecycle == INSTANCE ProjectLifecycle WITH
    CommandIds <- Users \X Keys,
    applied <- {[id |-> <<row.user, row.key>>, project |-> row.project, cmd |-> row.cmd]
                  : row \in keys}

ImplementsLifecycle == Lifecycle!Spec

\* Liveness: every request is answered: no wait for the project's row, for a
\* retry or for a rival with the same key lasts for ever.
EveryRequestAnswered ==
    \A r \in Requests : req[r].pc # "idle" ~> req[r].pc = "idle"

\* What the 409 of the code and the API specification say ("Finish accepts only
\* planning, active, or on_hold"): a submission that commits finds the project open.
FinishOnlyOpenProjects ==
    [][(Len(audit') > Len(audit) /\ audit'[Len(audit')].action = "submit_review")
          => status[audit'[Len(audit')].project] \in Open]_vars
=============================================================================
