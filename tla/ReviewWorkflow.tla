--------------------------- MODULE ReviewWorkflow ---------------------------
(***************************************************************************)
(* Project reviews in the Go service: a submission asks every reviewer     *)
(* (projects.SubmitReview), a reviewer decides (reviews.Update), the       *)
(* project follows the decisions; edits (projects.Update) and reviews that *)
(* are created by hand (reviews.Create) run beside them.                   *)
(*                                                                         *)
(* Every operation is one READ COMMITTED transaction.  Its rows appear at  *)
(* the commit; SELECT ... FOR UPDATE and UPDATE hold the row until then;   *)
(* a plain SELECT sees what is committed when it runs, and its own writes. *)
(***************************************************************************)
EXTENDS ProjectStatus, Naturals, Sequences, FiniteSets

CONSTANTS
    Projects,
    Users,
    Reviewers,      \* Reviewers[p]: project_people of role reviewer (only set at creation)
    InitialStatus,  \* the statuses projects are found in
    EditStatuses,   \* the statuses an edit asks for
    Tx,             \* transactions at a time
    MaxReviews,     \* bound: no review is asked for beyond this many rows
    MaxLog,         \* bound: no transaction starts that could log more rows
    None            \* a column that is not set

Verdicts == {"approved", "rejected", "revision_requested"}

\* What an edit may ask for; the last two are refused by the CHECK of the table.
Editable == {"planning", "active", "on_hold", "completed", "cancelled"}

ASSUME ReviewAssumption ==
    /\ IsFiniteSet(Users)
    /\ Reviewers \in [Projects -> SUBSET Users]
    /\ InitialStatus \subseteq Status
    /\ EditStatuses \subseteq Editable
    /\ MaxReviews \in Nat /\ MaxLog \in Nat
    /\ None \notin Status \cup Editable

VARIABLES
    status,     \* projects.status
    reviews,    \* the review rows of projects, in the order of insertion
    audit,      \* audit rows of the projects, in commit order
    tx,         \* the open transactions
    approved,   \* history: the reviews that were approved at some time
    finished    \* history: the reviews counted by the approval that finished a project

vars == <<status, reviews, audit, tx, approved, finished>>

-----------------------------------------------------------------------------
Review == [project : Projects, reviewer : Users, state : {"pending"} \cup Verdicts]

AuditRow == [action : {"submit_review", "update", "review_transition"},
             project : Projects, before : Status \cup {None}, after : Status]

Idle == [pc |-> "idle"]

Deciding == [pc : {"recorded", "counted", "moved"}, review : Nat, project : Projects,
             verdict : Verdicts, target : Status \cup {None}, counted : SUBSET Nat]

Submitting == [pc : {"submitting"}, project : Projects, before : Status]

Editing == [pc : {"editing"}, project : Projects, before : Status, new : Status \cup Editable]

TypeOK ==
    /\ status \in [Projects -> Status]
    /\ reviews \in Seq(Review)
    /\ audit \in Seq(AuditRow)
    /\ tx \in [Tx -> {Idle} \cup Deciding \cup Submitting \cup Editing]
    /\ approved \subseteq DOMAIN reviews
    /\ finished \in [Projects -> SUBSET DOMAIN reviews]

Init ==
    /\ status \in [Projects -> InitialStatus]
    /\ reviews = <<>>
    /\ audit = <<>>
    /\ tx = [t \in Tx |-> Idle]
    /\ approved = {}
    /\ finished = [p \in Projects |-> {}]

-----------------------------------------------------------------------------
(* Helpers *)

Of(p) == {i \in DOMAIN reviews : reviews[i].project = p}

ReviewLocked(i) ==
    \E t \in Tx : tx[t].pc \in {"recorded", "counted", "moved"} /\ tx[t].review = i

ProjectLocked(p) ==
    \E t \in Tx : tx[t].pc \in {"moved", "submitting", "editing"} /\ tx[t].project = p

\* The bound, of the model only: every open transaction has room for its audit row.
Room == Len(audit) + Cardinality({t \in Tx : tx[t].pc # "idle"}) < MaxLog

\* Deviation: only the reviews nobody has answered are counted.
OutstandingPending(q) ==
    {i \in Of(q.project) \ {q.review} : reviews[i].state = "pending"}

\* The reviews that keep a project from being done: of any submission, and any
\* answer but an approval.
Outstanding(q) ==
    {i \in Of(q.project) \ {q.review} : reviews[i].state # "approved"}

Log(action, p, before, after) ==
    audit' = Append(audit, [action |-> action, project |-> p, before |-> before, after |-> after])

Release(t) == tx' = [tx EXCEPT ![t] = Idle]

-----------------------------------------------------------------------------
(* A reviewer decides (reviews.Update) *)

\* Lock the review and record the verdict.  The actor must be its reviewer; there is
\* no condition on its state or the project's, a verdict may be changed at any time.
Record(t, i, verdict) ==
    /\ tx[t].pc = "idle"
    /\ ~ ReviewLocked(i)
    /\ Room
    /\ tx' = [tx EXCEPT ![t] = [pc |-> "recorded", review |-> i, verdict |-> verdict,
                                project |-> reviews[i].project, target |-> None, counted |-> {}]]
    /\ UNCHANGED <<status, reviews, audit, approved, finished>>

\* What follows for the project; an approval counts the outstanding reviews.
Target(q) ==
    CASE q.verdict = "revision_requested" -> "active"
      [] q.verdict = "rejected" -> "on_hold"
      [] q.verdict = "approved" -> IF Outstanding(q) = {} THEN "done" ELSE None

\* Deviation: the reviews are counted FOR UPDATE, to see the rivals' verdicts.
FollowLocking(t) ==
    LET q == tx[t] IN
    /\ q.pc = "recorded"
    /\ q.verdict = "approved" => \A i \in Of(q.project) \ {q.review} : ~ ReviewLocked(i)
    /\ tx' = [tx EXCEPT ![t].pc = "counted",
                        ![t].target = Target(q),
                        ![t].counted = IF Target(q) = "done" THEN Of(q.project) ELSE {}]
    /\ UNCHANGED <<status, reviews, audit, approved, finished>>

Follow(t) ==
    LET q == tx[t] IN
    /\ q.pc = "recorded"
    /\ tx' = [tx EXCEPT ![t].pc = "counted",
                        ![t].target = Target(q),
                        ![t].counted = IF Target(q) = "done" THEN Of(q.project) ELSE {}]
    /\ UNCHANGED <<status, reviews, audit, approved, finished>>

\* UPDATE projects, whatever its status: waits for the row.
MoveProject(t) ==
    LET q == tx[t] IN
    /\ q.pc = "counted" /\ q.target # None
    /\ ~ ProjectLocked(q.project)
    /\ tx' = [tx EXCEPT ![t].pc = "moved"]
    /\ UNCHANGED <<status, reviews, audit, approved, finished>>

CommitDecision(t) ==
    LET q == tx[t] IN
    /\ q.pc = "moved" \/ (q.pc = "counted" /\ q.target = None)
    /\ reviews' = [reviews EXCEPT ![q.review].state = q.verdict]
    /\ approved' = IF q.verdict = "approved" THEN approved \cup {q.review} ELSE approved
    /\ \/ /\ q.target # None
          /\ status' = [status EXCEPT ![q.project] = q.target]
          /\ finished' = [finished EXCEPT ![q.project] = q.counted]
          /\ Log("review_transition", q.project, None, q.target)
       \/ /\ q.target = None
          /\ UNCHANGED <<status, audit, finished>>
    /\ Release(t)

-----------------------------------------------------------------------------
(* A project is submitted (projects.SubmitReview) *)

\* Deviation: the status is checked on a plain SELECT.
SubmitNoLock(t, p) ==
    /\ tx[t].pc = "idle"
    /\ status[p] \notin Closed
    /\ Len(reviews) + Cardinality(Reviewers[p]) <= MaxReviews
    /\ Room
    /\ tx' = [tx EXCEPT ![t] = [pc |-> "submitting", project |-> p, before |-> status[p]]]
    /\ UNCHANGED <<status, reviews, audit, approved, finished>>

\* SELECT ... FOR UPDATE: what it reads stays true until the commit.
LockToSubmit(t, p) ==
    /\ tx[t].pc = "idle"
    /\ ~ ProjectLocked(p)
    /\ status[p] \notin Closed
    /\ Len(reviews) + Cardinality(Reviewers[p]) <= MaxReviews
    /\ Room
    /\ tx' = [tx EXCEPT ![t] = [pc |-> "submitting", project |-> p, before |-> status[p]]]
    /\ UNCHANGED <<status, reviews, audit, approved, finished>>

\* Insert a pending review for each reviewer, move the project, commit.
CommitSubmit(t) ==
    LET q == tx[t]
        p == q.project
        n == Cardinality(Reviewers[p])
        after == IF Reviewers[p] = {} THEN "done" ELSE "review"
    IN
    /\ q.pc = "submitting"
    /\ \E order \in [1..n -> Reviewers[p]] :
          /\ {order[i] : i \in 1..n} = Reviewers[p]
          /\ reviews' = reviews \o
               [i \in 1..n |-> [project |-> p, reviewer |-> order[i], state |-> "pending"]]
    /\ status' = [status EXCEPT ![p] = after]
    /\ finished' = [finished EXCEPT ![p] = {}]
    /\ Log("submit_review", p, q.before, after)
    /\ Release(t)
    /\ UNCHANGED approved

-----------------------------------------------------------------------------
(* Beside them *)

\* Deviation: the row to edit is read without FOR UPDATE.
EditNoLock(t, p, new) ==
    /\ tx[t].pc = "idle"
    /\ Room
    /\ tx' = [tx EXCEPT ![t] = [pc |-> "editing", project |-> p, before |-> status[p],
                                new |-> IF new = None THEN status[p] ELSE new]]
    /\ UNCHANGED <<status, reviews, audit, approved, finished>>

\* projects.Update locks the row; without a status in the request it keeps the one
\* it read.
LockToEdit(t, p, new) ==
    /\ tx[t].pc = "idle"
    /\ ~ ProjectLocked(p)
    /\ Room
    /\ tx' = [tx EXCEPT ![t] = [pc |-> "editing", project |-> p, before |-> status[p],
                                new |-> IF new = None THEN status[p] ELSE new]]
    /\ UNCHANGED <<status, reviews, audit, approved, finished>>

CommitEdit(t) ==
    LET q == tx[t] IN
    /\ q.pc = "editing" /\ q.new \in Status
    /\ status' = [status EXCEPT ![q.project] = q.new]
    /\ finished' = IF q.new = q.before THEN finished
                   ELSE [finished EXCEPT ![q.project] = {}]
    /\ Log("update", q.project, q.before, q.new)
    /\ Release(t)
    /\ UNCHANGED <<reviews, approved>>

\* reviews.Create: anybody asks anybody, whatever the project's status.
CreateReview(p, u) ==
    /\ Len(reviews) < MaxReviews
    /\ reviews' = Append(reviews, [project |-> p, reviewer |-> u, state |-> "pending"])
    /\ UNCHANGED <<status, audit, tx, approved, finished>>

\* The CHECK refuses a status, or the client or the server goes away: rollback.
Rollback(t) ==
    /\ tx[t].pc # "idle"
    /\ Release(t)
    /\ UNCHANGED <<status, reviews, audit, approved, finished>>

CheckRefuses(t) == tx[t].pc = "editing" /\ tx[t].new \notin Status

-----------------------------------------------------------------------------
Next ==
    \/ \E t \in Tx :
          \/ \E i \in DOMAIN reviews, verdict \in Verdicts : Record(t, i, verdict)
          \/ Follow(t) \/ MoveProject(t) \/ CommitDecision(t)
          \/ \E p \in Projects : LockToSubmit(t, p)
          \/ CommitSubmit(t)
          \/ \E p \in Projects, new \in EditStatuses \cup {None} : LockToEdit(t, p, new)
          \/ CommitEdit(t)
          \/ Rollback(t)
    \/ \E p \in Projects, u \in Users : CreateReview(p, u)

Spec == Init /\ [][Next]_vars

\* A transaction that has begun goes on; row locks are granted in the order they
\* were asked for.  Nobody has to ask for anything.
Fairness ==
    \A t \in Tx :
        /\ WF_vars(Follow(t))
        /\ SF_vars(MoveProject(t))
        /\ WF_vars(CommitDecision(t))
        /\ WF_vars(CommitSubmit(t))
        /\ WF_vars(CommitEdit(t) \/ (CheckRefuses(t) /\ Rollback(t)))

FairSpec == Spec /\ Fairness

-----------------------------------------------------------------------------
(* Properties *)

\* Safety: a project that an approval finished had been approved by everyone: each
\* review that existed when the approval counted them was approved at some time,
\* although others may be changing their verdicts at that moment.
FinishedByAll == \A p \in Projects : finished[p] \subseteq approved

RowsOf(p) == {i \in DOMAIN audit : audit[i].project = p}

\* Safety: the audit log of a project is its history.  The status a row found is the
\* one the row before it left, and the last one left is the status, so no edit and no
\* submission overwrites a change it has not seen.
AuditIsHistory ==
    \A p \in Projects : \A i \in RowsOf(p) :
        /\ \A j \in RowsOf(p) :
              (i < j /\ audit[j].before # None /\ ~ \E k \in RowsOf(p) : i < k /\ k < j)
                  => audit[j].before = audit[i].after
        /\ (\A j \in RowsOf(p) : j <= i) => status[p] = audit[i].after

\* Safety: one submission per opening.  Between two submissions of a project a
\* decision or an edit took it out of review or done.
ReopenedBetweenSubmissions ==
    \A p \in Projects : \A i, j \in RowsOf(p) :
        (i < j /\ audit[i].action = "submit_review" /\ audit[j].action = "submit_review")
            => \E k \in RowsOf(p) : i < k /\ k < j /\ audit[k].after \notin Closed

\* Liveness: no wait for a row is for ever: transactions do not deadlock, although a
\* decision holds its review while it waits for the project.
EveryTransactionEnds ==
    \A t \in Tx : tx[t].pc # "idle" ~> tx[t].pc = "idle"

\* What the review workflow promises ("approved: the entity goes on to done"): when
\* nobody is deciding, a project whose reviews are all approved is not still in review.
ApprovedProjectsLeaveReview ==
    \A p \in Projects :
        (/\ Of(p) # {} /\ \A i \in Of(p) : reviews[i].state = "approved"
         /\ \A t \in Tx : tx[t].pc = "idle")
        => status[p] # "review"
=============================================================================
