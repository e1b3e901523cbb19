------------------------ MODULE ReviewWorkflowProofs ------------------------
(***************************************************************************)
(* The safety of the review workflow, for any projects, users and number   *)
(* of transactions.  The row lock of the project carries it: whoever logs a*)
(* change of the status read that status under the lock, so the log has no *)
(* gap.  The count of an approval needs no lock, because a review that was *)
(* approved once stays counted as such.                                    *)
(***************************************************************************)
EXTENDS ReviewWorkflow, FiniteSetTheorems, TLAPS

Holding == {"moved", "submitting", "editing"}
Decisions == {"recorded", "counted", "moved"}
\* What an open transaction has in hand.
Busy == Deciding \cup Submitting \cup Editing

\* A project's row is locked by one transaction at a time.
Locks ==
    \A t, u \in Tx :
        (tx[t].pc \in Holding /\ tx[u].pc \in Holding /\ tx[t].project = tx[u].project) => t = u

\* What a transaction read under the lock is still so.
Reading ==
    \A t \in Tx : tx[t].pc \in {"submitting", "editing"} =>
        /\ tx[t].before = status[tx[t].project]
        /\ tx[t].pc = "submitting" => tx[t].before \notin Closed

\* What decision q counted was approved, its own review apart, which it approves.
Justified(q) ==
    /\ q.review \in DOMAIN reviews
    /\ q.counted \ {q.review} \subseteq approved
    /\ q.counted # {} => q.verdict = "approved"

Counting ==
    /\ \A i \in DOMAIN reviews : reviews[i].state = "approved" => i \in approved
    /\ \A t \in Tx : tx[t].pc \in Decisions => Justified(tx[t])

\* A project that is open now was taken out of review or done after each submission.
OpenedSince ==
    \A p \in Projects : status[p] \notin Closed =>
        \A i \in RowsOf(p) : audit[i].action = "submit_review" =>
            \E k \in RowsOf(p) : i < k /\ audit[k].after \notin Closed

History == AuditIsHistory /\ OpenedSince /\ ReopenedBetweenSubmissions

IInv == TypeOK /\ Locks /\ Reading /\ Counting /\ FinishedByAll /\ History

-----------------------------------------------------------------------------
\* The kind of an open transaction follows from its place.
LEMMA TxShape ==
    ASSUME TypeOK, NEW t \in Tx
    PROVE  /\ tx[t].pc \in Decisions => tx[t] \in Deciding
           /\ tx[t].pc = "submitting" => tx[t] \in Submitting
           /\ tx[t].pc = "editing" => tx[t] \in Editing
BY DEF TypeOK, Idle, Deciding, Submitting, Editing, Decisions

\* The initial states: nothing is open, nothing was logged.
LEMMA InitIInv == Init => IInv
<1> SUFFICES ASSUME Init PROVE IInv
  OBVIOUS
<1>1. TypeOK
  BY ReviewAssumption DEF Init, TypeOK
<1>2. Locks /\ Reading /\ Counting /\ FinishedByAll
  BY DEF Init, Locks, Reading, Counting, FinishedByAll, Holding, Decisions, Idle
<1>3. History
  BY DEF Init, History, AuditIsHistory, OpenedSince, ReopenedBetweenSubmissions, RowsOf
<1> QED BY <1>1, <1>2, <1>3 DEF IInv

\* A step of one transaction that changes no row, and keeps what its place asks for.
LEMMA OnlyTx ==
    ASSUME IInv, NEW t \in Tx, NEW mine \in {Idle} \cup Busy,
           tx' = [tx EXCEPT ![t] = mine],
           UNCHANGED <<status, reviews, audit, approved, finished>>,
           mine.pc \in Holding =>
               \A u \in Tx \ {t} : tx[u].pc \in Holding => tx[u].project # mine.project,
           mine.pc \in {"submitting", "editing"} =>
               /\ mine.before = status[mine.project]
               /\ mine.pc = "submitting" => mine.before \notin Closed,
           mine.pc \in Decisions => Justified(mine)
    PROVE  IInv'
<1>1. tx'[t] = mine /\ \A u \in Tx \ {t} : tx'[u] = tx[u]
  BY DEF IInv, TypeOK
<1>2. TypeOK'
  BY DEF IInv, TypeOK, Busy
<1>3. Locks'
  BY <1>1 DEF IInv, Locks
<1>4. Reading'
  BY <1>1 DEF IInv, Reading
<1>5. \A u \in Tx : tx'[u].pc \in Decisions => Justified(tx'[u])
  BY <1>1 DEF IInv, Counting
<1>6. Counting'
  BY <1>5 DEF IInv, Counting, Justified
<1>7. FinishedByAll' /\ History'
  BY DEF IInv, FinishedByAll, History, AuditIsHistory, OpenedSince,
         ReopenedBetweenSubmissions, RowsOf
<1> QED BY <1>2, <1>3, <1>4, <1>6, <1>7 DEF IInv

-----------------------------------------------------------------------------
\* A logged change of the status: the log had the status it found, if it says one, and
\* a submission found the project open and closed it.
LEMMA Logged ==
    ASSUME IInv, NEW p \in Projects, NEW s \in Status, NEW before \in Status \cup {None},
           NEW action \in {"submit_review", "update", "review_transition"},
           status' = [status EXCEPT ![p] = s],
           Log(action, p, before, s),
           before # None => before = status[p],
           action = "submit_review" => status[p] \notin Closed /\ s \in Closed
    PROVE  audit' \in Seq(AuditRow) /\ History'
<1>1. PICK row \in AuditRow :
         /\ row.action = action /\ row.project = p /\ row.before = before /\ row.after = s
         /\ audit' = Append(audit, row)
  <2> DEFINE m == [action |-> action, project |-> p, before |-> before, after |-> s]
  <2>1. m \in AuditRow /\ m.action = action /\ m.project = p /\ m.before = before /\ m.after = s
    BY DEF AuditRow
  <2>2. audit' = Append(audit, m)
    BY DEF Log
  <2> QED BY <2>1, <2>2
<1>2. PICK n \in Nat :
         /\ n = Len(audit) + 1 /\ audit' \in Seq(AuditRow)
         /\ DOMAIN audit = 1..(n - 1) /\ DOMAIN audit' = 1..n
         /\ audit'[n] = row /\ \A i \in DOMAIN audit : audit'[i] = audit[i]
  BY <1>1 DEF IInv, TypeOK
<1>3. /\ RowsOf(p)' = RowsOf(p) \cup {n}
      /\ \A o \in Projects \ {p} : RowsOf(o)' = RowsOf(o)
      /\ \A o \in Projects : \A i \in RowsOf(o) : i \in Nat /\ i < n /\ audit'[i] = audit[i]
  BY <1>1, <1>2 DEF RowsOf
<1>4. status'[p] = s /\ \A o \in Projects \ {p} : status'[o] = status[o]
  BY DEF IInv, TypeOK
<1>5. AuditIsHistory'
  <2> SUFFICES ASSUME NEW o \in Projects, NEW i \in RowsOf(o)'
               PROVE  /\ \A j \in RowsOf(o)' :
                            (/\ i < j /\ audit'[j].before # None
                             /\ ~ \E k \in RowsOf(o)' : i < k /\ k < j)
                                => audit'[j].before = audit'[i].after
                      /\ (\A j \in RowsOf(o)' : j <= i) => status'[o] = audit'[i].after
    BY DEF AuditIsHistory
  <2>1. CASE o # p
    BY <2>1, <1>3, <1>4 DEF IInv, History, AuditIsHistory
  <2>2. CASE o = p /\ i = n
    BY <2>2, <1>1, <1>2, <1>3, <1>4
  <2>3. CASE o = p /\ i # n
    <3>1. i \in RowsOf(p) /\ audit'[i] = audit[i] /\ i < n
      BY <2>3, <1>3
    <3>2. ASSUME NEW j \in RowsOf(p), i < j, audit'[j].before # None,
                 ~ \E k \in RowsOf(p)' : i < k /\ k < j
          PROVE  audit'[j].before = audit'[i].after
      BY <3>1, <3>2, <1>3 DEF IInv, History, AuditIsHistory
    <3>3. ASSUME before # None, ~ \E k \in RowsOf(p)' : i < k /\ k < n
          PROVE  before = audit'[i].after
      <4>1. \A j \in RowsOf(p) : j <= i
        BY <3>1, <3>3, <1>3
      <4>2. status[p] = audit[i].after
        BY <4>1, <3>1 DEF IInv, History, AuditIsHistory
      <4> QED BY <4>2, <3>1, <3>3
    <3>4. ~ \A j \in RowsOf(p)' : j <= i
      BY <3>1, <1>3
    <3> QED BY <2>3, <3>2, <3>3, <3>4, <1>1, <1>2, <1>3
  <2> QED BY <2>1, <2>2, <2>3
<1>6. OpenedSince'
  <2> SUFFICES ASSUME NEW o \in Projects, status'[o] \notin Closed,
                      NEW i \in RowsOf(o)', audit'[i].action = "submit_review"
               PROVE  \E k \in RowsOf(o)' : i < k /\ audit'[k].after \notin Closed
    BY DEF OpenedSince
  <2>1. CASE o # p
    BY <2>1, <1>3, <1>4 DEF IInv, History, OpenedSince
  <2>2. CASE o = p /\ i # n
    <3>1. n \in RowsOf(p)' /\ i < n /\ audit'[n].after \notin Closed
      BY <2>2, <1>1, <1>2, <1>3, <1>4
    <3> QED BY <3>1, <2>2
  <2>3. CASE o = p /\ i = n
    <3>1. action = "submit_review" => s \in Closed
      BY <2>3, <1>1, <1>2 DEF IInv
    <3> QED BY <3>1, <2>3, <1>1, <1>2, <1>4
  <2> QED BY <2>1, <2>2, <2>3
<1>7. ReopenedBetweenSubmissions'
  <2> SUFFICES ASSUME NEW o \in Projects, NEW i \in RowsOf(o)', NEW j \in RowsOf(o)', i < j,
                      audit'[i].action = "submit_review", audit'[j].action = "submit_review"
               PROVE  \E k \in RowsOf(o)' : i < k /\ k < j /\ audit'[k].after \notin Closed
    BY DEF ReopenedBetweenSubmissions
  <2>1. CASE o # p
    BY <2>1, <1>3 DEF IInv, History, ReopenedBetweenSubmissions
  <2>2. CASE o = p /\ j # n
    <3>1. i \in RowsOf(p) /\ j \in RowsOf(p)
      BY <2>2, <1>2, <1>3
    <3>2. PICK k \in RowsOf(p) : i < k /\ k < j /\ audit[k].after \notin Closed
      BY <3>1, <1>3 DEF IInv, History, ReopenedBetweenSubmissions
    <3> QED BY <3>2, <2>2, <1>3
  <2>3. CASE o = p /\ j = n
    <3>1. i \in RowsOf(p) /\ status[p] \notin Closed
      BY <2>3, <1>1, <1>2, <1>3
    <3>2. PICK k \in RowsOf(p) : i < k /\ audit[k].after \notin Closed
      BY <3>1, <1>3 DEF IInv, History, OpenedSince
    <3> QED BY <3>2, <2>3, <1>3
  <2> QED BY <2>1, <2>2, <2>3
<1> QED BY <1>2, <1>5, <1>6, <1>7 DEF History

\* A transaction that held the project's row and ends: what others read is still so.
LEMMA Ended ==
    ASSUME IInv, NEW t \in Tx, Release(t),
           NEW s \in Status,
           \/ UNCHANGED status
           \/ tx[t].pc \in Holding /\ status' = [status EXCEPT ![tx[t].project] = s]
    PROVE  /\ Locks' /\ Reading'
           /\ tx' \in [Tx -> {Idle} \cup Busy]
           /\ \A u \in Tx : tx'[u].pc # "idle" => u # t /\ tx'[u] = tx[u]
<1>1. tx' = [tx EXCEPT ![t] = Idle]
  BY DEF Release
<1>2. tx'[t] = Idle /\ \A u \in Tx \ {t} : tx'[u] = tx[u]
  BY <1>1 DEF IInv, TypeOK
<1>3. tx' \in [Tx -> {Idle} \cup Busy]
  BY <1>1 DEF IInv, TypeOK, Busy
<1>4. Locks'
  BY <1>2 DEF IInv, Locks, Idle, Holding
<1>5. Reading'
  <2> SUFFICES ASSUME NEW u \in Tx, tx'[u].pc \in {"submitting", "editing"}
               PROVE  /\ tx'[u].before = status'[tx'[u].project]
                      /\ tx'[u].pc = "submitting" => tx'[u].before \notin Closed
    BY DEF Reading
  <2>1. u # t /\ tx'[u] = tx[u] /\ tx[u].project \in Projects
    BY <1>2, TxShape DEF Idle, IInv, Submitting, Editing
  <2>2. status'[tx[u].project] = status[tx[u].project]
    BY <2>1 DEF IInv, TypeOK, Locks, Holding
  <2> QED BY <2>1, <2>2 DEF IInv, Reading
<1> QED BY <1>2, <1>3, <1>4, <1>5 DEF Idle

-----------------------------------------------------------------------------
\* A verdict begins with nothing counted.
LEMMA RecordKeeps ==
    ASSUME IInv, NEW t \in Tx, NEW i \in DOMAIN reviews, NEW verdict \in Verdicts,
           Record(t, i, verdict)
    PROVE  IInv'
<1> DEFINE m == [pc |-> "recorded", review |-> i, verdict |-> verdict,
                 project |-> reviews[i].project, target |-> None, counted |-> {}]
<1>1. i \in Nat /\ reviews[i].project \in Projects
  <2>1. i \in Nat /\ reviews[i] \in Review
    BY DEF IInv, TypeOK
  <2> QED BY <2>1 DEF Review
<1>2. m \in Deciding
  BY <1>1 DEF Deciding
<1>3. /\ m.pc = "recorded" /\ m.review = i /\ m.counted = {}
      /\ tx' = [tx EXCEPT ![t] = m]
      /\ UNCHANGED <<status, reviews, audit, approved, finished>>
  BY DEF Record
<1>4. Justified(m)
  BY <1>3 DEF Justified
<1> HIDE DEF m
<1> QED BY <1>2, <1>3, <1>4, OnlyTx DEF Holding, Busy

\* An approval that counts no outstanding review counts the project's reviews, which
\* were then all approved but its own.
LEMMA FollowKeeps == ASSUME IInv, NEW t \in Tx, Follow(t) PROVE IInv'
<1>1. tx[t] \in Deciding /\ tx[t].pc = "recorded" /\ Justified(tx[t])
  BY TxShape DEF IInv, Follow, Decisions, Counting
<1> DEFINE counted == IF Target(tx[t]) = "done" THEN Of(tx[t].project) ELSE {}
           m == [tx[t] EXCEPT !.pc = "counted", !.target = Target(tx[t]), !.counted = counted]
<1>2. Target(tx[t]) \in Status \cup {None}
  BY <1>1 DEF Target, Deciding, Verdicts, Status
<1>3. counted \subseteq Nat
  BY DEF Of, IInv, TypeOK
<1>4. /\ m \in Deciding /\ m.pc = "counted" /\ m.counted = counted
      /\ m.review = tx[t].review /\ m.verdict = tx[t].verdict
  BY <1>1, <1>2, <1>3 DEF Deciding
<1>5. tx' = [tx EXCEPT ![t] = m] /\ UNCHANGED <<status, reviews, audit, approved, finished>>
  BY DEF Follow
<1>6. counted # {} => /\ tx[t].verdict = "approved"
                      /\ Outstanding(tx[t]) = {} /\ counted = Of(tx[t].project)
  <2> SUFFICES ASSUME Target(tx[t]) = "done"
               PROVE  tx[t].verdict = "approved" /\ Outstanding(tx[t]) = {}
    OBVIOUS
  <2>1. tx[t].verdict \in Verdicts /\ None # "done"
    BY <1>1, ReviewAssumption DEF Deciding, Status
  <2> QED BY <2>1 DEF Target, Verdicts
<1>7. counted \ {tx[t].review} \subseteq approved
  BY <1>6 DEF Outstanding, Of, IInv, Counting
<1>8. Justified(m)
  BY <1>1, <1>4, <1>6, <1>7 DEF Justified
<1> HIDE DEF m
<1> QED BY <1>4, <1>5, <1>8, OnlyTx DEF Holding, Busy

\* The update of the project waits until nobody else has its row.
LEMMA MoveKeeps == ASSUME IInv, NEW t \in Tx, MoveProject(t) PROVE IInv'
<1>1. tx[t] \in Deciding /\ tx[t].pc = "counted" /\ Justified(tx[t])
  BY TxShape DEF IInv, MoveProject, Decisions, Counting
<1> DEFINE m == [tx[t] EXCEPT !.pc = "moved"]
<1>2. /\ m \in Deciding /\ m.pc = "moved" /\ m.project = tx[t].project /\ m.counted = tx[t].counted
      /\ m.review = tx[t].review /\ m.verdict = tx[t].verdict
  BY <1>1 DEF Deciding
<1>3. /\ tx' = [tx EXCEPT ![t] = m]
      /\ UNCHANGED <<status, reviews, audit, approved, finished>>
      /\ \A u \in Tx : tx[u].pc \in Holding => tx[u].project # tx[t].project
  BY DEF MoveProject, ProjectLocked, Holding
<1>4. Justified(m)
  BY <1>1, <1>2 DEF Justified
<1> HIDE DEF m
<1> QED BY <1>2, <1>3, <1>4, OnlyTx DEF Busy

\* A submission locks a project that is open.
LEMMA LockToSubmitKeeps ==
    ASSUME IInv, NEW t \in Tx, NEW p \in Projects, LockToSubmit(t, p) PROVE IInv'
<1> DEFINE m == [pc |-> "submitting", project |-> p, before |-> status[p]]
<1>1. m \in Submitting
  BY DEF Submitting, IInv, TypeOK
<1>2. /\ m.pc = "submitting" /\ m.project = p /\ m.before = status[p] /\ status[p] \notin Closed
      /\ tx' = [tx EXCEPT ![t] = m]
      /\ UNCHANGED <<status, reviews, audit, approved, finished>>
      /\ \A u \in Tx : tx[u].pc \in Holding => tx[u].project # p
  BY DEF LockToSubmit, ProjectLocked, Holding
<1> HIDE DEF m
<1> QED BY <1>1, <1>2, OnlyTx DEF Busy, Decisions

\* An edit reads the status under the lock.
LEMMA LockToEditKeeps ==
    ASSUME IInv, NEW t \in Tx, NEW p \in Projects, NEW new \in EditStatuses \cup {None},
           LockToEdit(t, p, new)
    PROVE  IInv'
<1> DEFINE m == [pc |-> "editing", project |-> p, before |-> status[p],
                 new |-> IF new = None THEN status[p] ELSE new]
<1>1. m \in Editing
  BY ReviewAssumption DEF Editing, IInv, TypeOK
<1>2. /\ m.pc = "editing" /\ m.project = p /\ m.before = status[p]
      /\ tx' = [tx EXCEPT ![t] = m]
      /\ UNCHANGED <<status, reviews, audit, approved, finished>>
      /\ \A u \in Tx : tx[u].pc \in Holding => tx[u].project # p
  BY DEF LockToEdit, ProjectLocked, Holding
<1> HIDE DEF m
<1> QED BY <1>1, <1>2, OnlyTx DEF Busy, Decisions

\* A rollback leaves the rows as they were.
LEMMA RollbackKeeps == ASSUME IInv, NEW t \in Tx, Rollback(t) PROVE IInv'
<1>1. /\ tx' = [tx EXCEPT ![t] = Idle] /\ Idle.pc = "idle"
      /\ UNCHANGED <<status, reviews, audit, approved, finished>>
  BY DEF Rollback, Release, Idle
<1> QED BY <1>1, OnlyTx DEF Holding, Decisions

\* The decision's commit approves its own review, which completes what it counted.
LEMMA CommitDecisionKeeps == ASSUME IInv, NEW t \in Tx, CommitDecision(t) PROVE IInv'
<1>1. PICK q \in Deciding : q = tx[t] /\ Justified(q) /\ tx[t].pc \in Decisions
  BY TxShape DEF IInv, CommitDecision, Decisions, Counting
<1>2. PICK row \in Review :
         /\ reviews' = [reviews EXCEPT ![q.review] = row]
         /\ row.project = reviews[q.review].project /\ row.state = q.verdict
  <2> DEFINE m == [reviews[q.review] EXCEPT !.state = q.verdict]
  <2>1. reviews[q.review] \in Review
    BY <1>1 DEF Justified, IInv, TypeOK
  <2>2. m \in Review /\ m.project = reviews[q.review].project /\ m.state = q.verdict
    BY <2>1 DEF Review, Deciding
  <2>3. reviews' = [reviews EXCEPT ![q.review] = m]
    BY <1>1 DEF CommitDecision
  <2> HIDE DEF m
  <2> QED BY <2>2, <2>3
<1>3. /\ reviews' \in Seq(Review) /\ DOMAIN reviews' = DOMAIN reviews
      /\ reviews'[q.review] = row
      /\ \A i \in DOMAIN reviews \ {q.review} : reviews'[i] = reviews[i]
  BY <1>1, <1>2 DEF IInv, TypeOK, Justified
<1>4. /\ Release(t)
      /\ approved' = IF q.verdict = "approved" THEN approved \cup {q.review} ELSE approved
      /\ q.target # None =>
            /\ q.pc \in Holding
            /\ status' = [status EXCEPT ![q.project] = q.target]
            /\ finished' = [finished EXCEPT ![q.project] = q.counted]
            /\ Log("review_transition", q.project, None, q.target)
      /\ q.target = None => UNCHANGED <<status, audit, finished>>
  BY <1>1 DEF CommitDecision, Holding
<1>5. q.project \in Projects /\ (q.target # None => q.target \in Status)
  BY DEF Deciding
<1>6. approved \subseteq approved' /\ approved' \subseteq DOMAIN reviews
      /\ q.counted \subseteq approved'
  BY <1>1, <1>4 DEF Justified, IInv, TypeOK
<1>7. /\ Locks' /\ Reading' /\ tx' \in [Tx -> {Idle} \cup Busy]
      /\ \A u \in Tx : tx'[u].pc # "idle" => u # t /\ tx'[u] = tx[u]
  <2>1. CASE q.target = None
    BY <2>1, <1>4, Ended DEF Status
  <2>2. CASE q.target # None
    BY <2>2, <1>1, <1>4, <1>5, Ended
  <2> QED BY <2>1, <2>2
<1>8. audit' \in Seq(AuditRow) /\ History'
  <2>1. CASE q.target = None
    BY <2>1, <1>4 DEF IInv, TypeOK, History, AuditIsHistory, OpenedSince,
                      ReopenedBetweenSubmissions, RowsOf
  <2>2. CASE q.target # None
    BY <2>2, <1>4, <1>5, Logged
  <2> QED BY <2>1, <2>2
<1>9. /\ status' \in [Projects -> Status]
      /\ finished' \in [Projects -> SUBSET DOMAIN reviews]
      /\ FinishedByAll'
  <2>1. CASE q.target = None
    BY <2>1, <1>4, <1>6 DEF IInv, TypeOK, FinishedByAll
  <2>2. CASE q.target # None
    BY <2>2, <1>4, <1>5, <1>6 DEF IInv, TypeOK, FinishedByAll
  <2> QED BY <2>1, <2>2
<1>10. TypeOK'
  BY <1>3, <1>6, <1>7, <1>8, <1>9 DEF TypeOK, Busy
<1>11. Counting'
  <2>1. \A i \in DOMAIN reviews' : reviews'[i].state = "approved" => i \in approved'
    BY <1>2, <1>3, <1>4, <1>6 DEF IInv, Counting
  <2>2. ASSUME NEW u \in Tx, tx'[u].pc \in Decisions
        PROVE  /\ tx'[u].review \in DOMAIN reviews'
               /\ tx'[u].counted \ {tx'[u].review} \subseteq approved'
               /\ tx'[u].counted # {} => tx'[u].verdict = "approved"
    <3>1. tx'[u] = tx[u]
      BY <2>2, <1>7 DEF Decisions
    <3>2. Justified(tx[u])
      BY <3>1, <2>2 DEF IInv, Counting
    <3> QED BY <3>1, <3>2, <1>3, <1>6 DEF Justified
  <2> QED BY <2>1, <2>2 DEF Counting, Justified
<1> QED BY <1>7, <1>8, <1>9, <1>10, <1>11 DEF IInv

\* Reviews that are appended are pending, and disturb no count.
LEMMA Appended ==
    ASSUME IInv, NEW s \in Seq(Review), \A i \in DOMAIN s : s[i].state = "pending",
           reviews' = reviews \o s, UNCHANGED approved,
           \A u \in Tx : tx'[u].pc # "idle" => tx'[u] = tx[u]
    PROVE  reviews' \in Seq(Review) /\ DOMAIN reviews \subseteq DOMAIN reviews' /\ Counting'
<1>1. /\ reviews' \in Seq(Review) /\ DOMAIN reviews \subseteq DOMAIN reviews'
      /\ \A i \in DOMAIN reviews : reviews'[i] = reviews[i]
      /\ \A i \in DOMAIN reviews' \ DOMAIN reviews : reviews'[i].state = "pending"
  BY DEF IInv, TypeOK
<1>2. \A i \in DOMAIN reviews' : reviews'[i].state = "approved" => i \in approved'
  BY <1>1 DEF IInv, Counting
<1>3. ASSUME NEW u \in Tx, tx'[u].pc \in Decisions
      PROVE  /\ tx'[u].review \in DOMAIN reviews'
             /\ tx'[u].counted \ {tx'[u].review} \subseteq approved'
             /\ tx'[u].counted # {} => tx'[u].verdict = "approved"
  <2>1. tx'[u] = tx[u]
    BY <1>3 DEF Decisions
  <2>2. Justified(tx[u])
    BY <2>1, <1>3 DEF IInv, Counting
  <2> QED BY <2>1, <2>2, <1>1 DEF Justified
<1> QED BY <1>1, <1>2, <1>3 DEF Counting, Justified

\* A submission logs the status that it read and appends pending reviews.
LEMMA CommitSubmitKeeps == ASSUME IInv, NEW t \in Tx, CommitSubmit(t) PROVE IInv'
<1>1. PICK q \in Submitting :
         /\ q = tx[t] /\ tx[t].pc = "submitting" /\ q.before = status[q.project]
         /\ q.before \notin Closed
  BY TxShape DEF IInv, CommitSubmit, Reading
<1>2. PICK p \in Projects : p = q.project
  BY DEF Submitting
<1>3. PICK after \in {"done", "review"} :
         /\ status' = [status EXCEPT ![p] = after]
         /\ Log("submit_review", p, q.before, after)
  BY <1>1, <1>2 DEF CommitSubmit
<1>4. /\ Release(t) /\ UNCHANGED approved
      /\ finished' = [finished EXCEPT ![p] = {}]
  BY <1>1, <1>2 DEF CommitSubmit
<1>5. PICK n \in Nat : n = Cardinality(Reviewers[p])
  BY FS_Subset, FS_CardinalityType, ReviewAssumption
<1>6. PICK s \in Seq(Review) :
         /\ reviews' = reviews \o s /\ \A i \in DOMAIN s : s[i].state = "pending"
  <2>1. PICK order \in [1..n -> Reviewers[p]] :
           reviews' = reviews \o
               [i \in 1..n |-> [project |-> p, reviewer |-> order[i], state |-> "pending"]]
    BY <1>1, <1>2, <1>5 DEF CommitSubmit
  <2> DEFINE s == [i \in 1..n |-> [project |-> p, reviewer |-> order[i], state |-> "pending"]]
  <2>2. \A i \in 1..n : s[i] \in Review /\ s[i].state = "pending"
    BY ReviewAssumption DEF Review
  <2>3. s \in Seq(Review) /\ DOMAIN s = 1..n
    BY <2>2
  <2> QED BY <2>1, <2>2, <2>3
<1>7. /\ Locks' /\ Reading' /\ tx' \in [Tx -> {Idle} \cup Busy]
      /\ \A u \in Tx : tx'[u].pc # "idle" => u # t /\ tx'[u] = tx[u]
  BY <1>1, <1>2, <1>3, <1>4, Ended DEF Holding, Status
<1>8. audit' \in Seq(AuditRow) /\ History'
  BY <1>1, <1>2, <1>3, Logged DEF Submitting, Status, Closed
<1>9. reviews' \in Seq(Review) /\ DOMAIN reviews \subseteq DOMAIN reviews' /\ Counting'
  BY <1>4, <1>6, <1>7, Appended
<1>10. FinishedByAll' /\ finished' \in [Projects -> SUBSET DOMAIN reviews]
  BY <1>4 DEF IInv, TypeOK, FinishedByAll
<1>11. status' \in [Projects -> Status]
  BY <1>3 DEF IInv, TypeOK, Status
<1>12. TypeOK'
  BY <1>4, <1>7, <1>8, <1>9, <1>10, <1>11 DEF IInv, TypeOK, Busy
<1> QED BY <1>7, <1>8, <1>9, <1>10, <1>12 DEF IInv

\* An edit logs the status that it read and the one it sets.
LEMMA CommitEditKeeps == ASSUME IInv, NEW t \in Tx, CommitEdit(t) PROVE IInv'
<1>1. PICK q \in Editing :
         /\ q = tx[t] /\ tx[t].pc = "editing" /\ q.before = status[q.project]
         /\ q.new \in Status
  BY TxShape DEF IInv, CommitEdit, Reading
<1>2. PICK p \in Projects : p = q.project
  BY DEF Editing
<1>3. /\ status' = [status EXCEPT ![p] = q.new]
      /\ Log("update", p, q.before, q.new)
      /\ Release(t) /\ UNCHANGED <<reviews, approved>>
      /\ finished' = IF q.new = q.before THEN finished ELSE [finished EXCEPT ![p] = {}]
  BY <1>1, <1>2 DEF CommitEdit
<1>4. /\ Locks' /\ Reading' /\ tx' \in [Tx -> {Idle} \cup Busy]
      /\ \A u \in Tx : tx'[u].pc # "idle" => u # t /\ tx'[u] = tx[u]
  BY <1>1, <1>2, <1>3, Ended DEF Holding
<1>5. audit' \in Seq(AuditRow) /\ History'
  BY <1>1, <1>2, <1>3, Logged DEF Editing
<1>6. FinishedByAll' /\ finished' \in [Projects -> SUBSET DOMAIN reviews]
  BY <1>3 DEF IInv, TypeOK, FinishedByAll
<1>7. TypeOK'
  BY <1>1, <1>3, <1>4, <1>5, <1>6 DEF IInv, TypeOK, Busy
<1>8. Counting'
  <2>1. ASSUME NEW u \in Tx, tx'[u].pc \in Decisions PROVE Justified(tx'[u])
    BY <2>1, <1>4 DEF Decisions, IInv, Counting
  <2> QED BY <2>1, <1>3 DEF IInv, Counting, Justified
<1> QED BY <1>4, <1>5, <1>6, <1>7, <1>8 DEF IInv

\* A review that is asked for by hand is pending.
LEMMA CreateReviewKeeps ==
    ASSUME IInv, NEW p \in Projects, NEW u \in Users, CreateReview(p, u) PROVE IInv'
<1> DEFINE m == [project |-> p, reviewer |-> u, state |-> "pending"]
<1>1. m \in Review /\ m.state = "pending"
  BY DEF Review
<1>2. reviews' = Append(reviews, m) /\ UNCHANGED <<status, audit, tx, approved, finished>>
  BY DEF CreateReview
<1> HIDE DEF m
<1>3. PICK s \in Seq(Review) : s = <<m>> /\ \A i \in DOMAIN s : s[i].state = "pending"
  <2>1. <<m>> \in Seq(Review) /\ \A i \in DOMAIN <<m>> : <<m>>[i] = m
    BY <1>1
  <2> QED BY <2>1, <1>1
<1>4. reviews' = reviews \o s
  BY <1>1, <1>2, <1>3 DEF IInv, TypeOK
<1>5. reviews' \in Seq(Review) /\ DOMAIN reviews \subseteq DOMAIN reviews' /\ Counting'
  BY <1>2, <1>3, <1>4, Appended
<1>6. TypeOK'
  BY <1>2, <1>5 DEF IInv, TypeOK
<1>7. Locks' /\ Reading' /\ FinishedByAll' /\ History'
  BY <1>2 DEF IInv, Locks, Reading, FinishedByAll, History, AuditIsHistory, OpenedSince,
              ReopenedBetweenSubmissions, RowsOf
<1> QED BY <1>5, <1>6, <1>7 DEF IInv

-----------------------------------------------------------------------------
\* Every step keeps the invariant.
LEMMA NextIInv == IInv /\ [Next]_vars => IInv'
<1> SUFFICES ASSUME IInv, [Next]_vars PROVE IInv'
  OBVIOUS
<1>1. CASE UNCHANGED vars
  BY <1>1 DEF vars, IInv, TypeOK, Locks, Reading, Counting, Justified, FinishedByAll, History,
              AuditIsHistory, OpenedSince, ReopenedBetweenSubmissions, RowsOf
<1>2. CASE Next
  BY <1>2, RecordKeeps, FollowKeeps, MoveKeeps, CommitDecisionKeeps, LockToSubmitKeeps,
     CommitSubmitKeeps, LockToEditKeeps, CommitEditKeeps, RollbackKeeps, CreateReviewKeeps
     DEF Next
<1> QED BY <1>1, <1>2

\* The invariant holds in every reachable state.
THEOREM Invariance == Spec => []IInv
BY InitIInv, NextIInv, PTL DEF Spec

\* However many verdicts race, a project is finished only by reviews that were approved.
THEOREM ApprovalsFinish == Spec => []FinishedByAll
<1>1. IInv => FinishedByAll
  BY DEF IInv
<1> QED BY <1>1, Invariance, PTL

\* No edit and no submission overwrites a status that it has not seen, and the last row of
\* the log is the status.  A decision logs no status that it found: it moves the project
\* from whatever it is, and what it leaves is what the next row must have found.
THEOREM NoLostUpdate == Spec => []AuditIsHistory
<1>1. IInv => AuditIsHistory
  BY DEF IInv, History
<1> QED BY <1>1, Invariance, PTL

\* A project is not submitted again before something opened it.
THEOREM OneSubmissionPerOpening == Spec => []ReopenedBetweenSubmissions
<1>1. IInv => ReopenedBetweenSubmissions
  BY DEF IInv, History
<1> QED BY <1>1, Invariance, PTL
=============================================================================
