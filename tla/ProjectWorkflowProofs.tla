----------------------- MODULE ProjectWorkflowProofs -----------------------
(***************************************************************************)
(* The safety properties of ProjectWorkflow, for any number of projects,   *)
(* users, keys and concurrent requests.                                    *)
(***************************************************************************)
EXTENDS ProjectWorkflow, TLAPS

-----------------------------------------------------------------------------
(* The inductive invariant *)

\* A row lock has one holder, and what its holder saw stays true.
LockInv ==
    /\ \A r, s \in Requests :
          (/\ InTransaction(r) /\ req[r].hit
           /\ InTransaction(s) /\ req[s].hit
           /\ req[r].project = req[s].project) => r = s
    /\ \A r \in Requests : (InTransaction(r) /\ req[r].hit) =>
          status[req[r].project] \in Source(req[r].cmd)

\* What a request carries from step to step.
RequestInv ==
    \A r \in Requests : req[r].pc # "idle" =>
        /\ req[r].cmd = "reopen" => req[r].reviewers = {}
        /\ req[r].pc = "admitted" => req[r].cmd # "reopen"
        /\ (req[r].pc = "written" /\ req[r].hit) => req[r].after = Target(req[r])

\* The log and the stored keys name the same commands.
LogInv ==
    /\ \A row1, row2 \in keys :
          (row1.user = row2.user /\ row1.key = row2.key) => row1 = row2
    /\ \A i \in DOMAIN audit : audit[i].key # NoKey =>
          \E row \in keys : row.user = audit[i].actor /\ row.key = audit[i].key

\* The causes of the review rows and the last moves are positions of the log.
CauseInv ==
    /\ \A p \in Projects : lastMove[p] \in 0..Len(audit)
    /\ \A rv \in reviews : rv.cause \in 1..Len(audit)

IInv ==
    /\ TypeOK
    /\ LockInv
    /\ RequestInv
    /\ LogInv
    /\ CauseInv
    /\ OncePerKey
    /\ AllOrNothing
    /\ StatusMatchesReviews

-----------------------------------------------------------------------------
(* Lemmas *)

\* The target of a busy request is a status its command may lead to.
LEMMA TargetType ==
    ASSUME NEW q \in Busy, q.cmd = "reopen" => q.reviewers = {}
    PROVE  Target(q) \in Targets(q.cmd) /\ Target(q) \in Status
BY DEF Target, Targets, Busy, Command, Status

\* A request that is not idle is a busy record.
LEMMA BusyRequest ==
    ASSUME TypeOK, NEW r \in Requests, req[r].pc # "idle"
    PROVE  req[r] \in Busy
<1>1. req[r] \in {Idle} \cup Busy
  BY DEF TypeOK
<1>2. Idle.pc = "idle"
  BY DEF Idle
<1>3. QED
  BY <1>1, <1>2

\* Appending one row keeps the log typed and its rows where they are.
LEMMA AppendRow ==
    ASSUME NEW log \in Seq(AuditRow), NEW row \in AuditRow
    PROVE  /\ Append(log, row) \in Seq(AuditRow)
           /\ DOMAIN Append(log, row) = 1..(Len(log) + 1)
           /\ DOMAIN log = 1..Len(log)
           /\ Len(Append(log, row)) = Len(log) + 1
           /\ Len(log) \in Nat
           /\ \A i \in 1..Len(log) : Append(log, row)[i] = log[i]
           /\ Append(log, row)[Len(log) + 1] = row
OBVIOUS

\* The initial states satisfy the invariant.
LEMMA InitIInv == Init => IInv
<1> SUFFICES ASSUME Init PROVE IInv
  OBVIOUS
<1> USE ConstantsAssumption DEF Init
<1>1. TypeOK
  <2>1. audit \in Seq(AuditRow)
    OBVIOUS
  <2>2. QED
    BY <2>1 DEF TypeOK
<1>2. DOMAIN audit = {} /\ Len(audit) = 0
  OBVIOUS
<1>3. \A r \in Requests : req[r].pc = "idle"
  BY DEF Idle
<1>4. LockInv /\ RequestInv
  BY <1>3 DEF LockInv, RequestInv, InTransaction
<1>5. LogInv /\ CauseInv /\ OncePerKey /\ AllOrNothing /\ StatusMatchesReviews
  BY <1>2 DEF LogInv, CauseInv, OncePerKey, AllOrNothing, StatusMatchesReviews
<1>6. QED
  BY <1>1, <1>4, <1>5 DEF IInv

-----------------------------------------------------------------------------
(* The steps preserve the invariant *)

\* What does not mention the requests is kept by a step that changes only them.
LEMMA RowsUnchanged ==
    ASSUME IInv, UNCHANGED <<status, reviews, keys, audit, lastMove>>
    PROVE  /\ LogInv' /\ CauseInv' /\ OncePerKey' /\ AllOrNothing'
           /\ StatusMatchesReviews'
BY DEF IInv, LogInv, CauseInv, OncePerKey, AllOrNothing, StatusMatchesReviews

\* A step of a request that only moves its own record keeps the invariant if the
\* new record is typed, consistent, and does not newly claim a row lock.
LEMMA RequestStep ==
    ASSUME IInv, NEW r \in Requests, NEW q \in {Idle} \cup Busy,
           req' = [req EXCEPT ![r] = q],
           UNCHANGED <<status, people, reviews, keys, audit, lastMove>>,
           q.pc # "idle" =>
              /\ q.cmd = "reopen" => q.reviewers = {}
              /\ q.pc = "admitted" => q.cmd # "reopen"
              /\ (q.pc = "written" /\ q.hit) => q.after = Target(q),
           (q.pc \in {"updated", "written"} /\ q.hit) =>
              /\ q.project \in Projects
              /\ status[q.project] \in Source(q.cmd)
              /\ \A s \in Requests \ {r} :
                    ~ (InTransaction(s) /\ req[s].hit /\ req[s].project = q.project)
    PROVE  IInv'
<1>1. TypeOK'
  BY DEF IInv, TypeOK
<1>2. \A s \in Requests : req'[s] = IF s = r THEN q ELSE req[s]
  BY DEF IInv, TypeOK
<1>3. LockInv'
  BY <1>2 DEF IInv, LockInv, InTransaction
<1>4. RequestInv'
  BY <1>2 DEF IInv, RequestInv, Target
<1>5. QED
  BY <1>1, <1>3, <1>4, RowsUnchanged DEF IInv

\* A request that arrives holds nothing.
LEMMA ArriveIInv ==
    ASSUME IInv, NEW r \in Requests, NEW u \in Users, NEW k \in Keys,
           NEW c \in Command, NEW p \in Projects, Arrive(r, u, k, c, p)
    PROVE  IInv'
<1> DEFINE q == [pc |-> "looked", user |-> u, key |-> k, cmd |-> c, project |-> p,
                 reviewers |-> {}, hit |-> FALSE, after |-> "active"]
<1>1. q \in Busy
  BY DEF Busy, Status
<1>2. QED
  BY <1>1, RequestStep DEF Arrive

\* Giving up, with or without a rollback, leaves nothing behind.
LEMMA ReleaseIInv ==
    ASSUME IInv, NEW r \in Requests,
           Refuse(r) \/ FailDuplicateKey(r) \/ Crash(r)
    PROVE  IInv'
<1>1. Release(r) /\ UNCHANGED <<status, people, reviews, keys, audit, lastMove>>
  BY DEF Refuse, FailDuplicateKey, Crash
<1>2. Idle.pc = "idle"
  BY DEF Idle
<1>3. QED
  BY <1>1, <1>2, RequestStep DEF Release

\* An admitted request holds nothing yet; what it goes on to depends on its command.
LEMMA AdmitIInv ==
    ASSUME IInv, NEW r \in Requests, Admit(r)
    PROVE  IInv'
<1> DEFINE q == [req[r] EXCEPT !.pc = IF req[r].cmd = "reopen" THEN "ready"
                                                              ELSE "admitted"]
<1>1. req[r] \in Busy
  BY BusyRequest DEF IInv, Admit
<1>2. q \in Busy /\ q.pc \in {"ready", "admitted"}
      /\ q.cmd = req[r].cmd /\ q.reviewers = req[r].reviewers
  BY <1>1 DEF Busy
<1>3. /\ q.cmd = "reopen" => q.reviewers = {}
      /\ q.pc = "admitted" => q.cmd # "reopen"
  BY <1>2 DEF IInv, RequestInv, Admit
<1>4. req' = [req EXCEPT ![r] = q]
  BY DEF Admit, IInv, TypeOK
<1> HIDE DEF q
<1>5. QED
  BY <1>2, <1>3, <1>4, RequestStep DEF Admit

\* The reviewers that are read decide the status that will be set.
LEMMA ReadReviewersIInv ==
    ASSUME IInv, NEW r \in Requests, ReadReviewers(r)
    PROVE  IInv'
<1> DEFINE q == [req[r] EXCEPT !.pc = "ready",
                               !.reviewers = people[req[r].project].reviewer]
<1>1. req[r] \in Busy
  BY BusyRequest DEF IInv, ReadReviewers
<1>2. people[req[r].project].reviewer \in SUBSET Users
  BY <1>1 DEF IInv, TypeOK, People, Busy
<1>3. q \in Busy /\ q.pc = "ready" /\ q.cmd = req[r].cmd
  BY <1>1, <1>2 DEF Busy
<1>4. q.cmd # "reopen"
  BY <1>3 DEF ReadReviewers, IInv, RequestInv
<1>5. req' = [req EXCEPT ![r] = q]
  BY DEF ReadReviewers, IInv, TypeOK
<1> HIDE DEF q
<1>6. QED
  BY <1>3, <1>4, <1>5, RequestStep DEF ReadReviewers

\* The UPDATE takes the lock only if it matches, and nobody else holds it.
LEMMA UpdateIInv ==
    ASSUME IInv, NEW r \in Requests, Update(r)
    PROVE  IInv'
<1> DEFINE h == status[req[r].project] \in Source(req[r].cmd)
           q == [req[r] EXCEPT !.pc = "updated", !.hit = h]
<1>1. h \in BOOLEAN
  OBVIOUS
<1>2. h => status[req[r].project] \in Source(req[r].cmd)
  OBVIOUS
<1>3. req' = [req EXCEPT ![r] = q]
  BY DEF Update, IInv, TypeOK
<1> HIDE DEF h
<1>4. req[r] \in Busy
  BY BusyRequest DEF IInv, Update
<1>5. q \in Busy /\ q.pc = "updated" /\ q.project = req[r].project
      /\ q.cmd = req[r].cmd /\ q.reviewers = req[r].reviewers
      /\ q.hit = h
  BY <1>1, <1>4 DEF Busy
<1>6. q.cmd = "reopen" => q.reviewers = {}
  BY <1>5 DEF IInv, RequestInv, Update
<1>7. q.hit => status[q.project] \in Source(q.cmd)
  BY <1>2, <1>5
<1>8. q.project \in Projects
  BY <1>4, <1>5 DEF Busy
<1>9. \A s \in Requests \ {r} :
         ~ (InTransaction(s) /\ req[s].hit /\ req[s].project = q.project)
  BY <1>5 DEF Update, Locked
<1> HIDE DEF q
<1>10. QED
  BY <1>3, <1>5, <1>6, <1>7, <1>8, <1>9, RequestStep DEF Update

\* The answer is the status after the update, whether or not it matched a row.
LEMMA WriteRowsIInv ==
    ASSUME IInv, NEW r \in Requests, WriteRows(r)
    PROVE  IInv'
<1> DEFINE a == IF req[r].hit THEN Target(req[r]) ELSE status[req[r].project]
           q == [req[r] EXCEPT !.pc = "written", !.after = a]
<1>1. req[r] \in Busy
  BY BusyRequest DEF IInv, WriteRows
<1>2. Target(req[r]) \in Status
  BY <1>1, TargetType DEF IInv, RequestInv, WriteRows
<1>3. a \in Status
  BY <1>1, <1>2 DEF IInv, TypeOK, Busy
<1>4. q \in Busy /\ q.pc = "written" /\ q.project = req[r].project
      /\ q.cmd = req[r].cmd /\ q.reviewers = req[r].reviewers
      /\ q.hit = req[r].hit /\ q.after = a
  BY <1>1, <1>3 DEF Busy
<1>5. Target(q) = Target(req[r])
  BY <1>4 DEF Target
<1>6. q.cmd = "reopen" => q.reviewers = {}
  BY <1>4 DEF IInv, RequestInv, WriteRows
<1>7. req' = [req EXCEPT ![r] = q]
  BY DEF WriteRows, IInv, TypeOK
<1>8. q.hit =>
         /\ q.project \in Projects
         /\ status[q.project] \in Source(q.cmd)
         /\ \A s \in Requests \ {r} :
               ~ (InTransaction(s) /\ req[s].hit /\ req[s].project = q.project)
  BY <1>1, <1>4 DEF IInv, LockInv, InTransaction, WriteRows, Busy
<1>9. q.hit => q.after = Target(q)
  BY <1>4, <1>5
<1> HIDE DEF q
<1>10. QED
  BY <1>4, <1>6, <1>7, <1>8, <1>9, RequestStep DEF WriteRows

\* The commit is where everything but the people changes.  What it writes is fixed
\* here once: its position n in the log, its rows, and the status it leaves.
LEMMA CommitFacts ==
    ASSUME IInv, NEW r \in Requests, Commit(r)
    PROVE  LET q == req[r]
               n == Len(audit) + 1
           IN  /\ q \in Busy
               /\ q.hit =>
                    /\ status[q.project] \in Source(q.cmd)
                    /\ Target(q) \in Targets(q.cmd)
                    /\ Target(q) \in Status
                    /\ q.after = Target(q)
                    /\ status' = [status EXCEPT ![q.project] = Target(q)]
                    /\ lastMove' = [lastMove EXCEPT ![q.project] = n]
               /\ ~ q.hit => UNCHANGED <<status, lastMove>>
               /\ audit' \in Seq(AuditRow)
               /\ DOMAIN audit' = 1..n /\ Len(audit') = n /\ n \in Nat
               /\ DOMAIN audit = 1..Len(audit) /\ Len(audit) \in Nat
               /\ \A i \in 1..Len(audit) : audit'[i] = audit[i]
               /\ audit'[n].action = q.cmd /\ audit'[n].actor = q.user
               /\ audit'[n].key = q.key /\ audit'[n].project = q.project
               /\ audit'[n].after = q.after
               /\ \A s \in Requests : req'[s] = IF s = r THEN Idle ELSE req[s]
<1> DEFINE q == req[r]
           n == Len(audit) + 1
           row == [action |-> q.cmd, actor |-> q.user, key |-> q.key,
                   project |-> q.project, after |-> q.after]
<1>1. q \in Busy
  BY BusyRequest DEF IInv, Commit
<1>2. row \in AuditRow
  BY <1>1 DEF AuditRow, Busy
<1>3. audit \in Seq(AuditRow)
  BY DEF IInv, TypeOK
<1>4. audit' = Append(audit, row)
  BY DEF Commit
<1>5. /\ audit' \in Seq(AuditRow)
      /\ DOMAIN audit' = 1..n /\ Len(audit') = n /\ n \in Nat
      /\ DOMAIN audit = 1..Len(audit) /\ Len(audit) \in Nat
      /\ \A i \in 1..Len(audit) : audit'[i] = audit[i]
      /\ audit'[n] = row
  BY <1>2, <1>3, <1>4, AppendRow
<1>6. \A s \in Requests : req'[s] = IF s = r THEN Idle ELSE req[s]
  BY DEF IInv, TypeOK, Commit, Release
<1>7. Target(q) \in Targets(q.cmd) /\ Target(q) \in Status
  BY <1>1, TargetType DEF IInv, RequestInv, Commit
<1>8. q.hit => status[q.project] \in Source(q.cmd) /\ q.after = Target(q)
  BY DEF IInv, LockInv, RequestInv, InTransaction, Commit
<1>9. /\ q.hit => /\ status' = [status EXCEPT ![q.project] = Target(q)]
                  /\ lastMove' = [lastMove EXCEPT ![q.project] = n]
      /\ ~ q.hit => UNCHANGED <<status, lastMove>>
  BY DEF Commit
<1>10. QED
  BY <1>1, <1>5, <1>6, <1>7, <1>8, <1>9

\* The commit publishes the status, the reviews, the log and the key together.
LEMMA CommitIInv ==
    ASSUME IInv, NEW r \in Requests, Commit(r)
    PROVE  IInv'
<1> DEFINE q == req[r]
           n == Len(audit) + 1
           krow == [user |-> q.user, key |-> q.key, cmd |-> q.cmd,
                    project |-> q.project, snapshot |-> q.after, live |-> TRUE]
<1>1. /\ q \in Busy
      /\ q.hit => /\ status[q.project] \in Source(q.cmd)
                  /\ Target(q) \in Targets(q.cmd)
                  /\ Target(q) \in Status
                  /\ q.after = Target(q)
                  /\ status' = [status EXCEPT ![q.project] = Target(q)]
                  /\ lastMove' = [lastMove EXCEPT ![q.project] = n]
      /\ ~ q.hit => UNCHANGED <<status, lastMove>>
  BY CommitFacts
<1>2. /\ audit' \in Seq(AuditRow)
      /\ DOMAIN audit' = 1..n /\ Len(audit') = n /\ n \in Nat
      /\ DOMAIN audit = 1..Len(audit) /\ Len(audit) \in Nat
      /\ \A i \in 1..Len(audit) : audit'[i] = audit[i]
  BY CommitFacts
<1>3. /\ audit'[n].action = q.cmd /\ audit'[n].actor = q.user
      /\ audit'[n].key = q.key /\ audit'[n].project = q.project
      /\ audit'[n].after = q.after
  BY CommitFacts
<1>4. \A s \in Requests : req'[s] = IF s = r THEN Idle ELSE req[s]
  BY CommitFacts
<1>5. keys' = keys \cup {krow} /\ krow \in KeyRow
  BY <1>1 DEF Commit, KeyRow, Busy
<1>6. Stored(q.user, q.key) = {}
  BY DEF Commit
<1>7. reviews' = reviews \cup ReviewRows(q, n) /\ people' = people
  BY DEF Commit
<1>8. Idle.pc = "idle"
  BY DEF Idle
<1>9. q.project \in Projects /\ q.key \in Keys /\ q.user \in Users
      /\ q.hit \in BOOLEAN /\ q.cmd \in Command
  BY <1>1 DEF Busy
<1>10. ReviewRows(q, n) \subseteq Review
  BY <1>1, <1>2, <1>9 DEF ReviewRows, Review, Busy
<1>11. TypeOK'
  BY <1>1, <1>2, <1>4, <1>5, <1>7, <1>9, <1>10 DEF IInv, TypeOK, Commit, Release
<1>12. LockInv'
  <2>1. \A s \in Requests : InTransaction(s)' => s # r /\ InTransaction(s) /\ req'[s] = req[s]
    BY <1>4, <1>8 DEF InTransaction
  <2>2. \A s \in Requests : (InTransaction(s)' /\ req[s].hit) =>
            status'[req[s].project] = status[req[s].project]
    BY <2>1, <1>1, <1>9 DEF IInv, LockInv, InTransaction, Commit, TypeOK
  <2>3. QED
    BY <2>1, <2>2 DEF IInv, LockInv
<1>13. RequestInv'
  BY <1>4, <1>8 DEF IInv, RequestInv, Target
<1>14. LogInv'
  <2>1. krow \in keys' /\ krow.user = q.user /\ krow.key = q.key
    BY <1>5
  <2>2. \A k \in keys : ~ (k.user = q.user /\ k.key = q.key)
    BY <1>6 DEF Stored
  <2>3. \A k1, k2 \in keys' : (k1.user = k2.user /\ k1.key = k2.key) => k1 = k2
    <3> HIDE DEF krow, q
    <3>1. QED
      BY <2>1, <2>2, <1>5 DEF IInv, LogInv
  <2>4. ASSUME NEW i \in DOMAIN audit', audit'[i].key # NoKey
        PROVE  \E k \in keys' : k.user = audit'[i].actor /\ k.key = audit'[i].key
    <3>1. CASE i = n
      BY <3>1, <2>1, <1>3
    <3>2. CASE i # n
      <4>1. i \in 1..Len(audit) /\ i \in DOMAIN audit /\ audit'[i] = audit[i]
        BY <3>2, <1>2
      <4>2. QED
        BY <4>1, <2>4, <1>5 DEF IInv, LogInv
    <3>3. QED
      BY <3>1, <3>2
  <2>5. QED
    BY <2>3, <2>4 DEF LogInv
<1>15. CauseInv'
  <2>1. \A rv \in reviews' : rv.cause \in 1..Len(audit) \/ rv.cause = n
    BY <1>7 DEF IInv, CauseInv, ReviewRows
  <2>2. \A p \in Projects : lastMove'[p] = n \/ lastMove'[p] = lastMove[p]
    BY <1>1, <1>9 DEF IInv, TypeOK
  <2>3. \A p \in Projects : lastMove[p] \in 0..Len(audit)
    BY DEF IInv, CauseInv
  <2>4. Len(audit') = n /\ n = Len(audit) + 1 /\ Len(audit) \in Nat
    BY <1>2
  <2> HIDE DEF n
  <2>5. QED
    BY <2>1, <2>2, <2>3, <2>4 DEF CauseInv
<1>16. OncePerKey'
  <2>1. \A i \in 1..Len(audit) : ~ (audit[i].key = q.key /\ audit[i].actor = q.user)
    BY <1>2, <1>6, <1>9, ConstantsAssumption DEF IInv, LogInv, Stored
  <2>2. QED
    BY <2>1, <1>2, <1>3 DEF IInv, OncePerKey
<1>17. AllOrNothing'
  <2>1. \A rv \in ReviewRows(q, n) :
            rv.cause = n /\ rv.project = q.project /\ q.cmd = "submit_review"
    BY <1>9 DEF ReviewRows, IInv, RequestInv, Commit, Command
  <2>2. \A rv \in reviews : rv.cause \in 1..Len(audit)
    BY DEF IInv, CauseInv
  <2>3. QED
    BY <2>1, <2>2, <1>2, <1>3, <1>5, <1>7 DEF IInv, AllOrNothing
<1>18. StatusMatchesReviews'
  <2>1. \A rv \in reviews : rv.cause # n
    BY <1>2 DEF IInv, CauseInv
  <2>2. \A p \in Projects : lastMove[p] # n
    BY <1>2 DEF IInv, CauseInv
  <2>3. \A rv \in ReviewRows(q, n) : rv.cause = n
    BY DEF ReviewRows
  <2>4. Target(q) = "review" => ReviewRows(q, n) # {}
    BY DEF Target, ReviewRows
  <2>5. Target(q) = "done" => ReviewRows(q, n) = {}
    BY DEF Target, ReviewRows
  <2>6. \A p \in Projects :
           \/ q.hit /\ p = q.project /\ lastMove'[p] = n /\ status'[p] = Target(q)
           \/ lastMove'[p] = lastMove[p] /\ status'[p] = status[p]
    BY <1>1, <1>9 DEF IInv, TypeOK
  <2>7. QED
    BY <2>1, <2>2, <2>3, <2>4, <2>5, <2>6, <1>7 DEF IInv, StatusMatchesReviews
<1>19. QED
  BY <1>11, <1>12, <1>13, <1>14, <1>15, <1>16, <1>17, <1>18 DEF IInv

\* An update of the project appends a row without a key and touches the people.
LEMMA UpdateProjectIInv ==
    ASSUME IInv, NEW u \in Users, NEW p \in Projects, UpdateProject(u, p)
    PROVE  IInv'
<1> DEFINE n == Len(audit) + 1
           row == [action |-> "update", actor |-> u, key |-> NoKey,
                   project |-> p, after |-> status[p]]
<1>1. row \in AuditRow
  BY DEF AuditRow, IInv, TypeOK
<1>2. audit' = Append(audit, row) /\ audit \in Seq(AuditRow)
  BY DEF UpdateProject, IInv, TypeOK
<1>3. /\ audit' \in Seq(AuditRow)
      /\ DOMAIN audit' = 1..n /\ Len(audit') = n /\ n \in Nat
      /\ DOMAIN audit = 1..Len(audit) /\ Len(audit) \in Nat
      /\ \A i \in 1..Len(audit) : audit'[i] = audit[i]
      /\ audit'[n] = row
  BY <1>1, <1>2, AppendRow
<1>4. audit'[n].key = NoKey /\ audit'[n].action = "update"
  BY <1>3
<1> HIDE DEF row
<1>5. UNCHANGED <<status, reviews, keys, req, lastMove>>
  BY DEF UpdateProject
<1>6. people' \in [Projects -> People]
  BY ConstantsAssumption DEF UpdateProject, IInv, TypeOK
<1>7. TypeOK'
  BY <1>3, <1>5, <1>6 DEF IInv, TypeOK
<1>8. LockInv' /\ RequestInv'
  BY <1>5 DEF IInv, LockInv, RequestInv, InTransaction, Target
<1>9. LogInv'
  BY <1>3, <1>4, <1>5 DEF IInv, LogInv
<1>10. CauseInv'
  BY <1>3, <1>5 DEF IInv, CauseInv
<1>11. OncePerKey'
  BY <1>3, <1>4 DEF IInv, OncePerKey
<1>12. AllOrNothing'
  BY <1>3, <1>5 DEF IInv, AllOrNothing
<1>13. StatusMatchesReviews'
  BY <1>5 DEF IInv, StatusMatchesReviews
<1>14. QED
  BY <1>7, <1>8, <1>9, <1>10, <1>11, <1>12, <1>13 DEF IInv

\* An expired row still stands for its command.
LEMMA ExpireKeyIInv ==
    ASSUME IInv, NEW row \in keys, ExpireKey(row)
    PROVE  IInv'
<1> DEFINE new == [row EXCEPT !.live = FALSE]
<1>1. row \in KeyRow
  BY DEF IInv, TypeOK
<1>2. /\ new \in KeyRow /\ new.user = row.user /\ new.key = row.key
      /\ new.cmd = row.cmd /\ new.project = row.project
      /\ new.snapshot = row.snapshot
  BY <1>1 DEF KeyRow
<1>3. keys' = (keys \ {row}) \cup {new}
  BY DEF ExpireKey
<1> HIDE DEF new
<1>4. UNCHANGED <<status, people, reviews, audit, req, lastMove>>
  BY DEF ExpireKey
<1>5. TypeOK'
  BY <1>2, <1>3, <1>4 DEF IInv, TypeOK
<1>6. LockInv' /\ RequestInv'
  BY <1>4 DEF IInv, LockInv, RequestInv, InTransaction, Target
<1>7. LogInv'
  BY <1>2, <1>3, <1>4 DEF IInv, LogInv
<1>8. AllOrNothing'
  BY <1>2, <1>3, <1>4 DEF IInv, AllOrNothing
<1>9. CauseInv' /\ OncePerKey' /\ StatusMatchesReviews'
  BY <1>4 DEF IInv, CauseInv, OncePerKey, StatusMatchesReviews
<1>10. QED
  BY <1>5, <1>6, <1>7, <1>8, <1>9 DEF IInv

\* Every step of the specification preserves the invariant.
LEMMA NextIInv == IInv /\ [Next]_vars => IInv'
<1> SUFFICES ASSUME IInv, [Next]_vars PROVE IInv'
  OBVIOUS
<1>1. ASSUME NEW r \in Requests, NEW u \in Users, NEW k \in Keys,
             NEW c \in Command, NEW p \in Projects, Arrive(r, u, k, c, p)
      PROVE  IInv'
  BY <1>1, ArriveIInv
<1>2. ASSUME NEW r \in Requests,
             \/ Admit(r) \/ Refuse(r) \/ ReadReviewers(r)
             \/ Update(r) \/ WriteRows(r) \/ Commit(r)
             \/ FailDuplicateKey(r) \/ Crash(r)
      PROVE  IInv'
  BY <1>2, AdmitIInv, ReleaseIInv, ReadReviewersIInv, UpdateIInv, WriteRowsIInv,
     CommitIInv
<1>3. ASSUME NEW u \in Users, NEW p \in Projects, UpdateProject(u, p)
      PROVE  IInv'
  BY <1>3, UpdateProjectIInv
<1>4. ASSUME NEW row \in keys, ExpireKey(row)
      PROVE  IInv'
  BY <1>4, ExpireKeyIInv
<1>5. CASE UNCHANGED vars
  BY <1>5 DEF IInv, TypeOK, LockInv, RequestInv, LogInv, CauseInv, OncePerKey,
              AllOrNothing, StatusMatchesReviews, InTransaction, Target, vars
<1>6. QED
  BY <1>1, <1>2, <1>3, <1>4, <1>5 DEF Next

-----------------------------------------------------------------------------
(* Theorems *)

\* The invariant holds of every behaviour.
THEOREM Invariance == Spec => []IInv
<1>1. Init => IInv
  BY InitIInv
<1>2. IInv /\ [Next]_vars => IInv'
  BY NextIInv
<1>3. QED
  BY <1>1, <1>2, PTL DEF Spec

\* Type correctness of requests, rows, keys and log.
THEOREM TypeCorrect == Spec => []TypeOK
<1>1. IInv => TypeOK
  BY DEF IInv
<1>2. QED
  BY <1>1, Invariance, PTL

\* However requests with one key interleave, its command takes effect at most once.
THEOREM CommandsOncePerKey == Spec => []OncePerKey
<1>1. IInv => OncePerKey
  BY DEF IInv
<1>2. QED
  BY <1>1, Invariance, PTL

\* The key, the audit row and the review rows of a command come together.
THEOREM CommandsAllOrNothing == Spec => []AllOrNothing
<1>1. IInv => AllOrNothing
  BY DEF IInv
<1>2. QED
  BY <1>1, Invariance, PTL

\* A project in review has reviewers of the submission that put it there.
THEOREM StatusAndReviews == Spec => []StatusMatchesReviews
<1>1. IInv => StatusMatchesReviews
  BY DEF IInv
<1>2. QED
  BY <1>1, Invariance, PTL

\* What a step does to a status: only a commit changes one, and legally.
LEMMA StatusStep ==
    ASSUME IInv, [Next]_vars, NEW p \in Projects, status'[p] # status[p]
    PROVE  \E r \in Requests : Commit(r) /\ req[r].hit /\ p = req[r].project
<1>1. status' # status
  OBVIOUS
<1>2. PICK r \in Requests : Commit(r)
  BY <1>1 DEF Next, vars, Arrive, Admit, Refuse, ReadReviewers, Update, WriteRows,
              FailDuplicateKey, Crash, UpdateProject, ExpireKey
<1>3. req[r].hit /\ p = req[r].project
  BY <1>2 DEF Commit, IInv, TypeOK
<1>4. QED
  BY <1>2, <1>3

\* A project moves from a source of the command that commits to one of its targets.
THEOREM TransitionsAreLegal == Spec => LegalTransitions
<1> DEFINE Legal(p) ==
      status'[p] # status[p] =>
          /\ Len(audit') = Len(audit) + 1
          /\ LET row == audit'[Len(audit')] IN
               /\ row.action \in Command /\ row.project = p
               /\ status[p] \in Source(row.action)
               /\ status'[p] \in Targets(row.action)
               /\ row.after = status'[p]
<1>1. ASSUME IInv, [Next]_vars PROVE \A p \in Projects : Legal(p)
  <2> SUFFICES ASSUME NEW p \in Projects, status'[p] # status[p] PROVE Legal(p)
    OBVIOUS
  <2>1. PICK r \in Requests : Commit(r) /\ req[r].hit /\ p = req[r].project
    BY <1>1, StatusStep
  <2>2. /\ req[r] \in Busy
        /\ status[p] \in Source(req[r].cmd)
        /\ Target(req[r]) \in Targets(req[r].cmd)
        /\ req[r].after = Target(req[r])
        /\ status' = [status EXCEPT ![p] = Target(req[r])]
    BY <1>1, <2>1, CommitFacts
  <2>3. /\ Len(audit') = Len(audit) + 1
        /\ audit'[Len(audit')].action = req[r].cmd
        /\ audit'[Len(audit')].project = p
        /\ audit'[Len(audit')].after = req[r].after
    BY <1>1, <2>1, CommitFacts
  <2>4. status'[p] = Target(req[r]) /\ req[r].cmd \in Command
    BY <2>2, <1>1 DEF IInv, TypeOK, Busy
  <2>5. QED
    BY <2>2, <2>3, <2>4
<1>2. IInv /\ [Next]_vars => [\A p \in Projects : Legal(p)]_vars
  BY <1>1
<1>3. QED
  BY <1>2, Invariance, PTL DEF Spec, LegalTransitions

\* The commands of the stored keys, as the abstract lifecycle sees them.
Applied(rows) == {[id |-> <<row.user, row.key>>, project |-> row.project,
                   cmd |-> row.cmd] : row \in rows}

\* Expiry does not change what was applied.
LEMMA ExpiryIsAStutter ==
    ASSUME IInv, NEW row \in keys, ExpireKey(row)
    PROVE  Applied(keys') = Applied(keys)
<1> DEFINE new == [row EXCEPT !.live = FALSE]
<1>1. row \in KeyRow
  BY DEF IInv, TypeOK
<1>2. new.user = row.user /\ new.key = row.key /\ new.cmd = row.cmd
      /\ new.project = row.project
  BY <1>1 DEF KeyRow
<1>3. keys' = (keys \ {row}) \cup {new}
  BY DEF ExpireKey
<1> HIDE DEF new
<1>4. QED
  BY <1>2, <1>3 DEF Applied

\* A commit applies its command, or finds that another one was faster.
LEMMA CommitApplies ==
    ASSUME IInv, NEW r \in Requests, Commit(r), NEW id, NEW p, NEW cmd,
           id = <<req[r].user, req[r].key>>, p = req[r].project, cmd = req[r].cmd
    PROVE  Lifecycle!Apply(id, p, cmd)
<1> DEFINE q == req[r]
           krow == [user |-> q.user, key |-> q.key, cmd |-> q.cmd,
                    project |-> q.project, snapshot |-> q.after, live |-> TRUE]
<1>1. keys' = keys \cup {krow}
  BY DEF Commit
<1>2. krow.user = q.user /\ krow.key = q.key /\ krow.cmd = q.cmd
      /\ krow.project = q.project
  OBVIOUS
<1>3. \A k \in keys : ~ (k.user = q.user /\ k.key = q.key)
  BY DEF Commit, Stored
<1>4. /\ q.hit => /\ status[p] \in Source(cmd)
                  /\ Target(q) \in Targets(cmd)
                  /\ status' = [status EXCEPT ![p] = Target(q)]
      /\ ~ q.hit => UNCHANGED status
  BY CommitFacts
<1>5. id = <<q.user, q.key>> /\ p = q.project /\ cmd = q.cmd
  OBVIOUS
<1> HIDE DEF krow, q
<1>6. Applied(keys') = Applied(keys) \cup {[id |-> id, project |-> p, cmd |-> cmd]}
  BY <1>1, <1>2, <1>5 DEF Applied
<1>7. \A c \in Applied(keys) : c.id # id
  BY <1>3, <1>5 DEF Applied
<1>8. Lifecycle!Move(p, cmd) \/ Lifecycle!Late
  BY <1>4 DEF Lifecycle!Move, Lifecycle!Late, Lifecycle!Source, Lifecycle!Targets,
              Source, Targets, Lifecycle!Open, Lifecycle!Closed, Open, Closed
<1>9. QED
  BY <1>6, <1>7, <1>8 DEF Lifecycle!Apply, Applied

\* The interleaved requests implement the abstract lifecycle.
THEOREM Refinement == Spec => ImplementsLifecycle
<1>1. Init => Lifecycle!Init
  BY ConstantsAssumption DEF Init, Lifecycle!Init, Status, Lifecycle!Status
<1>2. ASSUME IInv, [Next]_vars PROVE [Lifecycle!Next]_(Lifecycle!vars)
  <2>1. ASSUME NEW r \in Requests, Commit(r)
        PROVE  Lifecycle!Next
    <3>1. req[r] \in Busy
      BY <1>2, <2>1, BusyRequest DEF IInv, Commit
    <3>2. PICK id \in Users \X Keys, p \in Projects, cmd \in Lifecycle!Command :
             id = <<req[r].user, req[r].key>> /\ p = req[r].project /\ cmd = req[r].cmd
      BY <3>1 DEF Busy, Command, Lifecycle!Command
    <3>3. Lifecycle!Apply(id, p, cmd)
      BY <1>2, <2>1, <3>2, CommitApplies
    <3>4. QED
      BY <3>3 DEF Lifecycle!Next
  <2>2. ASSUME NEW row \in keys, ExpireKey(row)
        PROVE  UNCHANGED Lifecycle!vars
    BY <1>2, <2>2, ExpiryIsAStutter DEF Lifecycle!vars, Applied, ExpireKey
  <2>3. ASSUME UNCHANGED <<status, keys>>
        PROVE  UNCHANGED Lifecycle!vars
    BY <2>3 DEF Lifecycle!vars
  <2>4. QED
    BY <1>2, <2>1, <2>2, <2>3
       DEF Next, vars, Arrive, Admit, Refuse, ReadReviewers, Update, WriteRows,
           FailDuplicateKey, Crash, UpdateProject
<1>3. QED
  BY <1>1, <1>2, Invariance, PTL DEF Spec, ImplementsLifecycle, Lifecycle!Spec
=============================================================================
