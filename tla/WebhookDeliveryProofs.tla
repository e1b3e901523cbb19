------------------------ MODULE WebhookDeliveryProofs ------------------------
(***************************************************************************)
(* What the outbox says happened, for any subscriptions, workers and limit *)
(* of attempts.  A row may be overwritten by a worker that selected it     *)
(* earlier; the argument is that each worker carries the evidence of what  *)
(* it is about to record, and that evidence does not go away.              *)
(***************************************************************************)
EXTENDS WebhookDelivery, TLAPS

\* A delivery that is due has an attempt left.
AttemptLeft ==
    \A d \in Deliveries : box[d].status \in {"pending", "failed"} => box[d].attempt <= MaxAttempts

\* A worker has a delivery of the outbox in hand and the proof of its outcome.
Evidence(q) ==
    /\ box[q.delivery] # NoRow
    /\ q.attempt <= MaxAttempts
    /\ q.attempt - 1 <= refusals[q.delivery]
    /\ q.pc = "ok" => q.delivery \in accepted
    /\ q.pc = "bad" => q.attempt <= refusals[q.delivery]

Carried == \A w \in Workers : worker[w].pc # "idle" => Evidence(worker[w])

IInv == TypeOK /\ AttemptLeft /\ Carried /\ OutcomesHappened

-----------------------------------------------------------------------------
\* A worker that is not idle has a delivery in hand.
LEMMA InFlight ==
    ASSUME TypeOK, NEW w \in Workers, worker[w].pc # "idle"
    PROVE  worker[w] \in Sending
BY DEF TypeOK, Idle

\* The initial states: the outbox is empty.
LEMMA InitIInv == Init => IInv
<1> SUFFICES ASSUME Init PROVE IInv
  OBVIOUS
<1>1. TypeOK
  BY WebhookAssumption DEF Init, TypeOK
<1>2. AttemptLeft /\ Carried /\ OutcomesHappened
  BY DEF Init, AttemptLeft, Carried, OutcomesHappened, NoRow, Idle
<1> QED BY <1>1, <1>2 DEF IInv

\* A subscription that is turned on has not been off: what was disabled stays so.
LEMMA SubscribeKeeps == ASSUME IInv, NEW s \in Subs, Subscribe(s) \/ Disable(s) PROVE IInv'
<1>1. /\ sub' \in [Subs -> {"absent", "active", "disabled"}]
      /\ \A x \in Subs : sub[x] = "disabled" => sub'[x] = "disabled"
      /\ UNCHANGED <<failures, box, worker, notices, accepted, refusals, crashes>>
  BY DEF Subscribe, Disable, IInv, TypeOK
<1>2. TypeOK' /\ AttemptLeft' /\ Carried'
  BY <1>1 DEF IInv, TypeOK, AttemptLeft, Carried, Evidence
<1>3. OutcomesHappened'
  <2>1. \A d \in Deliveries : SubOf(d) \in Subs
    BY DEF Deliveries, SubOf
  <2> QED BY <1>1, <2>1 DEF IInv, OutcomesHappened, SubOf
<1> QED BY <1>2, <1>3 DEF IInv

\* New rows are rows of an event that had none.
LEMMA EnqueueKeeps == ASSUME IInv, NEW e \in Events, Enqueue(e) PROVE IInv'
<1>1. /\ \A d \in Deliveries :
            \/ box'[d] = box[d]
            \/ box[d] = NoRow /\ box'[d] = NewRow
      /\ box' \in [Deliveries -> Row \cup {NoRow}]
      /\ UNCHANGED <<sub, failures, worker, notices, accepted, refusals, crashes>>
  <2>1. NewRow \in Row
    BY WebhookAssumption DEF NewRow, Row
  <2>2. \A d \in Deliveries : d[1] = e => \E s \in Subs : d = <<e, s>>
    BY DEF Deliveries
  <2> QED BY <2>1, <2>2 DEF Enqueue, IInv, TypeOK
<1>2. NewRow # NoRow /\ NewRow.status = "pending" /\ NewRow.attempt = 1
  BY DEF NewRow, NoRow
<1>3. TypeOK'
  BY <1>1 DEF IInv, TypeOK
<1>4. AttemptLeft'
  BY <1>1, <1>2, WebhookAssumption DEF IInv, AttemptLeft
<1>5. Carried'
  <2>1. \A w \in Workers : worker[w].pc # "idle" => worker[w].delivery \in Deliveries
    BY InFlight DEF IInv, Sending
  <2> QED BY <1>1, <1>2, <2>1 DEF IInv, Carried, Evidence
<1>6. OutcomesHappened'
  <2>1. \A d \in Deliveries : refusals[d] \in Nat
    BY DEF IInv, TypeOK
  <2> QED BY <1>1, <1>2, <2>1 DEF IInv, OutcomesHappened, SubOf
<1> QED BY <1>3, <1>4, <1>5, <1>6 DEF IInv

\* A worker's step that leaves the outbox alone, with evidence in hand afterwards.
LEMMA OnlyWorker ==
    ASSUME IInv, NEW w \in Workers, NEW mine \in {Idle} \cup Sending,
           worker' = [worker EXCEPT ![w] = mine], UNCHANGED <<sub, failures, box, notices>>,
           crashes' \in 0..MaxCrashes,
           accepted \subseteq accepted', accepted' \subseteq Deliveries,
           refusals' \in [Deliveries -> Nat], \A d \in Deliveries : refusals[d] <= refusals'[d],
           mine.pc # "idle" => Evidence(mine)'
    PROVE  IInv'
<1>1. worker'[w] = mine /\ \A v \in Workers \ {w} : worker'[v] = worker[v]
  BY DEF IInv, TypeOK
<1>2. TypeOK'
  BY DEF IInv, TypeOK
<1>3. AttemptLeft'
  BY DEF IInv, AttemptLeft
<1>4. ASSUME NEW v \in Workers, worker'[v].pc # "idle", NEW q, q = worker'[v] PROVE Evidence(q)'
  <2>1. CASE v = w
    BY <2>1, <1>1, <1>4
  <2>2. CASE v # w
    <3>1. q \in Sending /\ Evidence(q)
      BY <2>2, <1>1, <1>4, InFlight DEF IInv, Carried
    <3>2. refusals[q.delivery] \in Nat /\ refusals'[q.delivery] \in Nat /\ q.attempt \in Nat
          /\ refusals[q.delivery] <= refusals'[q.delivery]
      BY <3>1 DEF Sending, IInv, TypeOK
    <3> QED BY <3>1, <3>2 DEF Evidence
  <2> QED BY <2>1, <2>2
<1>5. Carried'
  BY <1>4 DEF Carried, Evidence
<1>6. OutcomesHappened'
  <2>1. \A d \in Deliveries : refusals[d] \in Nat /\ refusals'[d] \in Nat
    BY DEF IInv, TypeOK
  <2>2. \A d \in Deliveries : box[d] # NoRow => box[d].attempt \in Nat
    BY DEF IInv, TypeOK, Row
  <2>3. MaxAttempts \in Nat
    BY WebhookAssumption
  <2> QED BY <2>1, <2>2, <2>3 DEF IInv, OutcomesHappened, SubOf
<1> QED BY <1>2, <1>3, <1>5, <1>6 DEF IInv

\* A delivery is selected with the count of the failures it has had.
LEMMA SelectKeeps ==
    ASSUME IInv, NEW w \in Workers, NEW d \in Deliveries, Select(w, d) PROVE IInv'
<1>1. /\ box[d] \in Row /\ box[d] # NoRow /\ box[d].attempt <= MaxAttempts
      /\ box[d].attempt - 1 <= refusals[d]
  BY DEF Select, Selectable, IInv, TypeOK, NoRow, AttemptLeft, OutcomesHappened
<1>2. PICK mine \in Sending :
         /\ worker' = [worker EXCEPT ![w] = mine]
         /\ mine.pc = "posting" /\ mine.delivery = d /\ mine.attempt = box[d].attempt
  <2> DEFINE m == [pc |-> "posting", delivery |-> d, attempt |-> box[d].attempt]
  <2>1. m \in Sending /\ m.pc = "posting" /\ m.delivery = d /\ m.attempt = box[d].attempt
    BY <1>1 DEF Sending, Row
  <2>2. worker' = [worker EXCEPT ![w] = m]
    BY DEF Select
  <2> QED BY <2>1, <2>2
<1>3. UNCHANGED <<sub, failures, box, notices, accepted, refusals, crashes>>
  BY DEF Select
<1>4. Evidence(mine)'
  BY <1>1, <1>2, <1>3 DEF Evidence
<1>5. \A x \in Deliveries : refusals[x] <= refusals'[x]
  BY <1>3 DEF IInv, TypeOK
<1> QED BY <1>2, <1>3, <1>4, <1>5, OnlyWorker DEF IInv, TypeOK

\* The answer is the evidence.
LEMMA PostKeeps == ASSUME IInv, NEW w \in Workers, Post(w) PROVE IInv'
<1>1. PICK q \in Sending : q = worker[w] /\ q.pc = "posting" /\ Evidence(q)
  BY InFlight DEF IInv, Carried, Post
<1>2. PICK d \in Deliveries : d = q.delivery /\ refusals[d] \in Nat /\ q.attempt \in Nat
  BY DEF Sending, IInv, TypeOK
<1>3. UNCHANGED <<sub, failures, box, notices, crashes>>
  BY DEF Post
<1>4. CASE worker' = [worker EXCEPT ![w].pc = "ok"] /\ accepted' = accepted \cup {d}
           /\ UNCHANGED refusals
  <2> DEFINE m == [q EXCEPT !.pc = "ok"]
  <2>1. m \in Sending /\ m.pc = "ok" /\ m.delivery = d /\ m.attempt = q.attempt
    BY <1>2 DEF Sending
  <2>2. worker' = [worker EXCEPT ![w] = m]
    BY <1>1, <1>4
  <2> HIDE DEF m
  <2>3. Evidence(m)'
    BY <2>1, <1>1, <1>2, <1>3, <1>4 DEF Evidence
  <2>4. \A x \in Deliveries : refusals[x] <= refusals'[x]
    BY <1>4 DEF IInv, TypeOK
  <2> QED BY <2>1, <2>2, <2>3, <2>4, <1>3, <1>4, OnlyWorker DEF IInv, TypeOK
<1>5. CASE worker' = [worker EXCEPT ![w].pc = "bad"] /\ UNCHANGED accepted
           /\ refusals' = [refusals EXCEPT ![d] = @ + 1]
  <2> DEFINE m == [q EXCEPT !.pc = "bad"]
  <2>1. m \in Sending /\ m.pc = "bad" /\ m.delivery = d /\ m.attempt = q.attempt
    BY <1>2 DEF Sending
  <2>2. worker' = [worker EXCEPT ![w] = m]
    BY <1>1, <1>5
  <2> HIDE DEF m
  <2>3. /\ refusals' \in [Deliveries -> Nat] /\ refusals'[d] = refusals[d] + 1
        /\ \A x \in Deliveries : refusals[x] <= refusals'[x]
    BY <1>5 DEF IInv, TypeOK
  <2>4. Evidence(m)'
    BY <2>1, <2>3, <1>1, <1>2, <1>3, <1>5 DEF Evidence
  <2> QED BY <2>1, <2>2, <2>3, <2>4, <1>3, <1>5, OnlyWorker DEF IInv, TypeOK
<1> QED BY <1>1, <1>2, <1>4, <1>5 DEF Post

\* A worker that dies takes its evidence with it.
LEMMA CrashKeeps == ASSUME IInv, NEW w \in Workers, Crash(w) PROVE IInv'
<1>1. /\ worker' = [worker EXCEPT ![w] = Idle] /\ Idle.pc = "idle"
      /\ UNCHANGED <<sub, failures, box, notices, accepted, refusals>>
      /\ crashes' \in 0..MaxCrashes
  BY WebhookAssumption DEF Crash, Release, Idle, IInv, TypeOK
<1>2. \A x \in Deliveries : refusals[x] <= refusals'[x]
  BY <1>1 DEF IInv, TypeOK
<1> QED BY <1>1, <1>2, OnlyWorker DEF IInv, TypeOK

\* A worker's record replaces the row by one that its evidence supports.
LEMMA Recorded ==
    ASSUME IInv, NEW w \in Workers, worker[w].pc # "idle", NEW d \in Deliveries, NEW row \in Row,
           Release(w), box' = [box EXCEPT ![d] = row], UNCHANGED <<accepted, refusals, crashes>>,
           failures' \in [Subs -> Nat], notices' \in [Subs -> Nat],
           sub' \in [Subs -> {"absent", "active", "disabled"}],
           \A s \in Subs : /\ sub[s] = "disabled" => sub'[s] = "disabled"
                           /\ notices[s] > 0 => notices'[s] > 0,
           row.status \in {"pending", "failed"} => row.attempt <= MaxAttempts,
           row.status = "delivered" => d \in accepted,
           row.attempt - 1 <= refusals[d],
           row.status = "disabled" =>
               refusals[d] >= MaxAttempts /\ sub'[SubOf(d)] = "disabled" /\ notices'[SubOf(d)] > 0
    PROVE  IInv'
<1>1. /\ box'[d] = row /\ row # NoRow
      /\ \A x \in Deliveries \ {d} : box'[x] = box[x]
      /\ box' \in [Deliveries -> Row \cup {NoRow}]
  BY DEF IInv, TypeOK, Row, NoRow
<1>2. /\ worker' \in [Workers -> {Idle} \cup Sending]
      /\ \A v \in Workers : worker'[v].pc # "idle" => worker'[v] = worker[v]
  BY DEF Release, Idle, IInv, TypeOK
<1>3. TypeOK'
  BY <1>1, <1>2 DEF IInv, TypeOK
<1>4. AttemptLeft'
  BY <1>1 DEF IInv, AttemptLeft
<1>5. ASSUME NEW v \in Workers, worker'[v].pc # "idle", NEW q, q = worker'[v] PROVE Evidence(q)'
  <2>1. q \in Sending /\ Evidence(q)
    BY <1>2, <1>5, InFlight DEF IInv, Carried
  <2> QED BY <2>1, <1>1 DEF Evidence, Sending
<1>6. Carried'
  BY <1>5 DEF Carried, Evidence
<1>7. OutcomesHappened'
  <2>1. \A x \in Deliveries : SubOf(x) \in Subs
    BY DEF Deliveries, SubOf
  <2> QED BY <1>1, <2>1 DEF IInv, OutcomesHappened, SubOf
<1> QED BY <1>3, <1>4, <1>6, <1>7 DEF IInv

\* The request of a worker that records an outcome, with its evidence.
LEMMA AtRecord ==
    ASSUME IInv, NEW w \in Workers, worker[w].pc \in {"ok", "bad"}
    PROVE  \E q \in Sending : \E d \in Deliveries :
              /\ q = worker[w] /\ d = q.delivery /\ Evidence(q)
              /\ box[d] \in Row /\ refusals[d] \in Nat /\ SubOf(d) \in Subs
              /\ q.attempt \in 1..MaxAttempts /\ box[d].attempt - 1 <= refusals[d]
<1>1. worker[w] \in Sending /\ Evidence(worker[w])
  BY InFlight DEF IInv, Carried
<1>2. PICK d \in Deliveries : d = worker[w].delivery
  BY <1>1 DEF Sending
<1>3. box[d] \in Row /\ box[d] # NoRow /\ refusals[d] \in Nat
  BY <1>1, <1>2 DEF Evidence, IInv, TypeOK
<1>4. SubOf(d) \in Subs
  BY DEF SubOf, Deliveries
<1>5. box[d].attempt - 1 <= refusals[d]
  BY <1>3 DEF IInv, OutcomesHappened
<1>6. worker[w].attempt \in 1..MaxAttempts
  BY <1>1, WebhookAssumption DEF Sending, Evidence
<1> QED BY <1>1, <1>2, <1>3, <1>4, <1>5, <1>6

\* A success is recorded of a delivery that was accepted.
LEMMA RecordSuccessKeeps == ASSUME IInv, NEW w \in Workers, RecordSuccess(w) PROVE IInv'
<1>1. PICK q \in Sending, d \in Deliveries :
         /\ q = worker[w] /\ d = q.delivery /\ Evidence(q) /\ q.pc = "ok"
         /\ box[d] \in Row /\ SubOf(d) \in Subs /\ box[d].attempt - 1 <= refusals[d]
  BY AtRecord DEF RecordSuccess
<1>2. PICK row \in Row : /\ box' = [box EXCEPT ![d] = row]
                         /\ row.status = "delivered" /\ row.attempt = box[d].attempt
  <2> DEFINE m == [box[d] EXCEPT !.status = "delivered"]
  <2>1. m \in Row /\ m.status = "delivered" /\ m.attempt = box[d].attempt
    BY <1>1 DEF Row
  <2>2. box' = [box EXCEPT ![d] = m]
    BY <1>1 DEF RecordSuccess
  <2> QED BY <2>1, <2>2
<1>3. /\ failures' \in [Subs -> Nat]
      /\ Release(w) /\ UNCHANGED <<sub, notices, accepted, refusals, crashes>>
  BY <1>1 DEF RecordSuccess, IInv, TypeOK
<1>4. d \in accepted
  BY <1>1 DEF Evidence
<1> QED BY <1>1, <1>2, <1>3, <1>4, Recorded DEF IInv, TypeOK

\* A failure counts the attempt that was selected, which was refused.
LEMMA RecordFailureKeeps == ASSUME IInv, NEW w \in Workers, RecordFailure(w) PROVE IInv'
<1>1. PICK q \in Sending, d \in Deliveries :
         /\ q = worker[w] /\ d = q.delivery /\ Evidence(q) /\ q.pc = "bad"
         /\ refusals[d] \in Nat /\ SubOf(d) \in Subs /\ q.attempt \in 1..MaxAttempts
  BY AtRecord DEF RecordFailure
<1>2. PICK next \in 1..MaxAttempts : next = q.attempt + 1
  BY <1>1, WebhookAssumption DEF RecordFailure
<1>3. PICK row \in Row : /\ box' = [box EXCEPT ![d] = row]
                         /\ row.status = "failed" /\ row.attempt = next
  <2> DEFINE m == [status |-> "failed", attempt |-> next, due |-> FALSE]
  <2>1. m \in Row /\ m.status = "failed" /\ m.attempt = next
    BY WebhookAssumption DEF Row
  <2>2. box' = [box EXCEPT ![d] = m]
    BY <1>1, <1>2 DEF RecordFailure
  <2> QED BY <2>1, <2>2
<1>4. /\ failures' \in [Subs -> Nat]
      /\ Release(w) /\ UNCHANGED <<sub, notices, accepted, refusals, crashes>>
  BY <1>1 DEF RecordFailure, IInv, TypeOK
<1>5. next <= MaxAttempts /\ next - 1 <= refusals[d]
  BY <1>1, <1>2, WebhookAssumption DEF Evidence
<1> QED BY <1>1, <1>3, <1>4, <1>5, Recorded DEF IInv, TypeOK

\* The last attempt turns the subscription off and tells the admin.
LEMMA GiveUpKeeps == ASSUME IInv, NEW w \in Workers, GiveUp(w) PROVE IInv'
<1>1. PICK q \in Sending, d \in Deliveries :
         /\ q = worker[w] /\ d = q.delivery /\ Evidence(q) /\ q.pc = "bad" /\ box[d] \in Row
         /\ refusals[d] \in Nat /\ SubOf(d) \in Subs /\ q.attempt \in 1..MaxAttempts
  BY AtRecord DEF GiveUp
<1>2. PICK next \in 1..(MaxAttempts + 1) : next = q.attempt + 1 /\ next > MaxAttempts
  BY <1>1, WebhookAssumption DEF GiveUp
<1>3. PICK row \in Row : /\ box' = [box EXCEPT ![d] = row]
                         /\ row.status = "disabled" /\ row.attempt = next
  <2> DEFINE m == [box[d] EXCEPT !.status = "disabled", !.attempt = next]
  <2>1. m \in Row /\ m.status = "disabled" /\ m.attempt = next
    BY <1>1 DEF Row
  <2>2. box' = [box EXCEPT ![d] = m]
    BY <1>1, <1>2 DEF GiveUp
  <2> QED BY <2>1, <2>2
<1>4. PICK s \in Subs : s = SubOf(d)
  BY <1>1
<1>5. /\ sub' = [sub EXCEPT ![s] = "disabled"]
      /\ failures' = [failures EXCEPT ![s] = next]
      /\ notices' = [notices EXCEPT ![s] = @ + 1]
      /\ Release(w) /\ UNCHANGED <<accepted, refusals, crashes>>
  BY <1>1, <1>2, <1>4 DEF GiveUp
<1>6. /\ sub' \in [Subs -> {"absent", "active", "disabled"}]
      /\ failures' \in [Subs -> Nat] /\ notices' \in [Subs -> Nat]
      /\ \A x \in Subs : /\ sub[x] = "disabled" => sub'[x] = "disabled"
                         /\ notices[x] > 0 => notices'[x] > 0
      /\ sub'[s] = "disabled" /\ notices'[s] > 0
  BY <1>5, WebhookAssumption DEF IInv, TypeOK
<1>7. next - 1 <= refusals[d] /\ refusals[d] >= MaxAttempts
  BY <1>1, <1>2, WebhookAssumption DEF Evidence
<1> QED BY <1>1, <1>3, <1>4, <1>5, <1>6, <1>7, Recorded

\* A row that comes due says the same as before.
LEMMA ComeDueKeeps == ASSUME IInv, NEW d \in Deliveries, ComeDue(d) PROVE IInv'
<1>1. box[d] \in Row /\ UNCHANGED <<sub, failures, worker, notices, accepted, refusals, crashes>>
  BY DEF ComeDue, IInv, TypeOK, NoRow
<1>2. PICK row \in Row : /\ box' = [box EXCEPT ![d] = row]
                         /\ row.status = box[d].status /\ row.attempt = box[d].attempt
  <2> DEFINE m == [box[d] EXCEPT !.due = TRUE]
  <2>1. m \in Row /\ m.status = box[d].status /\ m.attempt = box[d].attempt
    BY <1>1 DEF Row
  <2>2. box' = [box EXCEPT ![d] = m]
    BY DEF ComeDue
  <2> QED BY <2>1, <2>2
<1>3. /\ box'[d] = row /\ row # NoRow /\ box[d] # NoRow
      /\ \A x \in Deliveries \ {d} : box'[x] = box[x]
      /\ box' \in [Deliveries -> Row \cup {NoRow}]
  BY <1>1, <1>2 DEF IInv, TypeOK, Row, NoRow
<1>4. TypeOK'
  BY <1>1, <1>3 DEF IInv, TypeOK
<1>5. AttemptLeft' /\ OutcomesHappened'
  BY <1>1, <1>2, <1>3 DEF IInv, AttemptLeft, OutcomesHappened, SubOf
<1>6. Carried'
  <2>1. \A w \in Workers : worker[w].pc # "idle" => worker[w].delivery \in Deliveries
    BY InFlight DEF IInv, Sending
  <2> QED BY <2>1, <1>1, <1>3 DEF IInv, Carried, Evidence
<1> QED BY <1>4, <1>5, <1>6 DEF IInv

-----------------------------------------------------------------------------
\* Every step keeps the invariant.
LEMMA NextIInv == IInv /\ [Next]_vars => IInv'
<1> SUFFICES ASSUME IInv, [Next]_vars PROVE IInv'
  OBVIOUS
<1>1. CASE UNCHANGED vars
  BY <1>1 DEF vars, IInv, TypeOK, AttemptLeft, Carried, Evidence, OutcomesHappened, SubOf
<1>2. CASE Next
  BY <1>2, SubscribeKeeps, EnqueueKeeps, SelectKeeps, PostKeeps, RecordSuccessKeeps,
     RecordFailureKeeps, GiveUpKeeps, CrashKeeps, ComeDueKeeps DEF Next
<1> QED BY <1>1, <1>2

\* The invariant holds in every reachable state.
THEOREM Invariance == Spec => []IInv
BY InitIInv, NextIInv, PTL DEF Spec

\* Whatever the outbox says of a delivery happened, although workers send and record the
\* same one at the same time.
THEOREM TheOutboxTellsTheTruth == Spec => []OutcomesHappened
<1>1. IInv => OutcomesHappened
  BY DEF IInv
<1> QED BY <1>1, Invariance, PTL
=============================================================================
