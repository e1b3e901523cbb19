-------------------------- MODULE WebhookDelivery --------------------------
(***************************************************************************)
(* Outbound webhooks of the Go service: the trigger on audit_events puts a *)
(* delivery in the outbox for every active subscription, and the workers   *)
(* of the API processes (webhooks.StartWorker) select one that is due, send*)
(* it and record the attempt.  The selection locks the row only until its  *)
(* own commit, before the request: while one worker waits for an answer,   *)
(* another may select, send and record the same delivery.                  *)
(***************************************************************************)
EXTENDS Naturals, FiniteSets

CONSTANTS
    Events,         \* audit events of the kind the subscriptions ask for
    Subs,           \* subscriptions
    Workers,        \* one per API process
    MaxAttempts,    \* failed attempts that disable a subscription: 5 in the code
    MaxCrashes      \* bound: processes that die with a delivery in hand

ASSUME WebhookAssumption ==
    /\ MaxAttempts \in Nat \ {0}
    /\ MaxCrashes \in Nat

Deliveries == Events \X Subs

VARIABLES
    sub,        \* webhook_subscriptions.is_active, or absent
    failures,   \* webhook_subscriptions.consecutive_failures
    box,        \* webhook_deliveries
    worker,     \* what each worker has in hand
    notices,    \* notifications webhook_disabled to the admin, by subscription
    accepted,   \* history: the deliveries some target answered with 2xx
    refusals,   \* history: the failed requests of each delivery
    crashes     \* history: how many workers died

vars == <<sub, failures, box, worker, notices, accepted, refusals, crashes>>

-----------------------------------------------------------------------------
NoRow == [status |-> "none", attempt |-> 0, due |-> FALSE]

NewRow == [status |-> "pending", attempt |-> 1, due |-> TRUE]

Row == [status : {"pending", "failed", "delivered", "disabled"},
        attempt : 1..(MaxAttempts + 1), due : BOOLEAN]

Idle == [pc |-> "idle"]

Sending == [pc : {"posting", "ok", "bad"}, delivery : Deliveries, attempt : 1..(MaxAttempts + 1)]

TypeOK ==
    /\ sub \in [Subs -> {"absent", "active", "disabled"}]
    /\ failures \in [Subs -> Nat]
    /\ box \in [Deliveries -> Row \cup {NoRow}]
    /\ worker \in [Workers -> {Idle} \cup Sending]
    /\ notices \in [Subs -> Nat]
    /\ accepted \subseteq Deliveries
    /\ refusals \in [Deliveries -> Nat]
    /\ crashes \in 0..MaxCrashes

Init ==
    /\ sub = [s \in Subs |-> "absent"]
    /\ failures = [s \in Subs |-> 0]
    /\ box = [d \in Deliveries |-> NoRow]
    /\ worker = [w \in Workers |-> Idle]
    /\ notices = [s \in Subs |-> 0]
    /\ accepted = {}
    /\ refusals = [d \in Deliveries |-> 0]
    /\ crashes = 0

-----------------------------------------------------------------------------
(* Helpers *)

SubOf(d) == d[2]

InHand(d) == \E w \in Workers : worker[w].pc # "idle" /\ worker[w].delivery = d

Selectable(d) ==
    /\ box[d].status \in {"pending", "failed"} /\ box[d].due
    /\ sub[SubOf(d)] = "active"

Release(w) == worker' = [worker EXCEPT ![w] = Idle]

-----------------------------------------------------------------------------
(* Subscriptions and the outbox *)

\* POST /webhooks
Subscribe(s) ==
    /\ sub[s] = "absent"
    /\ sub' = [sub EXCEPT ![s] = "active"]
    /\ UNCHANGED <<failures, box, worker, notices, accepted, refusals, crashes>>

\* DELETE /webhooks/{id}: deliveries in the outbox stay there.
Disable(s) ==
    /\ sub[s] # "absent"
    /\ sub' = [sub EXCEPT ![s] = "disabled"]
    /\ UNCHANGED <<failures, box, worker, notices, accepted, refusals, crashes>>

\* The trigger, in the transaction of the audit row.
Enqueue(e) ==
    /\ \A s \in Subs : box[<<e, s>>] = NoRow
    /\ box' = [d \in Deliveries |->
                IF d[1] = e /\ sub[SubOf(d)] = "active" THEN NewRow ELSE box[d]]
    /\ UNCHANGED <<sub, failures, worker, notices, accepted, refusals, crashes>>

-----------------------------------------------------------------------------
(* The steps of a worker *)

\* Deviation: the row is claimed, so that no other worker takes it.
SelectClaims(w, d) ==
    /\ worker[w].pc = "idle"
    /\ Selectable(d)
    /\ worker' = [worker EXCEPT ![w] =
                    [pc |-> "posting", delivery |-> d, attempt |-> box[d].attempt]]
    /\ box' = [box EXCEPT ![d].due = FALSE]
    /\ UNCHANGED <<sub, failures, notices, accepted, refusals, crashes>>

\* FOR UPDATE OF d SKIP LOCKED, then commit: the row is as it was.
Select(w, d) ==
    /\ worker[w].pc = "idle"
    /\ Selectable(d)
    /\ worker' = [worker EXCEPT ![w] =
                    [pc |-> "posting", delivery |-> d, attempt |-> box[d].attempt]]
    /\ UNCHANGED <<sub, failures, box, notices, accepted, refusals, crashes>>

\* The target answers 2xx, or another status, or not within ten seconds.
Post(w) ==
    LET d == worker[w].delivery IN
    /\ worker[w].pc = "posting"
    /\ \/ /\ worker' = [worker EXCEPT ![w].pc = "ok"]
          /\ accepted' = accepted \cup {d}
          /\ UNCHANGED refusals
       \/ /\ worker' = [worker EXCEPT ![w].pc = "bad"]
          /\ refusals' = [refusals EXCEPT ![d] = @ + 1]
          /\ UNCHANGED accepted
    /\ UNCHANGED <<sub, failures, box, notices, crashes>>

RecordSuccess(w) ==
    LET d == worker[w].delivery IN
    /\ worker[w].pc = "ok"
    /\ box' = [box EXCEPT ![d].status = "delivered"]
    /\ failures' = [failures EXCEPT ![SubOf(d)] = 0]
    /\ Release(w)
    /\ UNCHANGED <<sub, notices, accepted, refusals, crashes>>

\* Whatever the row has become meanwhile, it is failed and waits 2^(next-1) minutes;
\* next counts from the attempt that was selected.
RecordFailure(w) ==
    LET d == worker[w].delivery
        next == worker[w].attempt + 1
    IN
    /\ worker[w].pc = "bad" /\ next <= MaxAttempts
    /\ box' = [box EXCEPT ![d] = [status |-> "failed", attempt |-> next, due |-> FALSE]]
    /\ failures' = [failures EXCEPT ![SubOf(d)] = @ + 1]
    /\ Release(w)
    /\ UNCHANGED <<sub, notices, accepted, refusals, crashes>>

\* Deviation: one attempt less.
GiveUpEarly(w) ==
    LET d == worker[w].delivery
        next == worker[w].attempt + 1
    IN
    /\ worker[w].pc = "bad" /\ next >= MaxAttempts
    /\ box' = [box EXCEPT ![d].status = "disabled", ![d].attempt = next]
    /\ sub' = [sub EXCEPT ![SubOf(d)] = "disabled"]
    /\ failures' = [failures EXCEPT ![SubOf(d)] = next]
    /\ notices' = [notices EXCEPT ![SubOf(d)] = @ + 1]
    /\ Release(w)
    /\ UNCHANGED <<accepted, refusals, crashes>>

\* The last attempt failed: one transaction disables the delivery and the
\* subscription and tells the admin.
GiveUp(w) ==
    LET d == worker[w].delivery
        next == worker[w].attempt + 1
    IN
    /\ worker[w].pc = "bad" /\ next > MaxAttempts
    /\ box' = [box EXCEPT ![d].status = "disabled", ![d].attempt = next]
    /\ sub' = [sub EXCEPT ![SubOf(d)] = "disabled"]
    /\ failures' = [failures EXCEPT ![SubOf(d)] = next]
    /\ notices' = [notices EXCEPT ![SubOf(d)] = @ + 1]
    /\ Release(w)
    /\ UNCHANGED <<accepted, refusals, crashes>>

\* The process stops between the selection and the record.
Crash(w) ==
    /\ worker[w].pc # "idle"
    /\ crashes < MaxCrashes
    /\ crashes' = crashes + 1
    /\ Release(w)
    /\ UNCHANGED <<sub, failures, box, notices, accepted, refusals>>

\* next_attempt_at passes.  A request ends within ten seconds and the shortest wait is
\* two minutes, so nobody has the delivery in hand any more.
ComeDue(d) ==
    /\ box[d].status = "failed" /\ ~ box[d].due
    /\ ~ InHand(d)
    /\ box' = [box EXCEPT ![d].due = TRUE]
    /\ UNCHANGED <<sub, failures, worker, notices, accepted, refusals, crashes>>

-----------------------------------------------------------------------------
Next ==
    \/ \E s \in Subs : Subscribe(s) \/ Disable(s)
    \/ \E e \in Events : Enqueue(e)
    \/ \E w \in Workers :
          \/ \E d \in Deliveries : Select(w, d)
          \/ Post(w) \/ RecordSuccess(w) \/ RecordFailure(w) \/ GiveUp(w) \/ Crash(w)
    \/ \E d \in Deliveries : ComeDue(d)

Spec == Init /\ [][Next]_vars

\* Every ticker fires, and the selection takes the longest due first, so a delivery
\* that is due again and again is selected.  The clock goes on.
Fairness ==
    /\ \A d \in Deliveries :
          /\ SF_vars(\E w \in Workers : Select(w, d))
          /\ SF_vars(ComeDue(d))
    /\ \A w \in Workers :
          WF_vars(Post(w) \/ RecordSuccess(w) \/ RecordFailure(w) \/ GiveUp(w))

FairSpec == Spec /\ Fairness

-----------------------------------------------------------------------------
(* Properties *)

\* Safety: the outcome in the outbox happened.  A delivered row was accepted by its
\* target; a row counts no more failures than there were; a disabled row had all its
\* attempts refused, its subscription is off and the admin was told.
OutcomesHappened ==
    \A d \in Deliveries : box[d] # NoRow =>
        /\ box[d].status = "delivered" => d \in accepted
        /\ box[d].attempt - 1 <= refusals[d]
        /\ box[d].status = "disabled" =>
              /\ refusals[d] >= MaxAttempts
              /\ sub[SubOf(d)] = "disabled" /\ notices[SubOf(d)] > 0

\* Liveness: a crash loses no delivery: each one is delivered or given up, unless its
\* subscription is turned off.
EveryDeliverySettles ==
    \A d \in Deliveries :
        box[d].status \in {"pending", "failed"} ~>
            (box[d].status \in {"delivered", "disabled"} \/ sub[SubOf(d)] = "disabled")
=============================================================================
