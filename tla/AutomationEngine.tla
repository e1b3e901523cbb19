-------------------------- MODULE AutomationEngine --------------------------
(***************************************************************************)
(* The rule engine of the Go service.  The trigger on audit_events records *)
(* an event; a worker (automation.StartWorker, one per API process) claims *)
(* a pending one, loads the active rules of its name, executes those whose *)
(* condition matches, each in a transaction of its own, and marks the event*)
(* completed, or failed at the first error.  A claim is not a lock: it is a*)
(* status, and nothing takes it back when the process dies.                *)
(***************************************************************************)
EXTENDS Naturals, FiniteSets

CONSTANTS
    Events,         \* rows that automation_events may get
    Rules,          \* rules for the name of these events
    Matches,        \* the <<rule, event>> whose condition the payload meets
    Workers

ASSUME AutomationAssumption == Matches \subseteq Rules \X Events

VARIABLES
    event,      \* automation_events.status
    rule,       \* automation_rules.is_active, or absent
    runs,       \* automation_runs: the <<rule, event>> that have a row
    effects,    \* history: how often the action of a rule was applied for an event
    worker,     \* what each worker has in hand
    loaded      \* history: the matching rules that the worker of an event loaded

vars == <<event, rule, runs, effects, worker, loaded>>

-----------------------------------------------------------------------------
EventStatus == {"none", "pending", "processing", "completed", "failed"}

Idle == [pc |-> "idle"]

Working == [pc : {"claimed", "executing"}, event : Events, left : SUBSET Rules]

TypeOK ==
    /\ event \in [Events -> EventStatus]
    /\ rule \in [Rules -> {"absent", "active", "inactive"}]
    /\ runs \subseteq Rules \X Events
    /\ effects \in [Rules \X Events -> Nat]
    /\ worker \in [Workers -> {Idle} \cup Working]
    /\ loaded \in [Events -> SUBSET Rules]

Init ==
    /\ event = [e \in Events |-> "none"]
    /\ rule = [r \in Rules |-> "absent"]
    /\ runs = {}
    /\ effects = [x \in Rules \X Events |-> 0]
    /\ worker = [w \in Workers |-> Idle]
    /\ loaded = [e \in Events |-> {}]

-----------------------------------------------------------------------------
(* Helpers *)

Matching(e) == {r \in Rules : rule[r] = "active" /\ <<r, e>> \in Matches}

Release(w) == worker' = [worker EXCEPT ![w] = Idle]

-----------------------------------------------------------------------------
(* Rules and events *)

CreateRule(r) ==
    /\ rule[r] = "absent"
    /\ \E state \in {"active", "inactive"} : rule' = [rule EXCEPT ![r] = state]
    /\ UNCHANGED <<event, runs, effects, worker, loaded>>

SetActive(r, state) ==
    /\ rule[r] # "absent"
    /\ rule' = [rule EXCEPT ![r] = state]
    /\ UNCHANGED <<event, runs, effects, worker, loaded>>

\* The trigger, for an audit row that the engine did not write itself.
Enqueue(e) ==
    /\ event[e] = "none"
    /\ event' = [event EXCEPT ![e] = "pending"]
    /\ UNCHANGED <<rule, runs, effects, worker, loaded>>

-----------------------------------------------------------------------------
(* The steps of a worker *)

\* SELECT ... FOR UPDATE SKIP LOCKED and the UPDATE to processing commit together.
Claim(w, e) ==
    /\ worker[w].pc = "idle"
    /\ event[e] = "pending"
    /\ event' = [event EXCEPT ![e] = "processing"]
    /\ worker' = [worker EXCEPT ![w] = [pc |-> "claimed", event |-> e, left |-> {}]]
    /\ UNCHANGED <<rule, runs, effects, loaded>>

\* The active rules are read outside of any transaction.
Load(w) ==
    LET e == worker[w].event IN
    /\ worker[w].pc = "claimed"
    /\ worker' = [worker EXCEPT ![w].pc = "executing", ![w].left = Matching(e)]
    /\ loaded' = [loaded EXCEPT ![e] = Matching(e)]
    /\ UNCHANGED <<event, rule, runs, effects>>

\* Deviation: the action commits before the row of the run.
ExecuteTwoSteps(w, r) ==
    LET e == worker[w].event IN
    /\ worker[w].pc = "executing" /\ r \in worker[w].left
    /\ <<r, e>> \notin runs
    /\ effects' = [effects EXCEPT ![<<r, e>>] = @ + 1]
    /\ \/ /\ runs' = runs \cup {<<r, e>>}
          /\ worker' = [worker EXCEPT ![w].left = @ \ {r}]
          /\ UNCHANGED event
       \/ /\ event' = [event EXCEPT ![e] = "failed"]
          /\ Release(w)
          /\ UNCHANGED runs
    /\ UNCHANGED <<rule, loaded>>

\* One transaction: the action, the row of the run (UNIQUE), the audit row.  The
\* rules come in no particular order.
Execute(w, r) ==
    LET e == worker[w].event IN
    /\ worker[w].pc = "executing" /\ r \in worker[w].left
    /\ <<r, e>> \notin runs
    /\ effects' = [effects EXCEPT ![<<r, e>>] = @ + 1]
    /\ runs' = runs \cup {<<r, e>>}
    /\ worker' = [worker EXCEPT ![w].left = @ \ {r}]
    /\ UNCHANGED <<event, rule, loaded>>

\* Deviation: an error skips the rule and goes on with the others.
FailSkips(w) ==
    /\ worker[w].pc = "executing"
    /\ \E r \in worker[w].left : worker' = [worker EXCEPT ![w].left = @ \ {r}]
    /\ UNCHANGED <<event, rule, runs, effects, loaded>>

\* The action's configuration, its task or the UNIQUE constraint refuses: that
\* transaction is rolled back, the rules that are left are not executed.
Fail(w) ==
    /\ \/ worker[w].pc = "claimed"
       \/ worker[w].pc = "executing" /\ worker[w].left # {}
    /\ event' = [event EXCEPT ![worker[w].event] = "failed"]
    /\ Release(w)
    /\ UNCHANGED <<rule, runs, effects, loaded>>

\* Deviation: an event without matching rules is left as it is.
FinishOnlyIfRan(w) ==
    /\ worker[w].pc = "executing" /\ worker[w].left = {}
    /\ loaded[worker[w].event] # {}
    /\ event' = [event EXCEPT ![worker[w].event] = "completed"]
    /\ Release(w)
    /\ UNCHANGED <<rule, runs, effects, loaded>>

Finish(w) ==
    /\ worker[w].pc = "executing" /\ worker[w].left = {}
    /\ event' = [event EXCEPT ![worker[w].event] = "completed"]
    /\ Release(w)
    /\ UNCHANGED <<rule, runs, effects, loaded>>

\* The process stops, or its last UPDATE of the event fails, whose error nobody looks
\* at: the event stays in processing.
Crash(w) ==
    /\ worker[w].pc # "idle"
    /\ Release(w)
    /\ UNCHANGED <<event, rule, runs, effects, loaded>>

-----------------------------------------------------------------------------
Next ==
    \/ \E r \in Rules : CreateRule(r) \/ \E state \in {"active", "inactive"} : SetActive(r, state)
    \/ \E e \in Events : Enqueue(e)
    \/ \E w \in Workers :
          \/ \E e \in Events : Claim(w, e)
          \/ Load(w) \/ Fail(w) \/ Finish(w) \/ Crash(w)
          \/ \E r \in Rules : Execute(w, r)

Spec == Init /\ [][Next]_vars

\* The ticker fires, the oldest pending event is taken first, and a worker that is not
\* killed goes on.
Fairness ==
    /\ \A e \in Events : SF_vars(\E w \in Workers : Claim(w, e))
    /\ \A w \in Workers :
          WF_vars(Load(w) \/ Fail(w) \/ Finish(w) \/ (\E r \in Rules : Execute(w, r)))

FairSpec == Spec /\ Fairness

-----------------------------------------------------------------------------
(* Properties *)

\* Safety: the action of a rule is applied for an event at most once, and exactly when
\* the run is recorded, with any number of workers.
AppliedOnce == \A x \in Rules \X Events : effects[x] = IF x \in runs THEN 1 ELSE 0

\* Safety: a completed event ran every rule that matched it when they were loaded, and
\* no event ran any other.
CompletedRanAll ==
    \A e \in Events :
        LET ran == {r \in Rules : <<r, e>> \in runs} IN
        /\ ran \subseteq loaded[e]
        /\ event[e] = "completed" => ran = loaded[e]

\* The event was claimed by a worker that is gone.
Orphan(e) ==
    event[e] = "processing" /\ \A w \in Workers : worker[w].pc = "idle" \/ worker[w].event # e

\* Liveness: an event is settled unless its worker was killed: a failing rule, a rule
\* that is switched off or a rival worker never leaves one behind.
EventsSettle ==
    \A e \in Events :
        event[e] = "pending" ~> (event[e] \in {"completed", "failed"} \/ Orphan(e))
=============================================================================
