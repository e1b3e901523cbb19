----------------------- MODULE AutomationEngineProofs -----------------------
(***************************************************************************)
(* The safety of the rule engine, for any events, rules and workers.  That *)
(* a rule acts once for an event needs only the UNIQUE run; that completed *)
(* means executed needs to know whom an event belongs to: the status is    *)
(* taken by one worker and is given back by none.                          *)
(***************************************************************************)
EXTENDS AutomationEngine, TLAPS

Ran(e) == {r \in Rules : <<r, e>> \in runs}

\* A worker's event is in processing and nobody else's.
Owned ==
    /\ \A w \in Workers : worker[w].pc # "idle" => event[worker[w].event] = "processing"
    /\ \A v, w \in Workers :
          (worker[v].pc # "idle" /\ worker[w].pc # "idle" /\ worker[v].event = worker[w].event)
             => v = w

\* Nothing runs for an event before its rules are loaded.
Untouched ==
    /\ \A e \in Events : event[e] \in {"none", "pending"} => Ran(e) = {}
    /\ \A w \in Workers : worker[w].pc = "claimed" => Ran(worker[w].event) = {}

\* What was loaded is what ran and what is left.
Accounted ==
    \A w \in Workers :
        worker[w].pc = "executing" =>
            loaded[worker[w].event] = Ran(worker[w].event) \cup worker[w].left

IInv == TypeOK /\ Owned /\ Untouched /\ Accounted /\ AppliedOnce /\ CompletedRanAll

-----------------------------------------------------------------------------
\* A worker that is not idle has a whole record in hand.
LEMMA InHand ==
    ASSUME TypeOK, NEW w \in Workers, worker[w].pc # "idle"
    PROVE  worker[w] \in Working
BY DEF TypeOK, Idle

\* The initial states: nothing was claimed, nothing ran.
LEMMA InitIInv == Init => IInv
<1>1. Init => TypeOK
  BY DEF Init, TypeOK, EventStatus
<1>2. Init => Owned /\ Untouched /\ Accounted
  BY DEF Init, Owned, Untouched, Accounted, Ran, Idle
<1>3. Init => AppliedOnce /\ CompletedRanAll
  BY DEF Init, AppliedOnce, CompletedRanAll
<1> QED BY <1>1, <1>2, <1>3 DEF IInv

\* Rules that are created or switched touch nothing that the invariant speaks of.
LEMMA RulesKeep ==
    ASSUME IInv, rule' \in [Rules -> {"absent", "active", "inactive"}],
           UNCHANGED <<event, runs, effects, worker, loaded>>
    PROVE  IInv'
BY DEF IInv, TypeOK, Owned, Untouched, Accounted, Ran, AppliedOnce, CompletedRanAll

\* A new row of the outbox is pending, and nothing ran for it while it was not there.
LEMMA EnqueueKeeps == ASSUME IInv, NEW e \in Events, Enqueue(e) PROVE IInv'
<1>1. TypeOK'
  BY DEF IInv, TypeOK, Enqueue, EventStatus
<1>2. Owned'
  BY InHand DEF IInv, TypeOK, Owned, Enqueue, Working
<1>3. Untouched' /\ Accounted'
  BY DEF IInv, TypeOK, Untouched, Accounted, Ran, Enqueue
<1>4. AppliedOnce' /\ CompletedRanAll'
  BY DEF IInv, TypeOK, AppliedOnce, CompletedRanAll, Enqueue
<1> QED BY <1>1, <1>2, <1>3, <1>4 DEF IInv

\* A claim takes an event that nobody has.
LEMMA ClaimKeeps ==
    ASSUME IInv, NEW w \in Workers, NEW e \in Events, Claim(w, e) PROVE IInv'
<1> DEFINE mine == [pc |-> "claimed", event |-> e, left |-> {}]
<1>1. /\ worker[w].pc = "idle" /\ event[e] = "pending"
      /\ event' = [event EXCEPT ![e] = "processing"]
      /\ worker' = [worker EXCEPT ![w] = mine]
      /\ mine \in Working
      /\ UNCHANGED <<rule, runs, effects, loaded>>
  BY DEF Claim, Working
<1>2. TypeOK'
  BY <1>1 DEF IInv, TypeOK, EventStatus
<1>3. /\ worker'[w] = mine
      /\ \A v \in Workers \ {w} : worker'[v] = worker[v]
  BY <1>1 DEF IInv, TypeOK
<1>4. \A v \in Workers : worker[v].pc # "idle" => worker[v].event # e
  BY <1>1 DEF IInv, Owned
<1>5. Owned'
  BY <1>1, <1>3, <1>4, InHand DEF IInv, TypeOK, Owned, Working
<1>6. Untouched'
  BY <1>1, <1>3 DEF IInv, TypeOK, Untouched, Ran
<1>7. Accounted'
  BY <1>1, <1>3 DEF IInv, Accounted, Ran
<1>8. AppliedOnce' /\ CompletedRanAll'
  BY <1>1 DEF IInv, TypeOK, AppliedOnce, CompletedRanAll
<1> QED BY <1>2, <1>5, <1>6, <1>7, <1>8 DEF IInv

\* Loading decides which rules the event is to run: none of them ran yet.
LEMMA LoadKeeps == ASSUME IInv, NEW w \in Workers, Load(w) PROVE IInv'
<1>1. PICK e \in Events : /\ worker[w].pc = "claimed" /\ worker[w] \in Working
                          /\ e = worker[w].event /\ event[e] = "processing"
  BY InHand DEF IInv, Owned, Load, Working
<1>2. PICK all \in SUBSET Rules : all = Matching(e)
  BY DEF Matching
<1>3. PICK mine \in Working : /\ mine.pc = "executing" /\ mine.event = e /\ mine.left = all
                              /\ worker' = [worker EXCEPT ![w] = mine]
  <2> DEFINE m == [worker[w] EXCEPT !.pc = "executing", !.left = all]
  <2>1. m \in Working /\ m.pc = "executing" /\ m.event = e /\ m.left = all
    BY <1>1 DEF Working
  <2>2. worker' = [worker EXCEPT ![w] = m]
    BY <1>1, <1>2 DEF Load
  <2> QED BY <2>1, <2>2
<1>4. /\ loaded' = [loaded EXCEPT ![e] = all]
      /\ UNCHANGED <<event, rule, runs, effects>>
  BY <1>1, <1>2 DEF Load
<1>5. /\ worker'[w] = mine
      /\ \A v \in Workers \ {w} : worker'[v] = worker[v]
      /\ loaded'[e] = all
      /\ \A f \in Events \ {e} : loaded'[f] = loaded[f]
  BY <1>1, <1>3, <1>4 DEF IInv, TypeOK
<1>6. TypeOK'
  BY <1>3, <1>4 DEF IInv, TypeOK
<1>7. Owned'
  BY <1>1, <1>3, <1>4, <1>5 DEF IInv, Owned
<1>8. Ran(e) = {} /\ \A f \in Events : Ran(f)' = Ran(f)
  BY <1>1, <1>4 DEF IInv, Untouched, Ran
<1>9. Untouched'
  BY <1>1, <1>3, <1>4, <1>5 DEF IInv, Untouched, Ran
<1>10. Accounted'
  <2>1. ASSUME NEW v \in Workers, worker'[v].pc = "executing", NEW f, f = worker'[v].event
        PROVE  loaded'[f] = Ran(f)' \cup worker'[v].left
    <3>1. CASE v = w
      BY <2>1, <3>1, <1>3, <1>5, <1>8
    <3>2. CASE v # w
      <4>1. worker[v].pc = "executing" /\ f = worker[v].event /\ f \in Events
        BY <2>1, <3>2, <1>5, InHand DEF IInv, Working
      <4>2. f # e
        BY <4>1, <3>2, <1>1 DEF IInv, Owned
      <4>3. loaded[f] = Ran(f) \cup worker[v].left
        BY <4>1 DEF IInv, Accounted
      <4> QED BY <4>1, <4>2, <4>3, <3>2, <1>5, <1>8
    <3> QED BY <3>1, <3>2
  <2> QED BY <2>1 DEF Accounted, Ran
<1>11. AppliedOnce'
  BY <1>4 DEF IInv, AppliedOnce
<1>12. CompletedRanAll'
  BY <1>1, <1>4, <1>5, <1>8 DEF IInv, CompletedRanAll, Ran
<1> QED BY <1>6, <1>7, <1>9, <1>10, <1>11, <1>12 DEF IInv

\* A rule that is executed moves from what is left to what ran, and its action is
\* applied in the transaction that records the run.
LEMMA ExecuteKeeps ==
    ASSUME IInv, NEW w \in Workers, NEW r \in Rules, Execute(w, r) PROVE IInv'
<1>1. PICK e \in Events : /\ worker[w].pc = "executing" /\ worker[w] \in Working
                          /\ e = worker[w].event /\ event[e] = "processing"
                          /\ r \in worker[w].left /\ <<r, e>> \notin runs
  BY InHand DEF IInv, Owned, Execute, Working
<1>2. PICK mine \in Working : /\ mine.pc = "executing" /\ mine.event = e
                              /\ mine.left = worker[w].left \ {r}
                              /\ worker' = [worker EXCEPT ![w] = mine]
  <2> DEFINE m == [worker[w] EXCEPT !.left = @ \ {r}]
  <2>1. m \in Working /\ m.pc = "executing" /\ m.event = e /\ m.left = worker[w].left \ {r}
    BY <1>1 DEF Working
  <2>2. worker' = [worker EXCEPT ![w] = m]
    BY DEF Execute
  <2> QED BY <2>1, <2>2
<1>3. /\ effects' = [effects EXCEPT ![<<r, e>>] = @ + 1]
      /\ runs' = runs \cup {<<r, e>>}
      /\ UNCHANGED <<event, rule, loaded>>
  BY <1>1 DEF Execute
<1>4. /\ worker'[w] = mine
      /\ \A v \in Workers \ {w} : worker'[v] = worker[v]
  BY <1>2 DEF IInv, TypeOK
<1>5. TypeOK'
  BY <1>1, <1>2, <1>3 DEF IInv, TypeOK
<1>6. Owned'
  BY <1>1, <1>2, <1>3, <1>4 DEF IInv, Owned
<1>7. /\ Ran(e)' = Ran(e) \cup {r}
      /\ \A f \in Events \ {e} : Ran(f)' = Ran(f)
  BY <1>1, <1>3 DEF Ran
<1>8. \A v \in Workers \ {w} :
         worker'[v].pc # "idle" => worker[v].event \in Events \ {e}
  BY <1>1, <1>4, InHand DEF IInv, Owned, Working
<1>9. Untouched'
  <2>1. \A f \in Events : event'[f] \in {"none", "pending"} => Ran(f)' = {}
    BY <1>1, <1>3, <1>7 DEF IInv, Untouched
  <2>2. ASSUME NEW v \in Workers, worker'[v].pc = "claimed", NEW f, f = worker'[v].event
        PROVE  Ran(f)' = {}
    <3>1. v # w /\ worker[v].pc = "claimed" /\ f = worker[v].event
      BY <2>2, <1>2, <1>4
    <3>2. f \in Events \ {e} /\ Ran(f) = {}
      BY <3>1, <2>2, <1>8 DEF IInv, Untouched
    <3> QED BY <3>2, <1>7
  <2> QED BY <2>1, <2>2 DEF Untouched, Ran
<1>10. Accounted'
  <2>1. ASSUME NEW v \in Workers, worker'[v].pc = "executing", NEW f, f = worker'[v].event
        PROVE  loaded'[f] = Ran(f)' \cup worker'[v].left
    <3>1. CASE v = w
      <4>1. f = e /\ loaded[e] = Ran(e) \cup worker[w].left
        BY <2>1, <3>1, <1>1, <1>2, <1>4 DEF IInv, Accounted
      <4> QED BY <4>1, <3>1, <1>1, <1>2, <1>3, <1>4, <1>7
    <3>2. CASE v # w
      <4>1. worker[v].pc = "executing" /\ f = worker[v].event /\ f \in Events \ {e}
        BY <2>1, <3>2, <1>4, <1>8
      <4>2. loaded[f] = Ran(f) \cup worker[v].left
        BY <4>1 DEF IInv, Accounted
      <4> QED BY <4>1, <4>2, <3>2, <1>3, <1>4, <1>7
    <3> QED BY <3>1, <3>2
  <2> QED BY <2>1 DEF Accounted, Ran
<1>11. AppliedOnce'
  BY <1>1, <1>3 DEF IInv, TypeOK, AppliedOnce
<1>12. CompletedRanAll'
  <2>1. r \in loaded[e]
    BY <1>1 DEF IInv, Accounted
  <2>2. \A f \in Events : /\ Ran(f)' \subseteq loaded'[f]
                          /\ event'[f] = "completed" => Ran(f)' = loaded'[f]
    BY <2>1, <1>1, <1>3, <1>7 DEF IInv, CompletedRanAll, Ran
  <2> QED BY <2>2 DEF CompletedRanAll, Ran
<1> QED BY <1>5, <1>6, <1>9, <1>10, <1>11, <1>12 DEF IInv

\* A worker that lets go of its event, which is then in status s: nothing else changes.
LEMMA LetGo ==
    ASSUME IInv, NEW w \in Workers, worker[w].pc # "idle", Release(w),
           NEW s \in {"processing", "completed", "failed"},
           event' = [event EXCEPT ![worker[w].event] = s],
           s = "completed" => Ran(worker[w].event) = loaded[worker[w].event],
           UNCHANGED <<rule, runs, effects, loaded>>
    PROVE  IInv'
<1> DEFINE e == worker[w].event
<1>1. e \in Events /\ event[e] = "processing" /\ worker' = [worker EXCEPT ![w] = Idle]
  BY InHand DEF IInv, Owned, Working, Release
<1>2. /\ worker'[w] = Idle
      /\ \A v \in Workers \ {w} : worker'[v] = worker[v]
  BY <1>1 DEF IInv, TypeOK
<1>3. TypeOK'
  BY <1>1 DEF IInv, TypeOK, EventStatus
<1>4. \A v \in Workers \ {w} : worker[v].pc # "idle" => worker[v].event \in Events \ {e}
  BY InHand DEF IInv, Owned, Working
<1>5. Owned'
  BY <1>1, <1>2, <1>4 DEF IInv, TypeOK, Owned, Idle
<1>6. Untouched' /\ Accounted'
  BY <1>1, <1>2 DEF IInv, TypeOK, Untouched, Accounted, Ran, Idle
<1>7. AppliedOnce'
  BY DEF IInv, AppliedOnce
<1>8. CompletedRanAll'
  BY <1>1 DEF IInv, TypeOK, CompletedRanAll, Ran
<1> QED BY <1>3, <1>5, <1>6, <1>7, <1>8 DEF IInv

\* Every step of the engine keeps the invariant.
LEMMA NextIInv == IInv /\ [Next]_vars => IInv'
<1> SUFFICES ASSUME IInv, [Next]_vars PROVE IInv'
  OBVIOUS
<1>1. ASSUME NEW r \in Rules, CreateRule(r) PROVE IInv'
  BY <1>1, RulesKeep DEF CreateRule, IInv, TypeOK
<1>2. ASSUME NEW r \in Rules, NEW state \in {"active", "inactive"}, SetActive(r, state) PROVE IInv'
  BY <1>2, RulesKeep DEF SetActive, IInv, TypeOK
<1>3. ASSUME NEW e \in Events, Enqueue(e) PROVE IInv'
  BY <1>3, EnqueueKeeps
<1>4. ASSUME NEW w \in Workers, NEW e \in Events, Claim(w, e) PROVE IInv'
  BY <1>4, ClaimKeeps
<1>5. ASSUME NEW w \in Workers, Load(w) PROVE IInv'
  BY <1>5, LoadKeeps
<1>6. ASSUME NEW w \in Workers, NEW r \in Rules, Execute(w, r) PROVE IInv'
  BY <1>6, ExecuteKeeps
<1>7. ASSUME NEW w \in Workers, Fail(w) PROVE IInv'
  <2>1. worker[w].pc # "idle" /\ Release(w) /\ UNCHANGED <<rule, runs, effects, loaded>>
        /\ event' = [event EXCEPT ![worker[w].event] = "failed"]
    BY <1>7 DEF Fail
  <2> QED BY <2>1, LetGo
<1>8. ASSUME NEW w \in Workers, Finish(w) PROVE IInv'
  <2>1. worker[w].pc # "idle" /\ Release(w) /\ UNCHANGED <<rule, runs, effects, loaded>>
        /\ event' = [event EXCEPT ![worker[w].event] = "completed"]
    BY <1>8 DEF Finish
  <2>2. Ran(worker[w].event) = loaded[worker[w].event]
    <3>1. worker[w].pc = "executing" /\ worker[w].left = {}
      BY <1>8 DEF Finish
    <3> QED BY <3>1 DEF IInv, Accounted
  <2> QED BY <2>1, <2>2, LetGo
<1>9. ASSUME NEW w \in Workers, Crash(w) PROVE IInv'
  <2>1. worker[w].pc # "idle" /\ Release(w) /\ UNCHANGED <<event, rule, runs, effects, loaded>>
    BY <1>9 DEF Crash
  <2>2. event' = [event EXCEPT ![worker[w].event] = "processing"]
    BY <2>1, InHand DEF IInv, TypeOK, Owned, Working
  <2> QED BY <2>1, <2>2, LetGo
<1>10. CASE UNCHANGED vars
  BY <1>10, RulesKeep DEF vars, IInv, TypeOK
<1> QED
  BY <1>1, <1>2, <1>3, <1>4, <1>5, <1>6, <1>7, <1>8, <1>9, <1>10 DEF Next

\* The invariant holds in every reachable state.
THEOREM Invariance == Spec => []IInv
BY InitIInv, NextIInv, PTL DEF Spec

\* However many workers compete for an event, and wherever they die, the action of a
\* rule is applied for it at most once, and never without the row that records it.
THEOREM RulesActOnce == Spec => []AppliedOnce
<1>1. IInv => AppliedOnce
  BY DEF IInv
<1> QED BY <1>1, Invariance, PTL

\* An event that is called completed ran exactly the rules that matched it.
THEOREM CompletedMeansRan == Spec => []CompletedRanAll
<1>1. IInv => CompletedRanAll
  BY DEF IInv
<1> QED BY <1>1, Invariance, PTL
=============================================================================
