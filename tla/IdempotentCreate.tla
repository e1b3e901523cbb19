-------------------------- MODULE IdempotentCreate --------------------------
(***************************************************************************)
(* How the Go service creates a project or a task for an API client:       *)
(* reserve the Idempotency-Key (idempotency.Service.Reserve), create in a  *)
(* transaction of its own (Service.Create), store the answer (Complete).   *)
(* The three commit one after the other, so requests with the same key     *)
(* interleave between them and a crash may leave the first without the     *)
(* others.  A project that names its source is also unique by the source.  *)
(***************************************************************************)
EXTENDS Naturals, Sequences, FiniteSets

CONSTANTS
    Keys,           \* Idempotency-Key values of one API client
    Payloads,       \* request bodies
    SourceRef,      \* SourceRef[b]: the (source, source_ref) that body b names
    NoSource,       \* a body that names none: a task, or a project made here
    Requests,       \* requests the service works on at a time
    MaxCreated      \* bound: no request starts when this many rows exist or are coming

ASSUME CreateAssumption ==
    /\ DOMAIN SourceRef = Payloads
    /\ NoSource \notin Payloads
    /\ MaxCreated \in Nat

VARIABLES
    rows,       \* idempotency_keys: the rows, by key
    created,    \* projects and tasks, in the order of their commits
    req,        \* the requests being served
    told,       \* history: the answers with a resource that clients got
    troubled    \* history: keys with overlapping, failed or expired requests

vars == <<rows, created, req, told, troubled>>

-----------------------------------------------------------------------------
NoRow == [payload |-> NoSource, answer |-> 0, live |-> FALSE]

Row == [payload : Payloads, answer : Nat, live : BOOLEAN]

Idle == [pc |-> "idle"]

Busy == [pc : {"reserved", "looked", "made"}, key : Keys, payload : Payloads, id : Nat]

TypeOK ==
    /\ rows \in [Keys -> Row \cup {NoRow}]
    /\ created \in Seq([key : Keys, payload : Payloads])
    /\ req \in [Requests -> {Idle} \cup Busy]
    /\ told \subseteq [key : Keys, payload : Payloads, id : DOMAIN created]
    /\ troubled \subseteq Keys
    /\ \A k \in Keys : rows[k].answer \in {0} \cup DOMAIN created

Init ==
    /\ rows = [k \in Keys |-> NoRow]
    /\ created = <<>>
    /\ req = [r \in Requests |-> Idle]
    /\ told = {}
    /\ troubled = {}

-----------------------------------------------------------------------------
(* Helpers *)

Serving(k) == {r \in Requests : req[r].pc # "idle" /\ req[r].key = k}

\* The project that has the source of body b, if any.
BySource(b) ==
    {i \in DOMAIN created : SourceRef[b] # NoSource /\ SourceRef[created[i].payload] = SourceRef[b]}

Answer(k, b, i) == told' = told \cup {[key |-> k, payload |-> b, id |-> i]}

Release(r) == req' = [req EXCEPT ![r] = Idle]

\* The bound, of the model only.
Room == Len(created) + Cardinality({r \in Requests : req[r].pc # "idle"}) < MaxCreated

-----------------------------------------------------------------------------
(* The steps of a request *)

\* INSERT ... ON CONFLICT DO UPDATE SET key = key RETURNING: the row is new, or it is
\* there, of the same body and without an answer.  In both cases the request goes on.
\* (A row of another body answers 409 and changes nothing.)
Reserve(r, k, b) ==
    /\ req[r].pc = "idle" /\ Room
    /\ rows[k] = NoRow \/ (rows[k].payload = b /\ rows[k].answer = 0)
    /\ rows' = IF rows[k] = NoRow
               THEN [rows EXCEPT ![k] = [payload |-> b, answer |-> 0, live |-> TRUE]] ELSE rows
    /\ req' = [req EXCEPT ![r] = [pc |-> "reserved", key |-> k, payload |-> b, id |-> 0]]
    /\ troubled' = IF Serving(k) # {} THEN troubled \cup {k} ELSE troubled
    /\ UNCHANGED <<created, told>>

\* Deviation: the stored hash is not compared.
ReplayAny(k, b) ==
    /\ rows[k] # NoRow /\ rows[k].answer # 0
    /\ Answer(k, b, rows[k].answer)
    /\ UNCHANGED <<rows, created, req, troubled>>

\* The stored answer, whatever expires_at says.
Replay(k, b) ==
    /\ rows[k] # NoRow /\ rows[k].payload = b /\ rows[k].answer # 0
    /\ Answer(k, b, rows[k].answer)
    /\ UNCHANGED <<rows, created, req, troubled>>

\* Before its transaction a sourced project is looked up: found, it is the answer.
LookUpSource(r) ==
    LET q == req[r] IN
    /\ q.pc = "reserved" /\ SourceRef[q.payload] # NoSource
    /\ \/ \E i \in BySource(q.payload) :
             req' = [req EXCEPT ![r].pc = "made", ![r].id = i]
       \/ /\ BySource(q.payload) = {}
          /\ req' = [req EXCEPT ![r].pc = "looked"]
    /\ UNCHANGED <<rows, created, told, troubled>>

Insertable(r) ==
    \/ req[r].pc = "looked"
    \/ req[r].pc = "reserved" /\ SourceRef[req[r].payload] = NoSource

\* Deviation: the lookup is trusted, there is no unique index.
InsertUnchecked(r) ==
    LET q == req[r] IN
    /\ Insertable(r)
    /\ created' = Append(created, [key |-> q.key, payload |-> q.payload])
    /\ req' = [req EXCEPT ![r].pc = "made", ![r].id = Len(created) + 1]
    /\ UNCHANGED <<rows, told, troubled>>

\* The transaction commits; the unique index lets one project have a source.
Insert(r) ==
    LET q == req[r] IN
    /\ Insertable(r)
    /\ BySource(q.payload) = {}
    /\ created' = Append(created, [key |-> q.key, payload |-> q.payload])
    /\ req' = [req EXCEPT ![r].pc = "made", ![r].id = Len(created) + 1]
    /\ UNCHANGED <<rows, told, troubled>>

\* Deviation: the answer is sent before it is stored, and the store is lost.
CompleteForgets(r) ==
    LET q == req[r] IN
    /\ q.pc = "made" /\ rows[q.key].live
    /\ Answer(q.key, q.payload, q.id)
    /\ Release(r)
    /\ UNCHANGED <<rows, created, troubled>>

\* UPDATE ... WHERE expires_at > now(), one row: the answer is stored and sent.
Complete(r) ==
    LET q == req[r] IN
    /\ q.pc = "made" /\ rows[q.key].live
    /\ rows' = [rows EXCEPT ![q.key].answer = q.id]
    /\ Answer(q.key, q.payload, q.id)
    /\ Release(r)
    /\ UNCHANGED <<created, troubled>>

\* The service goes down, the request is not valid, the insert meets the unique index
\* or Complete finds no live row: the client gets no resource, and the key keeps its
\* row.  Nothing undoes what was committed.
Fail(r) ==
    /\ req[r].pc # "idle"
    /\ troubled' = IF req[r].pc = "made" THEN troubled \cup {req[r].key} ELSE troubled
    /\ Release(r)
    /\ UNCHANGED <<rows, created, told>>

\* 24 hours after the first request with the key.
Expire(k) ==
    /\ rows[k].live
    /\ rows' = [rows EXCEPT ![k].live = FALSE]
    /\ UNCHANGED <<created, req, told, troubled>>

-----------------------------------------------------------------------------
Next ==
    \/ \E r \in Requests :
          \/ \E k \in Keys, b \in Payloads : Reserve(r, k, b)
          \/ LookUpSource(r) \/ Insert(r) \/ Complete(r) \/ Fail(r)
    \/ \E k \in Keys, b \in Payloads : Replay(k, b)
    \/ \E k \in Keys : Expire(k)

Spec == Init /\ [][Next]_vars

-----------------------------------------------------------------------------
(* Properties *)

\* Safety: one project per source, whichever keys its requests carry and however
\* their lookups and inserts interleave.
OneProjectPerSource ==
    \A i, j \in DOMAIN created :
        (SourceRef[created[i].payload] # NoSource
            /\ SourceRef[created[i].payload] = SourceRef[created[j].payload]) => i = j

\* Safety: an answer names a resource made of the body it answers, or the project that
\* has the body's source: no key ever answers for another body.
AnswersFitTheirBody ==
    \A a \in told : created[a.id].payload = a.payload \/ a.id \in BySource(a.payload)

\* Safety: the key protects retries that come one after the other.  A key creates a
\* second resource, or answers with two, only if two requests with it overlapped or
\* one died between the commit and Complete.
OnceUnlessTroubled ==
    \A k \in Keys \ troubled :
        /\ \A i, j \in DOMAIN created : (created[i].key = k /\ created[j].key = k) => i = j
        /\ \A a, b \in told : (a.key = k /\ b.key = k) => a.id = b.id

\* What the integration framework promises: within 24 hours a key never creates a
\* second resource, however often the request is sent.
OncePerKeyInADay ==
    \A k \in Keys : rows[k].live =>
        \A i, j \in DOMAIN created : (created[i].key = k /\ created[j].key = k) => i = j
=============================================================================
