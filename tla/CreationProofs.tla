-------------------------- MODULE CreationProofs ----------------------------
(***************************************************************************)
(* Making things once: the idempotent creation of the server, and the form *)
(* that creates and edits a project with its tasks.                        *)
(***************************************************************************)
EXTENDS IdempotentCreate, ProjectForm, FiniteSetTheorems, TLAPS

(***************************************************************************)
(* IdempotentCreate, for any keys, bodies and requests.  No request holds  *)
(* a lock between its three commits: what carries the argument is that a   *)
(* row keeps the body it was reserved for, and that a key without trouble  *)
(* has at most one request under way.                                      *)
(***************************************************************************)

Resource == [key : Keys, payload : Payloads]

\* Resource i may answer body b.
Fits(i, b) == i \in DOMAIN created /\ (created[i].payload = b \/ i \in BySource(b))

\* A request carries the body of its key's row, and what it made fits that body.
Held ==
    \A r \in Requests : req[r].pc # "idle" =>
        /\ rows[req[r].key].payload = req[r].payload
        /\ req[r].pc = "made" => Fits(req[r].id, req[r].payload)

\* A stored answer fits the body it is stored for.
Stored == \A k \in Keys : rows[k].answer # 0 => Fits(rows[k].answer, rows[k].payload)

Told == \A a \in told : Fits(a.id, a.payload)

\* Without trouble a key has one request at a time and none once it is answered, and
\* what was created or told under the key is its answer, or is about to be.
Calm(k) ==
    /\ \A q, r \in Serving(k) : q = r
    /\ Serving(k) # {} => rows[k].answer = 0
    /\ \A i \in DOMAIN created : created[i].key = k =>
          i = rows[k].answer \/ \E r \in Serving(k) : req[r].pc = "made" /\ req[r].id = i
    /\ \A a \in told : a.key = k => a.id = rows[k].answer

CalmKeys == \A k \in Keys \ troubled : Calm(k)

Fitting == Held /\ Stored /\ Told

IInv == TypeOK /\ OneProjectPerSource /\ Fitting /\ CalmKeys

-----------------------------------------------------------------------------
\* A request that is not idle has a whole record.
LEMMA Whole ==
    ASSUME TypeOK, NEW r \in Requests, req[r].pc # "idle"
    PROVE  req[r] \in Busy
BY DEF TypeOK, Idle

\* A live row has been reserved, and every row has the shape of one.
LEMMA RowShape ==
    ASSUME TypeOK, NEW k \in Keys
    PROVE  /\ rows[k].answer \in {0} \cup DOMAIN created
           /\ rows[k].live => rows[k] \in Row
           /\ rows[k] # NoRow => rows[k] \in Row
BY DEF TypeOK, NoRow

\* The initial states: no row, no resource, no request.
LEMMA InitIInv == Init => IInv
<1> SUFFICES ASSUME Init PROVE IInv
  OBVIOUS
<1>1. TypeOK
  BY DEF Init, TypeOK, NoRow
<1>2. OneProjectPerSource /\ Fitting
  BY DEF Init, OneProjectPerSource, Fitting, Held, Stored, Told, Idle, NoRow
<1>3. CalmKeys
  BY DEF Init, CalmKeys, Calm, Serving, Idle
<1> QED BY <1>1, <1>2, <1>3 DEF IInv

\* A key of which nothing changed stays calm; so does one whose rows, requests and
\* resources are the same in the parts that Calm speaks of.
LEMMA CalmStays ==
    ASSUME NEW k, Calm(k), rows'[k].answer = rows[k].answer, UNCHANGED created,
           Serving(k)' = Serving(k), \A r \in Serving(k) : req'[r] = req[r],
           \A a \in told' : a.key = k => a \in told
    PROVE  Calm(k)'
BY DEF Calm

-----------------------------------------------------------------------------
\* A reservation takes a free key, or joins the requests of an unanswered one.
LEMMA ReserveKeeps ==
    ASSUME IInv, NEW r \in Requests, NEW k \in Keys, NEW b \in Payloads, Reserve(r, k, b)
    PROVE  IInv'
<1> DEFINE mine == [pc |-> "reserved", key |-> k, payload |-> b, id |-> 0]
           row == [payload |-> b, answer |-> 0, live |-> TRUE]
<1>1. /\ req[r].pc = "idle" /\ mine \in Busy /\ row \in Row
      /\ req' = [req EXCEPT ![r] = mine]
      /\ UNCHANGED <<created, told>>
      /\ \A j \in Keys \ {k} : rows'[j] = rows[j]
      /\ rows'[k] \in Row /\ rows'[k].payload = b /\ rows'[k].answer = 0 /\ rows[k].answer = 0
      /\ rows' \in [Keys -> Row \cup {NoRow}]
  <2>1. CASE rows[k] = NoRow
    BY <2>1 DEF Reserve, Busy, Row, IInv, TypeOK, NoRow
  <2>2. CASE rows[k] # NoRow
    BY <2>2, RowShape DEF Reserve, Busy, Row, IInv, TypeOK
  <2> QED BY <2>1, <2>2
<1>2. troubled' = IF Serving(k) # {} THEN troubled \cup {k} ELSE troubled
  BY DEF Reserve
<1>3. req'[r] = mine /\ \A q \in Requests \ {r} : req'[q] = req[q]
  BY <1>1 DEF IInv, TypeOK
<1>4. TypeOK'
  BY <1>1, <1>2, <1>3 DEF IInv, TypeOK
<1>5. OneProjectPerSource'
  BY <1>1 DEF IInv, OneProjectPerSource
<1>6. \A i, c : Fits(i, c)' <=> Fits(i, c)
  BY <1>1 DEF Fits, BySource
<1>7. Held'
  <2>1. ASSUME NEW q \in Requests, req'[q].pc # "idle"
        PROVE  /\ rows'[req'[q].key].payload = req'[q].payload
               /\ req'[q].pc = "made" => Fits(req'[q].id, req'[q].payload)
    <3>1. CASE q = r
      BY <3>1, <1>1, <1>3
    <3>2. CASE q # r
      <4>1. req[q] \in Busy /\ req'[q] = req[q] /\ req[q].pc # "idle"
        BY <2>1, <3>2, <1>3, Whole DEF IInv
      <4>2. /\ rows[req[q].key].payload = req[q].payload
            /\ req[q].pc = "made" => Fits(req[q].id, req[q].payload)
        BY <4>1 DEF IInv, Fitting, Held
      <4>3. req[q].key = k => rows[k].payload = b
        BY <4>1, <4>2, CreateAssumption DEF Reserve, Busy, NoRow
      <4> QED BY <4>1, <4>2, <4>3, <1>1 DEF Busy
    <3> QED BY <3>1, <3>2
  <2> QED BY <2>1, <1>1 DEF Held, Fits, BySource
<1>8. Stored' /\ Told'
  BY <1>1, <1>6 DEF IInv, Fitting, Stored, Told
<1>9. CalmKeys'
  <2> SUFFICES ASSUME NEW j \in Keys \ troubled' PROVE Calm(j)'
    BY DEF CalmKeys
  <2>1. Calm(j)
    BY <1>2 DEF IInv, CalmKeys
  <2>2. CASE j = k
    <3>1. Serving(k) = {} /\ Serving(k)' = {r}
      BY <2>2, <1>1, <1>2, <1>3 DEF Serving
    <3>2. \A i \in DOMAIN created : created[i].key = k => i = 0
      BY <3>1, <2>1, <2>2, <1>1 DEF Calm
    <3> QED BY <3>1, <3>2, <2>1, <2>2, <1>1 DEF Calm
  <2>3. CASE j # k
    <3>1. Serving(j)' = Serving(j) /\ r \notin Serving(j)
      BY <2>3, <1>1, <1>3 DEF Serving
    <3>2. \A q \in Serving(j) : req'[q] = req[q]
      BY <3>1, <1>3 DEF Serving
    <3> QED BY <3>1, <3>2, <2>1, <2>3, <1>1, CalmStays
  <2> QED BY <2>2, <2>3
<1> QED BY <1>4, <1>5, <1>7, <1>8, <1>9 DEF IInv, Fitting

\* A replay tells what is stored, to the body that it is stored for.
LEMMA ReplayKeeps ==
    ASSUME IInv, NEW k \in Keys, NEW b \in Payloads, Replay(k, b) PROVE IInv'
<1> DEFINE new == [key |-> k, payload |-> b, id |-> rows[k].answer]
<1>1. /\ rows[k].payload = b /\ rows[k].answer # 0 /\ rows[k].answer \in DOMAIN created
      /\ told' = told \cup {new}
      /\ UNCHANGED <<rows, created, req, troubled>>
  BY RowShape DEF Replay, Answer, IInv
<1>2. TypeOK'
  BY <1>1 DEF IInv, TypeOK
<1>3. OneProjectPerSource'
  BY <1>1 DEF IInv, OneProjectPerSource
<1>4. Fitting'
  BY <1>1 DEF IInv, Fitting, Held, Stored, Told, Fits, BySource
<1>5. CalmKeys'
  BY <1>1 DEF IInv, CalmKeys, Calm, Serving
<1> QED BY <1>2, <1>3, <1>4, <1>5 DEF IInv

\* The lookup answers with a project of the body's source, or finds that there is none.
LEMMA LookUpKeeps == ASSUME IInv, NEW r \in Requests, LookUpSource(r) PROVE IInv'
<1>1. req[r] \in Busy /\ req[r].pc = "reserved" /\ UNCHANGED <<rows, created, told, troubled>>
  BY Whole DEF IInv, LookUpSource
<1>2. PICK mine \in Busy :
         /\ req' = [req EXCEPT ![r] = mine]
         /\ mine.key = req[r].key /\ mine.payload = req[r].payload
         /\ mine.pc \in {"looked", "made"}
         /\ mine.pc = "made" => mine.id \in BySource(req[r].payload)
  <2>1. CASE BySource(req[r].payload) = {}
    <3> DEFINE m == [req[r] EXCEPT !.pc = "looked"]
    <3>1. m \in Busy /\ m.key = req[r].key /\ m.payload = req[r].payload /\ m.pc = "looked"
      BY <1>1 DEF Busy
    <3>2. req' = [req EXCEPT ![r] = m]
      BY <2>1 DEF LookUpSource
    <3> QED BY <3>1, <3>2
  <2>2. CASE BySource(req[r].payload) # {}
    <3>1. PICK i \in BySource(req[r].payload) : req' = [req EXCEPT ![r].pc = "made", ![r].id = i]
      BY <2>2 DEF LookUpSource
    <3> DEFINE m == [req[r] EXCEPT !.pc = "made", !.id = i]
    <3>2. i \in Nat
      BY DEF BySource, IInv, TypeOK
    <3>3. /\ m \in Busy /\ m.key = req[r].key /\ m.payload = req[r].payload
          /\ m.pc = "made" /\ m.id = i
      BY <3>2, <1>1 DEF Busy
    <3>4. req' = [req EXCEPT ![r] = m]
      BY <3>1
    <3> QED BY <3>3, <3>4
  <2> QED BY <2>1, <2>2
<1>3. req'[r] = mine /\ \A q \in Requests \ {r} : req'[q] = req[q]
  BY <1>2 DEF IInv, TypeOK
<1>4. TypeOK'
  BY <1>1, <1>2 DEF IInv, TypeOK
<1>5. OneProjectPerSource' /\ Stored' /\ Told'
  BY <1>1 DEF IInv, OneProjectPerSource, Fitting, Stored, Told, Fits, BySource
<1>6. Held'
  <2>1. \A i, c : Fits(i, c)' <=> Fits(i, c)
    BY <1>1 DEF Fits, BySource
  <2>2. mine.pc = "made" => Fits(mine.id, mine.payload)
    BY <1>2 DEF Fits, BySource
  <2>3. rows[mine.key].payload = mine.payload
    BY <1>1, <1>2 DEF IInv, Fitting, Held
  <2>4. \A q \in Requests : req'[q].pc # "idle" =>
           /\ rows'[req'[q].key].payload = req'[q].payload
           /\ req'[q].pc = "made" => Fits(req'[q].id, req'[q].payload)
    BY <2>2, <2>3, <1>1, <1>3 DEF IInv, Fitting, Held
  <2> QED BY <2>1, <2>4, <1>1 DEF Held, Fits, BySource
<1>7. CalmKeys'
  <2> SUFFICES ASSUME NEW j \in Keys \ troubled PROVE Calm(j)'
    BY <1>1 DEF CalmKeys
  <2>1. Calm(j) /\ Serving(j)' = Serving(j)
    BY <1>1, <1>2, <1>3 DEF IInv, CalmKeys, Serving, Busy
  <2>2. \A q \in Serving(j) : req[q].pc = "made" => req'[q] = req[q]
    BY <1>1, <1>3 DEF Serving
  <2> QED BY <2>1, <2>2, <1>1 DEF Calm
<1> QED BY <1>4, <1>5, <1>6, <1>7 DEF IInv, Fitting

\* The insert adds a resource of the request's body, whose source no other names.
LEMMA InsertKeeps == ASSUME IInv, NEW r \in Requests, Insert(r) PROVE IInv'
<1>1. /\ req[r] \in Busy /\ req[r].pc \in {"reserved", "looked"}
      /\ UNCHANGED <<rows, told, troubled>>
  BY Whole DEF IInv, Insert, Insertable
<1>2. PICK k \in Keys, b \in Payloads : k = req[r].key /\ b = req[r].payload
  BY <1>1 DEF Busy
<1>3. PICK n \in Nat, new \in Resource :
         /\ n = Len(created) + 1 /\ new.key = k /\ new.payload = b
         /\ created' = Append(created, new)
  <2>1. created \in Seq(Resource)
    BY DEF IInv, TypeOK, Resource
  <2> DEFINE m == [key |-> k, payload |-> b]
  <2>2. m \in Resource /\ m.key = k /\ m.payload = b
    BY DEF Resource
  <2>3. created' = Append(created, m) /\ Len(created) + 1 \in Nat
    BY <2>1, <1>2 DEF Insert
  <2> QED BY <2>2, <2>3
<1>4. PICK mine \in Busy :
         /\ req' = [req EXCEPT ![r] = mine]
         /\ mine.pc = "made" /\ mine.key = k /\ mine.payload = b /\ mine.id = n
  <2> DEFINE m == [req[r] EXCEPT !.pc = "made", !.id = n]
  <2>1. m \in Busy /\ m.pc = "made" /\ m.key = k /\ m.payload = b /\ m.id = n
    BY <1>1, <1>2 DEF Busy
  <2>2. req' = [req EXCEPT ![r] = m]
    BY <1>3 DEF Insert
  <2> QED BY <2>1, <2>2
<1>5. req'[r] = mine /\ \A q \in Requests \ {r} : req'[q] = req[q]
  BY <1>4 DEF IInv, TypeOK
<1>6. /\ created' \in Seq(Resource)
      /\ DOMAIN created' = DOMAIN created \cup {n} /\ n \notin DOMAIN created /\ n # 0
      /\ created'[n] = new /\ \A i \in DOMAIN created : created'[i] = created[i]
  BY <1>3 DEF IInv, TypeOK, Resource
<1>7. TypeOK'
  <2>1. told' \subseteq [key : Keys, payload : Payloads, id : DOMAIN created']
    BY <1>1, <1>6 DEF IInv, TypeOK
  <2> QED BY <2>1, <1>1, <1>4, <1>6 DEF IInv, TypeOK, Resource
<1>8. OneProjectPerSource'
  <2>1. SourceRef[b] # NoSource =>
           \A i \in DOMAIN created : SourceRef[created[i].payload] # SourceRef[b]
    BY <1>2 DEF Insert, BySource
  <2> QED BY <2>1, <1>3, <1>6 DEF IInv, OneProjectPerSource
<1>9. \A i, c : Fits(i, c) => Fits(i, c)'
  BY <1>6 DEF Fits, BySource
<1>10. Fits(n, b)'
  BY <1>3, <1>6 DEF Fits
<1>11. Fitting'
  <2>1. \A q \in Requests : req'[q].pc # "idle" => rows[req'[q].key].payload = req'[q].payload
    BY <1>1, <1>2, <1>4, <1>5 DEF IInv, Fitting, Held
  <2>2. ASSUME NEW q \in Requests, req'[q].pc = "made", NEW i, NEW c,
               i = req'[q].id, c = req'[q].payload
        PROVE  Fits(i, c)'
    <3>1. CASE q = r
      BY <2>2, <3>1, <1>4, <1>5, <1>10
    <3>2. CASE q # r
      BY <2>2, <3>2, <1>5, <1>9 DEF IInv, Fitting, Held
    <3> QED BY <3>1, <3>2
  <2>3. Held'
    BY <2>1, <2>2, <1>1 DEF Held, Fits, BySource
  <2>4. Stored' /\ Told'
    BY <1>1, <1>9 DEF IInv, Fitting, Stored, Told
  <2> QED BY <2>3, <2>4 DEF Fitting
<1>12. CalmKeys'
  <2> SUFFICES ASSUME NEW j \in Keys \ troubled PROVE Calm(j)'
    BY <1>1 DEF CalmKeys
  <2>1. Calm(j) /\ Serving(j)' = Serving(j)
    BY <1>1, <1>2, <1>4, <1>5 DEF IInv, CalmKeys, Serving, Busy
  <2>2. \A q \in Serving(j) : req[q].pc = "made" => req'[q] = req[q]
    BY <1>1, <1>5 DEF Serving
  <2>3. ASSUME NEW i \in DOMAIN created', created'[i].key = j
        PROVE  i = rows[j].answer \/ \E q \in Serving(j) : req'[q].pc = "made" /\ req'[q].id = i
    <3>1. CASE i = n
      <4>1. r \in Serving(j)
        BY <2>3, <3>1, <1>1, <1>2, <1>3, <1>6 DEF Serving
      <4> QED BY <4>1, <3>1, <1>4, <1>5
    <3>2. CASE i # n
      BY <2>1, <2>2, <2>3, <3>2, <1>6 DEF Calm
    <3> QED BY <3>1, <3>2
  <2> QED BY <2>1, <2>3, <1>1 DEF Calm
<1> QED BY <1>7, <1>8, <1>11, <1>12 DEF IInv

\* A request that ends leaves the others as they were.
LEMMA Ended ==
    ASSUME IInv, NEW r \in Requests, req[r].pc # "idle", Release(r)
    PROVE  /\ req' \in [Requests -> {Idle} \cup Busy]
           /\ req'[r].pc = "idle"
           /\ \A q \in Requests \ {r} : req'[q] = req[q]
           /\ \A j \in Keys : Serving(j)' = Serving(j) \ {r}
<1>1. req' = [req EXCEPT ![r] = Idle]
  BY DEF Release
<1>2. /\ req' \in [Requests -> {Idle} \cup Busy] /\ req'[r].pc = "idle"
      /\ \A q \in Requests \ {r} : req'[q] = req[q]
  BY <1>1 DEF IInv, TypeOK, Idle
<1> QED BY <1>2 DEF Serving

\* The answer is stored with the body of the row, which is the request's.
LEMMA CompleteKeeps == ASSUME IInv, NEW r \in Requests, Complete(r) PROVE IInv'
<1>1. /\ req[r] \in Busy /\ req[r].pc = "made" /\ req[r].pc # "idle" /\ Release(r)
      /\ UNCHANGED <<created, troubled>>
  BY Whole DEF IInv, Complete
<1>2. PICK k \in Keys, b \in Payloads, i \in DOMAIN created :
         k = req[r].key /\ b = req[r].payload /\ i = req[r].id /\ Fits(i, b)
  BY <1>1 DEF Busy, IInv, Fitting, Held, Fits
<1>3. rows[k] \in Row /\ rows[k].payload = b
  BY <1>1, <1>2, RowShape DEF Complete, IInv, Fitting, Held
<1>4. i \in Nat /\ i # 0
  BY DEF IInv, TypeOK
<1>5. PICK row \in Row : /\ rows' = [rows EXCEPT ![k] = row]
                         /\ row.answer = i /\ row.payload = b
  <2> DEFINE m == [rows[k] EXCEPT !.answer = i]
  <2>1. m \in Row /\ m.answer = i /\ m.payload = b
    BY <1>3, <1>4 DEF Row
  <2>2. rows' = [rows EXCEPT ![k] = m]
    BY <1>2 DEF Complete
  <2> QED BY <2>1, <2>2
<1>6. rows'[k] = row /\ \A j \in Keys \ {k} : rows'[j] = rows[j]
  BY <1>5 DEF IInv, TypeOK
<1>7. PICK new \in [key : Keys, payload : Payloads, id : DOMAIN created] :
         /\ told' = told \cup {new}
         /\ new.key = k /\ new.payload = b /\ new.id = i
  <2> DEFINE m == [key |-> k, payload |-> b, id |-> i]
  <2>1. told' = told \cup {m}
    BY <1>2 DEF Complete, Answer
  <2>2. m \in [key : Keys, payload : Payloads, id : DOMAIN created]
    OBVIOUS
  <2>3. m.key = k /\ m.payload = b /\ m.id = i
    OBVIOUS
  <2> HIDE DEF m
  <2> QED BY <2>1, <2>2, <2>3
<1>8. TypeOK'
  BY <1>1, <1>2, <1>5, <1>6, <1>7, Ended DEF IInv, TypeOK
<1>9. OneProjectPerSource'
  BY <1>1 DEF IInv, OneProjectPerSource
<1>10. Fitting'
  <2>1. \A h, c : Fits(h, c)' <=> Fits(h, c)
    BY <1>1 DEF Fits, BySource
  <2>2. \A q \in Requests : req'[q].pc # "idle" =>
           /\ rows'[req'[q].key].payload = req'[q].payload
           /\ req'[q].pc = "made" => Fits(req'[q].id, req'[q].payload)
    <3> SUFFICES ASSUME NEW q \in Requests, req'[q].pc # "idle"
                 PROVE  /\ rows'[req'[q].key].payload = req'[q].payload
                        /\ req'[q].pc = "made" => Fits(req'[q].id, req'[q].payload)
      OBVIOUS
    <3>1. req'[q] = req[q] /\ req[q].pc # "idle" /\ req[q] \in Busy
      BY <1>1, Ended, Whole DEF IInv
    <3> QED BY <3>1, <1>3, <1>5, <1>6 DEF IInv, Fitting, Held, Busy
  <2>3. Held'
    BY <2>1, <2>2, <1>1 DEF Held, Fits, BySource
  <2>4. Stored' /\ Told'
    BY <2>1, <1>2, <1>5, <1>6, <1>7 DEF IInv, Fitting, Stored, Told
  <2> QED BY <2>3, <2>4 DEF Fitting
<1>11. CalmKeys'
  <2> SUFFICES ASSUME NEW j \in Keys \ troubled PROVE Calm(j)'
    BY <1>1 DEF CalmKeys
  <2>1. Calm(j) /\ Serving(j)' = Serving(j) \ {r}
    BY <1>1, Ended DEF IInv, CalmKeys
  <2>2. CASE j = k
    <3>1. r \in Serving(k)
      BY <1>1, <1>2 DEF Serving
    <3>2. Serving(k)' = {} /\ rows[k].answer = 0
      BY <3>1, <2>1, <2>2 DEF Calm
    <3>3. \A h \in DOMAIN created : created[h].key = k => h = i
      BY <3>1, <3>2, <2>1, <2>2, <1>2 DEF Calm, IInv, TypeOK
    <3>4. \A a \in told : a.key # k
      BY <3>2, <2>1, <2>2 DEF Calm, IInv, TypeOK
    <3> QED BY <3>2, <3>3, <3>4, <2>2, <1>1, <1>5, <1>6, <1>7 DEF Calm
  <2>3. CASE j # k
    <3>1. r \notin Serving(j)
      BY <2>3, <1>2 DEF Serving
    <3>2. Serving(j)' = Serving(j) /\ \A q \in Serving(j) : req'[q] = req[q]
      BY <3>1, <2>1, <1>1, Ended DEF Serving
    <3> QED BY <3>2, <2>1, <2>3, <1>1, <1>6, <1>7, CalmStays
  <2> QED BY <2>2, <2>3
<1> QED BY <1>8, <1>9, <1>10, <1>11 DEF IInv

\* A request that dies after its commit troubles its key; before, it leaves nothing.
LEMMA FailKeeps == ASSUME IInv, NEW r \in Requests, Fail(r) PROVE IInv'
<1>1. /\ req[r] \in Busy /\ req[r].pc # "idle" /\ Release(r)
      /\ UNCHANGED <<rows, created, told>>
      /\ troubled' = IF req[r].pc = "made" THEN troubled \cup {req[r].key} ELSE troubled
  BY Whole DEF IInv, Fail
<1>2. TypeOK'
  BY <1>1, Ended DEF IInv, TypeOK, Busy
<1>3. OneProjectPerSource'
  BY <1>1 DEF IInv, OneProjectPerSource
<1>4. Fitting'
  <2>1. \A h, c : Fits(h, c)' <=> Fits(h, c)
    BY <1>1 DEF Fits, BySource
  <2>2. \A q \in Requests : req'[q].pc # "idle" => req'[q] = req[q]
    BY <1>1, Ended
  <2>3. \A q \in Requests : req'[q].pc # "idle" =>
           /\ rows'[req'[q].key].payload = req'[q].payload
           /\ req'[q].pc = "made" => Fits(req'[q].id, req'[q].payload)
    BY <2>2, <1>1 DEF IInv, Fitting, Held
  <2>4. Held'
    BY <2>1, <2>3, <1>1 DEF Held, Fits, BySource
  <2>5. Stored' /\ Told'
    BY <2>1, <1>1 DEF IInv, Fitting, Stored, Told
  <2> QED BY <2>4, <2>5 DEF Fitting
<1>5. CalmKeys'
  <2> SUFFICES ASSUME NEW j \in Keys \ troubled' PROVE Calm(j)'
    BY DEF CalmKeys
  <2>1. Calm(j) /\ Serving(j)' = Serving(j) \ {r} /\ (r \in Serving(j) => req[r].pc # "made")
    BY <1>1, Ended DEF IInv, CalmKeys, Serving
  <2>2. \A q \in Serving(j) \ {r} : req'[q] = req[q]
    BY <1>1, Ended DEF Serving
  <2> QED BY <2>1, <2>2, <1>1 DEF Calm
<1> QED BY <1>2, <1>3, <1>4, <1>5 DEF IInv

\* An expired row keeps its body and its answer.
LEMMA ExpireKeeps == ASSUME IInv, NEW k \in Keys, Expire(k) PROVE IInv'
<1>1. rows[k] \in Row /\ UNCHANGED <<created, req, told, troubled>>
  BY RowShape DEF IInv, Expire
<1>2. PICK row \in Row : /\ rows' = [rows EXCEPT ![k] = row]
                         /\ row.answer = rows[k].answer /\ row.payload = rows[k].payload
  <2> DEFINE m == [rows[k] EXCEPT !.live = FALSE]
  <2>1. m \in Row /\ m.answer = rows[k].answer /\ m.payload = rows[k].payload
    BY <1>1 DEF Row
  <2>2. rows' = [rows EXCEPT ![k] = m]
    BY DEF Expire
  <2> QED BY <2>1, <2>2
<1>3. \A j \in Keys : rows'[j].answer = rows[j].answer /\ rows'[j].payload = rows[j].payload
  BY <1>2 DEF IInv, TypeOK
<1>4. TypeOK'
  BY <1>1, <1>2, <1>3 DEF IInv, TypeOK
<1>5. OneProjectPerSource'
  BY <1>1 DEF IInv, OneProjectPerSource
<1>6. Fitting'
  <2>1. \A h, c : Fits(h, c)' <=> Fits(h, c)
    BY <1>1 DEF Fits, BySource
  <2>2. Held'
    <3>1. \A q \in Requests : req[q].pc # "idle" =>
             /\ rows'[req[q].key].payload = req[q].payload
             /\ req[q].pc = "made" => Fits(req[q].id, req[q].payload)
      BY <1>3, Whole DEF IInv, Fitting, Held, Busy
    <3> QED BY <3>1, <2>1, <1>1 DEF Held, Fits, BySource
  <2>3. Stored' /\ Told'
    BY <2>1, <1>1, <1>3 DEF IInv, Fitting, Stored, Told
  <2> QED BY <2>2, <2>3 DEF Fitting
<1>7. CalmKeys'
  BY <1>1, <1>3, CalmStays DEF IInv, CalmKeys, Serving
<1> QED BY <1>4, <1>5, <1>6, <1>7 DEF IInv

-----------------------------------------------------------------------------
\* Every step keeps the invariant.
LEMMA NextIInv == IInv /\ [Next]_vars => IInv'
<1> SUFFICES ASSUME IInv, [Next]_vars PROVE IInv'
  OBVIOUS
<1>1. CASE UNCHANGED vars
  BY <1>1 DEF vars, IInv, TypeOK, OneProjectPerSource, Fitting, Held, Stored, Told, Fits,
              BySource, CalmKeys, Calm, Serving
<1>2. CASE Next
  BY <1>2, ReserveKeeps, LookUpKeeps, InsertKeeps, CompleteKeeps, FailKeeps, ReplayKeeps,
     ExpireKeeps DEF Next
<1> QED BY <1>1, <1>2

\* The invariant holds in every reachable state.
THEOREM Invariance == Spec => []IInv
BY InitIInv, NextIInv, PTL DEF Spec

\* One project per source, for any number of keys and of requests that race.
THEOREM SourcesAreUnique == Spec => []OneProjectPerSource
<1>1. IInv => OneProjectPerSource
  BY DEF IInv
<1> QED BY <1>1, Invariance, PTL

\* No key ever answers for a body that it was not reserved for.
THEOREM NoForeignAnswers == Spec => []AnswersFitTheirBody
<1>1. IInv => AnswersFitTheirBody
  BY DEF IInv, Fitting, Told, Fits, AnswersFitTheirBody
<1> QED BY <1>1, Invariance, PTL

\* Only overlapping requests, or one that died after its commit, let a key create twice.
THEOREM OnceWithoutTrouble == Spec => []OnceUnlessTroubled
<1>1. ASSUME IInv PROVE OnceUnlessTroubled
  <2> SUFFICES ASSUME NEW k \in Keys \ troubled
               PROVE  /\ \A i, j \in DOMAIN created :
                            (created[i].key = k /\ created[j].key = k) => i = j
                      /\ \A a, b \in told : (a.key = k /\ b.key = k) => a.id = b.id
    BY DEF OnceUnlessTroubled
  <2>1. Calm(k) /\ \A i \in DOMAIN created : i # 0
    BY <1>1 DEF IInv, CalmKeys, TypeOK
  <2> QED BY <2>1 DEF Calm
<1> QED BY <1>1, Invariance, PTL

(***************************************************************************)
(* ProjectForm: a save deletes only what was dropped, for any plans and    *)
(* projects, however often it fails, is left or is late.  What a save will *)
(* delete is fixed when it begins; the argument follows the tasks that the *)
(* plan is without past three places: the form, the save that is waiting   *)
(* for its project, and the requests under way.  A save that began alone,  *)
(* knowing the tasks there are, and that nothing interferes with leaves    *)
(* the plan: what no request of it is about any more is matched one by one *)
(* with the tasks of the project.                                          *)
(***************************************************************************)

Given(S) == \A i \in S : i \in Nat /\ i < fresh

\* The next id has not been given to anything yet.
FreshIsNew ==
    /\ fresh \in Nat /\ Given(DOMAIN tasks)
    /\ DOMAIN listed = Projects /\ \A p \in Projects : Given(DOMAIN listed[p].tasks)

\* A form shows a project that there can be, and what is no save under way is idle.
Forms ==
    /\ target \in Projects \cup {NoProject}
    /\ form = "closed" => target = NoProject
    /\ attempt \in Nat /\ DOMAIN saves = Saves
    /\ \A n \in Saves : /\ DOMAIN saves[n] = DOMAIN NoSave
                        /\ ~UnderWay(n) => saves[n] = NoSave
                        /\ UnderWay(n) => n <= attempt
    /\ \A r \in requests : r.kind \in {"delete", "patch", "post"} /\ r.attempt \in Saves

\* What the form knows and its plan is without is absent, and dropped once it is saved.
Without ==
    /\ form = "open" => DOMAIN Known \ DOMAIN activities \subseteq absent
    /\ \A n \in Saves : saves[n].phase = "project" =>
          DOMAIN saves[n].known \ DOMAIN saves[n].activities \subseteq dropped

FormIInv == FreshIsNew /\ Forms /\ Without /\ DeletesWereDropped

\* A save is as it was, but that its form may have been left.
Kept(n) ==
    /\ saves'[n].phase = saves[n].phase /\ saves'[n].activities = saves[n].activities
    /\ saves'[n].finishDate = saves[n].finishDate /\ saves'[n].known = saves[n].known
    /\ saves'[n].project = saves[n].project

\* The saves are, but for what is known of the form.
SavesKept ==
    /\ DOMAIN saves' = Saves
    /\ \A n \in Saves : /\ Kept(n) /\ DOMAIN saves'[n] = DOMAIN NoSave
                        /\ saves'[n].phase = "idle" => saves'[n] = NoSave

-----------------------------------------------------------------------------
\* The empty plan has no task, and so has a save that is idle.
LEMMA EmptyDomain ==
    /\ DOMAIN Empty = {} /\ DOMAIN NoSave.known = {} /\ DOMAIN NoSave.activities = {}
    /\ NoSave.phase = "idle" /\ NoSave.activities = Empty /\ NoSave.known = Empty
    /\ DOMAIN NoSave = {"phase", "activities", "finishDate", "known", "project", "left"}
BY DEF Empty, Restrict, NoSave

\* Saves that do not change are kept.
LEMMA SameSaves == ASSUME Forms, UNCHANGED saves PROVE SavesKept
BY DEF Forms, SavesKept, Kept, UnderWay

\* A save goes on when its form is left.
LEMMA LeftSaves ==
    ASSUME NEW s, DOMAIN s = Saves,
           \A n \in Saves : DOMAIN s[n] = DOMAIN NoSave /\ (s[n].phase = "idle" => s[n] = NoSave),
           Unmount(s)
    PROVE  /\ DOMAIN saves' = Saves
           /\ \A n \in Saves :
                /\ DOMAIN saves'[n] = DOMAIN NoSave
                /\ saves'[n].phase = "idle" => saves'[n] = NoSave
                /\ saves'[n].phase = s[n].phase /\ saves'[n].activities = s[n].activities
                /\ saves'[n].finishDate = s[n].finishDate /\ saves'[n].known = s[n].known
                /\ saves'[n].project = s[n].project
<1>1. saves' = [n \in Saves |-> IF s[n].phase = "idle" THEN NoSave
                                ELSE [s[n] EXCEPT !.left = TRUE]]
  BY DEF Unmount
<1>2. ASSUME NEW n \in Saves
      PROVE  /\ DOMAIN saves'[n] = DOMAIN NoSave
             /\ saves'[n].phase = "idle" => saves'[n] = NoSave
             /\ saves'[n].phase = s[n].phase /\ saves'[n].activities = s[n].activities
             /\ saves'[n].finishDate = s[n].finishDate /\ saves'[n].known = s[n].known
             /\ saves'[n].project = s[n].project
  <2>1. CASE s[n].phase = "idle"
    BY <1>1, <2>1
  <2>2. CASE s[n].phase # "idle"
    <3>1. saves'[n] = [s[n] EXCEPT !.left = TRUE]
      BY <1>1, <2>2
    <3>2. DOMAIN s[n] = {"phase", "activities", "finishDate", "known", "project", "left"}
      BY EmptyDomain
    <3> QED BY <2>2, <3>1, <3>2
  <2> QED BY <2>1, <2>2
<1> QED BY <1>1, <1>2

\* A form that is left keeps its saves.
LEMMA LeavingKeeps == ASSUME Forms, Unmount(saves) PROVE SavesKept
<1>1. DOMAIN saves = Saves
      /\ \A n \in Saves : DOMAIN saves[n] = DOMAIN NoSave
                          /\ (saves[n].phase = "idle" => saves[n] = NoSave)
  BY DEF Forms, UnderWay
<1> QED BY <1>1, LeftSaves DEF SavesKept, Kept

\* The initial states: one task, and nothing was dropped.
LEMMA FormInitIInv == FormInit => FormIInv
<1> SUFFICES ASSUME FormInit PROVE FormIInv
  OBVIOUS
<1>1. FreshIsNew
  BY EmptyDomain DEF FormInit, FreshIsNew, Given, NotListed
<1>2. Forms
  BY EmptyDomain DEF FormInit, Forms, UnderWay
<1>3. Without /\ DeletesWereDropped
  BY EmptyDomain DEF FormInit, Without, DeletesWereDropped
<1> QED BY <1>1, <1>2, <1>3 DEF FormIInv

-----------------------------------------------------------------------------
(* The form. *)

\* Steps that neither save nor serve anything keep the invariant, if they keep track of what
\* the plan is without.
LEMMA QuietKeeps ==
    ASSUME FormIInv, SavesKept, UNCHANGED <<tasks, requests, attempt, dropped>>,
           fresh' \in {fresh, fresh + 1}, target' \in Projects \cup {NoProject},
           form' = "closed" => target' = NoProject,
           DOMAIN listed' = Projects,
           \A p \in Projects : DOMAIN listed'[p].tasks \subseteq
                                  DOMAIN listed[p].tasks \cup DOMAIN tasks,
           form' = "open" => DOMAIN Known' \ DOMAIN activities' \subseteq absent'
    PROVE  FormIInv'
<1>1. fresh \in Nat /\ \A i : i \in Nat /\ i < fresh => i < fresh'
  BY DEF FormIInv, FreshIsNew
<1>2. FreshIsNew'
  <2>1. /\ \A i \in DOMAIN tasks : i \in Nat /\ i < fresh'
        /\ \A p \in Projects : \A i \in DOMAIN listed[p].tasks : i \in Nat /\ i < fresh'
    BY <1>1 DEF FormIInv, FreshIsNew, Given
  <2> QED BY <1>1, <2>1 DEF FreshIsNew, Given
<1>3. Forms'
  BY DEF FormIInv, Forms, SavesKept, Kept, UnderWay
<1>4. Without'
  BY DEF FormIInv, Without, SavesKept, Kept
<1>5. DeletesWereDropped'
  BY DEF FormIInv, DeletesWereDropped
<1> QED BY <1>2, <1>3, <1>4, <1>5 DEF FormIInv

\* A form for a new project knows no tasks.
LEMMA OpenNewKeeps == ASSUME FormIInv, OpenNew PROVE FormIInv'
<1>1. /\ form' = "open" /\ target' = NoProject
      /\ UNCHANGED <<tasks, requests, attempt, dropped, listed, fresh, saves>>
  BY DEF OpenNew, server, cached, saving, counts, history
<1>2. DOMAIN Known' = {}
  BY <1>1, EmptyDomain DEF Known
<1> QED BY <1>1, <1>2, QuietKeeps, SameSaves DEF FormIInv, FreshIsNew

\* A form that is filled shows the tasks it knows.
LEMMA FilledShows ==
    ASSUME NEW p \in Projects, target' = p, NEW list, NEW d, Filled(list, d),
           listed'[p].tasks = list.tasks
    PROVE  form' = "open" /\ DOMAIN Known' \ DOMAIN activities' \subseteq absent'
<1>1. p # NoProject /\ activities' = list.tasks /\ form' = "open"
  BY FormAssumption DEF Filled
<1> QED BY <1>1 DEF Known

\* A form is filled from what was fetched, or waits for it.
LEMMA OpenEditKeeps == ASSUME FormIInv, NEW p \in Projects, OpenEdit(p) PROVE FormIInv'
<1>1. /\ target' = p /\ form' # "closed"
      /\ UNCHANGED <<tasks, requests, attempt, dropped, listed, fresh, saves>>
  BY DEF OpenEdit, Filled, server, cached, saving, counts
<1>2. form' = "open" => DOMAIN Known' \ DOMAIN activities' \subseteq absent'
  BY <1>1, FilledShows DEF OpenEdit
<1> QED BY <1>1, <1>2, QuietKeeps, SameSaves DEF FormIInv, FreshIsNew

\* What comes with a new list while the form is open is absent from its plan, if not shown.
LEMMA FetchTasksKeeps == ASSUME FormIInv, NEW p \in Projects, FetchTasks(p) PROVE FormIInv'
<1>1. /\ listed' = [listed EXCEPT ![p] = Listed(p)]
      /\ UNCHANGED <<tasks, target, requests, attempt, dropped, fresh, saves>>
  BY DEF FetchTasks, server, saving, counts
<1>2. DOMAIN Listed(p).tasks = TasksOf(p) /\ TasksOf(p) \subseteq DOMAIN tasks
  BY DEF Listed, TasksOf
<1>3. /\ DOMAIN listed' = Projects /\ listed'[p] = Listed(p)
      /\ \A q \in Projects \ {p} : listed'[q] = listed[q]
  BY <1>1 DEF FormIInv, FreshIsNew
<1>4. CASE WaitsFor(p) /\ dated[p] # NoDay
  <2>1. Filled(Listed(p), dated[p]) /\ target' = p
    BY <1>1, <1>4 DEF FetchTasks, WaitsFor
  <2>2. form' = "open" /\ DOMAIN Known' \ DOMAIN activities' \subseteq absent'
    BY <2>1, <1>3, FilledShows
  <2> QED BY <1>1, <1>2, <1>3, <2>1, <2>2, QuietKeeps, SameSaves DEF FormIInv
<1>5. CASE ~(WaitsFor(p) /\ dated[p] # NoDay)
  <2>1. /\ absent' = absent \cup
                {i \in TasksOf(p) \ (DOMAIN activities \cup DOMAIN listed[p].tasks) :
                    target = p /\ form = "open"}
        /\ UNCHANGED <<form, activities>>
    BY <1>5 DEF FetchTasks, plan
  <2>2. ASSUME form = "open" PROVE DOMAIN Known' \ DOMAIN activities' \subseteq absent'
    <3>1. DOMAIN Known \ DOMAIN activities \subseteq absent
      BY <2>2 DEF FormIInv, Without
    <3>2. CASE target = p
      <4>1. Known = listed[p].tasks /\ Known' = Listed(p).tasks
        BY <1>1, <1>3, <3>2, FormAssumption DEF Known
      <4> QED BY <1>2, <2>1, <2>2, <3>1, <3>2, <4>1
    <3>3. CASE target # p
      <4>1. Known' = Known
        BY <1>1, <1>3, <3>3 DEF Known, FormIInv, Forms
      <4> QED BY <2>1, <3>1, <4>1
    <3> QED BY <3>2, <3>3
  <2>3. target' \in Projects \cup {NoProject} /\ (form' = "closed" => target' = NoProject)
    BY <1>1, <2>1 DEF FormIInv, Forms
  <2> QED BY <1>1, <1>2, <1>3, <2>1, <2>2, <2>3, QuietKeeps, SameSaves DEF FormIInv
<1> QED BY <1>4, <1>5

\* A form that waits for its project is filled from the list that there is.
LEMMA FetchProjectKeeps == ASSUME FormIInv, NEW p \in Projects, FetchProject(p) PROVE FormIInv'
<1>1. UNCHANGED <<tasks, target, requests, attempt, dropped, fresh, saves, listed>>
  BY DEF FetchProject, server, saving, counts
<1>2. DOMAIN listed = Projects /\ target \in Projects \cup {NoProject}
      /\ (form = "closed" => target = NoProject)
  BY DEF FormIInv, FreshIsNew, Forms
<1>3. CASE WaitsFor(p) /\ listed[p].there
  <2>1. Filled(listed[p], finish[p]) /\ target' = p
    BY <1>1, <1>3 DEF FetchProject, WaitsFor
  <2>2. form' = "open" /\ DOMAIN Known' \ DOMAIN activities' \subseteq absent'
    BY <1>1, <2>1, FilledShows
  <2> QED BY <1>1, <1>2, <2>1, <2>2, QuietKeeps, SameSaves DEF FormIInv
<1>4. CASE ~(WaitsFor(p) /\ listed[p].there)
  <2>1. UNCHANGED <<form, activities, absent>>
    BY <1>4 DEF FetchProject, plan
  <2>2. form' = "open" => DOMAIN Known' \ DOMAIN activities' \subseteq absent'
    BY <1>1, <2>1 DEF FormIInv, Without, Known
  <2> QED BY <1>1, <1>2, <2>1, <2>2, QuietKeeps, SameSaves DEF FormIInv
<1> QED BY <1>3, <1>4

\* A form that cannot be filled is not open yet.
LEMMA CannotFillKeeps == ASSUME FormIInv, CannotFill PROVE FormIInv'
<1>1. /\ form' = "unfilled"
      /\ UNCHANGED <<tasks, target, requests, attempt, dropped, fresh, saves, listed>>
  BY DEF CannotFill, server, cached, saving, history
<1> QED BY <1>1, QuietKeeps, SameSaves DEF FormIInv, FreshIsNew, Forms

\* An activity that is taken out of the plan is absent from it.
LEMMA EditPlanKeeps == ASSUME FormIInv, EditPlan PROVE FormIInv'
<1>1. /\ absent' = absent \cup (DOMAIN activities \ DOMAIN activities')
      /\ fresh' \in {fresh, fresh + 1}
      /\ UNCHANGED <<tasks, target, form, requests, attempt, dropped, saves, listed>>
  BY DEF EditPlan, server, cached, saving
<1>2. form' = "open" => DOMAIN Known' \ DOMAIN activities' \subseteq absent'
  BY <1>1 DEF FormIInv, Without, Known
<1> QED BY <1>1, <1>2, QuietKeeps, SameSaves DEF FormIInv, FreshIsNew, Forms

\* A form that is left has no plan.
LEMMA LeaveKeeps == ASSUME FormIInv, Leave PROVE FormIInv'
<1>1. /\ form' = "closed" /\ target' = NoProject /\ Unmount(saves)
      /\ UNCHANGED <<tasks, requests, attempt, dropped, fresh, listed>>
  BY DEF Leave, Unmount, server, cached, counts
<1> QED BY <1>1, QuietKeeps, LeavingKeeps DEF FormIInv, FreshIsNew

-----------------------------------------------------------------------------
(* Saving. *)

\* What is absent from the plan is dropped when the plan is saved.
LEMMA SubmitKeeps == ASSUME FormIInv, Submit PROVE FormIInv'
<1>1. /\ Shown /\ attempt < MaxSaves /\ attempt' = attempt + 1
      /\ saves' = [saves EXCEPT ![attempt'] =
                      [phase |-> "project", activities |-> activities, finishDate |-> finishDate,
                       known |-> Known, project |-> target, left |-> FALSE]]
      /\ dropped' = dropped \cup (IF form = "open" THEN absent ELSE DOMAIN Known)
      /\ UNCHANGED <<tasks, listed, target, form, activities, requests, fresh, absent>>
  BY DEF Submit, server, cached, plan, counts
<1>2. attempt' \in Saves /\ attempt \in Nat /\ DOMAIN saves = Saves
  BY <1>1, FormAssumption DEF Saves, FormIInv, Forms
<1>3. /\ saves'[attempt'].phase = "project" /\ saves'[attempt'].activities = activities
      /\ saves'[attempt'].known = Known /\ DOMAIN saves'[attempt'] = DOMAIN NoSave
      /\ DOMAIN saves' = Saves
      /\ \A n \in Saves \ {attempt'} : saves'[n] = saves[n]
  BY <1>1, <1>2, EmptyDomain
<1>4. FreshIsNew'
  BY <1>1 DEF FormIInv, FreshIsNew, Given
<1>5. Forms'
  <2>1. \A n \in Saves : n <= attempt => n <= attempt'
    BY <1>1, <1>2 DEF Saves
  <2> QED BY <1>1, <1>2, <1>3, <2>1 DEF FormIInv, Forms, UnderWay
<1>6. Known' = Known
  BY <1>1 DEF Known
<1>7. DOMAIN Known \ DOMAIN activities \subseteq dropped'
  BY <1>1 DEF FormIInv, Without
<1>8. Without'
  BY <1>1, <1>3, <1>6, <1>7 DEF FormIInv, Without
<1>9. DeletesWereDropped'
  BY <1>1 DEF FormIInv, DeletesWereDropped
<1> QED BY <1>4, <1>5, <1>8, <1>9 DEF FormIInv

\* The deletions are those of the save that began.
LEMMA ServeProjectKeeps ==
    ASSUME FormIInv, NEW n \in Saves, NEW p \in Projects, ServeProject(n, p) PROVE FormIInv'
<1>1. /\ saves[n].phase = "project"
      /\ saves' = [saves EXCEPT ![n] = [@ EXCEPT !.phase = "tasks", !.project = p]]
      /\ requests' = requests \cup TaskRequests(n, p)
      /\ UNCHANGED <<tasks, listed, target, form, activities, attempt, fresh, absent, dropped>>
  BY DEF ServeProject, plan, cached, counts, history
<1>2. /\ DOMAIN saves' = Saves /\ DOMAIN saves'[n] = DOMAIN NoSave /\ saves'[n].phase = "tasks"
      /\ \A m \in Saves \ {n} : saves'[m] = saves[m]
  <2>1. DOMAIN saves = Saves /\ DOMAIN saves[n] = DOMAIN NoSave
    BY DEF FormIInv, Forms
  <2> QED BY <1>1, <2>1, EmptyDomain
<1>3. \A r \in TaskRequests(n, p) :
         /\ r.kind \in {"delete", "patch", "post"} /\ r.attempt = n
         /\ r.kind = "delete" => r.id \in DOMAIN saves[n].known \ DOMAIN saves[n].activities
  BY DEF TaskRequests
<1>4. FreshIsNew'
  BY <1>1 DEF FormIInv, FreshIsNew, Given
<1>5. Forms'
  BY <1>1, <1>2, <1>3 DEF FormIInv, Forms, UnderWay
<1>6. Without'
  BY <1>1, <1>2 DEF FormIInv, Without, Known
<1>7. DeletesWereDropped'
  BY <1>1, <1>3 DEF FormIInv, Without, DeletesWereDropped
<1> QED BY <1>4, <1>5, <1>6, <1>7 DEF FormIInv

\* A save that ends in trouble leaves nothing behind but its requests.
LEMMA EndedKeeps ==
    ASSUME FormIInv, NEW n \in Saves, saves' = [saves EXCEPT ![n] = NoSave],
           UNCHANGED <<tasks, listed, target, form, activities, attempt, absent, dropped>>,
           requests' \subseteq requests, UNCHANGED fresh
    PROVE  FormIInv'
<1>1. DOMAIN saves' = Saves /\ saves'[n] = NoSave /\ \A m \in Saves \ {n} : saves'[m] = saves[m]
  BY DEF FormIInv, Forms
<1>2. FreshIsNew'
  BY DEF FormIInv, FreshIsNew, Given
<1>3. Forms'
  BY <1>1, EmptyDomain DEF FormIInv, Forms, UnderWay
<1>4. Without' /\ DeletesWereDropped'
  BY <1>1, EmptyDomain DEF FormIInv, Without, DeletesWereDropped, Known
<1> QED BY <1>2, <1>3, <1>4 DEF FormIInv

\* A request that is answered adds at most one task, which is given the next id.
LEMMA StoredIsFresh ==
    ASSUME FormIInv, NEW r \in requests, TaskStored(r)
    PROVE  /\ fresh' \in {fresh, fresh + 1}
           /\ \A i \in DOMAIN tasks' : i \in DOMAIN tasks \/ (i = fresh /\ fresh' = fresh + 1)
<1>1. r.kind \in {"delete", "patch", "post"}
  BY DEF FormIInv, Forms
<1>2. CASE r.kind = "delete"
  <2>1. tasks' = Restrict(tasks, DOMAIN tasks \ {r.id}) /\ UNCHANGED fresh
    BY <1>2 DEF TaskStored
  <2> QED BY <2>1 DEF Restrict
<1>3. CASE r.kind = "patch"
  <2>1. DOMAIN tasks' = DOMAIN tasks /\ UNCHANGED fresh
    BY <1>3 DEF TaskStored
  <2> QED BY <2>1
<1>4. CASE r.kind = "post"
  <2>1. DOMAIN tasks' = DOMAIN tasks \cup {fresh} /\ fresh' = fresh + 1
    BY <1>4 DEF TaskStored
  <2> QED BY <2>1
<1> QED BY <1>1, <1>2, <1>3, <1>4

\* A request that is answered or lost, with its save ended or not.
LEMMA TaskKeeps ==
    ASSUME FormIInv, NEW r \in requests, requests' = requests \ {r},
           UNCHANGED <<tasks, fresh>> \/ TaskStored(r),
           UNCHANGED saves \/ saves' = [saves EXCEPT ![r.attempt] = NoSave],
           UNCHANGED <<listed, target, form, activities, attempt, absent, dropped>>
    PROVE  FormIInv'
<1>1. fresh \in Nat /\ fresh' \in {fresh, fresh + 1}
      /\ \A i \in DOMAIN tasks' : i \in DOMAIN tasks \/ (i = fresh /\ fresh' = fresh + 1)
  BY StoredIsFresh DEF FormIInv, FreshIsNew
<1>2. FreshIsNew'
  BY <1>1 DEF FormIInv, FreshIsNew, Given
<1>3. /\ DOMAIN saves' = Saves
      /\ \A n \in Saves : saves'[n] \in {saves[n], NoSave}
  BY DEF FormIInv, Forms
<1>4. Forms'
  <2>1. \A n \in Saves : saves'[n].phase # "idle" => saves'[n] = saves[n]
    BY <1>3, EmptyDomain
  <2> QED BY <1>3, <2>1, EmptyDomain DEF FormIInv, Forms, UnderWay
<1>5. Without' /\ DeletesWereDropped'
  BY <1>3, EmptyDomain DEF FormIInv, Without, DeletesWereDropped, Known
<1> QED BY <1>2, <1>4, <1>5 DEF FormIInv

\* What the saves are once save n has ended well: the form is left.
LEMMA SucceededSaves ==
    ASSUME FormIInv, NEW n \in Saves, Succeed(n)
    PROVE  /\ DOMAIN saves' = Saves /\ saves'[n] = NoSave
           /\ \A m \in Saves : /\ DOMAIN saves'[m] = DOMAIN NoSave
                               /\ saves'[m].phase = "idle" => saves'[m] = NoSave
                               /\ m # n => Kept(m)
<1>1. PICK s : s = [saves EXCEPT ![n] = NoSave]
  OBVIOUS
<1>2. DOMAIN s = Saves /\ s[n] = NoSave /\ \A m \in Saves \ {n} : s[m] = saves[m]
  BY <1>1 DEF FormIInv, Forms
<1>3. \A m \in Saves : DOMAIN s[m] = DOMAIN NoSave /\ (s[m].phase = "idle" => s[m] = NoSave)
  BY <1>2 DEF FormIInv, Forms, UnderWay
<1>4. Unmount(s)
  BY <1>1 DEF Succeed
<1>5. /\ DOMAIN saves' = Saves
      /\ \A m \in Saves :
           /\ DOMAIN saves'[m] = DOMAIN NoSave
           /\ saves'[m].phase = "idle" => saves'[m] = NoSave
           /\ saves'[m].phase = s[m].phase /\ saves'[m].activities = s[m].activities
           /\ saves'[m].finishDate = s[m].finishDate /\ saves'[m].known = s[m].known
           /\ saves'[m].project = s[m].project
  BY <1>2, <1>3, <1>4, LeftSaves
<1>6. saves'[n].phase = "idle"
  BY <1>2, <1>5, EmptyDomain
<1> QED BY <1>2, <1>5, <1>6 DEF Kept

\* A form that was saved is gone.
LEMMA SucceedKeeps == ASSUME FormIInv, NEW n \in Saves, Succeed(n) PROVE FormIInv'
<1>1. /\ form' = "closed" /\ target' = NoProject
      /\ UNCHANGED <<tasks, listed, requests, attempt, fresh, dropped>>
  BY DEF Succeed, Unmount, server, cached, counts
<1>2. /\ DOMAIN saves' = Saves /\ saves'[n] = NoSave
      /\ \A m \in Saves : /\ DOMAIN saves'[m] = DOMAIN NoSave
                          /\ saves'[m].phase = "idle" => saves'[m] = NoSave
                          /\ m # n => Kept(m)
  BY SucceededSaves
<1>3. FreshIsNew'
  BY <1>1 DEF FormIInv, FreshIsNew, Given
<1>4. Forms'
  BY <1>1, <1>2, EmptyDomain DEF FormIInv, Forms, UnderWay, Kept
<1>5. Without' /\ DeletesWereDropped'
  BY <1>1, <1>2, EmptyDomain DEF FormIInv, Without, DeletesWereDropped, Kept
<1> QED BY <1>3, <1>4, <1>5 DEF FormIInv

-----------------------------------------------------------------------------
(* Other users. *)

\* Other users add tasks with ids of their own, and ask the saves nothing.
LEMMA OthersKeep ==
    ASSUME FormIInv,
           \/ \E p \in Projects, a \in Plan!Activity : OtherAddsTask(p, a)
           \/ \E i \in DOMAIN tasks : OtherRemovesTask(i)
    PROVE  FormIInv'
<1>1. UNCHANGED <<listed, target, form, activities, saves, requests, attempt, absent, dropped>>
  BY DEF OtherAddsTask, OtherRemovesTask, cached, plan, saving
<1>2. /\ fresh' \in {fresh, fresh + 1}
      /\ \A i \in DOMAIN tasks' : i \in DOMAIN tasks \/ (i = fresh /\ fresh' = fresh + 1)
  <2>1. ASSUME NEW p \in Projects, NEW a, OtherAddsTask(p, a)
        PROVE  fresh' = fresh + 1 /\ DOMAIN tasks' = DOMAIN tasks \cup {fresh}
    BY <2>1 DEF OtherAddsTask
  <2>2. ASSUME NEW i, OtherRemovesTask(i)
        PROVE  fresh' = fresh /\ DOMAIN tasks' \subseteq DOMAIN tasks
    BY <2>2 DEF OtherRemovesTask, Restrict
  <2> QED BY <2>1, <2>2
<1>3. FreshIsNew'
  BY <1>1, <1>2 DEF FormIInv, FreshIsNew, Given
<1>4. Forms'
  BY <1>1 DEF FormIInv, Forms, UnderWay
<1>5. Without' /\ DeletesWereDropped'
  BY <1>1 DEF FormIInv, Without, DeletesWereDropped, Known
<1> QED BY <1>3, <1>4, <1>5 DEF FormIInv

-----------------------------------------------------------------------------
\* Every step keeps the invariant.
LEMMA FormNextIInv == FormIInv /\ [FormNext]_formVars => FormIInv'
<1> SUFFICES ASSUME FormIInv, [FormNext]_formVars PROVE FormIInv'
  OBVIOUS
<1>1. ASSUME NEW r \in requests, ServeTask(r) PROVE FormIInv'
  <2>1. /\ requests' = requests \ {r}
        /\ UNCHANGED <<tasks, fresh>> \/ TaskStored(r)
        /\ UNCHANGED saves \/ saves' = [saves EXCEPT ![r.attempt] = NoSave]
        /\ UNCHANGED <<listed, target, form, activities, attempt, absent, dropped>>
    BY <1>1 DEF ServeTask, Failed, plan, cached
  <2> QED BY <2>1, TaskKeeps
<1>2. ASSUME NEW r \in requests, LoseTask(r) PROVE FormIInv'
  <2>1. /\ requests' = requests \ {r}
        /\ UNCHANGED <<tasks, fresh>> \/ TaskStored(r)
        /\ saves' = [saves EXCEPT ![r.attempt] = NoSave]
        /\ UNCHANGED <<listed, target, form, activities, attempt, absent, dropped>>
    BY <1>2 DEF LoseTask, Failed, plan, cached
  <2> QED BY <2>1, TaskKeeps
<1>3. ASSUME NEW n \in Saves, LoseProject(n) PROVE FormIInv'
  BY <1>3, EndedKeeps DEF LoseProject, plan, cached
<1>4. CASE UNCHANGED formVars
  <2>1. UNCHANGED <<tasks, requests, attempt, dropped, fresh, target, form, listed, activities,
                    absent, saves>>
    BY <1>4 DEF formVars, server, cached, plan, saving, counts, history
  <2>2. form' = "open" => DOMAIN Known' \ DOMAIN activities' \subseteq absent'
    BY <2>1 DEF FormIInv, Without, Known
  <2> QED BY <2>1, <2>2, QuietKeeps, SameSaves DEF FormIInv, FreshIsNew, Forms
<1>5. CASE FormNext
  BY <1>1, <1>2, <1>3, <1>5, OpenNewKeeps, OpenEditKeeps, FetchTasksKeeps, FetchProjectKeeps,
     CannotFillKeeps, EditPlanKeeps, LeaveKeeps, SubmitKeeps, ServeProjectKeeps, SucceedKeeps,
     OthersKeep DEF FormNext
<1> QED BY <1>4, <1>5

\* The invariant holds in every reachable state.
THEOREM FormInvariance == FormSpec => []FormIInv
BY FormInitIInv, FormNextIInv, PTL DEF FormSpec

\* No save deletes a task but one that its plan was without, because it was taken out or had
\* come after the form was filled, however late the request and whoever has left the form.
THEOREM SavesDeleteWhatWasDropped == FormSpec => []DeletesWereDropped
<1>1. FormIInv => DeletesWereDropped
  BY DEF FormIInv
<1> QED BY <1>1, FormInvariance, PTL

-----------------------------------------------------------------------------
(* A save that nobody interferes with. *)

\* The tasks belong to projects that there are, and what forms and saves show has an id.
Owned ==
    /\ DOMAIN finish \subseteq Projects
    /\ \A i \in DOMAIN tasks : tasks[i].project \in DOMAIN finish
    /\ \A r \in requests : r.project \in DOMAIN finish
    /\ Given(DOMAIN activities) /\ \A n \in Saves : Given(DOMAIN saves[n].activities)

\* The activities S and the tasks T are the same, one by one.
Match(S, acts, T) ==
    \E g \in [S -> T] :
        /\ \A i, j \in S : g[i] = g[j] => i = j
        /\ \A k \in T : \E i \in S : g[i] = k
        /\ \A i \in S : ActivityOf(tasks[g[i]]) = acts[i]

\* Activities and tasks that a request under way is about.
Pending == {r.id : r \in requests}

\* A request of save n does what the plan asks of the task it is about.
Due(n, r) ==
    /\ r.attempt = n /\ r.project = saves[n].project
    /\ r.kind = "delete" => r.id \notin DOMAIN saves[n].activities
    /\ r.kind # "delete" => /\ r.id \in DOMAIN saves[n].activities
                            /\ r.activity = saves[n].activities[r.id]
    /\ r.kind = "post" <=> r.id \notin TasksOf(saves[n].project)

\* The activities of save n that no request is about any more, and the tasks of its project that
\* no request is about any more.
Settled(n) == DOMAIN saves[n].activities \ Pending

SettledTasks(n) == TasksOf(saves[n].project) \ Pending

\* The requests of save n are due, and what none of them is about any more is on the server as
\* it is in the plan.
HalfDone(n) ==
    /\ saves[n].project \in DOMAIN finish /\ finish[saves[n].project] = saves[n].finishDate
    /\ \A r \in requests : Due(n, r)
    /\ \A q, r \in requests : q.id = r.id => q = r
    /\ Match(Settled(n), saves[n].activities, SettledTasks(n))

\* A clean save is alone, and knows the tasks that there are until it changes them.
CleanSave(n) ==
    /\ UnderWay(n) /\ \A m \in Saves : UnderWay(m) => m = n
    /\ saves[n].phase = "project" =>
          requests = {} /\ DOMAIN saves[n].known = TasksOf(saves[n].project)
    /\ saves[n].phase # "project" => HalfDone(n)

CleanInv == clean \in Saves \cup {0} /\ \A n \in Saves : clean = n => CleanSave(n)

\* What was saved is on the server, and nothing is left that could change it.
SavedInv ==
    saved # NotSaved =>
        /\ requests = {} /\ \A n \in Saves : saves[n].phase = "idle"
        /\ Given(DOMAIN saved.tasks)
        /\ saved.project \in DOMAIN finish /\ finish[saved.project] = saved.finish
        /\ Match(DOMAIN saved.tasks, saved.tasks, TasksOf(saved.project))

PlannedInv == Owned /\ CleanInv /\ SavedInv

\* Activities are dates and columns, in the form as in what it has fetched or sent.
Activities(f) == \A i \in DOMAIN f : f[i] = [date |-> f[i].date, column |-> f[i].column]

Shapes ==
    /\ Activities(activities) /\ \A n \in Saves : Activities(saves[n].activities)
    /\ \A p \in Projects : Activities(listed[p].tasks)

-----------------------------------------------------------------------------
\* What is matched one by one is as often there: of each kind, as many activities as tasks.
LEMMA MatchCounts ==
    ASSUME NEW S, NEW acts, NEW T, IsFiniteSet(S), Match(S, acts, T), NEW a
    PROVE  Cardinality({k \in T : ActivityOf(tasks[k]) = a}) = Cardinality({i \in S : acts[i] = a})
<1> DEFINE A == {i \in S : acts[i] = a}
           B == {k \in T : ActivityOf(tasks[k]) = a}
<1>1. PICK g \in [S -> T] :
          /\ \A i, j \in S : g[i] = g[j] => i = j
          /\ \A k \in T : \E i \in S : g[i] = k
          /\ \A i \in S : ActivityOf(tasks[g[i]]) = acts[i]
  BY DEF Match
<1>2. PICK h : h = [i \in A |-> g[i]]
  OBVIOUS
<1>3. \A i \in A : i \in S /\ g[i] \in B
  BY <1>1
<1>4. \A k \in B : \E i \in A : g[i] = k
  BY <1>1
<1>5. IsFiniteSet(A)
  BY FS_Subset
<1> HIDE DEF A, B
<1>6. h \in Bijection(A, B)
  <2>1. h \in [A -> B] /\ \A i \in A : h[i] = g[i]
    BY <1>2, <1>3
  <2>2. IsInjective(h)
    BY <1>1, <1>3, <2>1 DEF IsInjective
  <2>3. \A k \in B : \E i \in A : h[i] = k
    BY <1>4, <2>1
  <2>4. QED
    BY <2>1, <2>2, <2>3 DEF Bijection, Injection, Surjection
<1>7. Cardinality(B) = Cardinality(A)
  BY <1>5, <1>6, FS_Bijection DEF ExistsBijection
<1>8. QED
  BY <1>7 DEF A, B

\* Ids that have been given are finitely many.
LEMMA GivenIsFinite == ASSUME fresh \in Nat, NEW S, Given(S) PROVE IsFiniteSet(S)
<1>1. S \in SUBSET (0 .. fresh)
  BY DEF Given
<1>2. IsFiniteSet(0 .. fresh)
  BY FS_Interval
<1>3. QED
  BY <1>1, <1>2, FS_Subset

\* What has been given stays given.
LEMMA GivenStays ==
    ASSUME fresh \in Nat, fresh' \in {fresh, fresh + 1}
    PROVE  \A S : Given(S) => \A i \in S : i \in Nat /\ i < fresh'
BY DEF Given

\* A project that there is not has no tasks, and neither has a form for a new one.
LEMMA NoTasks ==
    ASSUME Owned
    PROVE  /\ TasksOf(NoProject) = {}
           /\ \A p : p \notin DOMAIN finish => TasksOf(p) = {}
BY FormAssumption DEF Owned, TasksOf

\* What was not saved is not there to be kept.
LEMMA NothingSaved == ASSUME saved' = NotSaved PROVE SavedInv'
BY DEF SavedInv, NotSaved, Empty, Restrict

\* Steps that change nothing on the server and end no save keep what is known of it.
LEMMA QuietIsPlanned ==
    ASSUME FormIInv, PlannedInv, SavesKept, UNCHANGED <<tasks, finish, requests, saved, clean>>,
           fresh' \in {fresh, fresh + 1}, \A i \in DOMAIN activities' : i \in Nat /\ i < fresh'
    PROVE  PlannedInv'
<1>1. fresh \in Nat
  BY DEF FormIInv, FreshIsNew
<1>2. Owned'
  <2>1. \A n \in Saves : \A i \in DOMAIN saves'[n].activities : i \in Nat /\ i < fresh'
    BY <1>1, GivenStays DEF PlannedInv, Owned, SavesKept, Kept
  <2>2. QED
    BY <2>1 DEF PlannedInv, Owned, Given
<1>3. Pending' = Pending /\ \A p : TasksOf(p)' = TasksOf(p)
  BY DEF Pending, TasksOf
<1>4. \A S, acts, T : Match(S, acts, T) => Match(S, acts, T)'
  BY DEF Match
<1>5. ASSUME NEW n \in Saves, CleanSave(n) PROVE CleanSave(n)'
  <2>1. Kept(n) /\ \A m \in Saves : UnderWay(m)' => UnderWay(m)
    BY DEF SavesKept, Kept, UnderWay
  <2>2. UnderWay(n)' /\ \A m \in Saves : UnderWay(m)' => m = n
    BY <1>5, <2>1 DEF CleanSave, UnderWay, Kept
  <2>3. saves'[n].phase = "project" =>
            requests' = {} /\ DOMAIN saves'[n].known = TasksOf(saves[n].project)'
    BY <1>3, <1>5, <2>1 DEF CleanSave, Kept, TasksOf
  <2>4. ASSUME saves'[n].phase # "project" PROVE HalfDone(n)'
    <3>1. HalfDone(n)
      BY <1>5, <2>1, <2>4 DEF CleanSave, Kept
    <3>2. PICK S, acts, T :
              /\ S = Settled(n) /\ acts = saves[n].activities
              /\ T = SettledTasks(n)
      OBVIOUS
    <3>3. Match(S, acts, T)'
      BY <1>4, <3>1, <3>2 DEF HalfDone
    <3>4. /\ S = Settled(n)' /\ acts = saves'[n].activities
          /\ T = SettledTasks(n)'
      BY <1>3, <2>1, <3>2 DEF Kept, Settled, SettledTasks
    <3>5. Match(Settled(n), saves[n].activities, SettledTasks(n))'
      BY <3>3, <3>4 DEF Match
    <3>6. \A r \in requests : Due(n, r)'
      BY <1>3, <2>1, <3>1 DEF HalfDone, Due, Kept, TasksOf
    <3>7. QED
      BY <2>1, <3>1, <3>5, <3>6 DEF HalfDone, Kept
  <2>5. QED
    BY <2>2, <2>3, <2>4 DEF CleanSave
<1>6. CleanInv'
  BY <1>5 DEF PlannedInv, CleanInv
<1>7. SavedInv'
  <2>1. CASE saved = NotSaved
    BY <2>1, NothingSaved
  <2>2. CASE saved # NotSaved
    <3>1. /\ requests = {} /\ \A n \in Saves : saves[n].phase = "idle"
          /\ Given(DOMAIN saved.tasks)
          /\ saved.project \in DOMAIN finish /\ finish[saved.project] = saved.finish
          /\ Match(DOMAIN saved.tasks, saved.tasks, TasksOf(saved.project))
      BY <2>2 DEF PlannedInv, SavedInv
    <3>2. Given(DOMAIN saved.tasks)'
      BY <1>1, <3>1, GivenStays DEF Given
    <3>3. Match(DOMAIN saved.tasks, saved.tasks, TasksOf(saved.project))'
      BY <3>1 DEF Match, TasksOf
    <3>4. QED
      BY <3>1, <3>2, <3>3 DEF SavedInv, SavesKept, Kept
  <2>3. QED
    BY <2>1, <2>2
<1>8. QED
  BY <1>2, <1>6, <1>7 DEF PlannedInv

-----------------------------------------------------------------------------
(* The form. *)

\* Nothing was saved yet, and the project that there is has its task.
LEMMA PlannedStart == FormInit => PlannedInv
<1> SUFFICES ASSUME FormInit PROVE PlannedInv
  OBVIOUS
<1>1. /\ DOMAIN tasks = {1} /\ tasks[1].project = 1 /\ DOMAIN finish = {1} /\ requests = {}
      /\ activities = Empty /\ \A n \in Saves : saves[n] = NoSave
      /\ saved = NotSaved /\ clean = 0
  BY DEF FormInit, TaskOf
<1>2. \A n \in Saves : n # 0
  BY DEF Saves
<1>3. QED
  BY <1>1, <1>2, EmptyDomain, FormAssumption DEF PlannedInv, Owned, CleanInv, SavedInv, Given

\* What a form is filled with has been given.
LEMMA FormsArePlanned ==
    ASSUME FormIInv, PlannedInv,
           \/ OpenNew \/ CannotFill \/ Leave
           \/ \E p \in Projects : OpenEdit(p) \/ FetchTasks(p) \/ FetchProject(p)
    PROVE  PlannedInv'
<1>1. UNCHANGED <<tasks, finish, requests, saved, clean, fresh>>
  BY DEF OpenNew, CannotFill, Leave, OpenEdit, FetchTasks, FetchProject, server, saving, counts,
         history
<1>2. \/ UNCHANGED saves
      \/ Unmount(saves)
  BY DEF OpenNew, CannotFill, Leave, OpenEdit, FetchTasks, FetchProject, saving
<1>3. \/ UNCHANGED activities \/ activities' = Empty
      \/ \E p \in Projects : activities' = listed[p].tasks \/ activities' = Listed(p).tasks
  BY DEF OpenNew, CannotFill, Leave, OpenEdit, FetchTasks, FetchProject, Filled, Unmount, plan
<1>4. \A p \in Projects : Given(DOMAIN listed[p].tasks) /\ Given(DOMAIN Listed(p).tasks)
  BY DEF FormIInv, FreshIsNew, Given, Listed, TasksOf
<1>5. \A i \in DOMAIN activities' : i \in Nat /\ i < fresh'
  BY <1>1, <1>3, <1>4, EmptyDomain DEF PlannedInv, Owned, Given
<1>6. SavesKept
  BY <1>2, SameSaves, LeavingKeeps DEF FormIInv
<1>7. QED
  BY <1>1, <1>5, <1>6, QuietIsPlanned

\* Editing gives ids to activities, and changes nothing that is being saved.
LEMMA EditPlanIsPlanned == ASSUME FormIInv, PlannedInv, EditPlan PROVE PlannedInv'
<1>1. UNCHANGED <<tasks, finish, requests, saved, clean, saves>>
  BY DEF EditPlan, server, saving
<1>2. fresh \in Nat /\ \A i \in DOMAIN activities : i \in Nat /\ i < fresh
  BY DEF FormIInv, FreshIsNew, PlannedInv, Owned, Given
<1>3. fresh' \in {fresh, fresh + 1} /\ \A i \in DOMAIN activities' : i \in Nat /\ i < fresh'
  <2>1. ASSUME NEW a, Plan!Put(fresh, a), fresh' = fresh + 1
        PROVE  \A i \in DOMAIN activities' : i \in Nat /\ i < fresh'
    BY <1>2, <2>1 DEF Plan!Put
  <2>2. ASSUME NEW i \in DOMAIN activities, NEW a, Plan!Put(i, a)
        PROVE  DOMAIN activities' \subseteq DOMAIN activities
    BY <2>2 DEF Plan!Put
  <2>3. ASSUME NEW i, Plan!Remove(i) PROVE DOMAIN activities' \subseteq DOMAIN activities
    BY <2>3 DEF Plan!Remove
  <2>4. ASSUME NEW d, Plan!FinishOn(d) PROVE DOMAIN activities' \subseteq DOMAIN activities
    BY <2>4 DEF Plan!FinishOn
  <2>5. \/ fresh' = fresh + 1 /\ \A i \in DOMAIN activities' : i \in Nat /\ i < fresh'
        \/ fresh' = fresh /\ DOMAIN activities' \subseteq DOMAIN activities
    BY <2>1, <2>2, <2>3, <2>4 DEF EditPlan
  <2>6. QED
    BY <1>2, <2>5
<1>4. QED
  BY <1>1, <1>3, QuietIsPlanned, SameSaves DEF FormIInv

-----------------------------------------------------------------------------
(* Saving. *)

\* A clean save begins alone, with the list of the tasks that there are.
LEMMA SubmitIsPlanned == ASSUME FormIInv, PlannedInv, Submit PROVE PlannedInv'
<1>1. /\ attempt < MaxSaves /\ attempt' = attempt + 1
      /\ saves' = [saves EXCEPT ![attempt'] =
                      [phase |-> "project", activities |-> activities, finishDate |-> finishDate,
                       known |-> Known, project |-> target, left |-> FALSE]]
      /\ clean' = IF Alone /\ DOMAIN Known = TasksOf(target) THEN attempt' ELSE 0
      /\ saved' = NotSaved
      /\ UNCHANGED <<tasks, finish, activities, requests, fresh>>
  BY DEF Submit, server, plan, counts
<1>2. attempt' \in Saves /\ DOMAIN saves = Saves
  BY <1>1, FormAssumption DEF Saves, FormIInv, Forms
<1>3. /\ saves'[attempt'].phase = "project" /\ saves'[attempt'].activities = activities
      /\ saves'[attempt'].known = Known /\ saves'[attempt'].project = target
      /\ \A n \in Saves \ {attempt'} : saves'[n] = saves[n]
  BY <1>1, <1>2
<1>4. Owned'
  BY <1>1, <1>2, <1>3 DEF PlannedInv, Owned, Given
<1>5. \A p : TasksOf(p)' = TasksOf(p)
  BY <1>1 DEF TasksOf
<1>6. \A n \in Saves : n # 0
  BY DEF Saves
<1>7. CleanInv'
  <2>1. CASE ~(Alone /\ DOMAIN Known = TasksOf(target))
    BY <1>1, <1>6, <2>1 DEF CleanInv
  <2>2. CASE Alone /\ DOMAIN Known = TasksOf(target)
    <3>1. clean' = attempt' /\ requests' = {}
      BY <1>1, <2>2 DEF Alone
    <3>2. \A m \in Saves : UnderWay(m)' => m = attempt'
      BY <1>3, <2>2 DEF Alone, UnderWay
    <3>3. ASSUME NEW n \in Saves, clean' = n PROVE CleanSave(n)'
      <4>1. n = attempt'
        BY <3>1, <3>3
      <4>2. /\ saves'[n].phase = "project" /\ \A m \in Saves : UnderWay(m)' => m = n
            /\ saves'[n].known = Known /\ saves'[n].project = target
        BY <1>3, <3>2, <4>1
      <4>3. DOMAIN saves'[n].known = TasksOf(saves[n].project)'
        BY <1>1, <2>2, <4>2 DEF TasksOf
      <4>4. QED
        BY <3>1, <4>2, <4>3 DEF CleanSave, UnderWay
    <3>4. QED
      <4>1. clean' \in Saves
        BY <1>2, <3>1
      <4>2. QED
        BY <3>3, <4>1 DEF CleanInv
  <2>3. QED
    BY <2>1, <2>2
<1>8. SavedInv'
  BY <1>1, NothingSaved
<1>9. QED
  BY <1>4, <1>7, <1>8 DEF PlannedInv

\* The project that a clean save goes on with has the tasks that the form knew.
LEMMA StoredProject ==
    ASSUME FormIInv, PlannedInv, NEW n \in Saves, NEW p \in Projects, ProjectStored(n, p),
           clean = n, saves[n].phase = "project"
    PROVE  TasksOf(p) = DOMAIN saves[n].known
<1>1. DOMAIN saves[n].known = TasksOf(saves[n].project)
  BY DEF PlannedInv, CleanInv, CleanSave
<1>2. CASE saves[n].project = NoProject
  <2>1. p \notin DOMAIN finish
    BY <1>2 DEF ProjectStored, NewProjects
  <2>2. QED
    BY <1>1, <1>2, <2>1, NoTasks DEF PlannedInv
<1>3. CASE saves[n].project # NoProject
  BY <1>1, <1>3 DEF ProjectStored
<1>4. QED
  BY <1>2, <1>3

\* A clean save asks one thing of each activity of the plan and of each task that there is.
LEMMA ServeProjectIsPlanned ==
    ASSUME FormIInv, PlannedInv, NEW n \in Saves, NEW p \in Projects, ServeProject(n, p)
    PROVE  PlannedInv'
<1>1. /\ saves[n].phase = "project"
      /\ saves' = [saves EXCEPT ![n] = [@ EXCEPT !.phase = "tasks", !.project = p]]
      /\ requests' = requests \cup TaskRequests(n, p) /\ ProjectStored(n, p)
      /\ UNCHANGED <<tasks, activities, fresh, clean, saved>>
  BY DEF ServeProject, plan, counts, history
<1>2. DOMAIN finish' = DOMAIN finish \cup {p} /\ finish'[p] = saves[n].finishDate
  BY <1>1 DEF ProjectStored
<1>3. PICK acts, known : acts = saves[n].activities /\ known = saves[n].known
  OBVIOUS
<1>4. \A r \in TaskRequests(n, p) :
          /\ r.attempt = n /\ r.project = p
          /\ r.kind = "delete" => r.id \in DOMAIN known /\ r.id \notin DOMAIN acts
          /\ r.kind # "delete" => r.id \in DOMAIN acts /\ r.activity = acts[r.id]
          /\ r.kind = "post" <=> r.id \notin DOMAIN known
  BY <1>3 DEF TaskRequests
<1>5. \A i \in DOMAIN known \cup DOMAIN acts : \E r \in TaskRequests(n, p) : r.id = i
  <2>1. \A i \in DOMAIN known \ DOMAIN acts :
            [attempt |-> n, project |-> p, kind |-> "delete", id |-> i] \in TaskRequests(n, p)
    BY <1>3 DEF TaskRequests
  <2>2. \A i \in DOMAIN acts :
            [attempt |-> n, project |-> p, id |-> i, activity |-> acts[i],
             kind |-> IF i \in DOMAIN known THEN "patch" ELSE "post"] \in TaskRequests(n, p)
    BY <1>3 DEF TaskRequests
  <2>3. ASSUME NEW i \in DOMAIN acts PROVE \E r \in TaskRequests(n, p) : r.id = i
    <3>1. PICK k : k = IF i \in DOMAIN known THEN "patch" ELSE "post"
      OBVIOUS
    <3>2. PICK r : r = [attempt |-> n, project |-> p, id |-> i, activity |-> acts[i], kind |-> k]
      OBVIOUS
    <3>3. r \in TaskRequests(n, p) /\ r.id = i
      BY <2>2, <3>1, <3>2
    <3>4. QED
      BY <3>3
  <2>4. ASSUME NEW i \in DOMAIN known \ DOMAIN acts PROVE \E r \in TaskRequests(n, p) : r.id = i
    BY <2>1
  <2>5. QED
    BY <2>3, <2>4
<1>6. \A q, r \in TaskRequests(n, p) : q.id = r.id => q = r
  BY DEF TaskRequests
<1>7. /\ saves'[n].phase = "tasks" /\ saves'[n].project = p /\ saves'[n].activities = acts
      /\ saves'[n].finishDate = saves[n].finishDate
      /\ \A m \in Saves \ {n} : saves'[m] = saves[m]
  <2>1. DOMAIN saves = Saves /\ DOMAIN saves[n] = DOMAIN NoSave
    BY DEF FormIInv, Forms
  <2>2. saves'[n] = [saves[n] EXCEPT !.phase = "tasks", !.project = p]
    BY <1>1, <2>1
  <2>3. QED
    BY <1>1, <1>3, <2>1, <2>2, EmptyDomain
<1>8. Owned'
  BY <1>1, <1>2, <1>3, <1>4, <1>7 DEF PlannedInv, Owned, Given
<1>9. SavedInv'
  <2>1. saved = NotSaved
    BY <1>1 DEF PlannedInv, SavedInv
  <2>2. QED
    BY <1>1, <2>1, NothingSaved
<1>10. ASSUME NEW m \in Saves, clean = m PROVE CleanSave(m)'
  <2>1. m = n /\ requests = {} /\ \A k \in Saves : UnderWay(k) => k = n
    BY <1>1, <1>10 DEF PlannedInv, CleanInv, CleanSave, UnderWay
  <2>2. requests' = TaskRequests(n, p)
    BY <1>1, <2>1
  <2>3. TasksOf(p) = DOMAIN known /\ TasksOf(p)' = TasksOf(p)
        /\ TasksOf(saves[n].project)' = TasksOf(p)
    BY <1>1, <1>3, <1>7, <1>10, <2>1, StoredProject DEF TasksOf
  <2>4. \A r \in requests' : Due(n, r)'
    BY <1>4, <1>7, <2>2, <2>3 DEF Due
  <2>5. Settled(n)' = {} /\ SettledTasks(n)' = {}
    BY <1>5, <1>7, <2>2, <2>3 DEF Pending, Settled, SettledTasks
  <2>6. Match({}, acts, {})'
    <3>1. [i \in {} |-> 0] \in [{} -> {}]
      OBVIOUS
    <3>2. QED
      BY <3>1 DEF Match
  <2>7. Match(Settled(n), saves[n].activities, SettledTasks(n))'
    BY <1>7, <2>5, <2>6 DEF Match
  <2>8. HalfDone(n)'
    BY <1>2, <1>6, <1>7, <2>2, <2>4, <2>7 DEF HalfDone
  <2>9. QED
    BY <1>7, <2>1, <2>8 DEF CleanSave, UnderWay
<1>11. CleanInv'
  BY <1>1, <1>10 DEF PlannedInv, CleanInv
<1>12. QED
  BY <1>8, <1>9, <1>11 DEF PlannedInv

\* A save that ends in trouble was the clean one or leaves none clean.
LEMMA LoseProjectIsPlanned ==
    ASSUME FormIInv, PlannedInv, NEW n \in Saves, LoseProject(n) PROVE PlannedInv'
<1>1. /\ saves[n].phase = "project" /\ saves' = [saves EXCEPT ![n] = NoSave] /\ clean' = 0
      /\ UNCHANGED finish \/ \E p \in Projects : ProjectStored(n, p)
      /\ UNCHANGED <<tasks, activities, requests, fresh, saved>>
  BY DEF LoseProject, plan
<1>2. DOMAIN finish' \subseteq Projects /\ DOMAIN finish \subseteq DOMAIN finish'
  BY <1>1 DEF ProjectStored, PlannedInv, Owned
<1>3. \A m \in Saves : saves'[m] \in {saves[m], NoSave} /\ m # 0
  BY <1>1 DEF FormIInv, Forms, Saves
<1>4. Owned'
  BY <1>1, <1>2, <1>3, EmptyDomain DEF PlannedInv, Owned, Given
<1>5. saved = NotSaved
  BY <1>1 DEF PlannedInv, SavedInv
<1>6. SavedInv'
  BY <1>1, <1>5, NothingSaved
<1>7. CleanInv'
  BY <1>1, <1>3 DEF CleanInv
<1>8. QED
  BY <1>4, <1>6, <1>7 DEF PlannedInv

\* One more activity and its task are matched as well.
LEMMA MatchGrows ==
    ASSUME NEW S, NEW acts, NEW T, Match(S, acts, T), NEW i, i \notin S, NEW k, k \notin T,
           ActivityOf(tasks'[k]) = acts[i], \A j \in T : tasks'[j] = tasks[j]
    PROVE  Match(S \cup {i}, acts, T \cup {k})'
<1>1. PICK g \in [S -> T] :
          /\ \A m, n \in S : g[m] = g[n] => m = n
          /\ \A j \in T : \E m \in S : g[m] = j
          /\ \A m \in S : ActivityOf(tasks[g[m]]) = acts[m]
  BY DEF Match
<1>2. PICK h : h = [m \in S \cup {i} |-> IF m = i THEN k ELSE g[m]]
  OBVIOUS
<1>3. h \in [S \cup {i} -> T \cup {k}] /\ h[i] = k /\ \A m \in S : h[m] = g[m]
  BY <1>2
<1>4. \A m, n \in S \cup {i} : h[m] = h[n] => m = n
  BY <1>1, <1>3
<1>5. \A j \in T \cup {k} : \E m \in S \cup {i} : h[m] = j
  BY <1>1, <1>3
<1>6. \A m \in S \cup {i} : ActivityOf(tasks'[h[m]]) = acts[m]
  <2>1. TAKE m \in S \cup {i}
  <2>2. CASE m = i
    BY <1>3, <2>2
  <2>3. CASE m \in S
    <3>1. g[m] \in T /\ h[m] = g[m] /\ tasks'[g[m]] = tasks[g[m]]
      BY <1>1, <1>3, <2>3
    <3>2. ActivityOf(tasks[g[m]]) = acts[m]
      BY <1>1, <2>3
    <3>3. QED
      BY <3>1, <3>2
  <2>4. QED
    BY <2>2, <2>3
<1>7. QED
  BY <1>3, <1>4, <1>5, <1>6 DEF Match

\* What is matched stays so, if its tasks stay as they are.
LEMMA MatchStays ==
    ASSUME NEW S, NEW acts, NEW T, Match(S, acts, T), \A j \in T : tasks'[j] = tasks[j]
    PROVE  Match(S, acts, T)'
BY DEF Match

\* The tasks belong to projects still when a request is served or lost.
LEMMA ServedAreOwned ==
    ASSUME FormIInv, Owned, NEW r \in requests, requests' = requests \ {r},
           UNCHANGED <<tasks, fresh>> \/ TaskStored(r), UNCHANGED <<finish, activities>>,
           \A n \in Saves : saves'[n] \in {saves[n], NoSave}
    PROVE  Owned' /\ fresh \in Nat /\ fresh' \in {fresh, fresh + 1}
<1>1. fresh \in Nat /\ r.kind \in {"delete", "patch", "post"}
  BY DEF FormIInv, FreshIsNew, Forms
<1>2. /\ fresh' \in {fresh, fresh + 1}
      /\ \A i \in DOMAIN tasks' : tasks'[i].project \in DOMAIN finish
  <2>1. \A i \in DOMAIN tasks : tasks[i].project \in DOMAIN finish
    BY DEF Owned
  <2>2. r.project \in DOMAIN finish /\ TaskOf(r.project, r.activity).project = r.project
    BY DEF Owned, TaskOf
  <2>3. CASE UNCHANGED <<tasks, fresh>>
    BY <2>1, <2>3
  <2>4. CASE TaskStored(r) /\ r.kind = "delete"
    <3>1. tasks' = [i \in DOMAIN tasks \ {r.id} |-> tasks[i]] /\ fresh' = fresh
      BY <2>4 DEF TaskStored, Restrict
    <3>2. QED
      BY <2>1, <3>1
  <2>5. CASE TaskStored(r) /\ r.kind = "patch"
    <3>1. tasks' = [tasks EXCEPT ![r.id] = TaskOf(r.project, r.activity)] /\ fresh' = fresh
      BY <2>5 DEF TaskStored
    <3>2. QED
      BY <2>1, <2>2, <3>1
  <2>6. CASE TaskStored(r) /\ r.kind = "post"
    <3>1. /\ tasks' = [i \in DOMAIN tasks \cup {fresh} |->
                          IF i = fresh THEN TaskOf(r.project, r.activity) ELSE tasks[i]]
          /\ fresh' = fresh + 1
      BY <2>6 DEF TaskStored
    <3>2. QED
      BY <2>1, <2>2, <3>1
  <2>7. QED
    BY <1>1, <2>3, <2>4, <2>5, <2>6
<1>3. \A n \in Saves : \A i \in DOMAIN saves'[n].activities : i \in Nat /\ i < fresh'
  BY <1>1, <1>2, EmptyDomain, GivenStays DEF Owned
<1>4. QED
  BY <1>1, <1>2, <1>3, GivenStays DEF Owned, Given

\* A request of a clean save that is served leaves what it is about as it is in the plan.
LEMMA ServedAsDue ==
    ASSUME FormIInv, PlannedInv, Shapes, NEW n \in Saves, HalfDone(n), NEW r \in requests,
           requests' = requests \ {r}, TaskStored(r), ~Refused(r),
           UNCHANGED <<finish, saves>>
    PROVE  /\ \A q \in requests' : Due(n, q)'
           /\ Match(Settled(n), saves[n].activities, SettledTasks(n))'
<1>1. PICK acts, p, D, T, S, U :
         /\ acts = saves[n].activities /\ p = saves[n].project
         /\ D = DOMAIN acts /\ T = TasksOf(p)
         /\ S = Settled(n) /\ U = SettledTasks(n)
  OBVIOUS
<1>2. /\ \A q \in requests : Due(n, q)
      /\ \A q \in requests : q.id = r.id => q = r
      /\ Match(S, acts, U)
  BY <1>1 DEF HalfDone
<1>3. Pending' = Pending \ {r.id} /\ r.id \in Pending
  BY <1>2 DEF Pending
<1>4. fresh \in Nat /\ fresh \notin T /\ fresh \notin D /\ fresh \notin Pending
  <2>1. Given(D) /\ Given(T) /\ fresh \in Nat
    BY <1>1 DEF FormIInv, FreshIsNew, PlannedInv, Owned, Given, TasksOf
  <2>2. \A q \in requests : q.id \in D \/ q.id \in T
    BY <1>1, <1>2 DEF Due
  <2>3. QED
    BY <2>1, <2>2 DEF Given, Pending
<1>5. /\ r.project = p /\ r.kind \in {"delete", "patch", "post"}
      /\ r.kind = "delete" => r.id \notin D /\ r.id \in T
      /\ r.kind = "patch" => r.id \in D /\ r.id \in T
      /\ r.kind = "post" => r.id \in D /\ r.id \notin T
      /\ r.kind # "delete" => r.activity = acts[r.id]
  BY <1>1, <1>2 DEF Due, FormIInv, Forms
<1>6. /\ r.kind # "delete" => ActivityOf(TaskOf(p, r.activity)) = acts[r.id]
      /\ TaskOf(p, r.activity).project = p
  <2>1. r.kind # "delete" => acts[r.id] = [date |-> acts[r.id].date, column |-> acts[r.id].column]
    BY <1>1, <1>5 DEF Shapes, Activities
  <2>2. QED
    BY <1>5, <2>1 DEF ActivityOf, TaskOf
<1>7. T = {i \in DOMAIN tasks : tasks[i].project = p}
  BY <1>1 DEF TasksOf
<1> S = D \ Pending /\ U = T \ Pending
  BY <1>1 DEF Settled, SettledTasks
<1>8. CASE r.kind = "delete"
  <2>1. tasks' = [i \in DOMAIN tasks \ {r.id} |-> tasks[i]]
    BY <1>8 DEF TaskStored, Restrict
  <2>2. TasksOf(p)' = T \ {r.id}
    BY <1>7, <2>1 DEF TasksOf
  <2>3. \A q \in requests' : Due(n, q)'
    BY <1>1, <1>2, <2>2 DEF Due
  <2>4. D \ Pending' = S /\ TasksOf(p)' \ Pending' = U
    BY <1>3, <1>5, <1>8, <2>2
  <2>5. \A j \in U : tasks'[j] = tasks[j]
    BY <1>3, <1>7, <2>1
  <2>6. Match(S, acts, U)'
    BY <1>2, <2>5, MatchStays
  <2>7. Settled(n)' = S /\ saves'[n].activities = acts /\ SettledTasks(n)' = U
    BY <1>1, <2>4 DEF Settled, SettledTasks
  <2>8. Match(Settled(n), saves[n].activities, SettledTasks(n))'
    BY <2>6, <2>7 DEF Match
  <2>9. QED
    BY <2>3, <2>8
<1>9. CASE r.kind = "patch"
  <2>1. /\ DOMAIN tasks' = DOMAIN tasks /\ tasks'[r.id] = TaskOf(p, r.activity)
        /\ \A j \in DOMAIN tasks \ {r.id} : tasks'[j] = tasks[j]
    <3>1. tasks' = [tasks EXCEPT ![r.id] = TaskOf(p, r.activity)] /\ r.id \in DOMAIN tasks
      BY <1>5, <1>7, <1>9 DEF TaskStored
    <3>2. QED
      BY <3>1
  <2>2. TasksOf(p)' = T
    BY <1>5, <1>6, <1>7, <1>9, <2>1 DEF TasksOf
  <2>3. \A q \in requests' : Due(n, q)'
    BY <1>1, <1>2, <2>2 DEF Due
  <2>4. D \ Pending' = S \cup {r.id} /\ T \ Pending' = U \cup {r.id}
    BY <1>3, <1>5, <1>9
  <2>5. \A j \in U : tasks'[j] = tasks[j]
    BY <1>3, <1>7, <2>1
  <2>6. r.id \notin S /\ r.id \notin U /\ ActivityOf(tasks'[r.id]) = acts[r.id]
    BY <1>3, <1>4, <1>6, <1>9, <2>1
  <2>7. PICK A, B : A = S \cup {r.id} /\ B = U \cup {r.id}
    OBVIOUS
  <2>8. Match(A, acts, B)'
    BY <1>2, <2>5, <2>6, <2>7, MatchGrows
  <2>9. D \ Pending' = A /\ TasksOf(p)' \ Pending' = B
    BY <2>2, <2>4, <2>7
  <2>10. Settled(n)' = A /\ saves'[n].activities = acts /\ SettledTasks(n)' = B
    BY <1>1, <2>9 DEF Settled, SettledTasks
  <2>11. Match(Settled(n), saves[n].activities, SettledTasks(n))'
    BY <2>8, <2>10 DEF Match
  <2>12. QED
    BY <2>3, <2>11
<1>10. CASE r.kind = "post"
  <2>1. /\ DOMAIN tasks' = DOMAIN tasks \cup {fresh} /\ tasks'[fresh] = TaskOf(p, r.activity)
        /\ \A j \in DOMAIN tasks \ {fresh} : tasks'[j] = tasks[j]
    BY <1>5, <1>10 DEF TaskStored
  <2>2. TasksOf(p)' = T \cup {fresh}
    <3>1. fresh \notin DOMAIN tasks
      BY DEF FormIInv, FreshIsNew, Given
    <3>2. QED
      BY <1>6, <1>7, <2>1, <3>1 DEF TasksOf
  <2>3. \A q \in requests' : Due(n, q)'
    <3>1. \A q \in requests : q.id # fresh
      BY <1>4 DEF Pending
    <3>2. QED
      BY <1>1, <1>2, <2>2, <3>1 DEF Due
  <2>4. D \ Pending' = S \cup {r.id} /\ (T \cup {fresh}) \ Pending' = U \cup {fresh}
    BY <1>3, <1>4, <1>5, <1>10
  <2>5. \A j \in U : tasks'[j] = tasks[j]
    BY <1>4, <1>7, <2>1
  <2>6. r.id \notin S /\ fresh \notin U /\ ActivityOf(tasks'[fresh]) = acts[r.id]
    BY <1>3, <1>4, <1>6, <1>10, <2>1
  <2>7. PICK A, B : A = S \cup {r.id} /\ B = U \cup {fresh}
    OBVIOUS
  <2>8. Match(A, acts, B)'
    BY <1>2, <2>5, <2>6, <2>7, MatchGrows
  <2>9. D \ Pending' = A /\ TasksOf(p)' \ Pending' = B
    BY <2>2, <2>4, <2>7
  <2>10. Settled(n)' = A /\ saves'[n].activities = acts /\ SettledTasks(n)' = B
    BY <1>1, <2>9 DEF Settled, SettledTasks
  <2>11. Match(Settled(n), saves[n].activities, SettledTasks(n))'
    BY <2>8, <2>10 DEF Match
  <2>12. QED
    BY <2>3, <2>11
<1>11. QED
  BY <1>5, <1>8, <1>9, <1>10

\* A request that is refused leaves no clean save.
LEMMA ServeTaskIsPlanned ==
    ASSUME FormIInv, PlannedInv, Shapes, NEW r \in requests, ServeTask(r) PROVE PlannedInv'
<1>1. /\ requests' = requests \ {r} /\ UNCHANGED <<finish, activities, saved>>
      /\ IF Refused(r) THEN Failed(r) /\ UNCHANGED <<tasks, fresh>>
         ELSE TaskStored(r) /\ UNCHANGED <<saves, clean>>
  BY DEF ServeTask, plan
<1>2. \A n \in Saves : saves'[n] \in {saves[n], NoSave} /\ n # 0
  <2>1. DOMAIN saves = Saves /\ \A n \in Saves : n # 0
    BY DEF FormIInv, Forms, Saves
  <2>2. saves' = saves \/ saves' = [saves EXCEPT ![r.attempt] = NoSave]
    BY <1>1 DEF Failed
  <2>3. QED
    BY <2>1, <2>2
<1>3. Owned'
  BY <1>1, <1>2, ServedAreOwned DEF PlannedInv
<1>4. SavedInv'
  <2>1. saved = NotSaved
    BY DEF PlannedInv, SavedInv
  <2>2. QED
    BY <1>1, <2>1, NothingSaved
<1>5. CASE Refused(r)
  BY <1>1, <1>2, <1>3, <1>4, <1>5 DEF PlannedInv, CleanInv, Failed
<1>6. CASE ~Refused(r)
  <2>1. TaskStored(r) /\ UNCHANGED <<saves, clean>>
    BY <1>1, <1>6
  <2>2. ASSUME NEW n \in Saves, clean = n PROVE CleanSave(n)'
    <3>1. CleanSave(n)
      BY <2>2 DEF PlannedInv, CleanInv
    <3>2. saves[n].phase # "project" /\ HalfDone(n)
      BY <3>1 DEF CleanSave
    <3>3. /\ \A q \in requests' : Due(n, q)'
          /\ Match(Settled(n), saves[n].activities, SettledTasks(n))'
      BY <1>1, <1>6, <2>1, <3>2, ServedAsDue
    <3>4. HalfDone(n)'
      BY <1>1, <2>1, <3>2, <3>3 DEF HalfDone
    <3>5. QED
      BY <2>1, <3>1, <3>2, <3>4 DEF CleanSave, UnderWay
  <2>3. CleanInv'
    BY <2>1, <2>2 DEF PlannedInv, CleanInv
  <2>4. QED
    BY <1>3, <1>4, <2>3 DEF PlannedInv
<1>7. QED
  BY <1>5, <1>6

\* A request that is lost leaves no clean save.
LEMMA LoseTaskIsPlanned ==
    ASSUME FormIInv, PlannedInv, NEW r \in requests, LoseTask(r) PROVE PlannedInv'
<1>1. /\ requests' = requests \ {r} /\ UNCHANGED <<finish, activities, saved>>
      /\ UNCHANGED <<tasks, fresh>> \/ TaskStored(r)
      /\ Failed(r)
  BY DEF LoseTask, plan
<1>2. \A n \in Saves : saves'[n] \in {saves[n], NoSave} /\ n # 0
  BY <1>1 DEF Failed, FormIInv, Forms, Saves
<1>3. Owned'
  BY <1>1, <1>2, ServedAreOwned DEF PlannedInv
<1>4. saved = NotSaved
  BY DEF PlannedInv, SavedInv
<1>5. SavedInv'
  BY <1>1, <1>4, NothingSaved
<1>6. QED
  BY <1>1, <1>2, <1>3, <1>5 DEF PlannedInv, CleanInv, Failed

\* When no request of a clean save is left, the whole plan is on the server.
LEMMA SucceedIsPlanned ==
    ASSUME FormIInv, PlannedInv, NEW n \in Saves, Succeed(n) PROVE PlannedInv'
<1>1. /\ saves[n].phase = "tasks" /\ ~\E r \in requests : r.attempt = n
      /\ activities' = Empty /\ clean' = 0
      /\ saved' = IF clean = n THEN [project |-> saves[n].project, tasks |-> saves[n].activities,
                                     finish |-> saves[n].finishDate]
                  ELSE NotSaved
      /\ UNCHANGED <<tasks, finish, requests, fresh>>
  BY DEF Succeed, Unmount, server, counts
<1>2. /\ saves'[n] = NoSave
      /\ \A m \in Saves : m # n => Kept(m)
  BY SucceededSaves
<1>3. Owned'
  BY <1>1, <1>2, EmptyDomain DEF PlannedInv, Owned, Given, Kept
<1>4. CleanInv'
  BY <1>1 DEF CleanInv, Saves
<1>5. CASE clean # n
  <2>1. saved' = NotSaved
    BY <1>1, <1>5
  <2>2. QED
    BY <1>3, <1>4, <2>1, NothingSaved DEF PlannedInv
<1>6. CASE clean = n
  <2>1. CleanSave(n) /\ HalfDone(n)
    BY <1>1, <1>6 DEF PlannedInv, CleanInv, CleanSave
  <2>2. requests = {} /\ Pending = {}
    BY <1>1, <2>1 DEF HalfDone, Due, Pending
  <2>3. \A m \in Saves : saves'[m].phase = "idle"
    BY <1>2, <2>1, EmptyDomain DEF CleanSave, UnderWay, Kept
  <2>4. PICK acts, p : acts = saves[n].activities /\ p = saves[n].project
    OBVIOUS
  <2>5. PICK D, T : D = DOMAIN acts /\ T = TasksOf(p)
    OBVIOUS
  <2>6. D = Settled(n) /\ T = SettledTasks(n)
    BY <2>2, <2>4, <2>5 DEF Settled, SettledTasks
  <2>7. Match(D, acts, T)
    BY <2>1, <2>4, <2>6 DEF HalfDone
  <2>8. Match(D, acts, T)'
    BY <1>1, <2>7, MatchStays
  <2>9. p \in DOMAIN finish /\ finish[p] = saves[n].finishDate
    BY <2>1, <2>4 DEF HalfDone
  <2>10. saved'.project = p /\ saved'.tasks = acts /\ saved'.finish = finish'[p]
    BY <1>1, <1>6, <2>4, <2>9
  <2>11. TasksOf(saved.project)' = T /\ DOMAIN saved'.tasks = D
    BY <1>1, <2>5, <2>10 DEF TasksOf
  <2>12. Match(DOMAIN saved.tasks, saved.tasks, TasksOf(saved.project))'
    BY <2>8, <2>10, <2>11 DEF Match
  <2>13. Given(DOMAIN saved.tasks)'
    BY <1>1, <2>4, <2>5, <2>11 DEF PlannedInv, Owned, Given
  <2>14. SavedInv'
    BY <1>1, <2>2, <2>3, <2>9, <2>10, <2>12, <2>13 DEF SavedInv
  <2>15. QED
    BY <1>3, <1>4, <2>14 DEF PlannedInv
<1>7. QED
  BY <1>5, <1>6

\* Other users leave no save clean.
LEMMA OthersArePlanned ==
    ASSUME FormIInv, PlannedInv,
           \/ \E p \in Projects, a \in Plan!Activity : OtherAddsTask(p, a)
           \/ \E i \in DOMAIN tasks : OtherRemovesTask(i)
    PROVE  PlannedInv'
<1>1. /\ clean' = 0 /\ saved' = NotSaved
      /\ UNCHANGED <<finish, activities, saves, requests>>
  BY DEF OtherAddsTask, OtherRemovesTask, plan, saving
<1>2. fresh \in Nat /\ \A i \in DOMAIN tasks : tasks[i].project \in DOMAIN finish
  BY DEF FormIInv, FreshIsNew, PlannedInv, Owned
<1>3. /\ fresh' \in {fresh, fresh + 1}
      /\ \A i \in DOMAIN tasks' : tasks'[i].project \in DOMAIN finish
  <2>1. ASSUME NEW p \in Projects, NEW a, OtherAddsTask(p, a)
        PROVE  /\ fresh' = fresh + 1
               /\ \A i \in DOMAIN tasks' : tasks'[i].project \in DOMAIN finish
    BY <1>2, <2>1 DEF OtherAddsTask, TaskOf
  <2>2. ASSUME NEW i, OtherRemovesTask(i)
        PROVE  fresh' = fresh /\ \A j \in DOMAIN tasks' : tasks'[j].project \in DOMAIN finish
    BY <1>2, <2>2 DEF OtherRemovesTask, Restrict
  <2>3. QED
    BY <2>1, <2>2
<1>4. Owned'
  BY <1>1, <1>2, <1>3, GivenStays DEF PlannedInv, Owned, Given
<1>5. CleanInv' /\ SavedInv'
  BY <1>1, NothingSaved DEF CleanInv, Saves
<1>6. QED
  BY <1>4, <1>5 DEF PlannedInv

\* Every step keeps activities dates and columns.
LEMMA ShapesStay == ASSUME FormIInv, Shapes, FormNext PROVE Shapes'
<1>1. Activities(Empty) /\ NoSave.activities = Empty
  BY EmptyDomain DEF Activities
<1>2. \A p : Activities(Listed(p).tasks)
  BY DEF Activities, Listed, ActivityOf
<1>3. ASSUME \A n \in Saves : saves'[n].activities \in {saves[n].activities, activities, Empty},
             Activities(activities'), UNCHANGED listed
      PROVE  Shapes'
  BY <1>1, <1>3 DEF Shapes
<1>4. SavesKept => \A n \in Saves : saves'[n].activities = saves[n].activities
  BY DEF SavesKept, Kept
<1>5. CASE OpenNew \/ Leave
  <2>1. SavesKept /\ activities' = Empty /\ UNCHANGED listed
    BY <1>5, SameSaves, LeavingKeeps
       DEF OpenNew, Leave, Unmount, saving, cached, FormIInv
  <2>2. QED
    BY <1>1, <1>3, <1>4, <2>1
<1>6. CASE CannotFill \/ \E p \in Projects : OpenEdit(p) \/ FetchProject(p)
  <2>1. UNCHANGED <<saves, listed>> /\ Activities(activities')
    BY <1>6 DEF CannotFill, OpenEdit, FetchProject, Filled, saving, cached, plan, Shapes
  <2>2. QED
    BY <1>3, <2>1
<1>7. CASE \E p \in Projects : FetchTasks(p)
  <2>1. PICK p \in Projects : FetchTasks(p)
    BY <1>7
  <2>2. UNCHANGED saves /\ activities' \in {activities, Listed(p).tasks}
        /\ \A q \in Projects : listed'[q] \in {listed[q], Listed(p)}
    BY <2>1 DEF FetchTasks, Filled, saving, plan, FormIInv, FreshIsNew
  <2>3. QED
    BY <1>2, <2>2 DEF Shapes
<1>8. CASE EditPlan
  <2>1. ASSUME NEW i, NEW a \in Plan!Activity, Plan!Put(i, a) PROVE Activities(activities')
    BY <2>1 DEF Plan!Put, Plan!Activity, Activities, Shapes
  <2>2. ASSUME NEW i, Plan!Remove(i) PROVE Activities(activities')
    BY <2>2 DEF Plan!Remove, Activities, Shapes
  <2>3. ASSUME NEW d, Plan!FinishOn(d) PROVE Activities(activities')
    BY <2>3 DEF Plan!FinishOn, Activities, Shapes
  <2>4. Activities(activities') /\ UNCHANGED <<saves, listed>>
    BY <1>8, <2>1, <2>2, <2>3 DEF EditPlan, saving, cached
  <2>5. QED
    BY <1>3, <2>4
<1>9. CASE Submit
  <2>1. \A n \in Saves : saves'[n].activities \in {saves[n].activities, activities}
    BY <1>9 DEF Submit, FormIInv, Forms
  <2>2. UNCHANGED <<activities, listed>>
    BY <1>9 DEF Submit, plan, cached
  <2>3. QED
    BY <1>3, <2>1, <2>2 DEF Shapes
<1>10. CASE \E n \in Saves, p \in Projects : ServeProject(n, p)
  <2>1. PICK n \in Saves, p \in Projects : ServeProject(n, p)
    BY <1>10
  <2>2. saves' = [saves EXCEPT ![n] = [@ EXCEPT !.phase = "tasks", !.project = p]]
        /\ UNCHANGED <<activities, listed>>
    BY <2>1 DEF ServeProject, plan, cached
  <2>3. DOMAIN saves = Saves /\ DOMAIN saves[n] = DOMAIN NoSave
    BY DEF FormIInv, Forms
  <2>4. \A m \in Saves : saves'[m].activities = saves[m].activities
    BY <2>2, <2>3, EmptyDomain
  <2>5. QED
    BY <1>3, <2>2, <2>4 DEF Shapes
<1>11. CASE \/ \E n \in Saves : LoseProject(n)
            \/ \E r \in requests : ServeTask(r) \/ LoseTask(r)
  <2>1. UNCHANGED <<activities, listed>> /\ \A n \in Saves : saves'[n] \in {saves[n], NoSave}
    BY <1>11 DEF LoseProject, ServeTask, LoseTask, Failed, plan, cached, FormIInv, Forms
  <2>2. QED
    BY <1>1, <1>3, <2>1 DEF Shapes
<1>12. CASE \E n \in Saves : Succeed(n)
  <2>1. PICK n \in Saves : Succeed(n)
    BY <1>12
  <2>2. saves'[n] = NoSave /\ \A m \in Saves : m # n => Kept(m)
    BY <2>1, SucceededSaves
  <2>3. activities' = Empty /\ UNCHANGED listed
    BY <2>1 DEF Succeed, Unmount, cached
  <2>4. QED
    BY <1>1, <1>3, <2>2, <2>3 DEF Kept
<1>13. CASE \/ \E p \in Projects, a \in Plan!Activity : OtherAddsTask(p, a)
            \/ \E i \in DOMAIN tasks : OtherRemovesTask(i)
  <2>1. UNCHANGED <<activities, listed, saves>>
    BY <1>13 DEF OtherAddsTask, OtherRemovesTask, plan, cached, saving
  <2>2. QED
    BY <1>3, <2>1 DEF Shapes
<1>14. QED
  BY <1>5, <1>6, <1>7, <1>8, <1>9, <1>10, <1>11, <1>12, <1>13 DEF FormNext

\* Every step keeps what is known of a clean save.
LEMMA PlannedStep ==
    FormIInv /\ (PlannedInv /\ Shapes) /\ [FormNext]_formVars => (PlannedInv /\ Shapes)'
<1> SUFFICES ASSUME FormIInv, PlannedInv, Shapes, [FormNext]_formVars
             PROVE  PlannedInv' /\ Shapes'
  OBVIOUS
<1>1. CASE UNCHANGED formVars
  <2>1. /\ UNCHANGED <<tasks, finish, requests, saved, clean, fresh, saves, activities, listed>>
        /\ fresh \in Nat
    BY <1>1 DEF formVars, server, cached, plan, saving, counts, history, FormIInv, FreshIsNew
  <2>2. PlannedInv'
    BY <2>1, QuietIsPlanned, SameSaves DEF PlannedInv, Owned, Given, FormIInv
  <2>3. Shapes'
    BY <2>1 DEF Shapes
  <2>4. QED
    BY <2>2, <2>3
<1>2. CASE FormNext
  <2>1. Shapes'
    BY <1>2, ShapesStay
  <2>2. PlannedInv'
    BY <1>2, FormsArePlanned, EditPlanIsPlanned, SubmitIsPlanned, ServeProjectIsPlanned,
       LoseProjectIsPlanned, ServeTaskIsPlanned, LoseTaskIsPlanned, SucceedIsPlanned,
       OthersArePlanned DEF FormNext
  <2>3. QED
    BY <2>1, <2>2
<1>3. QED
  BY <1>1, <1>2

\* What is known of a clean save holds in every state.
THEOREM PlannedInvariance == FormSpec => [](PlannedInv /\ Shapes)
<1>1. FormInit => PlannedInv /\ Shapes
  <2>1. FormInit => Shapes
    BY EmptyDomain DEF FormInit, Shapes, Activities, NotListed
  <2>2. QED
    BY <2>1, PlannedStart
<1>2. QED
  BY <1>1, PlannedStep, FormInvariance, PTL DEF FormSpec

\* A clean save leaves the server with the plan, whatever the plan and the ids of its tasks.
THEOREM SavesLeaveThePlan == FormSpec => []SavedAsPlanned
<1>1. ASSUME FormIInv, PlannedInv PROVE SavedAsPlanned
  <2> SUFFICES ASSUME saved # NotSaved
               PROVE  /\ finish[saved.project] = saved.finish
                      /\ \A a \in Plan!Activity :
                            Cardinality({i \in TasksOf(saved.project) : ActivityOf(tasks[i]) = a})
                              = Cardinality({i \in DOMAIN saved.tasks : saved.tasks[i] = a})
    BY DEF SavedAsPlanned
  <2>1. /\ Given(DOMAIN saved.tasks) /\ finish[saved.project] = saved.finish
        /\ Match(DOMAIN saved.tasks, saved.tasks, TasksOf(saved.project))
    BY <1>1 DEF PlannedInv, SavedInv
  <2>2. IsFiniteSet(DOMAIN saved.tasks)
    BY <1>1, <2>1, GivenIsFinite DEF FormIInv, FreshIsNew
  <2>3. PICK acts, S, T : acts = saved.tasks /\ S = DOMAIN acts /\ T = TasksOf(saved.project)
    OBVIOUS
  <2>4. \A a : Cardinality({k \in T : ActivityOf(tasks[k]) = a})
                 = Cardinality({i \in S : acts[i] = a})
    BY <2>1, <2>2, <2>3, MatchCounts
  <2>5. QED
    BY <2>1, <2>3, <2>4
<1>2. QED
  BY <1>1, FormInvariance, PlannedInvariance, PTL
=============================================================================
