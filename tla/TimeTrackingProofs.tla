------------------------- MODULE TimeTrackingProofs -------------------------
(***************************************************************************)
(* The safety properties of TimeTracking, for any number of users and      *)
(* concurrent requests, any limit and any run of the clock.                *)
(***************************************************************************)
EXTENDS TimeTracking, TLAPS

-----------------------------------------------------------------------------
(* The inductive invariant *)

\* What a request carries agrees with the entries: the entry it names is one of its
\* user's (a stop by id excepted), and the one it holds is running.
RequestOK(q) ==
    /\ q.pc = "idle" => q.user = NoUser
    /\ q.pc # "idle" => q.user \in Users
    /\ q.pc \in {"began", "asked", "holds", "stopping", "stamped"} => q.at \in Times
    /\ q.pc = "began" => q.entry = NoEntry
    /\ q.pc \in {"asked", "read", "stamped", "stopping"} => q.entry # NoEntry
    /\ q.pc \in {"asked", "read", "stamped"} => entries[q.entry].user = q.user
    /\ (q.pc = "holds" /\ q.entry # NoEntry) => q.entry \in Open(q.user)

RequestsInv == \A r \in Requests : RequestOK(req[r])

\* A row lock has one holder.
HoldersInv ==
    \A r, s \in Requests :
        (/\ req[r].pc = "holds" /\ req[s].pc = "holds"
         /\ req[r].entry = req[s].entry /\ req[r].entry # NoEntry) => r = s

\* Two requests of a user at a time are remembered.
RaceInv ==
    \A r, s \in Requests :
        (/\ req[r].pc # "idle" /\ req[s].pc # "idle" /\ r # s
         /\ req[r].user = req[s].user) => req[r].user \in raced

\* Without a rival, a start has found the one timer that runs.
FoundInv ==
    \A r \in Requests :
        (req[r].pc \in {"asked", "holds"} /\ req[r].user \notin raced)
            => Open(req[r].user) \subseteq {req[r].entry}

IInv ==
    /\ TypeOK
    /\ RequestsInv
    /\ HoldersInv
    /\ RaceInv
    /\ FoundInv
    /\ OneRunningTimer
    /\ RefusedOnlyWhenRaced

-----------------------------------------------------------------------------
(* Lemmas about the entries *)

\* The lengths of times are times or zero.
LEMMA ElapsedType ==
    ASSUME NEW s \in Times, NEW t \in Times
    PROVE  Elapsed(s, t) \in 0 .. MaxClock /\ Difference(s, t) \in 0 .. MaxClock
BY TimeAssumption DEF Elapsed, Difference, Times

\* Writing one entry leaves the others.
LEMMA WriteEntry ==
    ASSUME NEW es \in Seq(Entry), NEW e \in DOMAIN es, NEW x \in Entry
    PROVE  LET new == [es EXCEPT ![e] = x] IN
           /\ new \in Seq(Entry) /\ DOMAIN new = DOMAIN es /\ Len(new) = Len(es)
           /\ \A i \in DOMAIN es : i # e => new[i] = es[i]
           /\ new[e] = x
OBVIOUS

\* A started entry goes to the end.
LEMMA AppendEntry ==
    ASSUME NEW es \in Seq(Entry), NEW x \in Entry
    PROVE  /\ Append(es, x) \in Seq(Entry)
           /\ DOMAIN Append(es, x) = DOMAIN es \cup {Len(es) + 1}
           /\ Len(es) + 1 \notin DOMAIN es
           /\ \A i \in DOMAIN es : Append(es, x)[i] = es[i]
           /\ Append(es, x)[Len(es) + 1] = x
OBVIOUS

\* An idle request names nobody and nothing.
LEMMA IdleRequest ==
    Idle \in Request /\ Idle.pc = "idle" /\ Idle.user = NoUser /\ Idle.entry = NoEntry
BY TimeAssumption DEF Idle, Request, NoEntry

\* A new entry runs.
LEMMA NewEntry ==
    ASSUME NEW u \in Users, NEW t \in Times
    PROVE  New(u, t) \in Entry /\ New(u, t).user = u /\ New(u, t).ended = Running
BY TimeAssumption DEF New, Entry, Running, Times

-----------------------------------------------------------------------------
(* The steps preserve the invariant *)

\* The initial states satisfy it.
LEMMA InitIInv == Init => IInv
<1> SUFFICES ASSUME Init PROVE IInv
  OBVIOUS
<1> USE TimeAssumption DEF Init
<1>1. entries \in Seq(Entry) /\ DOMAIN entries = {}
  OBVIOUS
<1>2. Idle \in Request /\ Idle.pc = "idle" /\ Idle.user = NoUser /\ Idle.entry = NoEntry
  BY IdleRequest
<1>3. TypeOK
  BY <1>1, <1>2 DEF TypeOK, Times
<1>4. RequestsInv
  BY <1>2 DEF RequestsInv, RequestOK
<1>5. HoldersInv /\ RaceInv /\ FoundInv
  BY <1>2 DEF HoldersInv, RaceInv, FoundInv
<1>6. OneRunningTimer /\ RefusedOnlyWhenRaced
  BY <1>1 DEF OneRunningTimer, Open, RefusedOnlyWhenRaced
<1>7. QED
  BY <1>3, <1>4, <1>5, <1>6 DEF IInv

\* A step that moves one request and leaves the entries: the request agrees with the
\* entries, takes no lock that is held, knows the running timer, and its rivals are known.
LEMMA RequestStep ==
    ASSUME IInv, NEW r \in Requests, NEW q \in Request,
           req' = [req EXCEPT ![r] = q],
           entries' = entries, clock' = clock, refused' = refused,
           raced \subseteq raced', raced' \subseteq Users,
           q.entry \in {NoEntry} \cup DOMAIN entries,
           RequestOK(q),
           (q.pc = "holds" /\ q.entry # NoEntry)
               => \A s \in Requests \ {r} : ~(req[s].pc = "holds" /\ req[s].entry = q.entry),
           q.pc # "idle"
               => \A s \in Requests \ {r} :
                     (req[s].pc # "idle" /\ req[s].user = q.user) => q.user \in raced',
           (q.pc \in {"asked", "holds"} /\ q.user \notin raced')
               => Open(q.user) \subseteq {q.entry}
    PROVE  IInv'
<1> USE DEF IInv
<1>1. \A s \in Requests : req'[s] = IF s = r THEN q ELSE req[s]
  BY DEF TypeOK
<1>2. \A u \in Users : Open(u)' = Open(u)
  BY DEF Open
<1>3. TypeOK'
  BY DEF TypeOK
<1>4. RequestsInv'
  <2>1. \A s \in Requests : RequestOK(req[s])
    BY DEF RequestsInv
  <2>2. SUFFICES ASSUME NEW s \in Requests PROVE RequestOK(req[s])'
    BY DEF RequestsInv
  <2>3. CASE s = r
    BY <2>3, <1>1 DEF RequestOK, Open
  <2>4. CASE s # r
    BY <2>4, <2>1, <1>1 DEF RequestOK, Open
  <2>5. QED
    BY <2>3, <2>4
<1>5. HoldersInv'
  BY <1>1 DEF HoldersInv
<1>6. RaceInv'
  BY <1>1 DEF RaceInv
<1>7. FoundInv'
  <2>1. SUFFICES ASSUME NEW s \in Requests, NEW u, u = req'[s].user,
                        req'[s].pc \in {"asked", "holds"}, u \notin raced'
                 PROVE  Open(u)' \subseteq {req'[s].entry}
    BY DEF FoundInv
  <2>2. Open(u)' = Open(u)
    BY DEF Open
  <2>3. QED
    BY <2>1, <2>2, <1>1 DEF FoundInv
<1>8. OneRunningTimer' /\ RefusedOnlyWhenRaced'
  BY <1>2 DEF OneRunningTimer, RefusedOnlyWhenRaced
<1>9. QED
  BY <1>3, <1>4, <1>5, <1>6, <1>7, <1>8

\* A step that ends a request and writes entries of its user, none that another holds.
LEMMA EntriesStep ==
    ASSUME IInv, NEW r \in Requests, req[r].pc # "idle",
           Release(r), clock' = clock, raced' = raced,
           entries' \in Seq(Entry), DOMAIN entries \subseteq DOMAIN entries',
           \A e \in DOMAIN entries : entries'[e].user = entries[e].user,
           \A e \in DOMAIN entries : entries'[e] # entries[e] =>
               /\ entries[e].user = req[r].user
               /\ entries'[e].ended # Running
               /\ \A s \in Requests \ {r} : ~(req[s].pc = "holds" /\ req[s].entry = e),
           \A e \in DOMAIN entries' \ DOMAIN entries : entries'[e].user = req[r].user,
           OneRunningTimer', RefusedOnlyWhenRaced', refused' \subseteq Users
    PROVE  IInv'
<1> USE DEF IInv
<1>1. \A s \in Requests : req'[s] = IF s = r THEN Idle ELSE req[s]
  BY DEF TypeOK, Release
<1>2. Idle \in Request /\ Idle.pc = "idle" /\ Idle.user = NoUser /\ Idle.entry = NoEntry
  BY IdleRequest
<1>3. \A s \in Requests : req'[s].pc # "idle" => s # r /\ req'[s] = req[s]
  BY <1>1, <1>2
<1>4. TypeOK'
  <2>1. req' \in [Requests -> Request]
    BY <1>2 DEF TypeOK, Release
  <2>2. \A s \in Requests : req'[s].entry \in {NoEntry} \cup DOMAIN entries'
    BY <1>1, <1>2 DEF TypeOK
  <2>3. QED
    BY <2>1, <2>2 DEF TypeOK
<1>5. RequestsInv'
  <2>1. SUFFICES ASSUME NEW s \in Requests PROVE RequestOK(req[s])'
    BY DEF RequestsInv
  <2>2. RequestOK(req[s])
    BY DEF RequestsInv
  <2>3. CASE s = r
    BY <2>3, <1>1, <1>2 DEF RequestOK
  <2>4. CASE s # r
    <3>1. req'[s] = req[s] /\ req[s].entry \in {NoEntry} \cup DOMAIN entries
      BY <2>4, <1>1 DEF TypeOK
    <3>2. (req[s].pc \in {"asked", "read", "stamped"})
              => entries'[req[s].entry].user = req[s].user
      BY <2>2, <3>1 DEF RequestOK
    <3>3. (req[s].pc = "holds" /\ req[s].entry # NoEntry)
              => req[s].entry \in Open(req[s].user)'
      BY <2>2, <2>4, <3>1 DEF RequestOK, Open
    <3>4. QED
      BY <2>2, <3>1, <3>2, <3>3 DEF RequestOK, Open
  <2>5. QED
    BY <2>3, <2>4
<1>6. HoldersInv' /\ RaceInv'
  BY <1>3, <1>1, <1>2 DEF HoldersInv, RaceInv
<1>7. FoundInv'
  <2>1. SUFFICES ASSUME NEW s \in Requests, NEW u, u = req'[s].user,
                        req'[s].pc \in {"asked", "holds"}, u \notin raced'
                 PROVE  Open(u)' \subseteq {req'[s].entry}
    BY DEF FoundInv
  <2>2. s # r /\ req'[s] = req[s]
    BY <2>1, <1>3
  <2>3. u = req[s].user /\ u # req[r].user
    BY <2>1, <2>2 DEF RaceInv
  <2>4. Open(u)' \subseteq Open(u)
    BY <2>3 DEF Open
  <2>5. QED
    BY <2>1, <2>2, <2>3, <2>4 DEF FoundInv
<1>8. QED
  BY <1>4, <1>5, <1>6, <1>7

\* A request is begun: nobody waits for it yet.
LEMMA BeginStep ==
    ASSUME IInv, NEW r \in Requests, NEW pc \in {"began", "stopping", "checked", "read"},
           NEW u \in Users, NEW t \in 0 .. MaxClock, NEW e \in {NoEntry} \cup DOMAIN entries,
           Begin(r, pc, u, t, e),
           UNCHANGED <<entries, clock, refused>>,
           pc \in {"began", "stopping"} => t \in Times,
           pc = "began" => e = NoEntry,
           pc \in {"read", "stopping"} => e # NoEntry,
           pc = "read" => entries[e].user = u
    PROVE  IInv'
<1> DEFINE q == [pc |-> pc, user |-> u, at |-> t, entry |-> e, auto |-> FALSE]
<1>1. q \in Request /\ q.pc = pc /\ q.user = u /\ q.at = t /\ q.entry = e
  BY DEF Request, NoEntry, IInv, TypeOK
<1>2. req' = [req EXCEPT ![r] = q]
  BY DEF Begin
<1>3. raced \subseteq raced' /\ raced' \subseteq Users
  BY DEF Begin, IInv, TypeOK
<1>4. \A s \in Requests \ {r} : req[s].user = u => u \in raced'
  BY DEF Begin
<1> HIDE DEF q
<1>5. RequestOK(q)
  BY <1>1 DEF RequestOK
<1>6. QED
  BY <1>1, <1>2, <1>3, <1>4, <1>5, RequestStep

\* Beginning a request, by either back end.
LEMMA BeginIInv ==
    ASSUME IInv, NEW r \in Requests, NEW u \in Users,
           GoBegin(r, u) \/ LaravelCheck(r, u) \/ LaravelRead(r, u)
             \/ \E e \in DOMAIN entries : GoStopBegin(r, u, e)
    PROVE  IInv'
<1>1. clock \in Times /\ clock \in 0 .. MaxClock /\ 0 \in 0 .. MaxClock
  BY TimeAssumption DEF IInv, TypeOK, Times
<1>2. DOMAIN entries = 1 .. Len(entries) /\ Len(entries) \in Nat
  BY DEF IInv, TypeOK
<1>3. CASE GoBegin(r, u)
  BY <1>1, <1>3, BeginStep DEF GoBegin
<1>4. CASE LaravelCheck(r, u)
  BY <1>1, <1>4, BeginStep DEF LaravelCheck
<1>5. CASE LaravelRead(r, u)
  <2>1. PICK e \in Open(u) : Begin(r, "read", u, 0, e)
    BY <1>5 DEF LaravelRead
  <2>2. e \in DOMAIN entries /\ entries[e].user = u /\ e # NoEntry
    BY <1>2 DEF Open, NoEntry
  <2>3. UNCHANGED <<entries, clock, refused>>
    BY <1>5 DEF LaravelRead
  <2>4. QED
    BY <1>1, <2>1, <2>2, <2>3, BeginStep
<1>6. CASE \E e \in DOMAIN entries : GoStopBegin(r, u, e)
  <2>1. PICK e \in DOMAIN entries : GoStopBegin(r, u, e)
    BY <1>6
  <2>2. e # NoEntry
    BY <1>2 DEF NoEntry
  <2>3. QED
    BY <1>1, <2>1, <2>2, BeginStep DEF GoStopBegin
<1>7. QED
  BY <1>3, <1>4, <1>5, <1>6

\* A request that is not idle is a user's, and agrees with the entries.
LEMMA BusyRequest ==
    ASSUME IInv, NEW r \in Requests
    PROVE  /\ req[r] \in Request /\ RequestOK(req[r])
           /\ req[r].entry \in {NoEntry} \cup DOMAIN entries
           /\ req[r].pc # "idle" => req[r].user \in Users
BY DEF IInv, TypeOK, RequestsInv, RequestOK

\* The running timer is looked up: the one entry it finds is the only one.
LEMMA GoAskIInv ==
    ASSUME IInv, NEW r \in Requests, GoAsk(r)
    PROVE  IInv'
<1> DEFINE u == req[r].user
<1>1. req[r] \in Request /\ RequestOK(req[r]) /\ u \in Users /\ req[r].pc = "began"
  BY BusyRequest DEF GoAsk
<1>2. DOMAIN entries = 1 .. Len(entries) /\ Len(entries) \in Nat
  BY DEF IInv, TypeOK
<1>3. raced \subseteq raced' /\ raced' \subseteq Users /\ UNCHANGED <<entries, clock, refused>>
  BY DEF GoAsk, IInv, TypeOK
<1>4. \A s \in Requests \ {r} : (req[s].pc # "idle" /\ req[s].user = u) => u \in raced'
  BY <1>1, <1>3 DEF IInv, RaceInv
<1>5. CASE \E e \in Open(u) : req' = [req EXCEPT ![r].pc = "asked", ![r].entry = e]
  <2>1. PICK e \in Open(u) : req' = [req EXCEPT ![r].pc = "asked", ![r].entry = e]
    BY <1>5
  <2> DEFINE q == [req[r] EXCEPT !.pc = "asked", !.entry = e]
  <2>2. e \in DOMAIN entries /\ e # NoEntry /\ e \in Nat /\ entries[e].user = u
    BY <1>2 DEF Open, NoEntry
  <2>3. q \in Request /\ q.pc = "asked" /\ q.entry = e /\ q.user = u /\ q.at = req[r].at
    BY <1>1, <2>2 DEF Request
  <2>4. req' = [req EXCEPT ![r] = q]
    BY <2>1 DEF IInv, TypeOK
  <2>5. Open(u) \subseteq {e}
    BY <1>1 DEF IInv, OneRunningTimer
  <2> HIDE DEF q
  <2>6. RequestOK(q)
    BY <1>1, <2>2, <2>3 DEF RequestOK
  <2>7. QED
    BY <1>3, <1>4, <2>2, <2>3, <2>4, <2>5, <2>6, RequestStep
<1>6. CASE Open(u) = {} /\ req' = [req EXCEPT ![r].pc = "holds"]
  <2> DEFINE q == [req[r] EXCEPT !.pc = "holds"]
  <2>1. q \in Request /\ q.pc = "holds" /\ q.entry = req[r].entry /\ q.user = u /\ q.at = req[r].at
    BY <1>1 DEF Request
  <2>2. req' = [req EXCEPT ![r] = q]
    BY <1>6
  <2> HIDE DEF q
  <2>3. q.entry = NoEntry /\ RequestOK(q)
    BY <1>1, <2>1 DEF RequestOK
  <2>4. Open(u) \subseteq {q.entry}
    BY <1>6
  <2>5. QED
    BY <1>3, <1>4, <2>1, <2>2, <2>3, <2>4, RequestStep
<1>7. QED
  BY <1>5, <1>6 DEF GoAsk

\* The lock is granted: nobody else has it, and the entry is running or let go.
LEMMA GoLockIInv ==
    ASSUME IInv, NEW r \in Requests, GoLock(r)
    PROVE  IInv'
<1> DEFINE u == req[r].user
           e == req[r].entry
<1>1. /\ req[r] \in Request /\ RequestOK(req[r]) /\ u \in Users /\ req[r].pc = "asked"
      /\ e \in DOMAIN entries /\ entries[e].user = u
  BY BusyRequest DEF GoLock, RequestOK
<1>2. \A s \in Requests : ~(req[s].pc = "holds" /\ req[s].entry = e)
  BY DEF GoLock, Held
<1>3. raced \subseteq raced' /\ raced' \subseteq Users /\ UNCHANGED <<entries, clock, refused>>
  BY DEF GoLock, IInv, TypeOK
<1>4. \A s \in Requests \ {r} : (req[s].pc # "idle" /\ req[s].user = u) => u \in raced'
  BY <1>1, <1>3 DEF IInv, RaceInv
<1>5. u \notin raced' => Open(u) \subseteq {e}
  BY <1>1, <1>3 DEF GoLock, IInv, FoundInv
<1>6. CASE entries[e].ended = Running
  <2> DEFINE a == clock - entries[e].started > LongTime
             q == [req[r] EXCEPT !.pc = "holds", !.auto = a]
  <2>1. req' = [req EXCEPT ![r].pc = "holds", ![r].auto = a]
    BY <1>6 DEF GoLock
  <2>2. a \in BOOLEAN
    OBVIOUS
  <2> HIDE DEF a
  <2>3. req' = [req EXCEPT ![r] = q]
    BY <2>1 DEF IInv, TypeOK
  <2>4. /\ q \in Request /\ q.pc = "holds" /\ q.entry = e /\ q.user = u
        /\ q.at = req[r].at
    BY <1>1, <2>2 DEF Request
  <2>5. e \in Open(u)
    BY <1>1, <1>6 DEF Open
  <2> HIDE DEF q
  <2>6. RequestOK(q)
    BY <1>1, <2>4, <2>5 DEF RequestOK
  <2>7. QED
    BY <1>1, <1>2, <1>3, <1>4, <1>5, <2>3, <2>4, <2>6, RequestStep
<1>7. CASE entries[e].ended # Running
  <2> DEFINE q == [req[r] EXCEPT !.pc = "holds", !.entry = NoEntry]
  <2>1. req' = [req EXCEPT ![r] = q]
    BY <1>7 DEF GoLock, IInv, TypeOK
  <2>2. /\ q \in Request /\ q.pc = "holds" /\ q.entry = NoEntry /\ q.user = u
        /\ q.at = req[r].at
    BY <1>1 DEF Request, NoEntry
  <2>3. e \notin Open(u)
    BY <1>7 DEF Open
  <2> HIDE DEF q
  <2>4. RequestOK(q)
    BY <1>1, <2>2 DEF RequestOK
  <2>5. QED
    BY <1>1, <1>3, <1>4, <1>5, <2>1, <2>2, <2>3, <2>4, RequestStep
<1>8. QED
  BY <1>6, <1>7

\* Laravel takes the time.
LEMMA LaravelStampIInv ==
    ASSUME IInv, NEW r \in Requests, LaravelStamp(r)
    PROVE  IInv'
<1> DEFINE u == req[r].user
           q == [req[r] EXCEPT !.pc = "stamped", !.at = clock]
<1>1. req[r] \in Request /\ RequestOK(req[r]) /\ u \in Users /\ req[r].pc = "read"
  BY BusyRequest DEF LaravelStamp
<1>2. clock \in Times /\ clock \in 0 .. MaxClock
  BY TimeAssumption DEF IInv, TypeOK, Times
<1>3. raced \subseteq raced' /\ raced' \subseteq Users /\ UNCHANGED <<entries, clock, refused>>
  BY DEF LaravelStamp, IInv, TypeOK
<1>4. req' = [req EXCEPT ![r] = q]
  BY DEF LaravelStamp, IInv, TypeOK
<1>5. \A s \in Requests \ {r} : (req[s].pc # "idle" /\ req[s].user = u) => u \in raced'
  BY <1>1, <1>3 DEF IInv, RaceInv
<1>6. /\ q \in Request /\ q.pc = "stamped" /\ q.entry = req[r].entry /\ q.user = u
      /\ q.at = clock
  BY <1>1, <1>2 DEF Request
<1> HIDE DEF q
<1>7. RequestOK(q) /\ q.entry \in {NoEntry} \cup DOMAIN entries
  BY <1>1, <1>2, <1>6, BusyRequest DEF RequestOK
<1>8. QED
  BY <1>3, <1>4, <1>5, <1>6, <1>7, RequestStep

\* A request that ends without writing.
LEMMA ReleaseIInv ==
    ASSUME IInv, NEW r \in Requests, Release(r),
           entries' = entries, clock' = clock, raced' = raced, refused' = refused
    PROVE  IInv'
<1>1. RequestOK(Idle)
  BY IdleRequest DEF RequestOK
<1>2. raced \subseteq raced' /\ raced' \subseteq Users
  BY DEF IInv, TypeOK
<1>3. QED
  BY <1>1, <1>2, IdleRequest, RequestStep DEF Release

-----------------------------------------------------------------------------
(* The steps that write entries *)

\* A step that ends a running entry of the request's user.
LEMMA CloseStep ==
    ASSUME IInv, NEW r \in Requests, req[r].pc # "idle",
           Release(r), clock' = clock, raced' = raced, refused' = refused,
           NEW e \in DOMAIN entries,
           entries' \in Seq(Entry), DOMAIN entries' = DOMAIN entries,
           \A i \in DOMAIN entries : i # e => entries'[i] = entries[i],
           entries[e].user = req[r].user, entries'[e].user = req[r].user,
           entries'[e].ended # Running,
           \A s \in Requests \ {r} : ~(req[s].pc = "holds" /\ req[s].entry = e)
    PROVE  IInv'
<1>1. \A u \in Users : Open(u)' \subseteq Open(u)
  BY DEF Open
<1>2. OneRunningTimer'
  BY <1>1 DEF IInv, OneRunningTimer
<1>3. RefusedOnlyWhenRaced' /\ refused' \subseteq Users
  BY DEF IInv, TypeOK, RefusedOnlyWhenRaced
<1>4. \A i \in DOMAIN entries : entries'[i].user = entries[i].user
  OBVIOUS
<1>5. QED
  BY <1>2, <1>3, <1>4, EntriesStep

\* A step that starts a timer for a user whose entries have all ended by then.
LEMMA StartStep ==
    ASSUME IInv, NEW r \in Requests, req[r].pc # "idle",
           Release(r), clock' = clock, raced' = raced, refused' = refused,
           NEW es \in Seq(Entry), NEW t \in Times, DOMAIN es = DOMAIN entries,
           entries' = Append(es, New(req[r].user, t)),
           \A i \in DOMAIN entries : es[i].user = entries[i].user,
           \A i \in DOMAIN entries : es[i] # entries[i] =>
               /\ entries[i].user = req[r].user
               /\ es[i].ended # Running
               /\ \A s \in Requests \ {r} : ~(req[s].pc = "holds" /\ req[s].entry = i),
           \A i \in DOMAIN es : es[i].user = req[r].user => es[i].ended # Running
    PROVE  IInv'
<1>1. PICK u \in Users : u = req[r].user
  BY BusyRequest
<1> DEFINE n == Len(es) + 1
<1>2. New(u, t) \in Entry /\ New(u, t).user = u /\ New(u, t).ended = Running
  BY NewEntry
<1>3. /\ entries' \in Seq(Entry) /\ DOMAIN entries' = DOMAIN entries \cup {n}
      /\ n \notin DOMAIN entries
      /\ \A i \in DOMAIN entries : entries'[i] = es[i]
      /\ entries'[n] = New(u, t)
  BY <1>1, <1>2, AppendEntry
<1> HIDE DEF n
<1>4. OneRunningTimer'
  <2>1. \A i \in Open(u)' : i = n
    BY <1>1, <1>3 DEF Open
  <2>2. \A v \in Users : v # u => Open(v)' \subseteq Open(v)
    BY <1>1, <1>2, <1>3 DEF Open
  <2>3. QED
    BY <2>1, <2>2 DEF IInv, OneRunningTimer
<1>5. RefusedOnlyWhenRaced' /\ refused' \subseteq Users
  BY DEF IInv, TypeOK, RefusedOnlyWhenRaced
<1>6. \A i \in DOMAIN entries : entries'[i].user = entries[i].user
  BY <1>3
<1>7. \A i \in DOMAIN entries' \ DOMAIN entries : entries'[i].user = req[r].user
  BY <1>1, <1>2, <1>3
<1>8. QED
  BY <1>3, <1>4, <1>5, <1>6, <1>7, EntriesStep

\* What Repository.Close writes.
LEMMA ClosedEntry ==
    ASSUME IInv, NEW e \in DOMAIN entries, NEW t \in Times, NEW a \in BOOLEAN
    PROVE  /\ Closed(e, t, a) \in Seq(Entry) /\ DOMAIN Closed(e, t, a) = DOMAIN entries
           /\ \A i \in DOMAIN entries : i # e => Closed(e, t, a)[i] = entries[i]
           /\ Closed(e, t, a)[e].user = entries[e].user /\ Closed(e, t, a)[e].ended # Running
<1>1. entries \in Seq(Entry)
  BY DEF IInv, TypeOK
<1>2. entries[e] \in Entry
  BY <1>1
<1>3. PICK d \in 0 .. MaxClock : d = Elapsed(entries[e].started, t)
  BY <1>2, ElapsedType DEF Entry
<1> DEFINE x == [entries[e] EXCEPT !.ended = t, !.auto = a, !.duration = d]
<1>4. Closed(e, t, a) = [entries EXCEPT ![e] = x]
  BY <1>3 DEF Closed
<1>5. x \in Entry /\ x.user = entries[e].user /\ x.ended = t
  BY <1>2 DEF Entry
<1>6. t # Running
  BY DEF Times, Running
<1> HIDE DEF x
<1>7. QED
  BY <1>1, <1>4, <1>5, <1>6, WriteEntry

\* Close, insert and commit, or the refusal of the index.
LEMMA GoCommitIInv ==
    ASSUME IInv, NEW r \in Requests, GoCommit(r)
    PROVE  IInv'
<1> DEFINE q == req[r]
<1>1. /\ q \in Request /\ RequestOK(q) /\ q.user \in Users /\ q.pc = "holds"
      /\ q.at \in Times /\ q.entry \in {NoEntry} \cup DOMAIN entries /\ q.auto \in BOOLEAN
  BY BusyRequest DEF GoCommit, RequestOK, Request
<1>2. DOMAIN entries = 1 .. Len(entries) /\ Len(entries) \in Nat /\ entries \in Seq(Entry)
  BY DEF IInv, TypeOK
<1>3. Release(r) /\ clock' = clock /\ raced' = raced
  BY DEF GoCommit
<1>4. CASE Open(q.user) \subseteq {q.entry} /\ refused' = refused
             /\ entries' = Append(AfterClose(r), New(q.user, q.at))
  <2>1. CASE q.entry = NoEntry
    <3>1. entries' = Append(entries, New(q.user, q.at))
      BY <1>4, <2>1 DEF AfterClose
    <3>2. \A i \in DOMAIN entries : entries[i].user = q.user => entries[i].ended # Running
      BY <1>4, <2>1, <1>2 DEF Open, NoEntry
    <3>3. QED
      BY <1>1, <1>2, <1>3, <1>4, <3>1, <3>2, StartStep
  <2>2. CASE q.entry # NoEntry
    <3>1. q.entry \in DOMAIN entries /\ entries[q.entry].user = q.user
      BY <1>1, <2>2 DEF RequestOK, Open
    <3> DEFINE es == Closed(q.entry, q.at, q.auto)
    <3>2. /\ es \in Seq(Entry) /\ DOMAIN es = DOMAIN entries
          /\ \A i \in DOMAIN entries : i # q.entry => es[i] = entries[i]
          /\ es[q.entry].user = q.user /\ es[q.entry].ended # Running
      BY <1>1, <3>1, ClosedEntry
    <3>3. entries' = Append(es, New(q.user, q.at))
      BY <1>4, <2>2 DEF AfterClose
    <3> HIDE DEF es
    <3>4. \A i \in DOMAIN es : es[i].user = q.user => es[i].ended # Running
      BY <1>4, <3>2 DEF Open
    <3>5. \A s \in Requests \ {r} : ~(req[s].pc = "holds" /\ req[s].entry = q.entry)
      BY <1>1, <2>2 DEF IInv, HoldersInv
    <3>6. \A i \in DOMAIN entries : es[i].user = entries[i].user
      BY <3>1, <3>2
    <3>7. \A i \in DOMAIN entries : es[i] # entries[i] =>
               /\ entries[i].user = q.user
               /\ es[i].ended # Running
               /\ \A s \in Requests \ {r} : ~(req[s].pc = "holds" /\ req[s].entry = i)
      BY <3>1, <3>2, <3>5
    <3>8. QED
      BY <1>1, <1>3, <1>4, <3>2, <3>3, <3>4, <3>6, <3>7, StartStep
  <2>3. QED
    BY <2>1, <2>2
<1>5. CASE ~(Open(q.user) \subseteq {q.entry}) /\ refused' = refused \cup {q.user}
             /\ UNCHANGED entries
  <2>1. q.user \in raced
    BY <1>1, <1>5 DEF IInv, FoundInv
  <2>2. OneRunningTimer'
    BY <1>5 DEF IInv, OneRunningTimer, Open
  <2>3. RefusedOnlyWhenRaced' /\ refused' \subseteq Users
    BY <1>1, <1>3, <1>5, <2>1 DEF IInv, TypeOK, RefusedOnlyWhenRaced
  <2>4. QED
    BY <1>1, <1>2, <1>3, <1>5, <2>2, <2>3, EntriesStep
<1>6. QED
  BY <1>4, <1>5 DEF GoCommit

\* A stop by id.
LEMMA GoStopIInv ==
    ASSUME IInv, NEW r \in Requests, GoStop(r)
    PROVE  IInv'
<1> DEFINE q == req[r]
<1>1. /\ RequestOK(q) /\ q.pc = "stopping" /\ q.at \in Times
      /\ Release(r) /\ clock' = clock /\ raced' = raced /\ refused' = refused
  BY BusyRequest DEF GoStop, RequestOK
<1>2. CASE q.entry \in Open(q.user)
  <2>1. q.entry \in DOMAIN entries /\ entries[q.entry].user = q.user
    BY <1>2 DEF Open
  <2>2. entries' = Closed(q.entry, q.at, FALSE)
    BY <1>2 DEF GoStop
  <2>3. \A s \in Requests \ {r} : ~(req[s].pc = "holds" /\ req[s].entry = q.entry)
    BY DEF GoStop, Held
  <2>4. /\ entries' \in Seq(Entry) /\ DOMAIN entries' = DOMAIN entries
        /\ \A i \in DOMAIN entries : i # q.entry => entries'[i] = entries[i]
        /\ entries'[q.entry].user = q.user /\ entries'[q.entry].ended # Running
    BY <1>1, <2>1, <2>2, ClosedEntry
  <2>5. QED
    BY <1>1, <2>1, <2>3, <2>4, CloseStep
<1>3. CASE q.entry \notin Open(q.user)
  BY <1>1, <1>3, ReleaseIInv DEF GoStop
<1>4. QED
  BY <1>2, <1>3

\* Laravel inserts what it checked, or the index refuses it.
LEMMA LaravelInsertIInv ==
    ASSUME IInv, NEW r \in Requests, LaravelInsert(r)
    PROVE  IInv'
<1> DEFINE u == req[r].user
<1>1. /\ req[r].pc # "idle" /\ clock \in Times /\ entries \in Seq(Entry)
      /\ Release(r) /\ clock' = clock /\ raced' = raced /\ refused' = refused
  BY DEF LaravelInsert, IInv, TypeOK
<1>2. CASE Open(u) = {}
  <2>1. entries' = Append(entries, New(u, clock))
    BY <1>2 DEF LaravelInsert
  <2>2. \A i \in DOMAIN entries : entries[i].user = u => entries[i].ended # Running
    BY <1>2 DEF Open
  <2>3. QED
    BY <1>1, <2>1, <2>2, StartStep
<1>3. CASE Open(u) # {}
  BY <1>1, <1>3, ReleaseIInv DEF LaravelInsert
<1>4. QED
  BY <1>2, <1>3

\* Laravel writes the end over whatever the row holds by then.
LEMMA LaravelUpdateIInv ==
    ASSUME IInv, NEW r \in Requests, LaravelUpdate(r)
    PROVE  IInv'
<1>1. PICK e, t : e = req[r].entry /\ t = req[r].at
  OBVIOUS
<1>2. /\ RequestOK(req[r]) /\ req[r].pc = "stamped" /\ e \in {NoEntry} \cup DOMAIN entries
      /\ Release(r) /\ clock' = clock /\ raced' = raced /\ refused' = refused
  BY <1>1, BusyRequest DEF LaravelUpdate
<1>3. t \in Times /\ e \in DOMAIN entries /\ entries[e].user = req[r].user
  BY <1>1, <1>2 DEF RequestOK
<1>4. entries[e] \in Entry
  BY <1>3 DEF IInv, TypeOK
<1> DEFINE d == Difference(entries[e].started, t)
           x == [entries[e] EXCEPT !.ended = t, !.duration = d]
<1>5. entries' = [entries EXCEPT ![e] = x]
  BY <1>1 DEF LaravelUpdate
<1>6. d \in 0 .. MaxClock
  BY <1>3, <1>4, ElapsedType DEF Entry
<1> HIDE DEF d
<1>7. x \in Entry /\ x.user = req[r].user /\ x.ended = t
  BY <1>3, <1>4, <1>6 DEF Entry
<1>8. t # Running /\ req[r].pc # "idle"
  BY <1>2, <1>3 DEF Times, Running
<1>9. \A s \in Requests \ {r} : ~(req[s].pc = "holds" /\ req[s].entry = e)
  BY <1>1 DEF LaravelUpdate, Held
<1> HIDE DEF x
<1>10. /\ entries \in Seq(Entry) /\ entries' \in Seq(Entry) /\ DOMAIN entries' = DOMAIN entries
       /\ \A i \in DOMAIN entries : i # e => entries'[i] = entries[i]
       /\ entries'[e] = x
  BY <1>3, <1>5, <1>7, WriteEntry DEF IInv, TypeOK
<1>11. QED
  BY <1>2, <1>3, <1>7, <1>8, <1>9, <1>10, CloseStep

\* The clock moves.
LEMMA TickIInv ==
    ASSUME IInv, Tick
    PROVE  IInv'
<1>1. clock' \in Times
  BY TimeAssumption DEF IInv, TypeOK, Tick, Times
<1>2. \A u \in Users : Open(u)' = Open(u)
  BY DEF Open, Tick
<1>3. TypeOK'
  BY <1>1 DEF IInv, TypeOK, Tick
<1>4. RequestsInv' /\ HoldersInv' /\ RaceInv'
  BY DEF IInv, Tick, RequestsInv, RequestOK, HoldersInv, RaceInv, Open
<1>5. FoundInv' /\ OneRunningTimer' /\ RefusedOnlyWhenRaced'
  BY DEF IInv, Tick, FoundInv, OneRunningTimer, RefusedOnlyWhenRaced, Open
<1>6. QED
  BY <1>3, <1>4, <1>5 DEF IInv

\* Every step preserves the invariant.
LEMMA NextIInv == IInv /\ [Next]_vars => IInv'
<1> SUFFICES ASSUME IInv, [Next]_vars PROVE IInv'
  OBVIOUS
<1>1. ASSUME NEW r \in Requests, NEW u \in Users,
             \/ GoBegin(r, u) \/ LaravelCheck(r, u) \/ LaravelRead(r, u)
             \/ \E e \in DOMAIN entries : GoStopBegin(r, u, e)
      PROVE  IInv'
  BY <1>1, BeginIInv
<1>2. ASSUME NEW r \in Requests, Serve(r) PROVE IInv'
  BY <1>2, GoAskIInv, GoLockIInv, GoCommitIInv, GoStopIInv, LaravelInsertIInv,
     LaravelStampIInv, LaravelUpdateIInv DEF Serve
<1>3. ASSUME NEW r \in Requests, Fail(r) PROVE IInv'
  BY <1>3, ReleaseIInv DEF Fail
<1>4. CASE Tick
  BY <1>4, TickIInv
<1>5. CASE UNCHANGED vars
  BY <1>5 DEF vars, IInv, TypeOK, RequestsInv, RequestOK, HoldersInv, RaceInv, FoundInv,
              OneRunningTimer, RefusedOnlyWhenRaced, Open
<1>6. QED
  BY <1>1, <1>2, <1>3, <1>4, <1>5 DEF Next

-----------------------------------------------------------------------------
(* Timers of a user without rivals *)

\* No time that is written or carried lies in the future.
PastInv ==
    /\ \A i \in DOMAIN entries : entries[i].started <= clock /\ entries[i].ended <= clock
    /\ \A r \in Requests : req[r].at <= clock

\* A user's entries es follow one another, and what has ended lasts from start to end.
Consecutive(es, u) ==
    /\ \A i \in DOMAIN es :
          (es[i].user = u /\ es[i].ended # Running)
              => /\ es[i].started <= es[i].ended
                 /\ es[i].duration = es[i].ended - es[i].started
    /\ \A i, j \in DOMAIN es :
          (es[i].user = u /\ es[j].user = u /\ i < j)
              => es[i].ended # Running /\ es[i].ended <= es[j].started

ConsecutiveInv == \A u \in Users \ raced : Consecutive(entries, u)

\* A user's entries es were all started and ended by the time t.
Before(es, u, t) ==
    \A i \in DOMAIN es : es[i].user = u => es[i].started <= t /\ es[i].ended <= t

\* What a request of such a user knows stays so until it ends: its transaction began
\* after all that the user's entries hold, or the entry it read still runs.
KnowsOK(q) ==
    /\ q.pc \in {"began", "asked", "holds", "stopping"} => Before(entries, q.user, q.at)
    /\ q.pc \in {"read", "stamped"} => q.entry \in Open(q.user)
    /\ q.pc = "stamped" => entries[q.entry].started <= q.at

KnowsInv == \A r \in Requests : req[r].user \in Users \ raced => KnowsOK(req[r])

SerialInv == PastInv /\ ConsecutiveInv /\ KnowsInv

\* A step that moves one request and leaves the entries.
LEMMA SerialRequestStep ==
    ASSUME IInv, SerialInv, NEW r \in Requests, NEW q \in Request,
           req' = [req EXCEPT ![r] = q],
           entries' = entries, clock' = clock, raced \subseteq raced',
           q.at <= clock,
           q.user \in Users \ raced' => KnowsOK(q)
    PROVE  SerialInv'
<1> USE DEF SerialInv
<1>1. \A s \in Requests : req'[s] = IF s = r THEN q ELSE req[s]
  BY DEF IInv, TypeOK
<1>2. PastInv'
  BY <1>1 DEF PastInv
<1>3. ConsecutiveInv'
  BY DEF ConsecutiveInv
<1>4. KnowsInv'
  <2>1. SUFFICES ASSUME NEW s \in Requests, req'[s].user \in Users \ raced'
                 PROVE  KnowsOK(req[s])'
    BY DEF KnowsInv
  <2>2. KnowsOK(req'[s])
    BY <1>1, <2>1 DEF KnowsInv
  <2>3. QED
    BY <2>2 DEF KnowsOK, Before, Open
<1>5. QED
  BY <1>2, <1>3, <1>4

\* A request that ends without writing knows nothing any more.
LEMMA SerialRelease ==
    ASSUME IInv, SerialInv, NEW r \in Requests, Release(r),
           entries' = entries, clock' = clock, raced' = raced
    PROVE  SerialInv'
<1>1. Idle \in Request /\ Idle.user = NoUser /\ Idle.at = 0 /\ 0 <= clock
  BY IdleRequest DEF Idle, IInv, TypeOK, Times
<1>2. Idle.user \notin Users
  BY <1>1, TimeAssumption
<1>3. QED
  BY <1>1, <1>2, SerialRequestStep DEF Release

\* A step that ends a request and writes entries of its user: if that user has no rival,
\* the entries follow one another afterwards too.
LEMMA SerialEntriesStep ==
    ASSUME IInv, SerialInv, NEW r \in Requests, NEW u \in Users, u = req[r].user,
           Release(r), clock' = clock, raced' = raced,
           entries' \in Seq(Entry), DOMAIN entries \subseteq DOMAIN entries',
           \A i \in DOMAIN entries' :
               entries'[i].started <= clock /\ entries'[i].ended <= clock,
           \A i \in DOMAIN entries : entries'[i].user = entries[i].user,
           \A i \in DOMAIN entries : entries[i].user # u => entries'[i] = entries[i],
           \A i \in DOMAIN entries' \ DOMAIN entries : entries'[i].user = u,
           u \notin raced => Consecutive(entries', u)
    PROVE  SerialInv'
<1> USE DEF SerialInv
<1>1. \A s \in Requests : req'[s] = IF s = r THEN Idle ELSE req[s]
  BY DEF IInv, TypeOK, Release
<1>2. Idle.pc = "idle" /\ Idle.user = NoUser /\ Idle.at = 0 /\ 0 <= clock
  BY IdleRequest DEF Idle, IInv, TypeOK, Times
<1>3. PastInv'
  BY <1>1, <1>2 DEF PastInv
<1>4. ConsecutiveInv'
  <2>1. SUFFICES ASSUME NEW v \in Users, v \notin raced, v # u PROVE Consecutive(entries', v)
    BY DEF ConsecutiveInv
  <2>2. \A i \in DOMAIN entries' :
            entries'[i].user = v => i \in DOMAIN entries /\ entries'[i] = entries[i]
    BY <2>1
  <2>3. Consecutive(entries, v)
    BY <2>1 DEF ConsecutiveInv
  <2>4. QED
    BY <2>2, <2>3 DEF Consecutive
<1>5. KnowsInv'
  <2>1. SUFFICES ASSUME NEW s \in Requests, req'[s].user \in Users \ raced
                 PROVE  KnowsOK(req[s])'
    BY DEF KnowsInv
  <2>2. s # r /\ req'[s] = req[s] /\ KnowsOK(req[s])
    BY <1>1, <1>2, <2>1, TimeAssumption DEF KnowsInv
  <2>3. req[s].pc = "idle" \/ req[s].user # u
    <3>1. req[r].pc # "idle"
      BY BusyRequest, TimeAssumption DEF RequestOK
    <3>2. QED
      BY <2>1, <2>2, <3>1 DEF IInv, RaceInv
  <2>4. CASE req[s].pc = "idle"
    BY <2>2, <2>4 DEF KnowsOK
  <2>5. CASE req[s].user # u
    <3>1. \A i \in DOMAIN entries' :
              entries'[i].user = req[s].user => i \in DOMAIN entries /\ entries'[i] = entries[i]
      BY <2>5
    <3>2. Before(entries, req[s].user, req[s].at) => Before(entries', req[s].user, req[s].at)
      BY <3>1 DEF Before
    <3>3. PICK k, v : k = req[s].entry /\ v = req[s].user
      OBVIOUS
    <3>4. k \in Open(v) => k \in Open(v)' /\ entries'[k] = entries[k]
      BY <2>5, <3>3 DEF Open
    <3>5. KnowsOK(req[s])'
      BY <2>2, <3>2, <3>3, <3>4 DEF KnowsOK, Before, Open
    <3>6. QED
      BY <3>5
  <2>6. QED
    BY <2>3, <2>4, <2>5
<1>6. QED
  BY <1>3, <1>4, <1>5

\* Ending an entry that runs, after it started: it was the user's last.
LEMMA EndLast ==
    ASSUME NEW es \in Seq(Entry), NEW ns \in Seq(Entry), NEW u, NEW e \in DOMAIN es,
           NEW t \in Times,
           Consecutive(es, u), es[e].ended = Running, es[e].user = u,
           DOMAIN ns = DOMAIN es, \A i \in DOMAIN es : i # e => ns[i] = es[i],
           ns[e].user = u, ns[e].started = es[e].started, ns[e].ended = t,
           es[e].started <= t, ns[e].duration = t - es[e].started
    PROVE  Consecutive(ns, u)
<1>1. \A j \in DOMAIN es : es[j].user = u => ~(e < j)
  BY DEF Consecutive
<1>2. QED
  BY <1>1 DEF Consecutive

\* Starting an entry after all others have ended.
LEMMA StartLast ==
    ASSUME NEW es \in Seq(Entry), NEW u \in Users, NEW t \in Times,
           Consecutive(es, u),
           \A i \in DOMAIN es : es[i].user = u => es[i].ended # Running /\ es[i].ended <= t
    PROVE  Consecutive(Append(es, New(u, t)), u)
<1> DEFINE ns == Append(es, New(u, t))
           n == Len(es) + 1
<1>1. New(u, t) \in Entry /\ New(u, t).ended = Running /\ New(u, t).started = t
  BY NewEntry DEF New
<1>2. /\ ns \in Seq(Entry) /\ DOMAIN ns = DOMAIN es \cup {n} /\ n \notin DOMAIN es
      /\ \A i \in DOMAIN es : ns[i] = es[i] /\ i < n /\ ~(n < i)
      /\ ns[n] = New(u, t)
  BY <1>1, AppendEntry
<1>3. ~(n < n)
  OBVIOUS
<1> HIDE DEF ns, n
<1>4. QED
  BY <1>1, <1>2, <1>3 DEF Consecutive

\* What Repository.Close writes: the time, and how long that is after the start.
LEMMA ClosedInTime ==
    ASSUME IInv, NEW e \in DOMAIN entries, NEW t \in Times, NEW a \in BOOLEAN
    PROVE  LET x == Closed(e, t, a)[e] IN
           /\ x.started = entries[e].started /\ x.ended = t
           /\ entries[e].started <= t => x.duration = t - entries[e].started
<1>1. entries[e] \in Entry /\ entries \in Seq(Entry)
  BY DEF IInv, TypeOK
<1>2. entries[e].started \in Times
  BY <1>1 DEF Entry
<1>3. entries[e].started <= t
          => Elapsed(entries[e].started, t) = t - entries[e].started
  BY <1>2 DEF Elapsed, Times
<1> DEFINE d == Elapsed(entries[e].started, t)
           x == [entries[e] EXCEPT !.ended = t, !.auto = a, !.duration = d]
<1> HIDE DEF d
<1>4. x.started = entries[e].started /\ x.ended = t /\ x.duration = d
  BY <1>1 DEF Entry
<1>5. Closed(e, t, a) = [entries EXCEPT ![e] = x]
  BY DEF Closed, d
<1> HIDE DEF x
<1>6. Closed(e, t, a)[e] = x
  BY <1>1, <1>5
<1>7. QED
  BY <1>3, <1>4, <1>6 DEF d

\* A request is begun: all that its user's entries hold has happened by now.
LEMMA SerialBegin ==
    ASSUME IInv, SerialInv, NEW r \in Requests, NEW u \in Users,
           GoBegin(r, u) \/ LaravelCheck(r, u) \/ LaravelRead(r, u)
             \/ \E e \in DOMAIN entries : GoStopBegin(r, u, e)
    PROVE  SerialInv'
<1>1. PICK pc \in {"began", "stopping", "checked", "read"}, t \in {0, clock}, e \in Nat :
          /\ Begin(r, pc, u, t, e) /\ UNCHANGED <<entries, clock, refused>>
          /\ pc \in {"began", "stopping"} => t = clock
          /\ pc = "read" => e \in Open(u)
  <2>1. NoEntry \in Nat /\ DOMAIN entries \subseteq Nat
    BY DEF NoEntry, IInv, TypeOK
  <2>2. QED
    BY <2>1 DEF GoBegin, LaravelCheck, LaravelRead, GoStopBegin, Open
<1>2. clock \in Times /\ t \in 0 .. MaxClock /\ t <= clock
  BY <1>1, TimeAssumption DEF IInv, TypeOK, Times
<1> DEFINE q == [pc |-> pc, user |-> u, at |-> t, entry |-> e, auto |-> FALSE]
<1>3. /\ q \in Request /\ q.pc = pc /\ q.user = u /\ q.at = t /\ q.entry = e
      /\ req' = [req EXCEPT ![r] = q] /\ raced \subseteq raced'
  BY <1>1, <1>2 DEF Request, Begin
<1> HIDE DEF q
<1>4. Before(entries, u, clock)
  BY DEF SerialInv, PastInv, Before
<1>5. KnowsOK(q)
  BY <1>1, <1>3, <1>4 DEF KnowsOK
<1>6. QED
  BY <1>1, <1>2, <1>3, <1>5, SerialRequestStep

\* A start looks its user's running timer up, and waits for its lock.
LEMMA SerialLook ==
    ASSUME IInv, SerialInv, NEW r \in Requests, GoAsk(r) \/ GoLock(r)
    PROVE  SerialInv'
<1>1. /\ req[r] \in Request /\ req[r].user \in Users /\ req[r].at <= clock
      /\ req[r].pc \in {"began", "asked"}
  BY BusyRequest DEF GoAsk, GoLock, SerialInv, PastInv
<1>2. UNCHANGED <<entries, clock, raced, refused>>
  BY DEF GoAsk, GoLock
<1>3. PICK q \in Request :
          /\ req' = [req EXCEPT ![r] = q] /\ q.pc \in {"asked", "holds"}
          /\ q.user = req[r].user /\ q.at = req[r].at
  <2>1. req \in [Requests -> Request] /\ NoEntry \in Nat
    BY DEF IInv, TypeOK, NoEntry
  <2>2. CASE GoAsk(r)
    <3>1. CASE Open(req[r].user) = {} /\ req' = [req EXCEPT ![r].pc = "holds"]
      <4>1. [req[r] EXCEPT !.pc = "holds"] \in Request
        BY <1>1 DEF Request
      <4>2. QED
        BY <1>1, <2>1, <3>1, <4>1 DEF Request
    <3>2. CASE \E e \in Open(req[r].user) :
                  req' = [req EXCEPT ![r].pc = "asked", ![r].entry = e]
      <4>1. PICK e \in Open(req[r].user) :
                req' = [req EXCEPT ![r].pc = "asked", ![r].entry = e]
        BY <3>2
      <4>2. e \in Nat
        BY <4>1 DEF Open, IInv, TypeOK
      <4>3. [req[r] EXCEPT !.pc = "asked", !.entry = e] \in Request
        BY <1>1, <4>2 DEF Request
      <4>4. QED
        BY <1>1, <2>1, <4>1, <4>3 DEF Request
    <3>3. QED
      BY <2>2, <3>1, <3>2 DEF GoAsk
  <2>3. CASE GoLock(r)
    <3> DEFINE late == clock - entries[req[r].entry].started > LongTime
    <3>0. late \in BOOLEAN
      OBVIOUS
    <3>1. PICK a \in BOOLEAN : a = late
      BY <3>0
    <3> HIDE DEF late
    <3>2. \/ req' = [req EXCEPT ![r].pc = "holds", ![r].auto = a]
          \/ req' = [req EXCEPT ![r].pc = "holds", ![r].entry = NoEntry]
      BY <2>3, <3>1 DEF GoLock, late
    <3>3. /\ [req[r] EXCEPT !.pc = "holds", !.auto = a] \in Request
          /\ [req[r] EXCEPT !.pc = "holds", !.entry = NoEntry] \in Request
      BY <1>1, <2>1 DEF Request
    <3>4. QED
      BY <1>1, <2>1, <3>2, <3>3 DEF Request
  <2>4. QED
    BY <2>2, <2>3
<1>4. q.user \in Users \ raced' => KnowsOK(q)
  BY <1>1, <1>2, <1>3 DEF SerialInv, KnowsInv, KnowsOK
<1>5. QED
  BY <1>1, <1>2, <1>3, <1>4, SerialRequestStep

\* Laravel takes the time: not before the start of the entry it read.
LEMMA SerialStamp ==
    ASSUME IInv, SerialInv, NEW r \in Requests, LaravelStamp(r)
    PROVE  SerialInv'
<1> DEFINE q == [req[r] EXCEPT !.pc = "stamped", !.at = clock]
<1>1. req[r] \in Request /\ req[r].user \in Users /\ req[r].pc = "read"
  BY BusyRequest DEF LaravelStamp
<1>2. clock \in Times /\ clock \in 0 .. MaxClock /\ clock <= clock
  BY TimeAssumption DEF IInv, TypeOK, Times
<1>3. /\ q \in Request /\ q.pc = "stamped" /\ q.entry = req[r].entry /\ q.at = clock
      /\ q.user = req[r].user
  BY <1>1, <1>2 DEF Request
<1>4. req' = [req EXCEPT ![r] = q]
  BY DEF LaravelStamp, IInv, TypeOK
<1> HIDE DEF q
<1>5. UNCHANGED <<entries, clock, raced, refused>>
  BY DEF LaravelStamp
<1>6. q.user \in Users \ raced' => KnowsOK(q)
  BY <1>1, <1>3, <1>5 DEF SerialInv, PastInv, KnowsInv, KnowsOK, Open
<1>7. QED
  BY <1>2, <1>3, <1>4, <1>5, <1>6, SerialRequestStep

\* A write that ends one entry of the request's user at the time the request carries.
LEMMA SerialEnd ==
    ASSUME IInv, SerialInv, NEW r \in Requests, NEW u \in Users, u = req[r].user,
           NEW e \in DOMAIN entries, NEW t \in Times, t = req[r].at,
           Release(r), clock' = clock, raced' = raced,
           entries' \in Seq(Entry), DOMAIN entries' = DOMAIN entries,
           \A i \in DOMAIN entries : i # e => entries'[i] = entries[i],
           entries[e].user = u, entries'[e].user = u,
           entries'[e].started = entries[e].started, entries'[e].ended = t,
           u \notin raced => /\ entries[e].ended = Running /\ entries[e].started <= t
                             /\ entries'[e].duration = t - entries[e].started
    PROVE  SerialInv'
<1>1. entries \in Seq(Entry) /\ t <= clock
  BY DEF IInv, TypeOK, SerialInv, PastInv
<1>2. \A i \in DOMAIN entries' :
          entries'[i].started <= clock /\ entries'[i].ended <= clock
  BY <1>1 DEF SerialInv, PastInv
<1>3. u \notin raced => Consecutive(entries', u)
  <2>1. SUFFICES ASSUME u \notin raced PROVE Consecutive(entries', u)
    OBVIOUS
  <2>2. Consecutive(entries, u)
    BY <2>1 DEF SerialInv, ConsecutiveInv
  <2>3. QED
    BY <1>1, <2>1, <2>2, EndLast
<1>4. /\ \A i \in DOMAIN entries : entries'[i].user = entries[i].user
      /\ \A i \in DOMAIN entries : entries[i].user # u => entries'[i] = entries[i]
      /\ \A i \in DOMAIN entries' \ DOMAIN entries : entries'[i].user = u
  OBVIOUS
<1>5. QED
  BY <1>2, <1>3, <1>4, SerialEntriesStep

\* A step that writes es over the entries, changing one of the request's user at most,
\* and starts a timer at t behind them.
LEMMA SerialStart ==
    ASSUME IInv, SerialInv, NEW r \in Requests, NEW u \in Users, u = req[r].user,
           Release(r), clock' = clock, raced' = raced,
           NEW es \in Seq(Entry), NEW t \in Times, t <= clock,
           DOMAIN es = DOMAIN entries, entries' = Append(es, New(u, t)),
           \A i \in DOMAIN es : /\ es[i].started <= clock /\ es[i].ended <= clock
                                /\ es[i].user = entries[i].user,
           \A i \in DOMAIN es : es[i] # entries[i] => entries[i].user = u,
           u \notin raced =>
               /\ Consecutive(es, u)
               /\ \A i \in DOMAIN es : es[i].user = u => es[i].ended # Running /\ es[i].ended <= t
    PROVE  SerialInv'
<1>1. New(u, t) \in Entry /\ New(u, t).user = u /\ New(u, t).started = t /\ New(u, t).ended = 0
  BY NewEntry DEF New, Running
<1> DEFINE n == Len(es) + 1
<1>2. /\ entries' \in Seq(Entry) /\ DOMAIN entries' = DOMAIN es \cup {n}
      /\ n \notin DOMAIN es
      /\ \A i \in DOMAIN es : entries'[i] = es[i]
      /\ entries'[n] = New(u, t)
  BY <1>1, AppendEntry
<1> HIDE DEF n
<1>3. 0 <= clock
  BY DEF IInv, TypeOK, Times
<1>4. \A i \in DOMAIN entries' :
          entries'[i].started <= clock /\ entries'[i].ended <= clock
  BY <1>1, <1>2, <1>3
<1>5. u \notin raced => Consecutive(entries', u)
  BY StartLast
<1>6. /\ \A i \in DOMAIN entries : entries'[i].user = entries[i].user
      /\ \A i \in DOMAIN entries : entries[i].user # u => entries'[i] = entries[i]
      /\ \A i \in DOMAIN entries' \ DOMAIN entries : entries'[i].user = u
  BY <1>1, <1>2
<1>7. QED
  BY <1>2, <1>4, <1>5, <1>6, SerialEntriesStep

\* Go closes the timer it holds, if any, and starts the next at the same moment.
LEMMA SerialCommit ==
    ASSUME IInv, SerialInv, NEW r \in Requests, GoCommit(r)
    PROVE  SerialInv'
<1>1. PICK u, e, t, a : u = req[r].user /\ e = req[r].entry /\ t = req[r].at /\ a = req[r].auto
  OBVIOUS
<1>2. /\ u \in Users /\ t \in Times /\ a \in BOOLEAN /\ t <= clock
      /\ e = NoEntry \/ e \in Open(u)
      /\ entries \in Seq(Entry)
  BY <1>1, BusyRequest
     DEF GoCommit, RequestOK, Request, SerialInv, PastInv, IInv, TypeOK
<1>3. Release(r) /\ clock' = clock /\ raced' = raced
  BY DEF GoCommit
<1>4. CASE entries' = entries
  BY <1>3, <1>4, SerialRelease
<1>5. CASE Open(u) \subseteq {e} /\ entries' = Append(AfterClose(r), New(u, t))
  <2>1. u \notin raced => Consecutive(entries, u) /\ Before(entries, u, t)
    BY <1>1, <1>2 DEF GoCommit, SerialInv, ConsecutiveInv, KnowsInv, KnowsOK
  <2>2. \A i \in DOMAIN entries :
            (i # e /\ entries[i].user = u) => entries[i].ended # Running
    BY <1>5 DEF Open
  <2>3. CASE e = NoEntry
    <3>1. AfterClose(r) = entries /\ e \notin DOMAIN entries
      BY <1>1, <1>2, <2>3 DEF AfterClose, NoEntry
    <3>2. u \notin raced =>
              /\ Consecutive(entries, u)
              /\ \A i \in DOMAIN entries : entries[i].user = u =>
                     entries[i].ended # Running /\ entries[i].ended <= t
      BY <2>1, <2>2, <3>1 DEF Before
    <3>3. \A i \in DOMAIN entries : entries[i].started <= clock /\ entries[i].ended <= clock
      BY DEF SerialInv, PastInv
    <3>4. QED
      BY <1>1, <1>2, <1>3, <1>5, <3>1, <3>2, <3>3, SerialStart
  <2>4. CASE e # NoEntry
    <3>1. /\ e \in DOMAIN entries /\ entries[e].user = u /\ entries[e].ended = Running
          /\ AfterClose(r) = Closed(e, t, a)
      BY <1>1, <1>2, <2>4 DEF Open, AfterClose
    <3> DEFINE es == Closed(e, t, a)
    <3>2. /\ es \in Seq(Entry) /\ DOMAIN es = DOMAIN entries
          /\ \A i \in DOMAIN entries : i # e => es[i] = entries[i]
          /\ es[e].user = u /\ es[e].ended # Running
          /\ es[e].started = entries[e].started /\ es[e].ended = t
          /\ entries[e].started <= t => es[e].duration = t - entries[e].started
      BY <1>2, <3>1, ClosedEntry, ClosedInTime
    <3>3. entries' = Append(es, New(u, t))
      BY <1>5, <3>1
    <3> HIDE DEF es
    <3>4. \A i \in DOMAIN es : /\ es[i].started <= clock /\ es[i].ended <= clock
                               /\ es[i].user = entries[i].user
      BY <1>2, <3>1, <3>2 DEF SerialInv, PastInv
    <3>5. u \notin raced => Consecutive(es, u)
      <4>1. SUFFICES ASSUME u \notin raced PROVE Consecutive(es, u)
        OBVIOUS
      <4>2. Consecutive(entries, u) /\ entries[e].started <= t
        BY <2>1, <3>1, <4>1 DEF Before
      <4>3. QED
        BY <1>2, <3>1, <3>2, <4>2, EndLast
    <3>6. u \notin raced =>
              \A i \in DOMAIN es : es[i].user = u => es[i].ended # Running /\ es[i].ended <= t
      BY <1>2, <2>1, <2>2, <3>1, <3>2 DEF Before, Times
    <3>7. \A i \in DOMAIN es : es[i] # entries[i] => entries[i].user = u
      BY <3>1, <3>2
    <3>8. QED
      BY <1>1, <1>2, <1>3, <3>2, <3>3, <3>4, <3>5, <3>6, <3>7, SerialStart
  <2>5. QED
    BY <2>3, <2>4
<1>6. QED
  BY <1>1, <1>4, <1>5 DEF GoCommit

\* A stop by id ends the timer of its user, if it still runs.
LEMMA SerialStop ==
    ASSUME IInv, SerialInv, NEW r \in Requests, GoStop(r)
    PROVE  SerialInv'
<1>1. PICK u, e, t : u = req[r].user /\ e = req[r].entry /\ t = req[r].at
  OBVIOUS
<1>2. u \in Users /\ t \in Times /\ Release(r) /\ clock' = clock /\ raced' = raced
  BY <1>1, BusyRequest DEF GoStop, RequestOK
<1>3. CASE e \in Open(u)
  <2>1. e \in DOMAIN entries /\ entries[e].user = u /\ entries[e].ended = Running
    BY <1>3 DEF Open
  <2>2. entries' = Closed(e, t, FALSE)
    BY <1>1, <1>3 DEF GoStop
  <2>3. u \notin raced => entries[e].started <= t
    BY <1>1, <1>2, <2>1 DEF GoStop, SerialInv, KnowsInv, KnowsOK, Before
  <2>4. /\ entries' \in Seq(Entry) /\ DOMAIN entries' = DOMAIN entries
        /\ \A i \in DOMAIN entries : i # e => entries'[i] = entries[i]
        /\ entries'[e].user = u
        /\ entries'[e].started = entries[e].started /\ entries'[e].ended = t
        /\ entries[e].started <= t => entries'[e].duration = t - entries[e].started
    BY <1>2, <2>1, <2>2, ClosedEntry, ClosedInTime
  <2>5. QED
    BY <1>1, <1>2, <2>1, <2>3, <2>4, SerialEnd
<1>4. CASE e \notin Open(u)
  BY <1>1, <1>2, <1>4, SerialRelease DEF GoStop
<1>5. QED
  BY <1>3, <1>4

\* Laravel starts a timer now, when no other of its user runs.
LEMMA SerialInsert ==
    ASSUME IInv, SerialInv, NEW r \in Requests, LaravelInsert(r)
    PROVE  SerialInv'
<1>1. PICK u \in Users : u = req[r].user
  BY BusyRequest DEF LaravelInsert
<1>2. /\ Release(r) /\ clock' = clock /\ raced' = raced
      /\ entries \in Seq(Entry) /\ clock \in Times /\ clock <= clock
  BY DEF LaravelInsert, IInv, TypeOK, Times
<1>3. CASE Open(u) = {}
  <2>1. entries' = Append(entries, New(u, clock))
    BY <1>1, <1>3 DEF LaravelInsert
  <2>2. \A i \in DOMAIN entries : entries[i].started <= clock /\ entries[i].ended <= clock
    BY DEF SerialInv, PastInv
  <2>3. u \notin raced => Consecutive(entries, u)
    BY DEF SerialInv, ConsecutiveInv
  <2>4. \A i \in DOMAIN entries : entries[i].user = u => entries[i].ended # Running
    BY <1>3 DEF Open
  <2>5. QED
    BY <1>1, <1>2, <2>1, <2>2, <2>3, <2>4, SerialStart
<1>4. CASE Open(u) # {}
  BY <1>1, <1>2, <1>4, SerialRelease DEF LaravelInsert
<1>5. QED
  BY <1>3, <1>4

\* Laravel ends the entry it read, which still runs if its user has no rival.
LEMMA SerialUpdate ==
    ASSUME IInv, SerialInv, NEW r \in Requests, LaravelUpdate(r)
    PROVE  SerialInv'
<1>1. PICK u, e, t : u = req[r].user /\ e = req[r].entry /\ t = req[r].at
  OBVIOUS
<1>2. /\ u \in Users /\ t \in Times /\ e \in DOMAIN entries /\ entries[e].user = u
      /\ Release(r) /\ clock' = clock /\ raced' = raced
  BY <1>1, BusyRequest DEF LaravelUpdate, RequestOK
<1>3. u \notin raced => entries[e].ended = Running /\ entries[e].started <= t
  BY <1>1, <1>2 DEF LaravelUpdate, SerialInv, KnowsInv, KnowsOK, Open
<1>4. entries \in Seq(Entry) /\ entries[e] \in Entry
  BY <1>2 DEF IInv, TypeOK
<1> DEFINE d == Difference(entries[e].started, t)
           x == [entries[e] EXCEPT !.ended = t, !.duration = d]
<1>5. entries' = [entries EXCEPT ![e] = x]
  BY <1>1 DEF LaravelUpdate
<1>6. d \in 0 .. MaxClock
  BY <1>2, <1>4, ElapsedType DEF Entry
<1>7. entries[e].started <= t => d = t - entries[e].started
  BY <1>2, <1>4 DEF Difference, Entry, Times
<1> HIDE DEF d
<1>8. /\ x \in Entry /\ x.user = u /\ x.ended = t /\ x.started = entries[e].started
      /\ x.duration = d
  BY <1>2, <1>4, <1>6 DEF Entry
<1> HIDE DEF x
<1>9. /\ entries' \in Seq(Entry) /\ DOMAIN entries' = DOMAIN entries
      /\ \A i \in DOMAIN entries : i # e => entries'[i] = entries[i]
      /\ entries'[e] = x
  BY <1>2, <1>4, <1>5, <1>8, WriteEntry
<1>10. QED
  BY <1>1, <1>2, <1>3, <1>7, <1>8, <1>9, SerialEnd

\* The clock moves on: nothing comes to lie in the future.
LEMMA SerialTick ==
    ASSUME IInv, SerialInv, Tick
    PROVE  SerialInv'
<1>1. \A i \in DOMAIN entries : entries[i].started \in Nat /\ entries[i].ended \in Nat
  <2>1. SUFFICES ASSUME NEW i \in DOMAIN entries
                 PROVE  entries[i].started \in Nat /\ entries[i].ended \in Nat
    OBVIOUS
  <2>2. entries[i] \in Entry
    BY DEF IInv, TypeOK
  <2>3. QED
    BY <2>2 DEF Entry, Times, Running
<1>2. \A r \in Requests : req[r].at \in Nat
  BY DEF IInv, TypeOK, Request
<1>3. clock \in Nat /\ clock' = clock + 1 /\ UNCHANGED <<entries, req, raced>>
  BY DEF IInv, TypeOK, Tick, Times
<1>4. PastInv'
  BY <1>1, <1>2, <1>3 DEF SerialInv, PastInv
<1>5. ConsecutiveInv' /\ KnowsInv'
  BY <1>3 DEF SerialInv, ConsecutiveInv, Consecutive, KnowsInv, KnowsOK, Before, Open
<1>6. QED
  BY <1>4, <1>5 DEF SerialInv

\* Every step leaves the timers of users without rivals in order.
LEMMA NextSerial == IInv /\ SerialInv /\ [Next]_vars => SerialInv'
<1> SUFFICES ASSUME IInv, SerialInv, [Next]_vars PROVE SerialInv'
  OBVIOUS
<1>1. ASSUME NEW r \in Requests, NEW u \in Users,
             \/ GoBegin(r, u) \/ LaravelCheck(r, u) \/ LaravelRead(r, u)
             \/ \E e \in DOMAIN entries : GoStopBegin(r, u, e)
      PROVE  SerialInv'
  BY <1>1, SerialBegin
<1>2. ASSUME NEW r \in Requests, Serve(r) PROVE SerialInv'
  BY <1>2, SerialLook, SerialCommit, SerialStop, SerialInsert, SerialStamp, SerialUpdate
     DEF Serve
<1>3. ASSUME NEW r \in Requests, Fail(r) PROVE SerialInv'
  BY <1>3, SerialRelease DEF Fail
<1>4. CASE Tick
  BY <1>4, SerialTick
<1>5. CASE UNCHANGED vars
  BY <1>5 DEF vars, SerialInv, PastInv, ConsecutiveInv, Consecutive, KnowsInv, KnowsOK,
              Before, Open
<1>6. QED
  BY <1>1, <1>2, <1>3, <1>4, <1>5 DEF Next

-----------------------------------------------------------------------------
(* The theorems *)

\* The invariant holds in every state of every behaviour.
THEOREM Invariance == Spec => []IInv
BY InitIInv, NextIInv, PTL DEF Spec

\* Type correctness: whatever the two services write, an entry stays an entry, with an
\* unsigned duration, and a request names an entry there is.
THEOREM TypeCorrect == Spec => []TypeOK
<1>1. IInv => TypeOK
  BY DEF IInv
<1>2. QED
  BY <1>1, Invariance, PTL

\* A user has one running timer, however the starts and stops of Go and of Laravel
\* interleave between their check, their lock and their insert.
THEOREM OneTimer == Spec => []OneRunningTimer
<1>1. IInv => OneRunningTimer
  BY DEF IInv
<1>2. QED
  BY <1>1, Invariance, PTL

\* The Go service refuses a start only to a user who had another request in service at
\* the same time: alone, a start always finds and stops the running timer.
THEOREM RefusalNeedsARace == Spec => []RefusedOnlyWhenRaced
<1>1. IInv => RefusedOnlyWhenRaced
  BY DEF IInv
<1>2. QED
  BY <1>1, Invariance, PTL

\* A user who has one request served at a time, by either back end, has timers that
\* follow one another: each ended when the next began or before, and lasts from its
\* start to its end, although starts are dated by the begin of a transaction that
\* waits, and stops by a clock read before the write.
THEOREM SerialTimers == Spec => []SerialTimersAreDisjoint
<1>1. Init => SerialInv
  <2>1. SUFFICES ASSUME Init PROVE SerialInv
    OBVIOUS
  <2>2. Idle.user = NoUser /\ Idle.at = 0 /\ entries = <<>> /\ clock = 1
    BY <2>1, IdleRequest DEF Init, Idle
  <2>3. PastInv /\ ConsecutiveInv
    BY <2>1, <2>2 DEF Init, PastInv, ConsecutiveInv, Consecutive
  <2>4. KnowsInv
    BY <2>1, <2>2, TimeAssumption DEF Init, KnowsInv
  <2>5. QED
    BY <2>3, <2>4 DEF SerialInv
<1>2. IInv /\ SerialInv => SerialTimersAreDisjoint
  <2>1. SUFFICES ASSUME IInv, SerialInv, NEW i \in DOMAIN entries, NEW j \in DOMAIN entries,
                        i < j, entries[i].user = entries[j].user, entries[i].user \notin raced
                 PROVE  /\ entries[i].ended \in entries[i].started .. entries[j].started
                        /\ entries[i].duration = entries[i].ended - entries[i].started
    BY DEF SerialTimersAreDisjoint
  <2>2. entries[i] \in Entry /\ entries[j] \in Entry
    BY <2>1 DEF IInv, TypeOK
  <2>3. /\ entries[i].ended \in Nat /\ entries[i].started \in Nat /\ entries[j].started \in Nat
        /\ entries[i].user \in Users
    BY <2>2 DEF Entry, Times, Running
  <2>4. Consecutive(entries, entries[i].user)
    BY <2>1, <2>3 DEF SerialInv, ConsecutiveInv
  <2>5. QED
    BY <2>1, <2>3, <2>4 DEF Consecutive
<1>3. QED
  BY <1>1, <1>2, Invariance, NextSerial, PTL DEF Spec

\* What a step may change: the entry its request holds, stops or read, whose user is the
\* request's, although a stop names any entry and compares the owner after its UPDATE.
LEMMA OwnEntries ==
    ASSUME IInv, NEW r \in Requests, Serve(r), NEW e \in DOMAIN entries,
           entries'[e] # entries[e]
    PROVE  req[r].user = entries[e].user /\ req'[r] = Idle
<1>1. /\ entries \in Seq(Entry) /\ RequestOK(req[r])
      /\ req[r].entry \in {NoEntry} \cup DOMAIN entries
      /\ DOMAIN entries = 1 .. Len(entries) /\ Len(entries) \in Nat
  BY BusyRequest DEF IInv, TypeOK
<1>2. Release(r) => req'[r] = Idle
  BY DEF Release, IInv, TypeOK
<1>3. PICK u \in Users : u = req[r].user
  BY BusyRequest DEF Serve, GoAsk, GoLock, GoCommit, GoStop, LaravelInsert, LaravelStamp,
                     LaravelUpdate
<1>4. PICK q, a, t : q = req[r].entry /\ a = req[r].auto /\ t = req[r].at
  OBVIOUS
<1>5. a \in BOOLEAN
  BY <1>4, BusyRequest DEF Request
<1>6. req[r].pc \in {"holds", "stopping", "stamped"} => t \in Times
  BY <1>1, <1>4 DEF RequestOK
<1>7. CASE GoCommit(r)
  <2>1. entries' = Append(AfterClose(r), New(u, t))
    BY <1>3, <1>4, <1>7 DEF GoCommit
  <2>2. t \in Times /\ New(u, t) \in Entry
    BY <1>6, <1>7, NewEntry DEF GoCommit
  <2>3. q # NoEntry
    <3>1. q = NoEntry => entries' = Append(entries, New(u, t))
      BY <1>4, <2>1 DEF AfterClose
    <3>2. Append(entries, New(u, t))[e] = entries[e]
      BY <1>1, <2>2, AppendEntry
    <3>3. QED
      BY <3>1, <3>2
  <2>4. q \in DOMAIN entries /\ entries[q].user = u
    BY <1>1, <1>3, <1>4, <1>7, <2>3 DEF GoCommit, RequestOK, Open
  <2>5. AfterClose(r) = Closed(q, t, a)
    BY <1>4, <1>7, <2>3 DEF GoCommit, AfterClose
  <2> DEFINE es == Closed(q, t, a)
  <2>6. /\ es \in Seq(Entry) /\ DOMAIN es = DOMAIN entries
        /\ \A i \in DOMAIN entries : i # q => es[i] = entries[i]
    BY <1>5, <2>2, <2>4, ClosedEntry
  <2> HIDE DEF es
  <2>7. Append(es, New(u, t))[e] = es[e]
    BY <2>2, <2>6, AppendEntry
  <2>8. e = q
    BY <2>1, <2>5, <2>6, <2>7 DEF es
  <2>9. QED
    BY <1>2, <1>3, <1>7, <2>4, <2>8 DEF GoCommit
<1>8. CASE GoStop(r)
  <2>1. q \in Open(u) /\ entries' = Closed(q, t, FALSE)
    BY <1>3, <1>4, <1>8 DEF GoStop
  <2>2. q \in DOMAIN entries /\ entries[q].user = u
    BY <2>1 DEF Open
  <2>3. t \in Times
    BY <1>6, <1>8 DEF GoStop
  <2>4. e = q
    BY <2>1, <2>2, <2>3, ClosedEntry
  <2>5. QED
    BY <1>2, <1>3, <1>8, <2>2, <2>4 DEF GoStop
<1>9. CASE LaravelInsert(r)
  <2>1. clock \in Times /\ New(u, clock) \in Entry
    BY NewEntry DEF IInv, TypeOK
  <2>2. Append(entries, New(u, clock))[e] = entries[e]
    BY <1>1, <2>1, AppendEntry
  <2>3. QED
    BY <1>3, <1>9, <2>2 DEF LaravelInsert
<1>10. CASE LaravelUpdate(r)
  <2>1. e = q
    BY <1>1, <1>4, <1>10 DEF LaravelUpdate
  <2>2. entries[q].user = u
    BY <1>1, <1>3, <1>4, <1>10, <2>1 DEF LaravelUpdate, RequestOK
  <2>3. QED
    BY <1>2, <1>3, <1>10, <2>1, <2>2 DEF LaravelUpdate
<1>11. QED
  BY <1>7, <1>8, <1>9, <1>10 DEF Serve, GoAsk, GoLock, LaravelStamp

\* Nobody's entries change but those of a user with a request in service, which ends by
\* that write: neither back end lets a user write over the time of another.
THEOREM OwnEntriesOnly == Spec => OnlyOwnEntriesChange
<1> DEFINE OwnWrite == \A e \in DOMAIN entries :
              entries'[e] # entries[e] => \E r \in Requests : req[r].user = entries[e].user
                                                              /\ req'[r] = Idle
<1>1. ASSUME IInv, [Next]_vars PROVE [OwnWrite]_vars
  <2>1. CASE \E r \in Requests : Serve(r)
    BY <1>1, <2>1, OwnEntries
  <2>2. CASE entries' = entries
    BY <2>2
  <2>3. QED
    BY <1>1, <2>1, <2>2 DEF Next, vars, Fail, Tick, GoBegin, LaravelCheck, LaravelRead,
                            GoStopBegin
<1>2. QED
  BY <1>1, Invariance, PTL DEF Spec, OnlyOwnEntriesChange

=============================================================================
