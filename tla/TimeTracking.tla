---------------------------- MODULE TimeTracking ----------------------------
(***************************************************************************)
(* The timers of the time sheet, started and stopped through the Go service*)
(* (timetracking.Service, one transaction per request) and through Laravel *)
(* (ExecutionController, single statements), over one table of entries     *)
(* whose partial unique index lets a user have one entry without an end.   *)
(*                                                                         *)
(* Go dates what it writes by the begin of its transaction (SQL now()),    *)
(* which may wait for a row lock after that; Laravel by its own clock,     *)
(* between two statements.  Both clocks are taken to agree.                *)
(***************************************************************************)
EXTENDS Naturals, Sequences, FiniteSets

CONSTANTS
    Users,          \* the users of one tenant
    Requests,       \* requests the services work on at a time
    LongTime,       \* the 12 hours after which a running timer counts as forgotten
    NoUser,         \* nobody
    MaxEntries,     \* bound: nobody starts when this many entries exist or may come
    MaxClock        \* bound: the last moment

ASSUME TimeAssumption ==
    /\ LongTime \in Nat /\ MaxEntries \in Nat /\ MaxClock \in Nat \ {0}
    /\ NoUser \notin Users

VARIABLES
    entries,    \* time_entries, in the order they were inserted
    clock,      \* the time
    req,        \* the requests being served
    raced,      \* history: users who had two requests served at a time
    refused     \* history: users whose start the Go service refused

vars == <<entries, clock, req, raced, refused>>

-----------------------------------------------------------------------------
Running == 0        \* ended_at IS NULL
NoEntry == 0

Times == 1 .. MaxClock

Entry == [user : Users, started : Times, ended : {Running} \cup Times,
          duration : 0 .. MaxClock, auto : BOOLEAN]

Idle == [pc |-> "idle", user |-> NoUser, at |-> 0, entry |-> NoEntry, auto |-> FALSE]

Request == [pc : {"idle", "began", "asked", "holds", "stopping", "checked", "read", "stamped"},
            user : Users \cup {NoUser}, at : 0 .. MaxClock, entry : Nat, auto : BOOLEAN]

TypeOK ==
    /\ entries \in Seq(Entry)
    /\ clock \in Times
    /\ req \in [Requests -> Request]
    /\ \A r \in Requests : req[r].entry \in {NoEntry} \cup DOMAIN entries
    /\ raced \subseteq Users /\ refused \subseteq Users

Init ==
    /\ entries = <<>>
    /\ clock = 1
    /\ req = [r \in Requests |-> Idle]
    /\ raced = {} /\ refused = {}

-----------------------------------------------------------------------------
(* Helpers *)

Open(u) == {e \in DOMAIN entries : entries[e].user = u /\ entries[e].ended = Running}

\* The row is locked by another start, which means to close it.
Held(e) == \E r \in Requests : req[r].pc = "holds" /\ req[r].entry = e

\* An insert waits for whoever is closing the row that it conflicts with.
Undecided(u, r) == \E s \in Requests \ {r} : req[s].pc = "holds" /\ req[s].entry \in Open(u)

Elapsed(from, to) == IF to > from THEN to - from ELSE 0

\* Carbon's diffInSeconds, which has no sign.
Difference(from, to) == IF to > from THEN to - from ELSE from - to

\* Repository.Close
Closed(e, t, auto) ==
    [entries EXCEPT ![e] = [@ EXCEPT !.ended = t, !.auto = auto,
                                     !.duration = Elapsed(entries[e].started, t)]]

New(u, t) == [user |-> u, started |-> t, ended |-> Running, duration |-> 0, auto |-> FALSE]

Begin(r, pc, u, t, e) ==
    /\ req[r].pc = "idle"
    /\ req' = [req EXCEPT ![r] = [pc |-> pc, user |-> u, at |-> t, entry |-> e, auto |-> FALSE]]
    /\ raced' = IF \E s \in Requests : req[s].user = u THEN raced \cup {u} ELSE raced

Release(r) == req' = [req EXCEPT ![r] = Idle]

\* The bound, of the model only.
Starting == {r \in Requests : req[r].pc \in {"began", "asked", "holds", "checked"}}
Room == Len(entries) + Cardinality(Starting) < MaxEntries

-----------------------------------------------------------------------------
(* Start, in Go *)

GoBegin(r, u) ==
    /\ Room
    /\ Begin(r, "began", u, clock, NoEntry)
    /\ UNCHANGED <<entries, clock, refused>>

\* SELECT ... FOR UPDATE: the running entry among the rows committed by now.
GoAsk(r) ==
    LET u == req[r].user IN
    /\ req[r].pc = "began"
    /\ \/ \E e \in Open(u) : req' = [req EXCEPT ![r].pc = "asked", ![r].entry = e]
       \/ Open(u) = {} /\ req' = [req EXCEPT ![r].pc = "holds"]
    /\ UNCHANGED <<entries, clock, raced, refused>>

\* The lock is granted.  If the entry was ended meanwhile the statement skips it,
\* and does not see the one that took its place.
GoLock(r) ==
    LET e == req[r].entry IN
    /\ req[r].pc = "asked" /\ ~Held(e)
    /\ req' = IF entries[e].ended = Running
              THEN [req EXCEPT ![r].pc = "holds",
                               ![r].auto = clock - entries[e].started > LongTime]
              ELSE [req EXCEPT ![r].pc = "holds", ![r].entry = NoEntry]
    /\ UNCHANGED <<entries, clock, raced, refused>>

\* What the transaction leaves of the entries it found: the one it holds is closed.
AfterClose(r) ==
    LET q == req[r] IN IF q.entry = NoEntry THEN entries ELSE Closed(q.entry, q.at, q.auto)

\* Deviation: the timer found is not closed.
GoCommitKeeps(r) ==
    LET q == req[r] IN
    /\ q.pc = "holds" /\ ~Undecided(q.user, r)
    /\ \/ /\ Open(q.user) = {}
          /\ entries' = Append(entries, New(q.user, q.at))
          /\ UNCHANGED refused
       \/ /\ Open(q.user) # {}
          /\ refused' = refused \cup {q.user}
          /\ UNCHANGED entries
    /\ Release(r)
    /\ UNCHANGED <<clock, raced>>

\* Deviation: the transaction is left open when the insert fails.
GoCommitLeaks(r) ==
    LET q == req[r] IN
    /\ q.pc = "holds" /\ ~Undecided(q.user, r)
    /\ Open(q.user) \subseteq {q.entry}
    /\ entries' = Append(AfterClose(r), New(q.user, q.at))
    /\ Release(r)
    /\ UNCHANGED <<clock, raced, refused>>

\* Close, insert and commit; refused by the index, the transaction is rolled back.
GoCommit(r) ==
    LET q == req[r] IN
    /\ q.pc = "holds" /\ ~Undecided(q.user, r)
    /\ \/ /\ Open(q.user) \subseteq {q.entry}
          /\ entries' = Append(AfterClose(r), New(q.user, q.at))
          /\ UNCHANGED refused
       \/ /\ ~(Open(q.user) \subseteq {q.entry})
          /\ refused' = refused \cup {q.user}
          /\ UNCHANGED entries
    /\ Release(r)
    /\ UNCHANGED <<clock, raced>>

-----------------------------------------------------------------------------
(* Stop, in Go: of any entry by its id *)

GoStopBegin(r, u, e) ==
    /\ Begin(r, "stopping", u, clock, e)
    /\ UNCHANGED <<entries, clock, refused>>

\* Deviation: the owner of the entry is not compared.
GoStopAnybodys(r) ==
    LET q == req[r] IN
    /\ q.pc = "stopping" /\ ~Held(q.entry)
    /\ entries' = IF entries[q.entry].ended = Running
                  THEN Closed(q.entry, q.at, FALSE) ELSE entries
    /\ Release(r)
    /\ UNCHANGED <<clock, raced, refused>>

\* Deviation: an entry that has ended is stopped again.
GoStopAgain(r) ==
    LET q == req[r] IN
    /\ q.pc = "stopping" /\ ~Held(q.entry)
    /\ entries' = IF entries[q.entry].user = q.user
                  THEN Closed(q.entry, q.at, FALSE) ELSE entries
    /\ Release(r)
    /\ UNCHANGED <<clock, raced, refused>>

\* The UPDATE takes a running entry only; that of another user is rolled back.
GoStop(r) ==
    LET q == req[r] IN
    /\ q.pc = "stopping" /\ ~Held(q.entry)
    /\ entries' = IF q.entry \in Open(q.user) THEN Closed(q.entry, q.at, FALSE) ELSE entries
    /\ Release(r)
    /\ UNCHANGED <<clock, raced, refused>>

-----------------------------------------------------------------------------
(* Laravel: no transaction *)

\* startTime finds no running timer.  (One that does answers 409 and writes nothing.)
LaravelCheck(r, u) ==
    /\ Room /\ Open(u) = {}
    /\ Begin(r, "checked", u, 0, NoEntry)
    /\ UNCHANGED <<entries, clock, refused>>

\* Deviation: what was checked is trusted, there is no unique index.
LaravelInsertUnchecked(r) ==
    LET q == req[r] IN
    /\ q.pc = "checked"
    /\ entries' = Append(entries, New(q.user, clock))
    /\ Release(r)
    /\ UNCHANGED <<clock, raced, refused>>

\* It inserts one, unless the index refuses it.
LaravelInsert(r) ==
    LET q == req[r] IN
    /\ q.pc = "checked" /\ ~Undecided(q.user, r)
    /\ entries' = IF Open(q.user) = {} THEN Append(entries, New(q.user, clock)) ELSE entries
    /\ Release(r)
    /\ UNCHANGED <<clock, raced, refused>>

\* stopTime reads the user's running entry, whatever id the request names.
LaravelRead(r, u) ==
    /\ \E e \in Open(u) : Begin(r, "read", u, 0, e)
    /\ UNCHANGED <<entries, clock, refused>>

\* $ended = now()
LaravelStamp(r) ==
    /\ req[r].pc = "read"
    /\ req' = [req EXCEPT ![r].pc = "stamped", ![r].at = clock]
    /\ UNCHANGED <<entries, clock, raced, refused>>

\* The UPDATE is by id: it writes over an end that was set since the row was read.
LaravelUpdate(r) ==
    LET q == req[r] IN
    /\ q.pc = "stamped" /\ ~Held(q.entry)
    /\ entries' = [entries EXCEPT ![q.entry] =
           [@ EXCEPT !.ended = q.at,
                     !.duration = Difference(entries[q.entry].started, q.at)]]
    /\ Release(r)
    /\ UNCHANGED <<clock, raced, refused>>

-----------------------------------------------------------------------------
\* The connection or the process is lost, or the task is unknown: rollback.
Fail(r) ==
    /\ req[r].pc # "idle"
    /\ Release(r)
    /\ UNCHANGED <<entries, clock, raced, refused>>

Tick ==
    /\ clock < MaxClock
    /\ clock' = clock + 1
    /\ UNCHANGED <<entries, req, raced, refused>>

Serve(r) ==
    \/ GoAsk(r) \/ GoLock(r) \/ GoCommit(r) \/ GoStop(r)
    \/ LaravelInsert(r) \/ LaravelStamp(r) \/ LaravelUpdate(r)

Next ==
    \/ \E r \in Requests, u \in Users :
          \/ GoBegin(r, u) \/ LaravelCheck(r, u) \/ LaravelRead(r, u)
          \/ \E e \in DOMAIN entries : GoStopBegin(r, u, e)
    \/ \E r \in Requests : Serve(r) \/ Fail(r)
    \/ Tick

Spec == Init /\ [][Next]_vars

\* A request that has begun goes on, and whoever waits for a lock gets it in turn.
\* Nobody has to ask for anything, and the clock may stand still.
FairSpec == Spec /\ \A r \in Requests : SF_vars(Serve(r))

-----------------------------------------------------------------------------
(* Properties *)

\* Safety: a user has one running timer ("satu time_entry aktif"), whichever back
\* ends started it and however their checks and inserts interleave.
OneRunningTimer == \A u \in Users : \A e, f \in Open(u) : e = f

\* Safety: without requests at a time, the timers of a user follow one another: each
\* was ended, when the next began or before, and lasts from its start to its end.
SerialTimersAreDisjoint ==
    \A i, j \in DOMAIN entries :
        (i < j /\ entries[i].user = entries[j].user /\ entries[i].user \notin raced)
            => /\ entries[i].ended \in entries[i].started .. entries[j].started
               /\ entries[i].duration = entries[i].ended - entries[i].started

\* Safety: starting while a timer runs stops that one and starts the new one; the Go
\* service refuses it only to a user who had another request served at the same time.
RefusedOnlyWhenRaced == refused \subseteq raced

\* Action property: a step changes at most the entries of a user with a request in
\* service, although a stop names any entry and compares the owner after its UPDATE.
OnlyOwnEntriesChange ==
    [][\A e \in DOMAIN entries :
          entries'[e] # entries[e] => \E r \in Requests : req[r].user = entries[e].user
                                                          /\ req'[r] = Idle]_vars

\* Liveness: every request ends: starts, stops and their rollbacks never leave one
\* waiting for a row or for the index for ever.
EveryRequestEnds ==
    \A r \in Requests : req[r].pc # "idle" ~> req[r].pc = "idle"

\* What the flag is for ("lebih dari 12 jam tanpa stop ... auto_closed = true"): an
\* entry that lasted longer than a working day is marked for review.
ForgottenTimersAreFlagged ==
    \A e \in DOMAIN entries : entries[e].duration > LongTime => entries[e].auto
=============================================================================
