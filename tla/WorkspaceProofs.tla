-------------------------- MODULE WorkspaceProofs ---------------------------
(***************************************************************************)
(* The tabs of the workspace and the planner that a tab may show: for any  *)
(* projects, users and pages, and for any activities, days and plans that  *)
(* the page may hand over.                                                 *)
(***************************************************************************)
EXTENDS WorkspaceTabs, ActivityPlanner, FiniteSetTheorems,
        SequenceTheorems, TLAPS

(***************************************************************************)
(* WorkspaceTabs: the window shows the page of its active tab, no page has *)
(* two tabs, the server remembers them, and the browser history records    *)
(* every turn to another tab.  Lists of tabs are filtered, reordered and   *)
(* merged; what these operators return is shown first.                     *)
(***************************************************************************)

\* What a tab may show, what a save may open when it is over, what is stored, and what is sent.
Pages == [view : Views, project : Projects \cup {NoProject}, page : {"none", "list", "new"}]
Callbacks == [Saves -> [phase : {"none", "live", "left"}, to : Pages, found : Seq(Tab)]]
Row == [tabs : Seq(Tab), active : IDs]
Sent == [tabs : Seq(Tab) \ {<<>>}, active : IDs, overtaken : BOOLEAN]

\* What the variables hold.
TabsTypes ==
    /\ tabs \in Seq(Tab) /\ tabs # <<>> /\ activeTabID \in IDs
    /\ selectedProject \in Projects \cup {NoProject}
    /\ tabsReady \in BOOLEAN /\ signedIn \in BOOLEAN /\ timer \in BOOLEAN
    /\ entries \in Seq(Tab \cup {Blank}) /\ here \in 1 .. Len(entries)
    /\ callbacks \in Callbacks
    /\ stored \in Row /\ fetched \in Seq(Row) /\ puts \in Seq(Sent)
    /\ fresh \in 1 .. MaxNew + 1 /\ unsearched \subseteq IDs

\* No two tabs of a list have the same id.
UniqueIDs(s) == \A i, j \in 1 .. Len(s) : s[i].id = s[j].id => i = j

\* No two tabs of a list are for the same page, but those whose ids are among u.
NoTwins(s, u) ==
    \A t, x \in Elems(s) : t # x /\ Showing(PageOf(t), x) => t.id \in u \/ x.id \in u

Good(s, u) == UniqueIDs(s) /\ NoTwins(s, u)

\* The lists that are stored, or on their way, are as good as the window's: they may become it.
ListsAreGood ==
    /\ Good(tabs, unsearched) /\ Good(stored.tabs, unsearched)
    /\ \A i \in 1 .. Len(fetched) : Good(fetched[i].tabs, unsearched)
    /\ \A i \in 1 .. Len(puts) : Good(puts[i].tabs, unsearched)

\* The tabs that the window, its history, the server, a request or a save still knows.
RowTabs(rows) == UNION {Elems(rows[i].tabs) : i \in 1 .. Len(rows)}
EntryTabs(es) == Elems(es) \ {Blank}
FoundTabs(cs) == UNION {Elems(cs[s].found) : s \in Saves}
Known ==
    {FirstTab} \cup Elems(tabs) \cup EntryTabs(entries) \cup FoundTabs(callbacks)
        \cup Elems(stored.tabs) \cup RowTabs(fetched) \cup RowTabs(puts)

\* An id was given to one page and stays with it: K are tabs with ids below n.
PagesStay(K, n) ==
    /\ \A t \in K : t.id < n
    /\ \A t, x \in K : t.id = x.id => PageOf(t) = PageOf(x)

\* The PUTs that were overtaken were sent before the others.  When no PUT is due, the last one
\* has what the window shows, or, once it is over, the server does.
LastSent == puts[Len(puts)]
MemoryInv ==
    /\ \A i, j \in 1 .. Len(puts) : i < j /\ puts[j].overtaken => puts[i].overtaken
    /\ tabsReady /\ signedIn /\ ~timer =>
          IF puts # <<>> /\ ~LastSent.overtaken
          THEN LastSent.tabs = tabs /\ LastSent.active = activeTabID
          ELSE Savable(tabs) /\ ~behind => StoredIsShown

TabsIInv ==
    /\ TabsTypes /\ ActiveTabIsShown /\ ListsAreGood
    /\ PagesStay(Known, fresh) /\ MemoryInv

-----------------------------------------------------------------------------
(* Numbers and lists. *)

\* A set of numbers that is not empty has a least element.
LEMMA LeastNumber ==
    ASSUME NEW T, T \subseteq Nat, T # {} PROVE \E x \in T : \A y \in T : x <= y
<1> DEFINE R == {ss \in Nat \X Nat : ss[1] < ss[2]}
<1>1. R = OpToRel(<, Nat)
  BY Zenon DEF OpToRel
<1>2. IsWellFoundedOn(R, Nat)
  BY Zenon, <1>1, NatLessThanWellFounded
<1>3. \A x, y \in Nat : <<y, x>> \in R <=> y < x
  OBVIOUS
<1> HIDE DEF R
<1>4. PICK x \in T : \A y \in T : ~(<<y, x>> \in R)
  BY Zenon, <1>2, WFMin
<1>5. ASSUME NEW y \in T PROVE x <= y
  <2>1. x \in Nat /\ y \in Nat /\ ~(y < x)
    BY <1>3, <1>4
  <2>2. QED
    BY <2>1
<1>6. QED
  BY <1>5

\* f runs through numbers in their order.
Rising(f) == \A i, j \in DOMAIN f : i < j => f[i] < f[j]

\* Any positions of a list can be run through in their order.
LEMMA RisingExists ==
    ASSUME NEW n \in Nat, NEW P \in SUBSET (1 .. n)
    PROVE  \E f \in [1 .. Cardinality(P) -> P] : Rising(f)
<1> DEFINE Has(Q) == \E f \in [1 .. Cardinality(Q) -> Q] : Rising(f)
           Bad == {m \in Nat : \E Q \in SUBSET (1 .. m) : ~Has(Q)}
<1>1. SUFFICES ASSUME Bad # {} PROVE FALSE
  OBVIOUS
<1>2. PICK m \in Bad : \A k \in Bad : m <= k
  <2>1. Bad \subseteq Nat
    OBVIOUS
  <2> HIDE DEF Bad
  <2>2. QED
    BY <1>1, <2>1, LeastNumber
<1>3. PICK Q \in SUBSET (1 .. m) : ~Has(Q)
  OBVIOUS
<1>4. m \in Nat /\ IsFiniteSet(Q)
  <2>1. m \in Nat /\ Q \subseteq 1 .. m
    OBVIOUS
  <2>2. IsFiniteSet(1 .. m)
    BY <2>1, FS_Interval
  <2>3. QED
    BY <2>1, <2>2, FS_Subset
<1>5. \A k \in Nat : k < m => \A S \in SUBSET (1 .. k) : Has(S)
  <2>1. \A k \in Nat : k < m => k \notin Bad
    BY <1>2, <1>4
  <2>2. QED
    BY <2>1
<1> HIDE DEF Bad
<1>6. CASE m \notin Q
  <2>1. CASE m = 0
    <3>1. Q = {}
      BY <2>1
    <3>2. Cardinality(Q) = 0
      BY <3>1, FS_EmptySet
    <3>3. [x \in {} |-> x] \in [1 .. Cardinality(Q) -> Q] /\ Rising([x \in {} |-> x])
      BY <3>1, <3>2 DEF Rising
    <3>4. QED
      BY <1>3, <3>3
  <2>2. CASE m # 0
    <3>1. m - 1 \in Nat /\ m - 1 < m /\ Q \in SUBSET (1 .. m - 1)
      BY <1>4, <1>6, <2>2
    <3>2. QED
      BY <1>3, <1>5, <3>1
  <2>3. QED
    BY <2>1, <2>2
<1>7. CASE m \in Q
  <2> DEFINE S == Q \ {m}
             c == Cardinality(Q)
  <2>1. m - 1 \in Nat /\ m - 1 < m /\ S \in SUBSET (1 .. m - 1)
    BY <1>4, <1>7
  <2>2. Cardinality(S) = c - 1 /\ c \in Nat /\ c - 1 \in Nat
    BY <1>4, <1>7, FS_RemoveElement, FS_CardinalityType, FS_Subset
  <2>3. PICK f \in [1 .. c - 1 -> S] : Rising(f)
    BY <1>5, <2>1, <2>2
  <2> HIDE DEF S, c
  <2> DEFINE g == [i \in 1 .. c |-> IF i = c THEN m ELSE f[i]]
  <2>4. g \in [1 .. c -> Q]
    BY <1>7, <2>2, <2>3 DEF S
  <2>5. \A i \in 1 .. c - 1 : f[i] \in 1 .. m - 1
    BY <2>1, <2>3
  <2>6. Rising(g)
    <3>1. SUFFICES ASSUME NEW i \in 1 .. c, NEW j \in 1 .. c, i < j PROVE g[i] < g[j]
      BY DEF Rising
    <3>2. i \in 1 .. c - 1 /\ g[i] = f[i]
      BY <2>2, <3>1
    <3>3. CASE j = c
      BY <1>4, <2>5, <3>2, <3>3
    <3>4. CASE j # c
      <4>1. j \in 1 .. c - 1 /\ g[j] = f[j]
        BY <2>2, <3>4
      <4>2. QED
        BY <2>3, <3>1, <3>2, <4>1 DEF Rising
    <3>5. QED
      BY <3>3, <3>4
  <2>7. QED
    BY <1>3, <2>4, <2>6 DEF c
<1>8. QED
  BY <1>6, <1>7

\* What filter returns: the elements at the positions, each once.
LEMMA FilteredFacts ==
    ASSUME NEW S, NEW s \in Seq(S), NEW P \in SUBSET (1 .. Len(s))
    PROVE  /\ Filtered(s, P) \in Seq(S) /\ Len(Filtered(s, P)) = Cardinality(P)
           /\ \E f \in [1 .. Cardinality(P) -> P] :
                 /\ \A i \in 1 .. Cardinality(P) : Filtered(s, P)[i] = s[f[i]]
                 /\ \A i, j \in 1 .. Cardinality(P) : f[i] = f[j] => i = j
                 /\ \A p \in P : \E i \in 1 .. Cardinality(P) : f[i] = p
<1> DEFINE n == Cardinality(P)
           pick == CHOOSE f \in [1 .. n -> P] : Rising(f)
<1>1. Len(s) \in Nat /\ s \in [1 .. Len(s) -> S]
  OBVIOUS
<1>2. IsFiniteSet(P) /\ P \subseteq 1 .. Len(s) /\ n \in Nat
  <2>1. IsFiniteSet(1 .. Len(s)) /\ P \subseteq 1 .. Len(s)
    BY <1>1, FS_Interval
  <2>2. IsFiniteSet(P)
    BY <2>1, FS_Subset
  <2>3. QED
    BY <2>1, <2>2, FS_CardinalityType
<1>3. pick \in [1 .. n -> P] /\ Rising(pick)
  BY <1>1, RisingExists
<1>4. Filtered(s, P) = [i \in DOMAIN pick |-> s[pick[i]]]
  BY Zenon DEF Filtered, Rising
<1> HIDE DEF pick, n
<1>5. \A i \in 1 .. n : pick[i] \in P /\ pick[i] \in Nat
  <2>1. P \subseteq Nat
    BY <1>1, <1>2
  <2>2. QED
    BY <1>3, <2>1
<1>6. \A i, j \in 1 .. n : pick[i] = pick[j] => i = j
  <2>1. SUFFICES ASSUME NEW i \in 1 .. n, NEW j \in 1 .. n, i < j PROVE pick[i] # pick[j]
    BY <1>2
  <2>2. pick[i] < pick[j]
    BY <1>3, <2>1 DEF Rising
  <2>3. QED
    BY <1>5, <2>2
<1>7. pick \in Surjection(1 .. n, P)
  <2>1. pick \in Injection(1 .. n, P)
    BY <1>3, <1>6 DEF Injection, IsInjective
  <2>2. Cardinality(1 .. n) = n
    BY <1>2, FS_Interval
  <2>3. QED
    BY <1>2, <2>1, <2>2, FS_Injection DEF n
<1>8. \A p \in P : \E i \in 1 .. n : pick[i] = p
  BY <1>7 DEF Surjection
<1>9. Filtered(s, P) = [i \in 1 .. n |-> s[pick[i]]]
  BY <1>3, <1>4
<1>10. \A i \in 1 .. n : s[pick[i]] \in S
  BY <1>1, <1>5
<1>11. Filtered(s, P) \in Seq(S) /\ Len(Filtered(s, P)) = n
  BY <1>2, <1>9, <1>10
<1>12. QED
  BY <1>3, <1>6, <1>8, <1>9, <1>11 DEF n

-----------------------------------------------------------------------------
(* Parts of a list: what the limit, closing and the server leave of it. *)

\* Every element of s comes from an element of t of its own.
Part(s, t) ==
    /\ s \in Seq(Tab)
    /\ \E f \in [1 .. Len(s) -> 1 .. Len(t)] :
          /\ \A i \in 1 .. Len(s) : s[i] = t[f[i]]
          /\ \A i, j \in 1 .. Len(s) : f[i] = f[j] => i = j

\* A part of a list is as good as the list.
LEMMA PartFacts ==
    ASSUME NEW s, NEW t \in Seq(Tab), Part(s, t)
    PROVE  /\ Elems(s) \subseteq Elems(t)
           /\ UniqueIDs(t) => UniqueIDs(s)
           /\ \A u : NoTwins(t, u) => NoTwins(s, u)
<1>1. PICK f \in [1 .. Len(s) -> 1 .. Len(t)] :
          /\ \A i \in 1 .. Len(s) : s[i] = t[f[i]]
          /\ \A i, j \in 1 .. Len(s) : f[i] = f[j] => i = j
  BY DEF Part
<1>2. \A i \in 1 .. Len(s) : f[i] \in 1 .. Len(t)
  BY <1>1
<1>3. Elems(s) \subseteq Elems(t)
  BY <1>1, <1>2 DEF Elems
<1>4. UniqueIDs(t) => UniqueIDs(s)
  BY <1>1, <1>2 DEF UniqueIDs
<1>5. QED
  BY <1>3, <1>4 DEF NoTwins

\* What filter leaves of a list is a part of it, with what passes the test.
LEMMA FilteredIsPart ==
    ASSUME NEW s \in Seq(Tab), NEW P \in SUBSET (1 .. Len(s))
    PROVE  /\ Part(Filtered(s, P), s) /\ Len(Filtered(s, P)) = Cardinality(P)
           /\ Elems(Filtered(s, P)) = {s[p] : p \in P}
<1> DEFINE r == Filtered(s, P)
           n == Cardinality(P)
<1>1. r \in Seq(Tab) /\ Len(r) = n
  BY FilteredFacts
<1>2. PICK f \in [1 .. n -> P] :
          /\ \A i \in 1 .. n : r[i] = s[f[i]]
          /\ \A i, j \in 1 .. n : f[i] = f[j] => i = j
          /\ \A p \in P : \E i \in 1 .. n : f[i] = p
  BY FilteredFacts, SMTT(60)
<1> HIDE DEF r, n
<1>3. f \in [1 .. Len(r) -> 1 .. Len(s)]
  <2>1. f \in [1 .. n -> 1 .. Len(s)]
    BY <1>2
  <2>2. QED
    BY <1>1, <2>1
<1>4. Part(r, s)
  BY <1>1, <1>2, <1>3 DEF Part
<1>5. Elems(r) = {s[p] : p \in P}
  <2>1. \A i \in 1 .. n : r[i] = s[f[i]] /\ f[i] \in P
    BY <1>2
  <2>2. \A p \in P : \E i \in 1 .. n : r[i] = s[p]
    BY <1>2
  <2>3. Elems(r) = {r[i] : i \in 1 .. n}
    BY <1>1 DEF Elems
  <2>4. Elems(r) \subseteq {s[p] : p \in P}
    <3>1. \A i \in 1 .. n : \E p \in P : r[i] = s[p]
      BY <2>1
    <3>2. QED
      BY <2>3, <3>1
  <2>5. {s[p] : p \in P} \subseteq Elems(r)
    BY <2>2, <2>3
  <2>6. QED
    BY <2>4, <2>5
<1>6. QED
  BY <1>1, <1>4, <1>5 DEF r, n

\* Removing the tab with an id.
LEMMA WithoutFacts ==
    ASSUME NEW s \in Seq(Tab), NEW id
    PROVE  /\ Part(Without(s, id), s)
           /\ Elems(Without(s, id)) = {t \in Elems(s) : t.id # id}
<1> DEFINE P == {i \in 1 .. Len(s) : s[i].id # id}
<1>1. P \in SUBSET (1 .. Len(s)) /\ Without(s, id) = Filtered(s, P)
  BY DEF Without
<1>2. {s[p] : p \in P} = {t \in Elems(s) : t.id # id}
  BY DEF Elems
<1> HIDE DEF P
<1>3. QED
  BY <1>1, <1>2, FilteredIsPart

\* When the ids are unique, one tab is removed.
LEMMA WithoutOne ==
    ASSUME NEW s \in Seq(Tab), UniqueIDs(s), NEW i \in 1 .. Len(s)
    PROVE  Len(Without(s, s[i].id)) = Len(s) - 1
<1> DEFINE P == {j \in 1 .. Len(s) : s[j].id # s[i].id}
<1>1. Len(s) \in Nat
  OBVIOUS
<1>2. P = (1 .. Len(s)) \ {i}
  BY DEF UniqueIDs
<1>3. Cardinality(P) = Len(s) - 1
  <2>1. IsFiniteSet(1 .. Len(s)) /\ Cardinality(1 .. Len(s)) = Len(s)
    BY <1>1, FS_Interval
  <2>2. QED
    BY <1>2, <2>1, FS_RemoveElement
<1>4. P \in SUBSET (1 .. Len(s)) /\ Without(s, s[i].id) = Filtered(s, P)
  BY DEF Without
<1> HIDE DEF P
<1>5. QED
  BY <1>3, <1>4, FilteredIsPart

\* What SubSeq leaves of a list is a part of it.
LEMMA SubSeqIsPart ==
    ASSUME NEW s \in Seq(Tab), NEW k \in 1 .. Len(s) + 1, NEW m \in 0 .. Len(s), k <= m + 1
    PROVE  /\ Part(SubSeq(s, k, m), s) /\ Len(SubSeq(s, k, m)) = m - k + 1
           /\ \A i \in 1 .. m - k + 1 : SubSeq(s, k, m)[i] = s[k + i - 1]
<1>1. Len(s) \in Nat
  OBVIOUS
<1>2. PICK c \in Nat : c = m - k + 1
  BY <1>1
<1>3. PICK r : r = SubSeq(s, k, m)
  OBVIOUS
<1>4. r \in Seq(Tab) /\ Len(r) = c
  BY <1>1, <1>2, <1>3
<1>5. \A i \in 1 .. c : r[i] = s[k + i - 1]
  BY <1>1, <1>2, <1>3
<1>6. PICK f : f = [i \in 1 .. c |-> k + i - 1]
  OBVIOUS
<1>7. f \in [1 .. Len(r) -> 1 .. Len(s)]
  BY <1>1, <1>2, <1>4, <1>6
<1>8. \A i \in 1 .. Len(r) : f[i] = k + i - 1
  BY <1>4, <1>6
<1>9. \A i, j \in 1 .. Len(r) : f[i] = f[j] => i = j
  BY <1>4, <1>8
<1>10. \A i \in 1 .. Len(r) : r[i] = s[f[i]]
  BY <1>4, <1>5, <1>8
<1>11. Part(r, s)
  BY <1>4, <1>7, <1>9, <1>10 DEF Part
<1>12. QED
  BY <1>2, <1>3, <1>4, <1>5, <1>11

\* The first tabs of a list, and the last ones.
LEMMA CutIsPart ==
    ASSUME NEW s \in Seq(Tab), NEW n \in Nat
    PROVE  /\ Part(FirstOf(s, n), s) /\ Part(LastOf(s, n), s)
           /\ n # 0 /\ s # <<>> => FirstOf(s, n) # <<>> /\ FirstOf(s, n)[1] = s[1]
           /\ n # 0 /\ s # <<>> => LastOf(s, n) # <<>>
<1>1. Len(s) \in Nat /\ (s # <<>> => Len(s) # 0)
  OBVIOUS
<1>2. PICK m \in 0 .. Len(s) : FirstOf(s, n) = SubSeq(s, 1, m) /\ (n # 0 /\ s # <<>> => m # 0)
  <2>1. CASE n < Len(s)
    BY <1>1, <2>1 DEF FirstOf
  <2>2. CASE ~(n < Len(s))
    BY <1>1, <2>2 DEF FirstOf
  <2>3. QED
    BY <2>1, <2>2
<1>3. PICK k \in 1 .. Len(s) + 1 :
          LastOf(s, n) = SubSeq(s, k, Len(s)) /\ (n # 0 /\ s # <<>> => k <= Len(s))
  <2>1. CASE n < Len(s)
    <3>1. PICK k \in 1 .. Len(s) + 1 : k = Len(s) - n + 1
      BY <1>1, <2>1
    <3>2. LastOf(s, n) = SubSeq(s, k, Len(s))
      BY <2>1, <3>1 DEF LastOf
    <3>3. n # 0 => k <= Len(s)
      BY <1>1, <3>1
    <3>4. QED
      BY <3>2, <3>3
  <2>2. CASE ~(n < Len(s))
    BY <1>1, <2>2 DEF LastOf
  <2>3. QED
    BY <2>1, <2>2
<1>4. /\ Part(SubSeq(s, 1, m), s) /\ Len(SubSeq(s, 1, m)) = m
      /\ m # 0 => SubSeq(s, 1, m)[1] = s[1]
  BY <1>1, SubSeqIsPart
<1>5. Part(SubSeq(s, k, Len(s)), s) /\ Len(SubSeq(s, k, Len(s))) = Len(s) - k + 1
  BY <1>1, SubSeqIsPart
<1>6. m # 0 => FirstOf(s, n) # <<>> /\ FirstOf(s, n)[1] = s[1]
  BY <1>2, <1>4
<1>7. k <= Len(s) => LastOf(s, n) # <<>>
  <2>1. Len(s) - k + 1 # 0 \/ ~(k <= Len(s))
    BY <1>1
  <2>2. Len(<<>>) = 0
    OBVIOUS
  <2>3. k <= Len(s) => Len(LastOf(s, n)) # 0
    BY <1>3, <1>5, <2>1
  <2>4. QED
    BY <2>2, <2>3
<1>8. QED
  BY <1>2, <1>3, <1>4, <1>5, <1>6, <1>7

\* A tab that is opened or reopened is the first of a list with unique ids; the others were
\* there.
LEMMA AddedFacts ==
    ASSUME tabs \in Seq(Tab), UniqueIDs(tabs), NEW tab \in Tab, NEW s \in Added(tab)
    PROVE  /\ s \in Seq(Tab) /\ UniqueIDs(s)
           /\ tab \in Elems(s) /\ Elems(s) \subseteq {tab} \cup Elems(tabs)
<1> DEFINE rest == Without(tabs, tab.id)
           all == <<tab>> \o rest
<1>1. PICK n \in Nat \ {0} : s = FirstOf(all, n)
  BY TabsAssumption DEF Added
<1>2. /\ rest \in Seq(Tab) /\ UniqueIDs(rest)
      /\ Elems(rest) = {t \in Elems(tabs) : t.id # tab.id}
  <2>1. Part(rest, tabs) /\ Elems(rest) = {t \in Elems(tabs) : t.id # tab.id}
    BY WithoutFacts
  <2>2. UniqueIDs(rest)
    BY <2>1, PartFacts
  <2>3. QED
    BY <2>1, <2>2 DEF Part
<1> HIDE DEF rest
<1>3. all \in Seq(Tab) /\ Len(all) = Len(rest) + 1 /\ all[1] = tab
  BY <1>2
<1>4. \A i \in 2 .. Len(all) : i - 1 \in 1 .. Len(rest) /\ all[i] = rest[i - 1]
  BY <1>2
<1> HIDE DEF all
<1>5. \A i \in 1 .. Len(rest) : rest[i] \in Elems(rest)
  BY DEF Elems
<1>6. \A i \in 2 .. Len(all) : all[i] \in Elems(tabs) /\ all[i].id # tab.id
  BY <1>2, <1>4, <1>5
<1>7. UniqueIDs(all)
  <2>1. SUFFICES ASSUME NEW i \in 1 .. Len(all), NEW j \in 1 .. Len(all), all[i].id = all[j].id
                 PROVE  i = j
    BY DEF UniqueIDs
  <2>2. CASE i = 1 \/ j = 1
    BY <1>3, <1>6, <2>1, <2>2
  <2>3. CASE i # 1 /\ j # 1
    <3>1. i \in 2 .. Len(all) /\ j \in 2 .. Len(all)
      BY <2>3
    <3>2. i - 1 = j - 1
      BY <1>2, <1>4, <2>1, <3>1 DEF UniqueIDs
    <3>3. QED
      BY <3>1, <3>2
  <2>4. QED
    BY <2>2, <2>3
<1>8. Elems(all) \subseteq {tab} \cup Elems(tabs)
  BY <1>3, <1>6 DEF Elems
<1>9. s \in Seq(Tab) /\ s # <<>> /\ s[1] = tab /\ UniqueIDs(s) /\ Elems(s) \subseteq Elems(all)
  <2>1. all # <<>> /\ n \in Nat /\ n # 0
    BY <1>1, <1>2, <1>3
  <2>2. Part(s, all) /\ s # <<>> /\ s[1] = tab
    BY <1>1, <1>3, <2>1, CutIsPart
  <2>3. UniqueIDs(s) /\ Elems(s) \subseteq Elems(all)
    BY <1>3, <1>7, <2>2, PartFacts
  <2>4. QED
    BY <2>2, <2>3 DEF Part
<1>10. tab \in Elems(s)
  BY <1>9 DEF Elems
<1>11. QED
  BY <1>8, <1>9, <1>10

\* Dragging a tab changes the order of a list and nothing else.
LEMMA MovedFacts ==
    ASSUME NEW s \in Seq(Tab), NEW from \in 1 .. Len(s), NEW to \in 1 .. Len(s)
    PROVE  Part(Moved(s, from, to), s) /\ Elems(Moved(s, from, to)) = Elems(s)
<1> DEFINE n == Len(s)
           left == SubSeq(s, 1, from - 1)
           right == SubSeq(s, from + 1, n)
           rest == left \o right
           before == SubSeq(rest, 1, to - 1)
           after == SubSeq(rest, to, Len(rest))
           moved == (before \o <<s[from]>>) \o after
           At(i) == IF i = to THEN from
                    ELSE IF i < to THEN IF i < from THEN i ELSE i + 1
                    ELSE IF i - 1 < from THEN i - 1 ELSE i
           Back(p) == IF p = from THEN to
                      ELSE IF p < from THEN IF p < to THEN p ELSE p + 1
                      ELSE IF p - 1 < to THEN p - 1 ELSE p
<1>1. n \in Nat /\ from \in 1 .. n /\ to \in 1 .. n
  OBVIOUS
<1>2. left \in Seq(Tab) /\ Len(left) = from - 1 /\ \A i \in 1 .. from - 1 : left[i] = s[i]
  OBVIOUS
<1>3. /\ right \in Seq(Tab) /\ Len(right) = n - from
      /\ \A i \in 1 .. n - from : right[i] = s[from + i]
  OBVIOUS
<1> HIDE DEF left, right
<1>4. /\ rest \in Seq(Tab) /\ Len(rest) = n - 1
      /\ \A i \in 1 .. n - 1 : rest[i] = s[IF i < from THEN i ELSE i + 1]
  <2>1. rest \in Seq(Tab) /\ Len(rest) = n - 1
    <3>1. rest \in Seq(Tab) /\ Len(rest) = Len(left) + Len(right)
      BY <1>2, <1>3, ConcatProperties
    <3>2. Len(left) + Len(right) = n - 1
      BY <1>1, <1>2, <1>3
    <3>3. QED
      BY <3>1, <3>2
  <2>2. ASSUME NEW i \in 1 .. n - 1 PROVE rest[i] = s[IF i < from THEN i ELSE i + 1]
    <3>1. CASE i < from
      BY <1>1, <1>2, <1>3, <3>1
    <3>2. CASE ~(i < from)
      <4>1. rest[i] = right[i - (from - 1)]
        BY <1>1, <1>2, <1>3, <3>2
      <4>2. i - (from - 1) \in 1 .. n - from
        BY <1>1, <3>2
      <4>3. right[i - (from - 1)] = s[from + (i - (from - 1))]
        BY <1>3, <4>2
      <4>4. from + (i - (from - 1)) = i + 1
        BY <1>1
      <4>5. QED
        BY <3>2, <4>1, <4>3, <4>4
    <3>3. QED
      BY <3>1, <3>2
  <2>3. QED
    BY <2>1, <2>2
<1> HIDE DEF rest
<1>5. before \in Seq(Tab) /\ Len(before) = to - 1 /\ \A i \in 1 .. to - 1 : before[i] = rest[i]
  BY <1>1, <1>4
<1>6. /\ after \in Seq(Tab) /\ Len(after) = n - to
      /\ \A i \in 1 .. n - to : after[i] = rest[to + i - 1]
  BY <1>1, <1>4
<1>7. moved = Moved(s, from, to)
  BY DEF Moved, rest, left, right
<1> HIDE DEF before, after
<1>8. moved \in Seq(Tab) /\ Len(moved) = n
  <2>1. <<s[from]>> \in Seq(Tab) /\ Len(<<s[from]>>) = 1
    BY <1>1
  <2>2. moved \in Seq(Tab) /\ Len(moved) = Len(before) + 1 + Len(after)
    <3>1. /\ before \o <<s[from]>> \in Seq(Tab)
          /\ Len(before \o <<s[from]>>) = Len(before) + 1
      BY <1>5, <2>1, ConcatProperties
    <3>2. PICK head \in Seq(Tab) : head = before \o <<s[from]>>
      BY <3>1
    <3>3. after \in Seq(Tab)
      BY <1>6
    <3>4. head \o after \in Seq(Tab) /\ Len(head \o after) = Len(head) + Len(after)
      BY <3>3, ConcatProperties
    <3>5. QED
      BY <3>1, <3>2, <3>4 DEF moved
  <2>3. Len(before) + 1 + Len(after) = n
    BY <1>1, <1>5, <1>6
  <2>4. QED
    BY <2>2, <2>3
<1>9. \A i \in 1 .. n :
          moved[i] = IF i < to THEN before[i] ELSE IF i = to THEN s[from] ELSE after[i - to]
  BY <1>1, <1>5, <1>6
<1> HIDE DEF moved
<1>10. \A i \in 1 .. n : At(i) \in 1 .. n /\ moved[i] = s[At(i)]
  <2>1. TAKE i \in 1 .. n
  <2>2. At(i) \in 1 .. n
    BY <1>1
  <2>3. CASE i < to
    BY <1>1, <1>4, <1>5, <1>9, <2>3
  <2>4. CASE i = to
    BY <1>1, <1>9, <2>4
  <2>5. CASE i > to
    <3>1. i - to \in 1 .. n - to /\ to + (i - to) - 1 = i - 1 /\ i - 1 \in 1 .. n - 1
      BY <1>1, <2>5
    <3>2. moved[i] = rest[i - 1]
      <4>1. PICK k \in 1 .. n - to : k = i - to
        BY <3>1
      <4>2. moved[i] = after[k]
        BY <1>1, <1>9, <2>5, <4>1
      <4>3. after[k] = rest[to + k - 1]
        BY <1>6
      <4>4. QED
        BY <3>1, <4>1, <4>2, <4>3
    <3>3. rest[i - 1] = s[IF i - 1 < from THEN i - 1 ELSE i]
      BY <1>1, <1>4, <3>1
    <3>4. QED
      BY <1>1, <2>2, <2>5, <3>2, <3>3
  <2>6. QED
    BY <1>1, <2>3, <2>4, <2>5
<1>11. \A i, j \in 1 .. n : At(i) = At(j) => i = j
  BY <1>1
<1>12. \A p \in 1 .. n : Back(p) \in 1 .. n /\ At(Back(p)) = p
  BY <1>1
<1>13. PICK f : f = [i \in 1 .. n |-> At(i)]
  OBVIOUS
<1>14. \A i \in 1 .. n : f[i] = At(i)
  BY <1>13
<1> HIDE DEF At, Back
<1>15. f \in [1 .. Len(moved) -> 1 .. Len(s)]
  BY <1>8, <1>10, <1>13
<1>16. Part(moved, s)
  <2>1. \A i \in 1 .. Len(moved) : moved[i] = s[f[i]]
    BY <1>8, <1>10, <1>14
  <2>2. \A i, j \in 1 .. Len(moved) : f[i] = f[j] => i = j
    BY <1>8, <1>11, <1>14
  <2>3. QED
    BY <1>8, <1>15, <2>1, <2>2 DEF Part
<1>17. Elems(s) \subseteq Elems(moved)
  <2>1. SUFFICES ASSUME NEW p \in 1 .. n PROVE s[p] \in Elems(moved)
    BY DEF Elems
  <2>2. moved[Back(p)] = s[p] /\ Back(p) \in 1 .. Len(moved)
    BY <1>8, <1>10, <1>12
  <2>3. QED
    BY <2>2 DEF Elems
<1>18. QED
  BY <1>7, <1>16, <1>17, PartFacts

-----------------------------------------------------------------------------
(* Tabs, pages and the history. *)

\* A tab may show any page, and shows it under its id.
LEMMA TabOfPage ==
    ASSUME NEW p \in Pages, NEW id \in IDs
    PROVE  /\ TabOf(id, p) \in Tab /\ TabOf(id, p).id = id /\ PageOf(TabOf(id, p)) = p
           /\ TabOf(id, p).page = p.page
  BY DEF Pages, TabOf, Tab, PageOf, Page

\* The first tab is a tab.
LEMMA FirstTabFacts ==
    /\ FirstTab \in Tab /\ FirstTab.id = FirstID /\ FirstID \in IDs
    /\ FirstTab.view = "overview" /\ FirstTab.project = NoProject
    /\ PageOf(FirstTab) \in Pages
  BY TabsAssumption DEF FirstTab, TabOf, Page, PageOf, Pages, Tab, IDs, FirstID

\* A link leads to a page that a tab may show, and so does what a page opens when it has saved.
LEMMA LinkedPage ==
    ASSUME TabsTypes
    PROVE  /\ \A p \in Links : p \in Pages
           /\ \A p \in SaveOpens : p.view \in Views => p \in Pages
<1> DEFINE Q == Projects \cup {NoProject}
           Any == {Page(v, q, k) : v \in AllViews, q \in Q, k \in {"none", "list", "new"}}
<1>1. selectedProject \in Q
  BY DEF TabsTypes
<1>2. \A p \in Any : p.view \in Views => p \in Pages
  BY DEF Page, Pages
<1>3. \A v \in AllViews, q \in Q, k \in {"none", "list", "new"} : Page(v, q, k) \in Any
  OBVIOUS
<1> HIDE DEF Any
<1>4. MenuPages \cup Breadcrumbs \cup PageLinks \subseteq Any
  <2>1. MenuPages \cup Breadcrumbs \subseteq Any
    BY <1>1, <1>3 DEF MenuPages, Breadcrumbs, Plain, Detail, AllViews
  <2>2. PageLinks \subseteq Any
    BY <1>1, <1>3 DEF PageLinks, Plain, Draft, Detail, Edit, AllViews
  <2>3. QED
    BY <2>1, <2>2
<1>5. SaveOpens \subseteq Any
  BY <1>1, <1>3 DEF SaveOpens, Plain, Detail, AllViews
<1>6. QED
  BY <1>2, <1>4, <1>5 DEF Links

\* What openTab finds for a page is the first of the tabs that show it.
LEMMA FoundFacts ==
    ASSUME TabsTypes, NEW p
    PROVE  /\ Found(p) \in Seq(Tab) /\ Elems(Found(p)) \subseteq Elems(tabs)
           /\ Found(p) # <<>> => Found(p)[1] \in Elems(tabs)
           /\ Found(p) = <<>> => \A t \in Elems(tabs) : ~Showing(p, t)
<1> DEFINE First(i) ==
              /\ Showing(p, tabs[i])
              /\ \A j \in 1 .. i - 1 : ~Showing(p, tabs[j])
           Shows == {i \in 1 .. Len(tabs) : Showing(p, tabs[i])}
<1>0. Len(tabs) \in Nat /\ \A t \in Elems(tabs) : t \in Tab
  BY DEF TabsTypes, Elems
<1>1. CASE \E t \in Elems(tabs) : Showing(p, t)
  <2>1. \E i \in 1 .. Len(tabs) : Showing(p, tabs[i])
    BY <1>1 DEF Elems
  <2>2. \E i \in 1 .. Len(tabs) : First(i)
    <3>1. Shows \subseteq Nat /\ Shows # {}
      BY <1>0, <2>1
    <3>2. PICK i \in Shows : \A j \in Shows : i <= j
      <4> HIDE DEF Shows
      <4>1. QED
        BY <3>1, LeastNumber
    <3>3. i \in 1 .. Len(tabs) /\ Showing(p, tabs[i])
      BY <3>2
    <3>4. \A j \in 1 .. i - 1 : j \in 1 .. Len(tabs) /\ ~(i <= j)
      BY <1>0, <3>3
    <3>5. First(i)
      BY <3>2, <3>3, <3>4
    <3>6. QED
      BY <3>3, <3>5
  <2>3. FirstShowing(p) \in Elems(tabs)
    BY <2>2 DEF FirstShowing, Elems
  <2>4. PICK t : t = FirstShowing(p)
    OBVIOUS
  <2>5. Found(p) = <<t>> /\ t \in Tab /\ t \in Elems(tabs)
    BY <1>0, <1>1, <2>3, <2>4 DEF Found
  <2>6. Found(p) \in Seq(Tab) /\ Len(Found(p)) = 1 /\ Found(p)[1] = t
    BY <2>5
  <2>7. Elems(Found(p)) = {t}
    BY <2>6 DEF Elems
  <2>8. QED
    BY <2>5, <2>6, <2>7
<1>2. CASE ~\E t \in Elems(tabs) : Showing(p, t)
  <2>1. Found(p) = <<>>
    BY <1>2 DEF Found
  <2>2. Elems(<<>>) = {}
    BY DEF Elems
  <2>3. QED
    BY <1>2, <2>1, <2>2
<1>3. QED
  BY <1>1, <1>2

\* Appending an entry, and replacing one, adds it and nothing else.
LEMMA EntryFacts ==
    ASSUME TabsTypes, NEW e \in Tab \cup {Blank}, NEW es, NEW h,
           \/ es = [entries EXCEPT ![here] = e] /\ h = here
           \/ es = Append(SubSeq(entries, 1, here), e) /\ h = here + 1
    PROVE  /\ es \in Seq(Tab \cup {Blank}) /\ h \in 1 .. Len(es) /\ es[h] = e
           /\ EntryTabs(es) \subseteq EntryTabs(entries) \cup {e}
<1>1. /\ entries \in Seq(Tab \cup {Blank}) /\ here \in 1 .. Len(entries)
      /\ Len(entries) \in Nat
  BY DEF TabsTypes
<1>2. CASE es = [entries EXCEPT ![here] = e] /\ h = here
  <2>1. es \in Seq(Tab \cup {Blank}) /\ h \in 1 .. Len(es) /\ es[h] = e
    BY <1>1, <1>2
  <2>2. \A i \in 1 .. Len(es) : i \in 1 .. Len(entries) /\ (es[i] = e \/ es[i] = entries[i])
    BY <1>1, <1>2
  <2>3. Elems(es) \subseteq Elems(entries) \cup {e}
    BY <2>2 DEF Elems
  <2>4. QED
    BY <2>1, <2>3 DEF EntryTabs
<1>3. CASE es = Append(SubSeq(entries, 1, here), e) /\ h = here + 1
  <2>1. PICK r : r = SubSeq(entries, 1, here)
    OBVIOUS
  <2>2. r \in Seq(Tab \cup {Blank}) /\ Len(r) = here /\ \A i \in 1 .. here : r[i] = entries[i]
    BY <1>1, <2>1
  <2>3. /\ es \in Seq(Tab \cup {Blank}) /\ Len(es) = here + 1 /\ es[here + 1] = e
        /\ \A i \in 1 .. here : es[i] = entries[i]
    BY <1>1, <1>3, <2>1, <2>2
  <2>4. \A i \in 1 .. Len(es) : es[i] = e \/ (i \in 1 .. Len(entries) /\ es[i] = entries[i])
    BY <1>1, <2>3
  <2>5. Elems(es) \subseteq Elems(entries) \cup {e}
    BY <2>4 DEF Elems
  <2>6. QED
    BY <1>1, <1>3, <2>3, <2>5 DEF EntryTabs
<1>4. QED
  BY <1>2, <1>3

\* Turning to a tab writes it into the history, as the current entry.
LEMMA ActivateTabFacts ==
    ASSUME TabsTypes, NEW tab \in Tab, NEW how \in {"push", "replace"}, ActivateTab(tab, how)
    PROVE  /\ activeTabID' = tab.id /\ view' = tab.view /\ selectedProject' = tab.project
           /\ entries' \in Seq(Tab \cup {Blank}) /\ here' \in 1 .. Len(entries')
           /\ EntryTabs(entries') \subseteq EntryTabs(entries) \cup {tab}
           /\ Top'.id = tab.id
<1>1. CASE \/ entries' = [entries EXCEPT ![here] = tab] /\ here' = here
           \/ entries' = Append(SubSeq(entries, 1, here), tab) /\ here' = here + 1
  <2>1. PICK es, h : es = entries' /\ h = here'
    OBVIOUS
  <2>2. /\ es \in Seq(Tab \cup {Blank}) /\ h \in 1 .. Len(es) /\ es[h] = tab
        /\ EntryTabs(es) \subseteq EntryTabs(entries) \cup {tab}
    BY <1>1, <2>1, EntryFacts
  <2>3. QED
    BY <2>1, <2>2 DEF ActivateTab, Top
<1>2. CASE UNCHANGED browser /\ Top.id = tab.id
  BY <1>2 DEF ActivateTab, browser, Top, TabsTypes
<1>3. QED
  BY <1>1, <1>2 DEF ActivateTab

\* An entry that gets a tab keeps the history a history.
LEMMA StampedFacts ==
    ASSUME TabsTypes, NEW s \in Seq(Tab), NEW id, NEW ready
    PROVE  /\ Stamped(s, id, ready) \in Seq(Tab \cup {Blank})
           /\ here \in 1 .. Len(Stamped(s, id, ready))
           /\ EntryTabs(Stamped(s, id, ready)) \subseteq EntryTabs(entries) \cup Elems(s)
<1>1. CASE Stamped(s, id, ready) = entries
  BY <1>1 DEF TabsTypes
<1>2. CASE \E t \in Elems(s) : t.id = id
  <2>1. PICK t : t = CHOOSE x \in Elems(s) : x.id = id
    OBVIOUS
  <2>2. t \in Tab /\ t \in Elems(s)
    BY <1>2, <2>1 DEF Elems
  <2>3. CASE Stamped(s, id, ready) = [entries EXCEPT ![here] = t]
    BY <2>2, <2>3, EntryFacts
  <2>4. QED
    BY <1>1, <2>1, <2>3 DEF Stamped
<1>3. QED
  BY <1>1, <1>2 DEF Stamped

-----------------------------------------------------------------------------
(* The parts of the invariant. *)

\* A part of a good list is good.
LEMMA GoodPart ==
    ASSUME NEW s, NEW t \in Seq(Tab), Part(s, t), NEW u, Good(t, u)
    PROVE  s \in Seq(Tab) /\ Good(s, u) /\ Elems(s) \subseteq Elems(t)
<1>1. UniqueIDs(s) /\ NoTwins(s, u) /\ Elems(s) \subseteq Elems(t)
  BY PartFacts DEF Good
<1>2. QED
  BY <1>1 DEF Good, Part

\* A tab with a new id can be known beside the others.
LEMMA NewTabFacts ==
    ASSUME NEW K \in SUBSET Tab, NEW n \in Nat, PagesStay(K, n), NEW tab \in Tab, tab.id = n
    PROVE  PagesStay(K \cup {tab}, n + 1)
<1>1. \A t \in K : t.id \in Nat /\ t.id < n
  BY TabsAssumption DEF PagesStay, Tab, IDs
<1>2. \A t \in K \cup {tab} : t.id < n + 1
  BY <1>1
<1>3. \A t, x \in K \cup {tab} : t.id = x.id => PageOf(t) = PageOf(x)
  <2>1. \A t \in K : t.id # tab.id
    BY <1>1
  <2>2. QED
    BY <2>1 DEF PagesStay
<1>4. QED
  BY <1>2, <1>3 DEF PagesStay

\* What is known are tabs.
LEMMA KnownFacts == ASSUME TabsTypes PROVE Known \subseteq Tab
<1>1. FirstTab \in Tab
  BY FirstTabFacts
<1>2. Elems(tabs) \cup Elems(stored.tabs) \subseteq Tab
  BY DEF TabsTypes, Row, Elems
<1>3. EntryTabs(entries) \subseteq Tab
  BY DEF TabsTypes, EntryTabs, Elems
<1>4. \A s \in Saves : Elems(callbacks[s].found) \subseteq Tab
  BY DEF TabsTypes, Callbacks, Elems
<1>5. \A i \in 1 .. Len(fetched) : Elems(fetched[i].tabs) \subseteq Tab
  <2>1. \A i \in 1 .. Len(fetched) : fetched[i] \in Row
    BY DEF TabsTypes
  <2>2. QED
    BY <2>1 DEF Row, Elems
<1>6. \A i \in 1 .. Len(puts) : Elems(puts[i].tabs) \subseteq Tab
  <2>1. \A i \in 1 .. Len(puts) : puts[i] \in Sent
    BY DEF TabsTypes
  <2>2. QED
    BY <2>1 DEF Sent, Elems
<1>7. FoundTabs(callbacks) \subseteq Tab
  BY <1>4 DEF FoundTabs
<1>8. RowTabs(fetched) \cup RowTabs(puts) \subseteq Tab
  BY <1>5, <1>6 DEF RowTabs
<1>9. QED
  BY <1>1, <1>2, <1>3, <1>7, <1>8 DEF Known

\* An answer to the GET that comes, or goes, makes nothing known.
FetchedStays == fetched' \in {fetched, <<>>, <<stored>>}

\* No tab becomes known but those of K.
LEMMA KnownStays ==
    ASSUME FetchedStays, UNCHANGED <<stored, puts>>, NEW K, Known \subseteq K,
           Elems(tabs') \subseteq K, EntryTabs(entries') \subseteq K,
           FoundTabs(callbacks') \subseteq K
    PROVE  Known' \subseteq K
<1>1. RowTabs(fetched') \subseteq K
  <2>1. RowTabs(<<>>) = {}
    BY DEF RowTabs
  <2>2. RowTabs(<<stored>>) = Elems(stored.tabs)
    <3>1. PICK q : q = <<stored>>
      OBVIOUS
    <3>2. Len(q) = 1 /\ q[1] = stored
      BY <3>1
    <3>3. RowTabs(q) = Elems(stored.tabs)
      BY <3>2 DEF RowTabs
    <3>4. QED
      BY <3>1, <3>3
  <2>3. QED
    BY <2>1, <2>2 DEF FetchedStays, Known
<1>2. FirstTab' = FirstTab
  BY DEF FirstTab, TabOf, Page, FirstID
<1>3. Elems(stored'.tabs) = Elems(stored.tabs) /\ RowTabs(puts') = RowTabs(puts)
  BY DEF Elems, RowTabs
<1>4. Known' = {FirstTab'} \cup Elems(tabs') \cup EntryTabs(entries')
                  \cup FoundTabs(callbacks') \cup Elems(stored'.tabs)
                  \cup RowTabs(fetched') \cup RowTabs(puts')
  BY Zenon DEF Known
<1>5. FirstTab \in K /\ Elems(stored.tabs) \subseteq K /\ RowTabs(puts) \subseteq K
  BY DEF Known
<1>6. QED
  BY <1>1, <1>2, <1>3, <1>4, <1>5

\* The lists that are stored or on their way stay as good as they were.
LEMMA ListsStay ==
    ASSUME ListsAreGood, FetchedStays, UNCHANGED <<stored, puts>>,
           unsearched \subseteq unsearched', Good(tabs', unsearched')
    PROVE  ListsAreGood'
<1>1. \A s : Good(s, unsearched) => Good(s, unsearched')
  BY DEF Good, NoTwins
<1>2. Good(stored'.tabs, unsearched')
  BY <1>1 DEF ListsAreGood
<1>3. \A i \in 1 .. Len(fetched') : Good(fetched'[i].tabs, unsearched')
  <2>1. CASE fetched' = fetched
    BY <1>1, <2>1 DEF ListsAreGood
  <2>2. CASE fetched' = <<>>
    BY <2>2
  <2>3. CASE fetched' = <<stored>>
    BY <1>2, <2>3
  <2>4. QED
    BY <2>1, <2>2, <2>3 DEF FetchedStays
<1>4. \A i \in 1 .. Len(puts') : Good(puts'[i].tabs, unsearched')
  BY <1>1 DEF ListsAreGood
<1> HIDE DEF FetchedStays
<1>5. QED
  BY Zenon, <1>2, <1>3, <1>4 DEF ListsAreGood

\* A page that is left knows tabs that are known.
LEMMA LeavingKeeps ==
    ASSUME TabsTypes, NEW cs \in Callbacks, FoundTabs(cs) \subseteq Known, Leaving(cs)
    PROVE  callbacks' \in Callbacks /\ FoundTabs(callbacks') \subseteq Known
<1>1. ASSUME NEW s \in Saves
      PROVE  /\ callbacks'[s] \in [phase : {"none", "live", "left"}, to : Pages,
                                   found : Seq(Tab)]
             /\ Elems(callbacks'[s].found) \subseteq Known
  <2>1. /\ cs[s] \in [phase : {"none", "live", "left"}, to : Pages, found : Seq(Tab)]
        /\ Elems(cs[s].found) \subseteq Known
    BY DEF Callbacks, FoundTabs
  <2>2. PICK f : f = Found(cs[s].to)
    OBVIOUS
  <2>3. f \in Seq(Tab) /\ Elems(f) \subseteq Known
    BY <2>2, FoundFacts DEF Known
  <2>4. \/ callbacks'[s] = cs[s]
        \/ callbacks'[s] = [phase |-> "left", to |-> cs[s].to, found |-> f]
    BY <2>2 DEF Leaving
  <2>5. QED
    BY <2>1, <2>3, <2>4
<1>2. callbacks' \in Callbacks
  <2>1. callbacks' = [s \in Saves |-> callbacks'[s]]
    BY DEF Leaving
  <2>2. QED
    BY <1>1, <2>1 DEF Callbacks
<1>3. QED
  BY <1>1, <1>2 DEF FoundTabs

\* The callbacks of the saves are ones that may be left, also when one save is over.
LEMMA CallbackFacts ==
    ASSUME TabsTypes
    PROVE  /\ callbacks \in Callbacks /\ FoundTabs(callbacks) \subseteq Known
           /\ \A s \in Saves :
                /\ [callbacks EXCEPT ![s] = NoSave] \in Callbacks
                /\ FoundTabs([callbacks EXCEPT ![s] = NoSave]) \subseteq Known
<1>1. callbacks \in Callbacks /\ FoundTabs(callbacks) \subseteq Known
  BY DEF TabsTypes, Known
<1>2. /\ NoSave \in [phase : {"none", "live", "left"}, to : Pages, found : Seq(Tab)]
      /\ Elems(NoSave.found) = {}
  BY FirstTabFacts DEF NoSave, Elems
<1>3. ASSUME NEW s \in Saves, NEW cs, cs = [callbacks EXCEPT ![s] = NoSave]
      PROVE  cs \in Callbacks /\ FoundTabs(cs) \subseteq Known
  <2>1. cs \in Callbacks
    BY <1>1, <1>2, <1>3 DEF Callbacks
  <2>2. \A r \in Saves : cs[r] = NoSave \/ cs[r] = callbacks[r]
    BY <1>1, <1>3 DEF Callbacks
  <2>3. \A r \in Saves : Elems(cs[r].found) \subseteq Known
    BY <1>1, <1>2, <2>2 DEF FoundTabs
  <2>4. QED
    BY <2>1, <2>3 DEF FoundTabs
<1>4. QED
  BY <1>1, <1>3

\* What the server will hold is not disturbed by a change that arms the PUT.
LEMMA MemoryStays ==
    ASSUME TabsTypes, MemoryInv, UNCHANGED <<tabsReady, signedIn, requests>>,
           AfterChange \/ UNCHANGED <<timer, tabs, activeTabID>>
    PROVE  MemoryInv'
<1>1. UNCHANGED <<stored, puts, behind>>
  BY DEF requests
<1>2. \A i, j \in 1 .. Len(puts') : i < j /\ puts'[j].overtaken => puts'[i].overtaken
  BY <1>1 DEF MemoryInv
<1>3. CASE AfterChange
  <2>1. ~(tabsReady' /\ signedIn' /\ ~timer')
    BY <1>3 DEF AfterChange, TabsTypes
  <2>2. QED
    BY Zenon, <1>2, <2>1 DEF MemoryInv
<1>4. CASE UNCHANGED <<timer, tabs, activeTabID>>
  <2>1. LastSent' = LastSent
    BY <1>1 DEF LastSent
  <2>2. Savable(tabs)' = Savable(tabs) /\ StoredIsShown' = StoredIsShown
    BY <1>1, <1>4 DEF Savable, StoredIsShown, Sanitized, Elems, TabIDs
  <2>3. QED
    BY <1>1, <1>2, <1>4, <2>1, <2>2 DEF MemoryInv
<1>5. QED
  BY <1>3, <1>4

\* The tab that the window turns to gives it its page: there is no other tab with its id, and
\* one of another time has the same page.
LEMMA TurnedTo ==
    ASSUME NEW t \in Tab, activeTabID' = t.id, view' = t.view, selectedProject' = t.project,
           NEW K, NEW n, PagesStay(K, n), t \in K, Elems(tabs') \subseteq K, UniqueIDs(tabs'),
           stray' \/ t.id \in TabIDs(tabs')
    PROVE  /\ ActiveTabIsShown' /\ activeTabID' \in IDs
           /\ selectedProject' \in Projects \cup {NoProject}
<1>1. \A x \in Elems(tabs') : x.id = t.id => x.view = t.view /\ x.project = t.project
  <2>1. \A x \in Elems(tabs') : x.id = t.id => PageOf(x) = PageOf(t)
    BY DEF PagesStay
  <2>2. QED
    BY <2>1 DEF PageOf, Page
<1>2. stray' \/ activeTabID' \in TabIDs(tabs')
  OBVIOUS
<1>3. ActiveTabIsShown'
  BY <1>1, <1>2 DEF ActiveTabIsShown, UniqueIDs
<1>4. QED
  BY <1>3 DEF Tab

\* The window that does not turn shows what it showed, when its tabs keep their ids and pages.
LEMMA NotTurned ==
    ASSUME TabsIInv, UNCHANGED <<activeTabID, view, selectedProject>>, StillStray,
           \A x \in Elems(tabs') : \E t \in Elems(tabs) :
              x.id = t.id /\ x.view = t.view /\ x.project = t.project,
           activeTabID \in TabIDs(tabs) => activeTabID \in TabIDs(tabs'), UniqueIDs(tabs')
    PROVE  /\ ActiveTabIsShown' /\ activeTabID' \in IDs
           /\ selectedProject' \in Projects \cup {NoProject}
<1>1. \A x \in Elems(tabs') : x.id = activeTabID => x.view = view /\ x.project = selectedProject
  BY DEF TabsIInv, ActiveTabIsShown
<1>2. stray' \/ activeTabID \in TabIDs(tabs')
  BY DEF TabsIInv, ActiveTabIsShown, StillStray
<1>3. ActiveTabIsShown'
  BY <1>1, <1>2 DEF ActiveTabIsShown, UniqueIDs
<1>4. QED
  BY <1>3 DEF TabsIInv, TabsTypes

-----------------------------------------------------------------------------
(* The steps preserve the invariant. *)

\* It holds at the start, and nothing is stored.
LEMMA TabsStart == TabsInit => TabsIInv
<1> SUFFICES ASSUME TabsInit PROVE TabsIInv
  OBVIOUS
<1>1. tabs = <<FirstTab>> /\ tabs \in Seq(Tab) /\ Len(tabs) = 1 /\ tabs[1] = FirstTab
  BY FirstTabFacts DEF TabsInit
<1>2. Elems(tabs) = {FirstTab} /\ tabs # <<>>
  BY <1>1 DEF Elems
<1>3. ActiveTabIsShown
  BY <1>1, <1>2, FirstTabFacts DEF ActiveTabIsShown, TabsInit, TabIDs
<1>4. entries \in Seq(Tab \cup {Blank}) /\ here \in 1 .. Len(entries) /\ EntryTabs(entries) = {}
  BY DEF TabsInit, EntryTabs, Elems
<1>5. /\ stored \in Row /\ fetched \in Seq(Row) /\ puts \in Seq(Sent)
      /\ Len(stored.tabs) = 0 /\ Len(fetched) = 0 /\ Len(puts) = 0
  BY FirstTabFacts DEF TabsInit, Row
<1>6. /\ NoSave \in [phase : {"none", "live", "left"}, to : Pages, found : Seq(Tab)]
      /\ Elems(NoSave.found) = {}
  BY FirstTabFacts DEF NoSave, Elems
<1>7. callbacks \in Callbacks /\ FoundTabs(callbacks) = {}
  BY <1>6 DEF TabsInit, Callbacks, FoundTabs
<1>8. TabsTypes
  <2>1. fresh \in 1 .. MaxNew + 1 /\ unsearched \subseteq IDs
    BY TabsAssumption DEF TabsInit
  <2>2. /\ tabsReady \in BOOLEAN /\ signedIn \in BOOLEAN /\ timer \in BOOLEAN
        /\ activeTabID \in IDs /\ selectedProject \in Projects \cup {NoProject}
    BY FirstTabFacts DEF TabsInit
  <2>3. QED
    BY <1>1, <1>2, <1>4, <1>5, <1>7, <2>1, <2>2 DEF TabsTypes
<1>9. ListsAreGood
  <2>1. \A u : Good(tabs, u)
    BY <1>1, <1>2 DEF Good, UniqueIDs, NoTwins
  <2>2. \A u : Good(stored.tabs, u)
    BY <1>5 DEF Good, UniqueIDs, NoTwins, Elems
  <2>3. QED
    BY <1>5, <2>1, <2>2 DEF ListsAreGood
<1>10. PagesStay(Known, fresh)
  <2>1. Known = {FirstTab}
    BY <1>2, <1>4, <1>5, <1>7 DEF Known, RowTabs, Elems
  <2>2. FirstTab.id < fresh
    BY FirstTabFacts DEF TabsInit, FirstID
  <2>3. QED
    BY <2>1, <2>2 DEF PagesStay
<1>11. MemoryInv
  BY <1>5 DEF MemoryInv, TabsInit
<1>12. QED
  BY <1>3, <1>8, <1>9, <1>10, <1>11 DEF TabsIInv

\* What a step of the window has to preserve.
LEMMA WindowStepKeeps ==
    ASSUME TabsIInv, UNCHANGED <<tabsReady, signedIn, requests>>,
           AfterChange \/ UNCHANGED <<timer, tabs, activeTabID>>,
           tabs' \in Seq(Tab), tabs' # <<>>, Good(tabs', unsearched'),
           ActiveTabIsShown', activeTabID' \in IDs,
           selectedProject' \in Projects \cup {NoProject},
           entries' \in Seq(Tab \cup {Blank}), here' \in 1 .. Len(entries'),
           NEW cs \in Callbacks, FoundTabs(cs) \subseteq Known, Leaving(cs),
           fresh' \in 1 .. MaxNew + 1, unsearched \subseteq unsearched', unsearched' \subseteq IDs,
           NEW K, PagesStay(K, fresh'), Known \subseteq K,
           Elems(tabs') \cup EntryTabs(entries') \subseteq K
    PROVE  TabsIInv'
<1>1. UNCHANGED <<stored, fetched, puts>> /\ TabsTypes /\ MemoryInv /\ ListsAreGood
  BY DEF requests, TabsIInv
<1>2. callbacks' \in Callbacks /\ FoundTabs(callbacks') \subseteq Known
  BY <1>1, LeavingKeeps
<1>3. TabsTypes'
  <2>1. timer' \in BOOLEAN
    BY <1>1 DEF AfterChange, TabsTypes
  <2>2. QED
    BY <1>1, <1>2, <2>1 DEF TabsTypes
<1>4. MemoryInv'
  BY <1>1, MemoryStays
<1>5. FetchedStays
  BY <1>1 DEF FetchedStays
<1>6. ListsAreGood'
  BY <1>1, <1>5, ListsStay
<1>7. PagesStay(Known, fresh)'
  <2>1. Known' \subseteq K
    BY <1>1, <1>2, <1>5, KnownStays
  <2>2. PagesStay(Known', fresh')
    BY <2>1 DEF PagesStay
  <2>3. QED
    BY <2>2
<1>8. QED
  BY <1>3, <1>4, <1>6, <1>7 DEF TabsIInv

\* Turning to a tab that is known: one of the tabs, or one that a page that was left found.
LEMMA SwitchTabKeeps ==
    ASSUME TabsIInv, UNCHANGED <<tabsReady, signedIn, requests, unsearched>>,
           NEW t \in Known, SwitchTab(t), stray' \/ t.id \in TabIDs(tabs),
           NEW cs \in Callbacks, FoundTabs(cs) \subseteq Known, Leaving(cs)
    PROVE  TabsIInv'
<1>1. TabsTypes /\ ListsAreGood /\ PagesStay(Known, fresh) /\ t \in Tab
  BY KnownFacts DEF TabsIInv
<1>2. UNCHANGED <<tabs, fresh>> /\ ActivateTab(t, "push")
  BY DEF SwitchTab
<1>3. /\ activeTabID' = t.id /\ view' = t.view /\ selectedProject' = t.project
      /\ entries' \in Seq(Tab \cup {Blank}) /\ here' \in 1 .. Len(entries')
      /\ EntryTabs(entries') \subseteq EntryTabs(entries) \cup {t}
  BY <1>1, <1>2, ActivateTabFacts
<1>4. AfterChange \/ UNCHANGED <<timer, tabs, activeTabID>>
  BY <1>2, <1>3 DEF SwitchTab
<1>5. Good(tabs', unsearched') /\ tabs' \in Seq(Tab) /\ tabs' # <<>>
  BY <1>1, <1>2 DEF ListsAreGood, TabsTypes
<1>6. Elems(tabs') \cup EntryTabs(entries') \subseteq Known /\ UniqueIDs(tabs')
  BY <1>2, <1>3, <1>5 DEF Known, Good
<1>7. /\ ActiveTabIsShown' /\ activeTabID' \in IDs
      /\ selectedProject' \in Projects \cup {NoProject}
  <2>1. stray' \/ t.id \in TabIDs(tabs')
    BY <1>2
  <2>2. QED
    BY <1>1, <1>3, <1>6, <2>1, TurnedTo
<1>8. fresh' \in 1 .. MaxNew + 1 /\ unsearched' \subseteq IDs /\ PagesStay(Known, fresh')
  BY <1>1, <1>2 DEF TabsTypes
<1>9. QED
  BY <1>3, <1>4, <1>5, <1>6, <1>7, <1>8, WindowStepKeeps

\* A page that no tab shows gets one, or any page, when the tabs are not searched.
LEMMA AddTabKeeps ==
    ASSUME TabsIInv, UNCHANGED <<tabsReady, signedIn, requests>>, NEW p \in Pages, AddTab(p),
           unsearched' = unsearched \/ unsearched' = unsearched \cup {fresh},
           fresh \in unsearched' \/ \A t \in Elems(tabs) : ~Showing(p, t),
           NEW cs \in Callbacks, FoundTabs(cs) \subseteq Known, Leaving(cs)
    PROVE  TabsIInv'
<1>1. TabsTypes /\ ListsAreGood /\ PagesStay(Known, fresh) /\ Known \subseteq Tab
  BY KnownFacts DEF TabsIInv
<1>2. PICK tab : tab = TabOf(fresh, p)
  OBVIOUS
<1>3. /\ fresh <= MaxNew /\ fresh' = fresh + 1 /\ tabs' \in Added(tab)
      /\ ActivateTab(tab, "push") /\ AfterChange
  BY <1>2 DEF AddTab
<1>4. fresh \in Nat /\ fresh \in IDs /\ fresh' \in 1 .. MaxNew + 1
  BY <1>1, <1>3, TabsAssumption DEF TabsTypes, IDs
<1>5. tab \in Tab /\ tab.id = fresh /\ PageOf(tab) = p
  BY <1>2, <1>4, TabOfPage
<1>6. /\ tabs \in Seq(Tab) /\ UniqueIDs(tabs) /\ NoTwins(tabs, unsearched)
      /\ tabs' \in Seq(Tab) /\ UniqueIDs(tabs')
      /\ tab \in Elems(tabs') /\ Elems(tabs') \subseteq {tab} \cup Elems(tabs)
  <2>1. tabs \in Seq(Tab) /\ UniqueIDs(tabs) /\ NoTwins(tabs, unsearched)
    BY <1>1 DEF TabsTypes, ListsAreGood, Good
  <2>2. QED
    BY <1>3, <1>5, <2>1, AddedFacts
<1>7. Good(tabs', unsearched') /\ tabs' # <<>>
  <2>1. CASE fresh \in unsearched'
    <3>1. NoTwins(tabs', unsearched')
      BY <1>5, <1>6, <2>1 DEF NoTwins
    <3>2. QED
      BY <1>6, <3>1 DEF Good, Elems
  <2>2. CASE \A t \in Elems(tabs) : ~Showing(p, t)
    <3>1. \A t \in Elems(tabs) : ~Showing(PageOf(tab), t) /\ ~Showing(PageOf(t), tab)
      BY <1>5, <2>2 DEF Showing, PageOf, Page
    <3>2. \A t, x \in Elems(tabs') : t # x /\ Showing(PageOf(t), x) =>
             t \in Elems(tabs) /\ x \in Elems(tabs)
      BY <1>6, <3>1
    <3>3. NoTwins(tabs', unsearched')
      BY <1>6, <3>2 DEF NoTwins
    <3>4. QED
      BY <1>6, <3>3 DEF Good, Elems
  <2>3. QED
    BY <2>1, <2>2
<1>8. /\ activeTabID' = tab.id /\ view' = tab.view /\ selectedProject' = tab.project
      /\ entries' \in Seq(Tab \cup {Blank}) /\ here' \in 1 .. Len(entries')
      /\ EntryTabs(entries') \subseteq EntryTabs(entries) \cup {tab}
  BY <1>1, <1>3, <1>5, ActivateTabFacts
<1>9. PICK K : K = Known \cup {tab}
  OBVIOUS
<1>10. PagesStay(K, fresh') /\ Known \subseteq K /\ tab \in K
       /\ Elems(tabs') \cup EntryTabs(entries') \subseteq K
  <2>1. PagesStay(K, fresh')
    BY <1>1, <1>3, <1>4, <1>5, <1>9, NewTabFacts
  <2>2. QED
    BY <1>6, <1>8, <1>9, <2>1 DEF Known
<1>11. /\ ActiveTabIsShown' /\ activeTabID' \in IDs
       /\ selectedProject' \in Projects \cup {NoProject}
  <2>1. tab.id \in TabIDs(tabs')
    BY <1>6 DEF TabIDs
  <2>2. QED
    BY <1>5, <1>6, <1>8, <1>10, <2>1, TurnedTo
<1>12. unsearched \subseteq unsearched' /\ unsearched' \subseteq IDs
  BY <1>1, <1>4 DEF TabsTypes
<1>13. QED
  BY <1>3, <1>4, <1>6, <1>7, <1>8, <1>10, <1>11, <1>12, WindowStepKeeps

\* A link turns to the tab for its page, or opens one when there is none; so does a click on
\* a tab.
LEMMA OpenTabKeeps ==
    ASSUME TabsIInv, (\E p \in Links : OpenTab(p)) \/ (\E t \in Elems(tabs) : ClickTab(t))
    PROVE  TabsIInv'
<1>1. TabsTypes
  BY DEF TabsIInv
<1>2. /\ UNCHANGED <<tabsReady, signedIn, requests, unsearched>> /\ Leaving(callbacks)
      /\ callbacks \in Callbacks /\ FoundTabs(callbacks) \subseteq Known
  BY <1>1, CallbackFacts DEF OpenTab, ClickTab, Rest
<1>3. ASSUME NEW t \in Elems(tabs), SwitchTab(t) PROVE TabsIInv'
  <2>1. t \in Known /\ t.id \in TabIDs(tabs)
    BY DEF Known, TabIDs
  <2>2. QED
    BY <1>2, <1>3, <2>1, SwitchTabKeeps
<1>4. ASSUME NEW p \in Links, OpenTab(p) PROVE TabsIInv'
  <2>1. CASE Found(p) # <<>>
    BY <1>1, <1>3, <1>4, <2>1, FoundFacts DEF OpenTab, Opened
  <2>2. CASE Found(p) = <<>>
    <3>1. p \in Pages /\ AddTab(p) /\ \A t \in Elems(tabs) : ~Showing(p, t)
      BY <1>1, <1>4, <2>2, FoundFacts, LinkedPage DEF OpenTab, Opened
    <3>2. QED
      BY <1>2, <3>1, AddTabKeeps
  <2>3. QED
    BY <2>1, <2>2
<1>5. QED
  BY <1>3, <1>4 DEF ClickTab

\* What the steps of the window leave as it is, and what the callbacks may become.
LEMMA RestFacts ==
    ASSUME TabsIInv, Rest
    PROVE  /\ UNCHANGED <<tabsReady, signedIn, requests>> /\ StillStray
           /\ Leaving(callbacks)
           /\ callbacks \in Callbacks /\ FoundTabs(callbacks) \subseteq Known
  BY CallbackFacts DEF Rest, TabsIInv

\* Closing a tab leaves the active one, or turns to another.
LEMMA CloseTabKeeps == ASSUME TabsIInv, NEW i \in 1 .. Len(tabs), CloseTab(i) PROVE TabsIInv'
<1> DEFINE next == Without(tabs, tabs[i].id)
           fallback == next[IF i > 2 THEN i - 1 ELSE 1]
<1>1. /\ Len(tabs) > 1 /\ tabs' = next /\ AfterChange /\ Rest
      /\ UNCHANGED <<fresh, unsearched>>
      /\ IF tabs[i].id = activeTabID THEN ActivateTab(fallback, "replace")
         ELSE /\ UNCHANGED <<activeTabID, view, selectedProject, here>>
              /\ entries' = Stamped(next, activeTabID, tabsReady)
  BY DEF CloseTab
<1>2. /\ TabsTypes /\ tabs \in Seq(Tab) /\ Len(tabs) \in Nat /\ Good(tabs, unsearched)
      /\ PagesStay(Known, fresh)
  BY DEF TabsIInv, TabsTypes, ListsAreGood
<1>3. /\ Part(next, tabs) /\ Elems(next) = {t \in Elems(tabs) : t.id # tabs[i].id}
      /\ Len(next) = Len(tabs) - 1
  BY <1>2, WithoutFacts, WithoutOne DEF Good
<1> HIDE DEF next
<1>4. next \in Seq(Tab) /\ Good(next, unsearched) /\ Len(next) # 0
  <2>1. next \in Seq(Tab) /\ Good(next, unsearched)
    BY <1>2, <1>3, GoodPart
  <2>2. QED
    BY <1>1, <1>2, <1>3, <2>1
<1>5. /\ entries' \in Seq(Tab \cup {Blank}) /\ here' \in 1 .. Len(entries')
      /\ EntryTabs(entries') \subseteq EntryTabs(entries) \cup Elems(next)
      /\ ActiveTabIsShown' /\ activeTabID' \in IDs
      /\ selectedProject' \in Projects \cup {NoProject}
  <2>1. CASE tabs[i].id = activeTabID
    <3>1. PICK k \in 1 .. Len(next) : fallback = next[k]
      BY <1>1, <1>2, <1>3
    <3>2. fallback \in Tab /\ fallback \in Elems(next)
      BY <1>4, <3>1 DEF Elems
    <3> HIDE DEF fallback
    <3>3. /\ activeTabID' = fallback.id /\ view' = fallback.view
          /\ selectedProject' = fallback.project
          /\ entries' \in Seq(Tab \cup {Blank}) /\ here' \in 1 .. Len(entries')
          /\ EntryTabs(entries') \subseteq EntryTabs(entries) \cup {fallback}
      BY <1>1, <1>2, <2>1, <3>2, ActivateTabFacts
    <3>4. fallback \in Known /\ Elems(tabs') \subseteq Known /\ fallback.id \in TabIDs(tabs')
      BY <1>1, <1>3, <3>2 DEF Known, TabIDs
    <3>5. UniqueIDs(tabs')
      BY <1>1, <1>4 DEF Good
    <3>6. /\ ActiveTabIsShown' /\ activeTabID' \in IDs
          /\ selectedProject' \in Projects \cup {NoProject}
      BY <1>2, <3>2, <3>3, <3>4, <3>5, TurnedTo
    <3>7. QED
      BY <3>2, <3>3, <3>6
  <2>2. CASE tabs[i].id # activeTabID
    <3>1. /\ UNCHANGED <<activeTabID, view, selectedProject, here>>
          /\ entries' = Stamped(next, activeTabID, tabsReady)
      BY <1>1, <2>2
    <3>2. /\ entries' \in Seq(Tab \cup {Blank}) /\ here' \in 1 .. Len(entries')
          /\ EntryTabs(entries') \subseteq EntryTabs(entries) \cup Elems(next)
      BY <1>2, <1>4, <3>1, StampedFacts
    <3>3. activeTabID \in TabIDs(tabs) => activeTabID \in TabIDs(tabs')
      BY <1>1, <1>3, <2>2 DEF TabIDs
    <3>4. UniqueIDs(tabs') /\ Elems(tabs') \subseteq Elems(tabs) /\ StillStray
      BY <1>1, <1>3, <1>4, RestFacts DEF Good
    <3>5. QED
      BY <3>1, <3>2, <3>3, <3>4, NotTurned
  <2>3. QED
    BY <2>1, <2>2
<1>6. Elems(tabs') \cup EntryTabs(entries') \subseteq Known
  BY <1>1, <1>3, <1>5 DEF Known
<1>7. /\ tabs' \in Seq(Tab) /\ tabs' # <<>> /\ Good(tabs', unsearched')
      /\ fresh' \in 1 .. MaxNew + 1 /\ unsearched' \subseteq IDs /\ PagesStay(Known, fresh')
  BY <1>1, <1>2, <1>4 DEF TabsTypes
<1>8. QED
  BY <1>1, <1>5, <1>6, <1>7, RestFacts, WindowStepKeeps

\* Dragging a tab.
LEMMA ReorderTabKeeps ==
    ASSUME TabsIInv, NEW i \in 1 .. Len(tabs), NEW j \in 1 .. Len(tabs), ReorderTab(i, j)
    PROVE  TabsIInv'
<1>1. /\ tabs' = Moved(tabs, i, j) /\ entries' = Stamped(tabs, activeTabID, tabsReady)
      /\ UNCHANGED <<activeTabID, view, selectedProject, here, fresh, unsearched>>
      /\ AfterChange /\ Rest
  BY DEF ReorderTab
<1>2. /\ TabsTypes /\ tabs \in Seq(Tab) /\ Good(tabs, unsearched)
      /\ PagesStay(Known, fresh)
  BY DEF TabsIInv, TabsTypes, ListsAreGood
<1>3. Part(tabs', tabs) /\ Elems(tabs') = Elems(tabs)
  BY <1>1, <1>2, MovedFacts
<1>4. tabs' \in Seq(Tab) /\ tabs' # <<>> /\ Good(tabs', unsearched')
  <2>1. tabs' \in Seq(Tab) /\ Good(tabs', unsearched')
    BY <1>1, <1>2, <1>3, GoodPart
  <2>2. tabs[1] \in Elems(tabs)
    BY <1>2 DEF TabsTypes, Elems
  <2>3. tabs' # <<>>
    BY <1>3, <2>2 DEF Elems
  <2>4. QED
    BY <2>1, <2>3
<1>5. /\ entries' \in Seq(Tab \cup {Blank}) /\ here' \in 1 .. Len(entries')
      /\ EntryTabs(entries') \subseteq EntryTabs(entries) \cup Elems(tabs)
  BY <1>1, <1>2, StampedFacts
<1>6. /\ ActiveTabIsShown' /\ activeTabID' \in IDs
      /\ selectedProject' \in Projects \cup {NoProject}
  <2>1. activeTabID \in TabIDs(tabs) => activeTabID \in TabIDs(tabs')
    BY <1>3 DEF TabIDs
  <2>2. UniqueIDs(tabs') /\ StillStray
    BY <1>1, <1>4, RestFacts DEF Good
  <2>3. QED
    BY <1>1, <1>3, <2>1, <2>2, NotTurned
<1>7. Elems(tabs') \cup EntryTabs(entries') \subseteq Known
  BY <1>3, <1>5 DEF Known
<1>8. fresh' \in 1 .. MaxNew + 1 /\ unsearched' \subseteq IDs /\ PagesStay(Known, fresh')
  BY <1>1, <1>2 DEF TabsTypes
<1>9. QED
  BY <1>1, <1>4, <1>5, <1>6, <1>7, <1>8, RestFacts, WindowStepKeeps

\* A new title of a draft: its tab has another label, and the page it had.
LEMMA RenameDraftKeeps == ASSUME TabsIInv, NEW b \in BOOLEAN, RenameDraft(b) PROVE TabsIInv'
<1> DEFINE Labelled(t) == [t EXCEPT !.long = b]
<1>1. /\ UNCHANGED <<activeTabID, view, selectedProject, here, fresh, unsearched>>
      /\ entries' = Stamped(tabs', activeTabID, tabsReady) /\ AfterChange /\ Rest
      /\ tabs' = [i \in 1 .. Len(tabs) |->
                    IF tabs[i].id = activeTabID THEN Labelled(tabs[i]) ELSE tabs[i]]
  BY DEF RenameDraft
<1>2. /\ TabsTypes /\ tabs \in Seq(Tab) /\ tabs # <<>> /\ Len(tabs) \in Nat
      /\ Good(tabs, unsearched) /\ PagesStay(Known, fresh)
  BY DEF TabsIInv, TabsTypes, ListsAreGood
<1>3. PICK old \in Elems(tabs) : old.id = activeTabID /\ old.page = "new"
  BY DEF RenameDraft
<1>4. \A i \in 1 .. Len(tabs) : tabs[i] \in Tab /\ tabs[i] \in Elems(tabs)
  BY <1>2 DEF Elems
<1>5. old \in Tab
  BY <1>4 DEF Elems
<1>6. \A t \in Elems(tabs) : t.id = activeTabID => t = old
  BY <1>2, <1>3 DEF Good, UniqueIDs, Elems
<1>7. PICK new : new = Labelled(old)
  OBVIOUS
<1>8. /\ new \in Tab /\ new.id = old.id /\ new.view = old.view /\ new.project = old.project
      /\ new.page = "new" /\ PageOf(new) = PageOf(old)
  BY <1>3, <1>5, <1>7 DEF Tab, PageOf, Page
<1> HIDE DEF Labelled
<1>9. /\ Len(tabs') = Len(tabs)
      /\ \A i \in 1 .. Len(tabs) :
            /\ tabs'[i].id = tabs[i].id
            /\ tabs'[i] = new \/ tabs'[i] = tabs[i]
  <2>1. \A i \in 1 .. Len(tabs) :
           tabs'[i] = IF tabs[i].id = activeTabID THEN new ELSE tabs[i]
    BY <1>1, <1>4, <1>6, <1>7
  <2>2. Len(tabs') = Len(tabs)
    BY <1>1, <1>2
  <2>3. QED
    BY <1>3, <1>8, <2>1, <2>2
<1>10. tabs' \in Seq(Tab) /\ tabs' # <<>>
  <2>1. tabs' = [i \in 1 .. Len(tabs) |-> tabs'[i]]
    BY <1>1
  <2>2. \A i \in 1 .. Len(tabs) : tabs'[i] \in Tab
    BY <1>4, <1>8, <1>9
  <2>3. tabs' \in Seq(Tab)
    BY <1>2, <2>1, <2>2
  <2>4. QED
    BY <1>2, <1>9, <2>3
<1>11. Elems(tabs') \subseteq Elems(tabs) \cup {new}
  BY <1>4, <1>9 DEF Elems
<1>12. Good(tabs', unsearched')
  <2>1. UniqueIDs(tabs')
    BY <1>2, <1>9 DEF Good, UniqueIDs
  <2>2. \A t, x \in Elems(tabs') : Showing(PageOf(t), x) => t \in Elems(tabs) /\ x \in Elems(tabs)
    BY <1>8, <1>11 DEF Showing, PageOf, Page
  <2>3. NoTwins(tabs', unsearched')
    BY <1>1, <1>2, <2>2 DEF Good, NoTwins
  <2>4. QED
    BY <2>1, <2>3 DEF Good
<1>13. /\ entries' \in Seq(Tab \cup {Blank}) /\ here' \in 1 .. Len(entries')
       /\ EntryTabs(entries') \subseteq EntryTabs(entries) \cup Elems(tabs')
  <2>1. PICK s : s = tabs'
    OBVIOUS
  <2>2. entries' = Stamped(s, activeTabID, tabsReady) /\ s \in Seq(Tab) /\ here' = here
    BY <1>1, <1>10, <2>1
  <2>3. QED
    BY <1>2, <2>1, <2>2, StampedFacts
<1>14. PICK K : K = Known \cup {new}
  OBVIOUS
<1>15. PagesStay(K, fresh') /\ Known \subseteq K
  <2>1. old \in Known
    BY DEF Known
  <2>2. QED
    BY <1>1, <1>2, <1>8, <1>14, <2>1 DEF PagesStay
<1>16. Elems(tabs') \cup EntryTabs(entries') \subseteq K
  BY <1>11, <1>13, <1>14 DEF Known
<1>17. /\ ActiveTabIsShown' /\ activeTabID' \in IDs
       /\ selectedProject' \in Projects \cup {NoProject}
  <2>1. activeTabID \in TabIDs(tabs')
    <3>1. PICK i \in 1 .. Len(tabs) : tabs[i] = old
      BY DEF Elems
    <3>2. tabs'[i] \in Elems(tabs') /\ tabs'[i].id = activeTabID
      BY <1>3, <1>9, <3>1 DEF Elems
    <3>3. QED
      BY <3>2 DEF TabIDs
  <2>2. \A x \in Elems(tabs') : \E t \in Elems(tabs) :
           x.id = t.id /\ x.view = t.view /\ x.project = t.project
    BY <1>8, <1>11
  <2>3. UniqueIDs(tabs') /\ StillStray
    BY <1>1, <1>12, RestFacts DEF Good
  <2>4. QED
    BY <1>1, <2>1, <2>2, <2>3, NotTurned
<1>18. fresh' \in 1 .. MaxNew + 1 /\ unsearched' \subseteq IDs
  BY <1>1, <1>2 DEF TabsTypes
<1>19. QED
  BY <1>1, <1>10, <1>12, <1>13, <1>15, <1>16, <1>17, <1>18, RestFacts, WindowStepKeeps

\* An entry of the knowledge panel, and any step that leaves the tabs and what is shown.
LEMMA SameScreenKeeps ==
    ASSUME TabsIInv, Rest, UNCHANGED <<screen, timer, fresh, unsearched>>,
           entries' \in Seq(Tab \cup {Blank}), here' \in 1 .. Len(entries'),
           EntryTabs(entries') \subseteq EntryTabs(entries)
    PROVE  TabsIInv'
<1>1. UNCHANGED <<tabs, activeTabID, view, selectedProject, timer, fresh, unsearched>>
  BY DEF screen
<1>2. /\ tabs' \in Seq(Tab) /\ tabs' # <<>> /\ Good(tabs', unsearched') /\ UniqueIDs(tabs')
      /\ fresh' \in 1 .. MaxNew + 1 /\ unsearched' \subseteq IDs
  BY <1>1 DEF TabsIInv, TabsTypes, ListsAreGood, Good
<1>3. /\ ActiveTabIsShown' /\ activeTabID' \in IDs
      /\ selectedProject' \in Projects \cup {NoProject}
  BY <1>1, <1>2, NotTurned, RestFacts
<1>4. Elems(tabs') \cup EntryTabs(entries') \subseteq Known /\ PagesStay(Known, fresh')
  BY <1>1 DEF Known, TabsIInv
<1>5. QED
  BY <1>1, <1>2, <1>3, <1>4, RestFacts, WindowStepKeeps

\* An entry of the knowledge panel.
LEMMA PanelPushesEntryKeeps == ASSUME TabsIInv, PanelPushesEntry PROVE TabsIInv'
<1>1. PICK es, h : es = entries' /\ h = here'
  OBVIOUS
<1>2. es = Append(SubSeq(entries, 1, here), Blank) /\ h = here + 1 /\ TabsTypes
  BY <1>1 DEF PanelPushesEntry, TabsIInv
<1>3. /\ es \in Seq(Tab \cup {Blank}) /\ h \in 1 .. Len(es)
      /\ EntryTabs(es) \subseteq EntryTabs(entries) \cup {Blank}
  BY <1>2, EntryFacts
<1>4. EntryTabs(entries') \subseteq EntryTabs(entries)
  BY <1>1, <1>3 DEF EntryTabs
<1>5. QED
  BY <1>1, <1>3, <1>4, SameScreenKeeps DEF PanelPushesEntry

\* Going back or forward turns to a tab that is there, or brings one back.
LEMMA PopStateKeeps ==
    ASSUME TabsIInv, NEW h \in 1 .. Len(entries), PopState(h) PROVE TabsIInv'
<1>1. h \in 1 .. Len(entries) /\ here' = h /\ UNCHANGED entries /\ Rest /\ UNCHANGED fresh
  BY DEF PopState
<1>2. /\ TabsTypes /\ tabs \in Seq(Tab) /\ tabs # <<>> /\ Good(tabs, unsearched)
      /\ PagesStay(Known, fresh) /\ \A t \in Elems(tabs) : t \in Tab
  BY DEF TabsIInv, TabsTypes, ListsAreGood, Elems
<1>3. /\ entries' \in Seq(Tab \cup {Blank}) /\ here' \in 1 .. Len(entries')
      /\ EntryTabs(entries') \subseteq Known /\ EntryTabs(entries') \subseteq EntryTabs(entries)
      /\ fresh' \in 1 .. MaxNew + 1 /\ PagesStay(Known, fresh')
  BY <1>1, <1>2 DEF TabsTypes, Known
<1>4. CASE entries[h] = Blank
  <2>1. entries[h].id \notin TabIDs(tabs)
    <3>1. \A t \in Elems(tabs) : t.id \in IDs
      BY <1>2 DEF Tab
    <3>2. QED
      BY <1>4, <3>1 DEF Blank, TabIDs, IDs
  <2>2. UNCHANGED <<screen, timer, unsearched>>
    BY <1>4, <2>1 DEF PopState
  <2>3. QED
    BY <1>1, <1>3, <2>2, SameScreenKeeps
<1>5. CASE entries[h] # Blank /\ entries[h].id \in TabIDs(tabs)
  <2> DEFINE existing == CHOOSE t \in Elems(tabs) : t.id = entries[h].id
  <2>1. existing \in Elems(tabs)
    BY <1>5 DEF TabIDs
  <2>2. /\ ActivateTab(existing, "none") /\ UNCHANGED <<tabs, unsearched>>
        /\ IF existing.id = activeTabID THEN UNCHANGED timer ELSE AfterChange
    BY <1>5 DEF PopState
  <2> HIDE DEF existing
  <2>3. /\ activeTabID' = existing.id /\ view' = existing.view
        /\ selectedProject' = existing.project
    BY <2>2 DEF ActivateTab
  <2>4. AfterChange \/ UNCHANGED <<timer, tabs, activeTabID>>
    BY <2>2, <2>3
  <2>5. /\ tabs' \in Seq(Tab) /\ tabs' # <<>> /\ Good(tabs', unsearched') /\ UniqueIDs(tabs')
        /\ Elems(tabs') \cup EntryTabs(entries') \subseteq Known /\ unsearched' \subseteq IDs
    BY <1>2, <1>3, <2>2 DEF TabsTypes, Good, Known
  <2>6. /\ ActiveTabIsShown' /\ activeTabID' \in IDs
        /\ selectedProject' \in Projects \cup {NoProject}
    <3>1. existing \in Tab /\ existing \in Known /\ existing.id \in TabIDs(tabs')
      BY <1>2, <2>1, <2>2 DEF Known, TabIDs
    <3>2. QED
      BY <1>2, <2>3, <2>5, <3>1, TurnedTo
  <2>7. QED
    BY <1>1, <1>3, <2>2, <2>4, <2>5, <2>6, RestFacts, WindowStepKeeps
<1>6. CASE entries[h] # Blank /\ entries[h].id \notin TabIDs(tabs)
  <2>1. PICK tab : tab = entries[h]
    OBVIOUS
  <2>2. tab \in Tab /\ tab.id \in IDs /\ tab \in Known
    <3>1. tab \in Tab
      BY <1>2, <1>6, <2>1 DEF TabsTypes
    <3>2. tab \in EntryTabs(entries)
      BY <1>6, <2>1 DEF EntryTabs, Elems
    <3>3. QED
      BY <3>1, <3>2 DEF Tab, Known
  <2>3. /\ tabs' \in Added(tab) /\ ActivateTab(tab, "none")
        /\ unsearched' = unsearched \cup {tab.id} /\ AfterChange
    BY <1>6, <2>1 DEF PopState
  <2>4. /\ tabs' \in Seq(Tab) /\ UniqueIDs(tabs')
        /\ tab \in Elems(tabs') /\ Elems(tabs') \subseteq {tab} \cup Elems(tabs)
    BY <1>2, <2>2, <2>3, AddedFacts DEF Good
  <2>5. Good(tabs', unsearched') /\ tabs' # <<>>
    <3>1. NoTwins(tabs', unsearched')
      BY <1>2, <2>3, <2>4 DEF Good, NoTwins
    <3>2. QED
      BY <2>4, <3>1 DEF Good, Elems
  <2>6. Elems(tabs') \cup EntryTabs(entries') \subseteq Known
    BY <1>3, <2>2, <2>4 DEF Known
  <2>7. /\ ActiveTabIsShown' /\ activeTabID' \in IDs
        /\ selectedProject' \in Projects \cup {NoProject}
    <3>1. activeTabID' = tab.id /\ view' = tab.view /\ selectedProject' = tab.project
      BY <2>3 DEF ActivateTab
    <3>2. tab.id \in TabIDs(tabs')
      BY <2>4 DEF TabIDs
    <3>3. QED
      BY <1>2, <2>2, <2>4, <2>6, <3>1, <3>2, TurnedTo
  <2>8. unsearched' \subseteq IDs /\ unsearched \subseteq unsearched'
    BY <1>2, <2>2, <2>3 DEF TabsTypes
  <2>9. QED
    BY <1>1, <1>3, <2>3, <2>4, <2>5, <2>6, <2>7, <2>8, RestFacts, WindowStepKeeps
<1>7. QED
  BY <1>4, <1>5, <1>6

\* A save is over: its page, or what was left of it, opens another one.
LEMMA AnswerKeeps == ASSUME TabsIInv, NEW s \in Saves, Answer(s) PROVE TabsIInv'
<1> DEFINE c == callbacks[s]
           found == IF c.phase = "live" THEN Found(c.to) ELSE c.found
           cs == [callbacks EXCEPT ![s] = NoSave]
<1>1. /\ c.phase # "none" /\ Opened(c.to, found)
      /\ unsearched' = unsearched \cup {i \in {fresh} : c.phase = "left" /\ found = <<>>}
      /\ stray' = (found # <<>> /\ found[1].id \notin TabIDs(tabs))
      /\ UNCHANGED <<tabsReady, signedIn, requests>> /\ Leaving(cs)
  BY DEF Answer
<1>2. TabsTypes /\ cs \in Callbacks /\ FoundTabs(cs) \subseteq Known
  BY CallbackFacts DEF TabsIInv
<1>3. /\ c.phase \in {"none", "live", "left"} /\ c.to \in Pages /\ c.found \in Seq(Tab)
      /\ Elems(c.found) \subseteq Known
  BY <1>2 DEF TabsTypes, Callbacks, Known, FoundTabs
<1>4. PICK p, f : p = c.to /\ f = found
  OBVIOUS
<1>5. f # <<>> => f[1] \in Known
  <2>1. CASE c.phase = "live"
    BY <1>2, <1>4, <2>1, FoundFacts DEF Known
  <2>2. CASE c.phase # "live"
    BY <1>3, <1>4, <2>2 DEF Elems
  <2>3. QED
    BY <2>1, <2>2
<1>6. f = <<>> => c.phase = "left" \/ \A t \in Elems(tabs) : ~Showing(p, t)
  BY <1>1, <1>2, <1>3, <1>4, FoundFacts
<1> HIDE DEF found, cs, c
<1>7. CASE f # <<>>
  <2>1. PICK t : t = f[1]
    OBVIOUS
  <2>2. t \in Known /\ SwitchTab(t) /\ unsearched' = unsearched
    BY <1>1, <1>4, <1>5, <1>7, <2>1 DEF Opened
  <2>3. stray' \/ t.id \in TabIDs(tabs)
    BY <1>1, <1>4, <1>7, <2>1
  <2>4. QED
    BY <1>1, <1>2, <2>2, <2>3, SwitchTabKeeps
<1>8. CASE f = <<>>
  <2>1. AddTab(p) /\ p \in Pages
    BY <1>1, <1>3, <1>4, <1>8 DEF Opened
  <2>2. unsearched' = unsearched \/ unsearched' = unsearched \cup {fresh}
    BY <1>1
  <2>3. fresh \in unsearched' \/ \A t \in Elems(tabs) : ~Showing(p, t)
    BY <1>1, <1>4, <1>6, <1>8
  <2>4. QED
    BY <1>1, <1>2, <2>1, <2>2, <2>3, AddTabKeeps
<1>9. QED
  BY <1>7, <1>8

\* A step that leaves the screen, the history of the window and what is stored: the saves, the
\* GET, signing in and out, and no step at all.
LEMMA UnseenStepKeeps ==
    ASSUME TabsIInv, FetchedStays, MemoryInv',
           UNCHANGED <<screen, browser, stored, puts, fresh, unsearched, stray>>,
           callbacks' \in Callbacks, FoundTabs(callbacks') \subseteq Known,
           tabsReady' \in BOOLEAN, signedIn' \in BOOLEAN, timer' \in BOOLEAN
    PROVE  TabsIInv'
<1>1. /\ UNCHANGED <<tabs, activeTabID, view, selectedProject, entries, here>>
      /\ TabsTypes /\ ListsAreGood /\ PagesStay(Known, fresh) /\ ActiveTabIsShown
  BY DEF screen, browser, TabsIInv
<1>2. fetched' \in Seq(Row)
  <2>1. fetched \in Seq(Row) /\ <<>> \in Seq(Row) /\ <<stored>> \in Seq(Row)
    BY <1>1 DEF TabsTypes
  <2>2. QED
    BY <2>1 DEF FetchedStays
<1>3. TabsTypes'
  BY <1>1, <1>2 DEF TabsTypes
<1>4. ActiveTabIsShown'
  BY <1>1 DEF ActiveTabIsShown, TabIDs, Elems
<1>5. ListsAreGood'
  BY <1>1, ListsStay DEF ListsAreGood
<1>6. PagesStay(Known, fresh)'
  <2>1. Elems(tabs') \subseteq Known /\ EntryTabs(entries') \subseteq Known
    BY <1>1 DEF Known
  <2>2. Known' \subseteq Known
    BY <2>1, KnownStays
  <2>3. PagesStay(Known', fresh')
    BY <1>1, <2>2 DEF PagesStay
  <2>4. QED
    BY <2>3
<1>7. QED
  BY <1>3, <1>4, <1>5, <1>6 DEF TabsIInv

\* A save that starts, or fails, an answer to the GET, and no step at all.
LEMMA RequestsKeep ==
    ASSUME TabsIInv,
           \/ \E s \in Saves, p \in SaveOpens : StartSave(s, p)
           \/ \E s \in Saves : FailSave(s)
           \/ FetchTabs
           \/ UNCHANGED tabsVars
    PROVE  TabsIInv'
<1>1. /\ UNCHANGED <<screen, browser, stored, puts, behind, fresh, unsearched, stray>>
      /\ UNCHANGED <<tabsReady, signedIn, timer>>
  BY DEF StartSave, FailSave, FetchTabs, tabsVars, requests
<1>2. TabsTypes /\ MemoryInv
  BY DEF TabsIInv
<1>3. FetchedStays
  BY DEF StartSave, FailSave, FetchTabs, tabsVars, requests, FetchedStays
<1>4. MemoryInv'
  <2>1. UNCHANGED <<tabs, activeTabID>>
    BY <1>1 DEF screen
  <2>2. LastSent' = LastSent
    BY <1>1 DEF LastSent
  <2>3. Savable(tabs)' = Savable(tabs) /\ StoredIsShown' = StoredIsShown
    BY <1>1, <2>1 DEF Savable, StoredIsShown, Sanitized, Elems, TabIDs
  <2>4. QED
    BY <1>1, <1>2, <2>1, <2>2, <2>3 DEF MemoryInv
<1>5. callbacks' \in Callbacks /\ FoundTabs(callbacks') \subseteq Known
  <2>1. CASE \E s \in Saves, p \in SaveOpens : StartSave(s, p)
    <3>1. PICK s \in Saves, p \in SaveOpens : StartSave(s, p)
      BY <2>1
    <3>2. PICK c : c = [phase |-> "live", to |-> p, found |-> <<>>]
      OBVIOUS
    <3>3. /\ p \in Pages /\ callbacks' = [callbacks EXCEPT ![s] = c]
      BY <1>2, <3>1, <3>2, LinkedPage DEF StartSave
    <3>4. /\ c \in [phase : {"none", "live", "left"}, to : Pages, found : Seq(Tab)]
          /\ Elems(c.found) = {}
      BY <3>2, <3>3 DEF Elems
    <3>5. callbacks' \in Callbacks /\ \A r \in Saves : callbacks'[r] \in {c, callbacks[r]}
      BY <1>2, <3>3, <3>4 DEF TabsTypes, Callbacks
    <3>6. \A r \in Saves : Elems(callbacks'[r].found) \subseteq Known
      BY <1>2, <3>4, <3>5, CallbackFacts DEF FoundTabs
    <3>7. QED
      BY <3>5, <3>6 DEF FoundTabs
  <2>2. CASE \E s \in Saves : FailSave(s)
    BY <1>2, <2>2, CallbackFacts DEF FailSave
  <2>3. CASE FetchTabs \/ UNCHANGED tabsVars
    BY <1>2, <2>3, CallbackFacts DEF FetchTabs, tabsVars
  <2>4. QED
    BY <2>1, <2>2, <2>3
<1>6. tabsReady' \in BOOLEAN /\ signedIn' \in BOOLEAN /\ timer' \in BOOLEAN
  BY <1>1, <1>2 DEF TabsTypes
<1>7. QED
  BY <1>1, <1>3, <1>4, <1>5, <1>6, UnseenStepKeeps

\* The PUTs that were overtaken still were sent before the others.
LEMMA OvertakenFirst ==
    ASSUME MemoryInv, UNCHANGED puts, ~(tabsReady' /\ signedIn' /\ ~timer') PROVE MemoryInv'
<1>1. \A i, j \in 1 .. Len(puts') : i < j /\ puts'[j].overtaken => puts'[i].overtaken
  BY DEF MemoryInv
<1>2. QED
  BY Zenon, <1>1 DEF MemoryInv

\* Signing in or out: what is to be saved is saved when the user is signed in.
LEMMA SignKeeps == ASSUME TabsIInv, SignIn \/ SignOut PROVE TabsIInv'
<1>1. /\ UNCHANGED <<screen, browser, stored, puts, fresh, unsearched, stray, tabsReady>>
      /\ FetchedStays
  BY DEF SignIn, SignOut, requests, FetchedStays
<1>2. TabsTypes /\ MemoryInv
  BY DEF TabsIInv
<1>3. /\ tabsReady' \in BOOLEAN /\ signedIn' \in BOOLEAN /\ timer' \in BOOLEAN
      /\ ~(tabsReady' /\ signedIn' /\ ~timer')
  BY <1>1, <1>2 DEF SignIn, SignOut, TabsTypes
<1>4. MemoryInv'
  BY <1>1, <1>2, <1>3, OvertakenFirst
<1>5. callbacks' \in Callbacks /\ FoundTabs(callbacks') \subseteq Known
  <2>1. CASE SignIn
    BY <1>2, <2>1, CallbackFacts DEF SignIn
  <2>2. CASE SignOut
    BY <1>2, <2>2, CallbackFacts, LeavingKeeps DEF SignOut
  <2>3. QED
    BY <2>1, <2>2
<1>6. QED
  BY <1>1, <1>3, <1>4, <1>5, UnseenStepKeeps

\* The page is loaded again: the first tab is shown until the stored ones arrive.
LEMMA ReloadKeeps == ASSUME TabsIInv, Reload PROVE TabsIInv'
<1>1. /\ tabs' = <<FirstTab>> /\ activeTabID' = FirstID
      /\ view' = "overview" /\ selectedProject' = NoProject
      /\ tabsReady' = FALSE /\ timer' = FALSE /\ fetched' = <<>>
      /\ callbacks' = [s \in Saves |-> NoSave] /\ stray' = FALSE
      /\ UNCHANGED <<signedIn, entries, here, stored, puts, behind, fresh, unsearched>>
  BY DEF Reload, browser
<1>2. /\ TabsTypes /\ ListsAreGood /\ MemoryInv /\ PagesStay(Known, fresh)
  BY DEF TabsIInv
<1>3. tabs' \in Seq(Tab) /\ Len(tabs') = 1 /\ tabs'[1] = FirstTab /\ tabs' # <<>>
  BY <1>1, FirstTabFacts
<1>4. Elems(tabs') = {FirstTab} /\ Good(tabs', unsearched')
  <2>1. Elems(tabs') = {FirstTab}
    BY <1>3 DEF Elems
  <2>2. QED
    BY <1>3, <2>1 DEF Good, UniqueIDs, NoTwins
<1>5. ActiveTabIsShown' /\ activeTabID' \in IDs /\ selectedProject' \in Projects \cup {NoProject}
  BY <1>1, <1>3, <1>4, FirstTabFacts DEF ActiveTabIsShown, TabIDs
<1>6. callbacks' \in Callbacks /\ FoundTabs(callbacks') = {}
  <2>1. /\ NoSave \in [phase : {"none", "live", "left"}, to : Pages, found : Seq(Tab)]
        /\ Elems(NoSave.found) = {}
    BY FirstTabFacts DEF NoSave, Elems
  <2>2. QED
    BY <1>1, <2>1 DEF Callbacks, FoundTabs
<1>7. fetched' \in Seq(Row) /\ FetchedStays
  BY <1>1 DEF FetchedStays
<1>8. TabsTypes'
  BY <1>1, <1>2, <1>3, <1>5, <1>6, <1>7 DEF TabsTypes
<1>9. ListsAreGood'
  BY <1>1, <1>2, <1>4, <1>7, ListsStay
<1>10. PagesStay(Known, fresh)'
  <2>1. Elems(tabs') \subseteq Known /\ EntryTabs(entries') \subseteq Known
    BY <1>1, <1>4 DEF Known
  <2>2. Known' \subseteq Known
    BY <1>1, <1>6, <1>7, <2>1, KnownStays
  <2>3. PagesStay(Known', fresh')
    BY <1>1, <1>2, <2>2 DEF PagesStay
  <2>4. QED
    BY <2>3
<1>11. MemoryInv'
  BY <1>1, <1>2, OvertakenFirst
<1>12. QED
  BY <1>5, <1>8, <1>9, <1>10, <1>11 DEF TabsIInv

\* The stored tabs arrive, or there are none.
LEMMA RestoreTabsKeeps == ASSUME TabsIInv, RestoreTabs PROVE TabsIInv'
<1> DEFINE row == fetched[1]
           P == {i \in 1 .. Len(row.tabs) : row.tabs[i].view # "operations"}
           restored == Filtered(row.tabs, P)
           active == IF row.active \in TabIDs(restored)
                     THEN CHOOSE t \in Elems(restored) : t.id = row.active
                     ELSE restored[Len(restored)]
<1>1. /\ fetched # <<>> /\ fetched' = <<>>
      /\ tabsReady' = TRUE /\ timer' = TRUE /\ entries' = Stamped(tabs', activeTabID', TRUE)
      /\ UNCHANGED <<signedIn, here, stored, puts, behind, fresh, unsearched>>
      /\ Leaving(callbacks) /\ StillStray
      /\ IF restored = <<>> THEN UNCHANGED screen
         ELSE /\ tabs' = restored /\ activeTabID' = active.id
              /\ view' = active.view /\ selectedProject' = active.project
  BY DEF RestoreTabs
<1>2. /\ TabsTypes /\ ListsAreGood /\ MemoryInv /\ PagesStay(Known, fresh) /\ ActiveTabIsShown
      /\ Known \subseteq Tab
  BY KnownFacts DEF TabsIInv
<1>3. row.tabs \in Seq(Tab) /\ Good(row.tabs, unsearched) /\ Elems(row.tabs) \subseteq Known
  <2>1. 1 \in 1 .. Len(fetched) /\ row \in Row
    BY <1>1, <1>2 DEF TabsTypes
  <2>2. Good(row.tabs, unsearched)
    BY <1>2, <2>1 DEF ListsAreGood
  <2>3. Elems(row.tabs) \subseteq RowTabs(fetched)
    BY <2>1 DEF RowTabs
  <2>4. QED
    BY <2>1, <2>2, <2>3 DEF Row, Known
<1>4. P \in SUBSET (1 .. Len(row.tabs))
  OBVIOUS
<1> HIDE DEF P, row
<1>5. Part(restored, row.tabs)
  BY <1>3, <1>4, FilteredIsPart
<1> HIDE DEF restored
<1>6. restored \in Seq(Tab) /\ Good(restored, unsearched) /\ Elems(restored) \subseteq Known
  <2>1. /\ restored \in Seq(Tab) /\ Good(restored, unsearched)
        /\ Elems(restored) \subseteq Elems(row.tabs)
    BY <1>3, <1>5, GoodPart
  <2>2. QED
    BY <1>3, <2>1
<1>7. /\ tabs' \in Seq(Tab) /\ tabs' # <<>> /\ Good(tabs', unsearched')
      /\ Elems(tabs') \subseteq Known
      /\ ActiveTabIsShown' /\ activeTabID' \in IDs
      /\ selectedProject' \in Projects \cup {NoProject}
  <2>1. CASE restored = <<>>
    <3>1. UNCHANGED <<tabs, activeTabID, view, selectedProject>>
      BY <1>1, <2>1 DEF screen
    <3>2. /\ tabs' \in Seq(Tab) /\ tabs' # <<>> /\ Good(tabs', unsearched') /\ UniqueIDs(tabs')
          /\ Elems(tabs') \subseteq Known
      BY <1>1, <1>2, <3>1 DEF TabsTypes, ListsAreGood, Good, Known
    <3>3. QED
      BY <1>1, <3>1, <3>2, NotTurned
  <2>2. CASE restored # <<>>
    <3>1. Len(restored) \in 1 .. Len(restored)
      BY <1>6, <2>2
    <3>2. active \in Elems(restored)
      BY <3>1 DEF Elems, TabIDs
    <3> HIDE DEF active
    <3>3. /\ tabs' = restored /\ activeTabID' = active.id
          /\ view' = active.view /\ selectedProject' = active.project
      BY <1>1, <2>2
    <3>4. active \in Known /\ active \in Tab /\ active.id \in TabIDs(tabs')
      BY <1>2, <1>6, <3>2, <3>3 DEF TabIDs
    <3>5. /\ tabs' \in Seq(Tab) /\ tabs' # <<>> /\ Good(tabs', unsearched') /\ UniqueIDs(tabs')
          /\ Elems(tabs') \subseteq Known
      BY <1>1, <1>6, <2>2, <3>3 DEF Good
    <3>6. QED
      BY <1>2, <3>3, <3>4, <3>5, TurnedTo
  <2>3. QED
    BY <2>1, <2>2
<1>8. /\ entries' \in Seq(Tab \cup {Blank}) /\ here' \in 1 .. Len(entries')
      /\ EntryTabs(entries') \subseteq Known
  <2>1. PICK s, id : s \in Seq(Tab) /\ s = tabs' /\ id = activeTabID'
    BY <1>7
  <2>2. entries' = Stamped(s, id, TRUE)
    BY <1>1, <2>1
  <2>3. /\ entries' \in Seq(Tab \cup {Blank}) /\ here \in 1 .. Len(entries')
        /\ EntryTabs(entries') \subseteq EntryTabs(entries) \cup Elems(s)
    BY <1>2, <2>1, <2>2, StampedFacts
  <2>4. QED
    BY <1>1, <1>7, <2>1, <2>3 DEF Known
<1>9. /\ callbacks' \in Callbacks /\ FoundTabs(callbacks') \subseteq Known
  BY <1>1, <1>2, CallbackFacts, LeavingKeeps
<1>10. fetched' \in Seq(Row) /\ FetchedStays
  BY <1>1 DEF FetchedStays
<1>11. TabsTypes'
  BY <1>1, <1>2, <1>7, <1>8, <1>9, <1>10 DEF TabsTypes
<1>12. ListsAreGood'
  BY <1>1, <1>2, <1>7, <1>10, ListsStay
<1>13. PagesStay(Known, fresh)'
  <2>1. Known' \subseteq Known
    BY <1>1, <1>7, <1>8, <1>9, <1>10, KnownStays
  <2>2. PagesStay(Known', fresh')
    BY <1>1, <1>2, <2>1 DEF PagesStay
  <2>3. QED
    BY <2>2
<1>14. MemoryInv'
  BY <1>1, <1>2, OvertakenFirst
<1>15. QED
  BY <1>7, <1>11, <1>12, <1>13, <1>14 DEF TabsIInv

\* A step of the server, or of a request to it: the window goes on as it was.
LEMMA ServerStepKeeps ==
    ASSUME TabsIInv, MemoryInv',
           UNCHANGED <<screen, browser, tabsReady, signedIn, callbacks, fetched, fresh, unsearched,
                       stray>>,
           timer' \in BOOLEAN, stored' \in Row, puts' \in Seq(Sent),
           Good(stored'.tabs, unsearched), Elems(stored'.tabs) \subseteq Known,
           \A i \in 1 .. Len(puts') :
              Good(puts'[i].tabs, unsearched) /\ Elems(puts'[i].tabs) \subseteq Known
    PROVE  TabsIInv'
<1>1. /\ UNCHANGED <<tabs, activeTabID, view, selectedProject, entries, here>>
      /\ TabsTypes /\ ListsAreGood /\ PagesStay(Known, fresh) /\ ActiveTabIsShown
  BY DEF screen, browser, TabsIInv
<1>2. TabsTypes'
  BY <1>1 DEF TabsTypes
<1>3. ActiveTabIsShown'
  BY <1>1 DEF ActiveTabIsShown, TabIDs, Elems
<1>4. ListsAreGood'
  BY <1>1 DEF ListsAreGood
<1>5. PagesStay(Known, fresh)'
  <2>1. RowTabs(puts') \subseteq Known
    BY DEF RowTabs
  <2>2. FirstTab' = FirstTab
    BY DEF FirstTab, TabOf, Page, FirstID
  <2>3. Known' = {FirstTab'} \cup Elems(tabs') \cup EntryTabs(entries')
                    \cup FoundTabs(callbacks') \cup Elems(stored'.tabs)
                    \cup RowTabs(fetched') \cup RowTabs(puts')
    BY Zenon DEF Known
  <2>4. /\ {FirstTab} \cup Elems(tabs') \cup EntryTabs(entries') \subseteq Known
        /\ FoundTabs(callbacks') \cup RowTabs(fetched') \subseteq Known
    BY <1>1 DEF Known
  <2>5. Known' \subseteq Known
    BY <2>1, <2>2, <2>3, <2>4
  <2>6. PagesStay(Known', fresh')
    BY <1>1, <2>5 DEF PagesStay
  <2>7. QED
    BY <2>6
<1>6. QED
  BY <1>2, <1>3, <1>4, <1>5 DEF TabsIInv

\* The PUTs that are left when one is over.
LEMMA PutOverFacts ==
    ASSUME TabsIInv, NEW i \in 1 .. Len(puts), PutOver(i)
    PROVE  /\ puts' \in Seq(Sent)
           /\ \A j \in 1 .. Len(puts') :
                 Good(puts'[j].tabs, unsearched) /\ Elems(puts'[j].tabs) \subseteq Known
           /\ \A a, b \in 1 .. Len(puts') : a < b /\ puts'[b].overtaken => puts'[a].overtaken
           /\ puts' # <<>> /\ ~LastSent'.overtaken => LastSent' = LastSent /\ i # Len(puts)
           /\ LastSent.overtaken => puts' = <<>> \/ LastSent'.overtaken
           /\ i # Len(puts) => puts' # <<>> /\ LastSent' = LastSent
<1> DEFINE n == Len(puts)
           Over(p) == [p EXCEPT !.overtaken = TRUE]
<1>1. puts \in Seq(Sent) /\ n \in Nat /\ i \in 1 .. n /\ \A j \in 1 .. n : puts[j] \in Sent
  BY DEF TabsIInv, TabsTypes
<1>2. \A p \in Sent : /\ Over(p) \in Sent /\ Over(p).overtaken = TRUE
                      /\ Over(p).tabs = p.tabs
  BY DEF Sent
<1>3. puts' = [j \in 1 .. n - 1 |-> IF j < i THEN Over(puts[j]) ELSE puts[j + 1]]
  BY DEF PutOver
<1> HIDE DEF Over, n
<1>4. \A j \in 1 .. n - 1 :
         /\ j \in 1 .. n /\ j + 1 \in 1 .. n
         /\ j < i => puts'[j] = Over(puts[j])
         /\ ~(j < i) => puts'[j] = puts[j + 1]
  BY <1>1, <1>3
<1>5. \A j \in 1 .. n - 1 : puts'[j] \in Sent
  BY <1>1, <1>2, <1>4
<1>6. puts' \in Seq(Sent) /\ Len(puts') = n - 1
  <2>1. n - 1 \in Nat
    BY <1>1
  <2>2. puts' = [j \in 1 .. n - 1 |-> puts'[j]]
    BY <1>3
  <2>3. QED
    BY <1>5, <2>1, <2>2
<1>7. \A j \in 1 .. n : Good(puts[j].tabs, unsearched) /\ Elems(puts[j].tabs) \subseteq Known
  BY DEF TabsIInv, ListsAreGood, Known, RowTabs, n
<1>8. \A j \in 1 .. n - 1 :
         Good(puts'[j].tabs, unsearched) /\ Elems(puts'[j].tabs) \subseteq Known
  <2>1. ASSUME NEW j \in 1 .. n - 1
        PROVE  \E k \in 1 .. n : puts'[j].tabs = puts[k].tabs
    BY <1>1, <1>2, <1>4
  <2>2. QED
    BY <1>7, <2>1
<1>9. \A a, b \in 1 .. n - 1 : a < b /\ puts'[b].overtaken => puts'[a].overtaken
  <2>1. SUFFICES ASSUME NEW a \in 1 .. n - 1, NEW b \in 1 .. n - 1, a < b, puts'[b].overtaken
                 PROVE  puts'[a].overtaken
    OBVIOUS
  <2>2. CASE a < i
    <3>1. puts'[a] = Over(puts[a]) /\ puts[a] \in Sent
      BY <1>1, <1>4, <2>2
    <3>2. puts'[a].overtaken = TRUE
      BY <1>2, <3>1
    <3>3. QED
      BY Zenon, <3>2
  <2>3. CASE ~(a < i)
    <3>1. ~(b < i) /\ a + 1 < b + 1
      BY <1>1, <2>1, <2>3
    <3>2. puts'[a] = puts[a + 1] /\ puts'[b] = puts[b + 1]
      BY <1>4, <2>3, <3>1
    <3>3. a + 1 \in 1 .. n /\ b + 1 \in 1 .. n
      BY <1>4
    <3>4. puts[b + 1].overtaken => puts[a + 1].overtaken
      BY <3>1, <3>3 DEF TabsIInv, MemoryInv, n
    <3>5. QED
      BY Zenon, <2>1, <3>2, <3>4
  <2>4. QED
    BY <2>2, <2>3
<1>10. puts' # <<>> => n - 1 \in 1 .. n - 1 /\ LastSent' = puts'[n - 1]
  BY <1>6 DEF LastSent
<1>11. LastSent = puts[n]
  BY DEF LastSent, n
<1>12. i # n => puts' # <<>> /\ LastSent' = LastSent
  <2>1. SUFFICES ASSUME i # n PROVE puts' # <<>> /\ LastSent' = LastSent
    OBVIOUS
  <2>2. n - 1 \in 1 .. n - 1 /\ ~(n - 1 < i) /\ (n - 1) + 1 = n
    BY <1>1, <2>1
  <2>3. puts'[n - 1] = puts[n]
    BY <1>4, <2>2
  <2>4. puts' # <<>>
    BY <1>6, <2>2
  <2>5. QED
    BY <1>10, <1>11, <2>3, <2>4
<1>13. i = n /\ puts' # <<>> => LastSent'.overtaken
  <2>1. SUFFICES ASSUME i = n, puts' # <<>> PROVE LastSent'.overtaken
    OBVIOUS
  <2>2. n - 1 \in 1 .. n - 1 /\ n - 1 < i /\ n - 1 \in 1 .. n
    BY <1>1, <1>10, <2>1
  <2>3. LastSent' = Over(puts[n - 1]) /\ puts[n - 1] \in Sent
    BY <1>1, <1>4, <1>10, <2>1, <2>2
  <2>4. LastSent'.overtaken = TRUE
    BY <1>2, <2>3
  <2>5. QED
    BY Zenon, <2>4
<1>14. puts' # <<>> /\ ~LastSent'.overtaken => LastSent' = LastSent /\ i # n
  BY Zenon, <1>12, <1>13
<1>15. LastSent.overtaken => puts' = <<>> \/ LastSent'.overtaken
  BY Zenon, <1>12, <1>13
<1>16. QED
  BY <1>6, <1>8, <1>9, <1>12, <1>14, <1>15 DEF n

\* The tabs are sent: the PUT has what the window shows.
LEMMA SendTabsKeeps == ASSUME TabsIInv, SendTabs PROVE TabsIInv'
<1>1. PICK put : put = [tabs |-> tabs, active |-> activeTabID, overtaken |-> FALSE]
  OBVIOUS
<1>2. /\ timer' = FALSE /\ puts' = Append(puts, put)
      /\ UNCHANGED <<screen, tabsReady, signedIn, browser, callbacks, stored, fetched, fresh,
                     unsearched, stray>>
  BY <1>1 DEF SendTabs
<1>3. TabsTypes /\ ListsAreGood /\ MemoryInv /\ puts \in Seq(Sent) /\ Len(puts) \in Nat
  BY DEF TabsIInv, TabsTypes
<1>4. put \in Sent /\ put.tabs = tabs /\ put.active = activeTabID /\ put.overtaken = FALSE
  BY <1>1, <1>3 DEF TabsTypes, Sent
<1>5. /\ puts' \in Seq(Sent) /\ Len(puts') = Len(puts) + 1 /\ puts'[Len(puts) + 1] = put
      /\ \A i \in 1 .. Len(puts) : puts'[i] = puts[i]
  BY <1>2, <1>3, <1>4
<1>6. \A i \in 1 .. Len(puts') : i \in 1 .. Len(puts) \/ i = Len(puts) + 1
  BY <1>3, <1>5
<1>7. \A i \in 1 .. Len(puts') :
         Good(puts'[i].tabs, unsearched) /\ Elems(puts'[i].tabs) \subseteq Known
  <2>1. Good(tabs, unsearched) /\ Elems(tabs) \subseteq Known
    BY <1>3 DEF ListsAreGood, Known
  <2>2. \A i \in 1 .. Len(puts) :
           Good(puts[i].tabs, unsearched) /\ Elems(puts[i].tabs) \subseteq Known
    BY <1>3 DEF ListsAreGood, Known, RowTabs
  <2>3. QED
    BY <1>4, <1>5, <1>6, <2>1, <2>2
<1>8. MemoryInv'
  <2>1. \A i, j \in 1 .. Len(puts') : i < j /\ puts'[j].overtaken => puts'[i].overtaken
    <3>1. SUFFICES ASSUME NEW i \in 1 .. Len(puts'), NEW j \in 1 .. Len(puts'), i < j,
                          puts'[j].overtaken
                   PROVE  puts'[i].overtaken
      OBVIOUS
    <3>2. j # Len(puts) + 1
      BY <1>4, <1>5, <3>1
    <3>3. i \in 1 .. Len(puts) /\ j \in 1 .. Len(puts)
      BY <1>3, <1>6, <3>1, <3>2
    <3>4. puts'[i] = puts[i] /\ puts'[j] = puts[j]
      BY <1>5, <3>3
    <3>5. puts[j].overtaken => puts[i].overtaken
      BY <1>3, <3>1, <3>3 DEF MemoryInv
    <3>6. QED
      BY Zenon, <3>1, <3>4, <3>5
  <2>2. LastSent' = put
    BY <1>5 DEF LastSent
  <2>3. LastSent'.tabs = tabs' /\ LastSent'.active = activeTabID' /\ ~LastSent'.overtaken
    BY <1>2, <1>4, <2>2 DEF screen
  <2>4. puts' # <<>>
    BY <1>3, <1>5
  <2>5. QED
    BY Zenon, <2>1, <2>3, <2>4 DEF MemoryInv
<1>9. /\ timer' \in BOOLEAN /\ stored' \in Row /\ Good(stored'.tabs, unsearched)
      /\ Elems(stored'.tabs) \subseteq Known
  BY <1>2, <1>3 DEF TabsTypes, ListsAreGood, Known
<1>10. QED
  BY <1>2, <1>5, <1>7, <1>8, <1>9, ServerStepKeeps

\* What the server keeps of the tabs of a PUT is a part of them.
LEMMA SanitizedFacts ==
    ASSUME NEW put \in Sent, NEW u, Good(put.tabs, u)
    PROVE  /\ Sanitized(put) \in Row /\ Good(Sanitized(put).tabs, u)
           /\ Elems(Sanitized(put).tabs) \subseteq Elems(put.tabs)
<1> DEFINE kept == LastOf(put.tabs, Limit)
<1>1. put.tabs \in Seq(Tab) /\ put.tabs # <<>> /\ put.active \in IDs
  BY DEF Sent
<1>2. Part(kept, put.tabs) /\ kept # <<>>
  BY <1>1, CutIsPart, TabsAssumption
<1>3. Sanitized(put) = [tabs |-> kept,
                        active |-> IF put.active \in TabIDs(kept) THEN put.active
                                   ELSE kept[Len(kept)].id]
  BY DEF Sanitized
<1> HIDE DEF kept
<1>4. kept \in Seq(Tab) /\ Good(kept, u) /\ Elems(kept) \subseteq Elems(put.tabs)
  BY <1>1, <1>2, GoodPart
<1>5. kept[Len(kept)].id \in IDs
  <2>1. kept[Len(kept)] \in Tab
    BY <1>2, <1>4
  <2>2. QED
    BY <2>1 DEF Tab
<1>6. QED
  BY <1>1, <1>3, <1>4, <1>5 DEF Row

\* The server keeps the tabs of a PUT, or refuses them.
LEMMA SaveWorkspaceTabsKeeps ==
    ASSUME TabsIInv, NEW i \in 1 .. Len(puts), SaveWorkspaceTabs(i) PROVE TabsIInv'
<1>1. /\ PutOver(i)
      /\ UNCHANGED <<screen, tabsReady, signedIn, timer, browser, callbacks, fetched, fresh,
                     unsearched, stray>>
      /\ IF Savable(puts[i].tabs)
         THEN stored' = Sanitized(puts[i]) /\ behind' = puts[i].overtaken
         ELSE UNCHANGED <<stored, behind>>
  BY DEF SaveWorkspaceTabs
<1>2. TabsTypes /\ ListsAreGood /\ MemoryInv /\ puts[i] \in Sent /\ Len(puts) \in Nat
  BY DEF TabsIInv, TabsTypes
<1>3. /\ Good(puts[i].tabs, unsearched) /\ Elems(puts[i].tabs) \subseteq Known
      /\ stored \in Row /\ Good(stored.tabs, unsearched) /\ Elems(stored.tabs) \subseteq Known
  BY <1>2 DEF ListsAreGood, Known, RowTabs, TabsTypes
<1>4. /\ stored' \in Row /\ Good(stored'.tabs, unsearched)
      /\ Elems(stored'.tabs) \subseteq Known
  <2>1. CASE Savable(puts[i].tabs)
    BY <1>1, <1>2, <1>3, <2>1, SanitizedFacts
  <2>2. CASE ~Savable(puts[i].tabs)
    BY <1>1, <1>3, <2>2
  <2>3. QED
    BY <2>1, <2>2
<1>5. MemoryInv'
  <2>1. /\ UNCHANGED <<tabs, activeTabID, tabsReady, signedIn, timer>> /\ puts # <<>>
        /\ Savable(tabs') = Savable(tabs)
    BY <1>1, <1>2 DEF screen
  <2>2. SUFFICES ASSUME tabsReady', signedIn', ~timer'
                 PROVE  IF puts' # <<>> /\ ~LastSent'.overtaken
                        THEN LastSent'.tabs = tabs' /\ LastSent'.active = activeTabID'
                        ELSE Savable(tabs') /\ ~behind' => StoredIsShown'
    BY Zenon, <1>1, PutOverFacts DEF MemoryInv
  <2>3. IF ~LastSent.overtaken
        THEN LastSent.tabs = tabs /\ LastSent.active = activeTabID
        ELSE Savable(tabs) /\ ~behind => StoredIsShown
    BY <1>2, <2>1, <2>2 DEF MemoryInv
  <2>4. CASE puts' # <<>> /\ ~LastSent'.overtaken
    <3>1. LastSent' = LastSent
      BY <1>1, <2>4, PutOverFacts
    <3>2. LastSent.tabs = tabs /\ LastSent.active = activeTabID
      BY <2>3, <2>4, <3>1
    <3>3. QED
      BY <2>1, <2>4, <3>1, <3>2
  <2>5. CASE ~(puts' # <<>> /\ ~LastSent'.overtaken)
    <3>1. SUFFICES ASSUME Savable(tabs), ~behind' PROVE StoredIsShown'
      BY <2>1, <2>5
    <3>2. CASE LastSent.overtaken
      <4>1. puts[i].overtaken
        <5>1. i = Len(puts) \/ i < Len(puts)
          BY <1>2
        <5>2. Len(puts) \in 1 .. Len(puts)
          BY <1>2
        <5>3. QED
          BY <1>2, <3>2, <5>1, <5>2 DEF MemoryInv, LastSent
      <4>2. UNCHANGED <<stored, behind>>
        BY <1>1, <3>1, <4>1
      <4>3. StoredIsShown
        BY <2>3, <3>1, <3>2, <4>2
      <4>4. QED
        BY <2>1, <4>2, <4>3 DEF StoredIsShown, Sanitized, TabIDs, Elems
    <3>3. CASE ~LastSent.overtaken
      <4>1. i = Len(puts)
        BY <1>1, <2>5, <3>3, PutOverFacts
      <4>2. puts[i].tabs = tabs /\ puts[i].active = activeTabID
        BY <2>3, <3>3, <4>1 DEF LastSent
      <4>3. stored' = Sanitized(puts[i])
        BY <1>1, <3>1, <4>2
      <4>4. Sanitized(puts[i]) = Sanitized([tabs |-> tabs, active |-> activeTabID])
        BY <4>2 DEF Sanitized
      <4>5. QED
        BY <2>1, <4>3, <4>4 DEF StoredIsShown, Sanitized
    <3>4. QED
      BY <3>2, <3>3
  <2>6. QED
    BY <2>4, <2>5
<1>6. timer' \in BOOLEAN
  BY <1>1, <1>2 DEF TabsTypes
<1>7. QED
  BY <1>1, <1>4, <1>5, <1>6, PutOverFacts, ServerStepKeeps

\* A PUT that is lost.
LEMMA LoseTabsKeeps ==
    ASSUME TabsIInv, NEW i \in 1 .. Len(puts), LoseTabs(i) PROVE TabsIInv'
<1>1. /\ PutOver(i)
      /\ UNCHANGED <<screen, tabsReady, signedIn, timer, browser, callbacks, stored, fetched,
                     fresh, unsearched, stray>>
      /\ behind' = (behind \/ (i = Len(puts) /\ ~puts[i].overtaken))
  BY DEF LoseTabs
<1>2. TabsTypes /\ ListsAreGood /\ MemoryInv /\ Len(puts) \in Nat
  BY DEF TabsIInv, TabsTypes
<1>3. /\ stored' \in Row /\ Good(stored'.tabs, unsearched)
      /\ Elems(stored'.tabs) \subseteq Known
  BY <1>1, <1>2 DEF ListsAreGood, Known, TabsTypes
<1>4. MemoryInv'
  <2>1. /\ UNCHANGED <<tabs, activeTabID, tabsReady, signedIn, timer>> /\ puts # <<>>
        /\ Savable(tabs') = Savable(tabs)
    BY <1>1, <1>2 DEF screen
  <2>2. SUFFICES ASSUME tabsReady', signedIn', ~timer'
                 PROVE  IF puts' # <<>> /\ ~LastSent'.overtaken
                        THEN LastSent'.tabs = tabs' /\ LastSent'.active = activeTabID'
                        ELSE Savable(tabs') /\ ~behind' => StoredIsShown'
    BY Zenon, <1>1, PutOverFacts DEF MemoryInv
  <2>3. IF ~LastSent.overtaken
        THEN LastSent.tabs = tabs /\ LastSent.active = activeTabID
        ELSE Savable(tabs) /\ ~behind => StoredIsShown
    BY <1>2, <2>1, <2>2 DEF MemoryInv
  <2>4. CASE puts' # <<>> /\ ~LastSent'.overtaken
    <3>1. LastSent' = LastSent
      BY <1>1, <2>4, PutOverFacts
    <3>2. LastSent.tabs = tabs /\ LastSent.active = activeTabID
      BY <2>3, <2>4, <3>1
    <3>3. QED
      BY <2>1, <2>4, <3>1, <3>2
  <2>5. CASE ~(puts' # <<>> /\ ~LastSent'.overtaken)
    <3>1. SUFFICES ASSUME Savable(tabs), ~behind' PROVE StoredIsShown'
      BY <2>1, <2>5
    <3>2. LastSent.overtaken
      <4>1. SUFFICES ASSUME ~LastSent.overtaken PROVE FALSE
        OBVIOUS
      <4>2. i = Len(puts)
        BY <1>1, <2>5, <4>1, PutOverFacts
      <4>3. QED
        BY <1>1, <3>1, <4>1, <4>2 DEF LastSent
    <3>3. StoredIsShown
      BY <1>1, <2>3, <3>1, <3>2
    <3>4. QED
      BY <1>1, <2>1, <3>3 DEF StoredIsShown, Sanitized, TabIDs, Elems
  <2>6. QED
    BY <2>4, <2>5
<1>5. timer' \in BOOLEAN
  BY <1>1, <1>2 DEF TabsTypes
<1>6. QED
  BY <1>1, <1>3, <1>4, <1>5, PutOverFacts, ServerStepKeeps

\* Every step preserves it.
LEMMA TabsStep == ASSUME TabsIInv, [TabsNext]_tabsVars PROVE TabsIInv'
<1>1. CASE UNCHANGED tabsVars
  BY <1>1, RequestsKeep
<1>2. CASE UserStep
  BY <1>2, OpenTabKeeps, CloseTabKeeps, ReorderTabKeeps, RenameDraftKeeps,
     PanelPushesEntryKeeps, PopStateKeeps, SignKeeps, RequestsKeep DEF UserStep
<1>3. CASE SystemStep \/ Reload
  BY <1>3, AnswerKeeps, RequestsKeep, RestoreTabsKeeps, SendTabsKeeps, SaveWorkspaceTabsKeeps,
     LoseTabsKeeps, ReloadKeeps DEF SystemStep
<1>4. QED
  BY <1>1, <1>2, <1>3 DEF TabsNext

-----------------------------------------------------------------------------
(* The theorems. *)

\* The invariant of the tabs holds in every state.
THEOREM TabsInvariance == TabsSpec => []TabsIInv
  BY TabsStart, TabsStep, PTL DEF TabsSpec

\* The window shows the page of its active tab, whatever closes, restores or cuts the tabs,
\* and that tab is one of them unless the late answer of a page that was left turned to one
\* that had been closed.
THEOREM ATabIsShown == TabsSpec => []ActiveTabIsShown
<1>1. TabsIInv => ActiveTabIsShown
  BY DEF TabsIInv
<1>2. QED
  BY <1>1, TabsInvariance, PTL

\* A page gets a second tab only by Back, Forward or the answer of a page that was left.
THEOREM NoPageTwice == TabsSpec => []OneTabPerPage
<1>1. TabsIInv => OneTabPerPage
  BY DEF TabsIInv, ListsAreGood, Good, NoTwins, OneTabPerPage
<1>2. QED
  BY <1>1, TabsInvariance, PTL

\* When no PUT is due or under way, the server holds the tabs, if it takes them and the PUT
\* that was sent last was neither lost nor overtook another.
THEOREM TheServerRemembers == TabsSpec => []TabsAreRemembered
<1>1. ASSUME TabsIInv PROVE TabsAreRemembered
  BY <1>1 DEF TabsIInv, MemoryInv, TabsAreRemembered, Quiet
<1>2. QED
  BY <1>1, TabsInvariance, PTL

\* The tab that is turned to, by a click or by closing another, becomes the current entry.
LEMMA TurnedToIsTop ==
    ASSUME TabsTypes, NEW tab, NEW how \in {"push", "replace"}, ActivateTab(tab, how)
    PROVE  Top'.id = activeTabID'
<1> DEFINE S == Tab \cup {Blank, tab}
<1>1. entries \in Seq(S) /\ here \in 1 .. Len(entries) /\ tab \in S /\ Len(entries) \in Nat
  BY DEF TabsTypes
<1> HIDE DEF S
<1>2. activeTabID' = tab.id
  BY DEF ActivateTab
<1>3. CASE entries' = [entries EXCEPT ![here] = tab] /\ here' = here
  BY <1>1, <1>2, <1>3 DEF Top
<1>4. CASE UNCHANGED browser /\ Top.id = tab.id
  BY <1>2, <1>4 DEF browser, Top
<1>5. CASE entries' = Append(SubSeq(entries, 1, here), tab) /\ here' = here + 1
  <2>1. SubSeq(entries, 1, here) \in Seq(S) /\ Len(SubSeq(entries, 1, here)) = here
    BY <1>1
  <2>2. entries'[here + 1] = tab
    BY <1>1, <1>5, <2>1
  <2>3. QED
    BY <1>2, <1>5, <2>2 DEF Top
<1>6. QED
  BY <1>3, <1>4, <1>5 DEF ActivateTab

\* So does the tab of the entry that is gone back or forward to.
LEMMA PoppedIsTop ==
    ASSUME TabsTypes, NEW h, PopState(h), activeTabID' # activeTabID
    PROVE  Top'.id = activeTabID'
<1>1. here' = h /\ entries' = entries
  BY DEF PopState
<1>2. CASE activeTabID' = entries[h].id
  BY <1>1, <1>2 DEF Top
<1>3. CASE entries[h].id \in TabIDs(tabs)
  <2> DEFINE existing == CHOOSE t \in Elems(tabs) : t.id = entries[h].id
  <2>1. existing.id = entries[h].id
    BY <1>3 DEF TabIDs
  <2>2. ActivateTab(existing, "none") => activeTabID' = existing.id
    BY DEF ActivateTab
  <2>3. UNCHANGED <<screen, timer, unsearched>> \/ ActivateTab(existing, "none")
        \/ ActivateTab(entries[h], "none")
    BY <1>3 DEF PopState
  <2>4. QED
    BY <1>2, <2>1, <2>2, <2>3 DEF screen, ActivateTab
<1>4. CASE entries[h].id \notin TabIDs(tabs)
  <2>1. UNCHANGED <<screen, timer, unsearched>> \/ ActivateTab(entries[h], "none")
    BY <1>4 DEF PopState
  <2>2. QED
    BY <1>2, <2>1 DEF screen, ActivateTab
<1>5. QED
  BY <1>3, <1>4

\* Turning to another tab makes it the current entry of the history.
THEOREM TheWayBackIsKept == TabsSpec => TurningIsRecorded
<1> DEFINE Recorded == activeTabID' # activeTabID /\ tabsReady /\ tabsReady'
                          => Top'.id = activeTabID'
<1>1. ASSUME TabsIInv, TabsNext, activeTabID' # activeTabID, tabsReady, tabsReady'
      PROVE  Top'.id = activeTabID'
  <2>1. TabsTypes
    BY <1>1 DEF TabsIInv
  <2>2. \A t : SwitchTab(t) => Top'.id = activeTabID'
    BY <2>1, TurnedToIsTop DEF SwitchTab
  <2>3. \A t \in Elems(tabs) : ClickTab(t) => Top'.id = activeTabID'
    BY <2>2 DEF ClickTab
  <2>4. \A p, found : Opened(p, found) => Top'.id = activeTabID'
    BY <2>1, <2>2, TurnedToIsTop DEF Opened, AddTab
  <2>5. /\ \A p \in Links : OpenTab(p) => Top'.id = activeTabID'
        /\ \A s \in Saves : Answer(s) => Top'.id = activeTabID'
    BY <2>4 DEF OpenTab, Answer
  <2>6. \A i \in 1 .. Len(tabs) : CloseTab(i) => Top'.id = activeTabID'
    BY <1>1, <2>1, TurnedToIsTop DEF CloseTab
  <2>7. \A h \in 1 .. Len(entries) : PopState(h) => Top'.id = activeTabID'
    BY <1>1, <2>1, PoppedIsTop
  <2>8. ~(SignIn \/ SignOut \/ PanelPushesEntry \/ FetchTabs \/ SendTabs)
    BY <1>1 DEF SignIn, SignOut, PanelPushesEntry, FetchTabs, SendTabs, screen
  <2>9. /\ ~\E s \in Saves, p \in SaveOpens : StartSave(s, p)
        /\ ~\E s \in Saves : FailSave(s)
        /\ ~\E i \in 1 .. Len(puts) : SaveWorkspaceTabs(i) \/ LoseTabs(i)
    BY <1>1 DEF StartSave, FailSave, SaveWorkspaceTabs, LoseTabs, screen
  <2>10. ~(RestoreTabs \/ Reload)
    BY <1>1 DEF RestoreTabs, Reload
  <2>11. /\ ~\E i, j \in 1 .. Len(tabs) : ReorderTab(i, j)
         /\ ~\E c \in BOOLEAN : RenameDraft(c)
    BY <1>1 DEF ReorderTab, RenameDraft
  <2>12. CASE UserStep
    BY <2>3, <2>5, <2>6, <2>7, <2>8, <2>9, <2>11, <2>12 DEF UserStep
  <2>13. CASE SystemStep
    BY <2>5, <2>8, <2>9, <2>10, <2>13 DEF SystemStep
  <2>14. QED
    BY <1>1, <2>10, <2>12, <2>13 DEF TabsNext
<1>2. ASSUME TabsIInv, [TabsNext]_tabsVars PROVE [Recorded]_tabsVars
  BY <1>1, <1>2
<1>3. QED
  BY <1>2, TabsInvariance, PTL DEF TabsSpec, TurningIsRecorded


(***************************************************************************)
(* ActivityPlanner: what it places, it places on free days, a read-only    *)
(* plan stays as it is, and the planner implements ActivityPlan.           *)
(***************************************************************************)

\* On a read-only page the editor only ever holds an activity, and does not mark a finish.
ReadOnlyEditor ==
    readOnly /\ editingDate # NoDay => editingID # NoId /\ ~markFinish

IInv == TypeOK /\ ReadOnlyEditor

\* A plan the page hands over is typed.
LEMMA OfferedPlan ==
    ASSUME NEW p \in Offered
    PROVE  /\ p.activities \in UNION {[D -> Plan!Activity] : D \in SUBSET Ids}
           /\ p.finishDate \in Days \cup {NoDay}
BY PlannerAssumption DEF Plan!Plans

\* A plan is made of activities.
LEMMA Planned ==
    ASSUME TypeOK
    PROVE  /\ DOMAIN activities \subseteq Ids
           /\ \A i \in DOMAIN activities :
                /\ activities[i] \in Plan!Activity
                /\ activities[i].date \in Days /\ activities[i].column \in Columns
BY DEF TypeOK, Plan!Activity

\* Some activities of a plan are a plan.
LEMMA PartOfPlan ==
    ASSUME TypeOK, NEW S \in SUBSET (DOMAIN activities)
    PROVE  [i \in S |-> activities[i]] \in UNION {[D -> Plan!Activity] : D \in SUBSET Ids}
<1>1. S \in SUBSET Ids /\ \A i \in S : activities[i] \in Plan!Activity
  BY Planned
<1>2. [i \in S |-> activities[i]] \in [S -> Plan!Activity]
  BY <1>1
<1>3. QED
  BY <1>1, <1>2

\* A plan with one activity more, or another one in its place, is a plan.
LEMMA PlanWith ==
    ASSUME TypeOK, NEW S \in SUBSET (DOMAIN activities), NEW k \in Ids, NEW a \in Plan!Activity,
           NEW T \in {S, S \cup {k}}, T \ {k} \subseteq S
    PROVE  [i \in T |-> IF i = k THEN a ELSE activities[i]]
                \in UNION {[D -> Plan!Activity] : D \in SUBSET Ids}
<1>1. T \in SUBSET Ids /\ \A i \in T : i # k => activities[i] \in Plan!Activity
  BY Planned
<1>2. [i \in T |-> IF i = k THEN a ELSE activities[i]] \in [T -> Plan!Activity]
  BY <1>1
<1>3. QED
  BY <1>1, <1>2

-----------------------------------------------------------------------------
\* The planner starts typed, with no editor open.
LEMMA InitInv == Init => IInv
<1> SUFFICES ASSUME Init PROVE IInv
  OBVIOUS
<1>1. PICK p \in Offered, q \in Offered : activities = p.activities /\ finishDate = q.finishDate
  BY DEF Init, Plan!Init
<1>2. 1 \in Days
  BY PlannerAssumption DEF Days
<1>3. TypeOK
  BY <1>1, <1>2, OfferedPlan, PlannerAssumption DEF Init, Plan!Init, TypeOK
<1>4. ReadOnlyEditor
  BY DEF Init, ReadOnlyEditor
<1>5. QED
  BY <1>3, <1>4 DEF IInv

\* The editor's steps keep the plan, and the editor typed.
LEMMA EditorSteps ==
    ASSUME IInv, UNCHANGED plan,
           \/ \E d \in Days, c \in Columns : OpenNew(d, c)
           \/ \E i \in Ids : OpenEdit(i)
           \/ \E d \in Days \cup {NoDay} : EditDate(d)
           \/ \E b \in BOOLEAN, c \in Columns : EditText(b, c)
           \/ \E b \in BOOLEAN : MarkFinish(b)
           \/ CloseEditor
    PROVE  IInv'
<1> USE DEF plan
<1>1. CASE \E d \in Days, c \in Columns : OpenNew(d, c)
  BY <1>1, PlannerAssumption DEF OpenNew, IInv, TypeOK, ReadOnlyEditor
<1>2. CASE \E i \in Ids : OpenEdit(i)
  <2>1. PICK i \in Ids : OpenEdit(i)
    BY <1>2
  <2>2. activities[i].date \in Days /\ activities[i].column \in Columns
    BY <2>1, Planned DEF OpenEdit, IInv
  <2>3. TypeOK'
    BY <2>1, <2>2 DEF OpenEdit, IInv, TypeOK
  <2>4. ReadOnlyEditor'
    BY <2>1, PlannerAssumption DEF OpenEdit, ReadOnlyEditor
  <2>5. QED
    BY <2>3, <2>4 DEF IInv
<1>3. CASE \E d \in Days \cup {NoDay} : EditDate(d)
  BY <1>3 DEF EditDate, Editing, IInv, TypeOK, ReadOnlyEditor
<1>4. CASE \E b \in BOOLEAN, c \in Columns : EditText(b, c)
  BY <1>4 DEF EditText, IInv, TypeOK, ReadOnlyEditor
<1>5. CASE \E b \in BOOLEAN : MarkFinish(b)
  BY <1>5 DEF MarkFinish, Editing, IInv, TypeOK, ReadOnlyEditor
<1>6. CASE CloseEditor
  BY <1>6, PlannerAssumption DEF CloseEditor, Dismissed, IInv, TypeOK, ReadOnlyEditor
<1>7. QED
  BY <1>1, <1>2, <1>3, <1>4, <1>5, <1>6

\* What is left to show of a step that saves or deletes and closes the editor.
LEMMA Saved ==
    ASSUME IInv, Dismissed, UNCHANGED <<readOnly, given, today, mode, holidaysKnown>>,
           activities' \in UNION {[D -> Plan!Activity] : D \in SUBSET Ids},
           finishDate' \in Days \cup {NoDay}
    PROVE  IInv'
BY PlannerAssumption DEF IInv, TypeOK, Dismissed, ReadOnlyEditor

\* Every step keeps the invariant.
LEMMA NextInv == IInv /\ [Next]_vars => IInv'
<1> SUFFICES ASSUME IInv, [Next]_vars PROVE IInv'
  OBVIOUS
<1>1. CASE UNCHANGED plan /\
           \/ \E d \in Days, c \in Columns : OpenNew(d, c)
           \/ \E i \in Ids : OpenEdit(i)
           \/ \E d \in Days \cup {NoDay} : EditDate(d)
           \/ \E b \in BOOLEAN, c \in Columns : EditText(b, c)
           \/ \E b \in BOOLEAN : MarkFinish(b)
           \/ CloseEditor
  BY <1>1, EditorSteps
<1>2. CASE SaveFinish
  <2> DEFINE S == {j \in DOMAIN activities : activities[j].date # editingDate}
  <2>1. activities' = [i \in S |-> activities[i]] /\ finishDate' = editingDate
    BY <1>2 DEF SaveFinish
  <2>2. activities' \in UNION {[D -> Plan!Activity] : D \in SUBSET Ids}
    BY <2>1, PartOfPlan DEF IInv
  <2>3. finishDate' \in Days \cup {NoDay}
    BY <2>1 DEF IInv, TypeOK
  <2>4. QED
    BY <1>2, <2>2, <2>3, Saved DEF SaveFinish
<1>3. CASE \E i \in Ids : SaveNew(i)
  <2>1. PICK i \in Ids : SaveNew(i)
    BY <1>3
  <2>2. Edited \in Plan!Activity /\ Edited.date # finishDate
    BY <2>1 DEF SaveNew, SaveEnabled, Editing, Edited, IInv, TypeOK, Plan!Activity
  <2> HIDE DEF Edited
  <2>3. activities' = [j \in DOMAIN activities \cup {i} |->
                          IF j = i THEN Edited ELSE activities[j]]
    BY <2>1 DEF SaveNew
  <2>4. activities' \in UNION {[D -> Plan!Activity] : D \in SUBSET Ids}
    BY <2>2, <2>3, PlanWith DEF IInv
  <2>5. finishDate' = finishDate
    BY <2>1 DEF SaveNew
  <2>6. QED
    BY <2>1, <2>4, <2>5, Saved DEF SaveNew, IInv, TypeOK
<1>4. CASE SaveChange
  <2>1. Edited \in Plan!Activity /\ Edited.date # finishDate
    BY <1>4 DEF SaveChange, SaveEnabled, Editing, Edited, IInv, TypeOK, Plan!Activity
  <2>2. editingID \in Ids
    BY <1>4 DEF SaveChange, IInv, TypeOK
  <2> HIDE DEF Edited
  <2>3. activities' = [i \in DOMAIN activities |->
                          IF i = editingID THEN Edited ELSE activities[i]]
    BY <1>4 DEF SaveChange
  <2>4. activities' \in UNION {[D -> Plan!Activity] : D \in SUBSET Ids}
    BY <2>1, <2>2, <2>3, PlanWith DEF IInv
  <2>5. finishDate' = finishDate
    BY <1>4 DEF SaveChange
  <2>6. QED
    BY <1>4, <2>4, <2>5, Saved DEF SaveChange, IInv, TypeOK
<1>5. CASE DeleteActivity
  <2>1. activities' = [i \in DOMAIN activities \ {editingID} |-> activities[i]]
        /\ finishDate' = finishDate
    BY <1>5 DEF DeleteActivity
  <2>2. activities' \in UNION {[D -> Plan!Activity] : D \in SUBSET Ids}
    BY <2>1, PartOfPlan DEF IInv
  <2>3. QED
    BY <1>5, <2>1, <2>2, Saved DEF DeleteActivity, IInv, TypeOK
<1>6. CASE \E i \in Ids, c \in Columns : MoveActivity(i, c)
  <2>1. PICK i \in Ids, c \in Columns : MoveActivity(i, c)
    BY <1>6
  <2> DEFINE q == [date |-> activities[i].date, column |-> c]
  <2>2. q \in Plan!Activity
    BY <2>1, Planned DEF MoveActivity, Plan!Activity, IInv
  <2> HIDE DEF q
  <2>3. activities' = [j \in DOMAIN activities |-> IF j = i THEN q ELSE activities[j]]
    BY <2>1 DEF MoveActivity, q
  <2>4. activities' \in UNION {[D -> Plan!Activity] : D \in SUBSET Ids}
    BY <2>2, <2>3, PlanWith DEF IInv
  <2>5. QED
    BY <2>1, <2>4 DEF MoveActivity, editor, IInv, TypeOK, ReadOnlyEditor
<1>7. CASE \E p \in Offered : HandOver(p)
  <2>1. PICK p \in Offered : HandOver(p)
    BY <1>7
  <2>2. TypeOK'
    BY <2>1, OfferedPlan DEF HandOver, editor, IInv, TypeOK
  <2>3. QED
    BY <2>1, <2>2 DEF HandOver, editor, IInv, ReadOnlyEditor
<1>8. CASE (\E m \in {"calendar", "tree", "kanban"} : SetMode(m)) \/ HolidayQuery \/ Midnight
  <2>1. UNCHANGED <<plan, editor>> /\ mode' \in {"calendar", "tree", "kanban"}
    BY <1>8 DEF SetMode, HolidayQuery, Midnight, IInv, TypeOK
  <2>2. holidaysKnown' \in BOOLEAN
    BY <1>8 DEF SetMode, HolidayQuery, Midnight, IInv, TypeOK
  <2>3. today' \in Days
    BY <1>8, PlannerAssumption DEF SetMode, HolidayQuery, Midnight, IInv, TypeOK, Days
  <2>4. QED
    BY <2>1, <2>2, <2>3 DEF plan, editor, IInv, TypeOK, ReadOnlyEditor
<1>9. CASE UNCHANGED vars
  BY <1>9 DEF vars, plan, editor, IInv, TypeOK, ReadOnlyEditor
<1>10. QED
  BY <1>1, <1>2, <1>3, <1>4, <1>5, <1>6, <1>7, <1>8, <1>9
     DEF Next, OpenNew, OpenEdit, EditDate, EditText, MarkFinish, CloseEditor

\* The inductive invariant holds: the state is typed, and the editor of a read-only page holds
\* an activity and marks no finish.
THEOREM Invariance == Spec => []IInv
<1>1. Init => IInv
  BY InitInv
<1>2. IInv /\ [Next]_vars => IInv'
  BY NextInv
<1>3. QED
  BY <1>1, <1>2, PTL DEF Spec

\* The page has handed nothing over, and what was placed went on a free day.
Placed ==
    given' = given =>
        /\ finishDate' # finishDate =>
              Free(finishDate') /\ \A i \in DOMAIN activities' : activities'[i].date # finishDate'
        /\ \A i \in DOMAIN activities' :
              i \notin DOMAIN activities \/ activities'[i].date # activities[i].date
                  => Free(activities'[i].date) /\ activities'[i].date # finishDate'

\* A save places the day of the editor, which is free and not the day the work ends.
LEMMA SavePlaces ==
    ASSUME IInv, SaveEnabled, editingDate # finishDate, UNCHANGED <<finishDate>>,
           NEW k, NEW S, activities' = [i \in S |-> IF i = k THEN Edited ELSE activities[i]],
           S \ {k} \subseteq DOMAIN activities
    PROVE  Placed
<1>1. Edited.date = editingDate /\ Free(editingDate)
  BY DEF SaveEnabled, Editing, Free, Edited
<1> HIDE DEF Edited
<1>2. QED
  BY <1>1 DEF Placed

\* The planner places nothing but on free days, on what the day, the mode, the holidays and the
\* plan are when it saves.
THEOREM PlacementsAreFree == Spec => PlacedOnFreeDays
<1>1. ASSUME IInv, Next PROVE Placed
  <2>1. CASE SaveFinish
    <3>1. activities' = [i \in {j \in DOMAIN activities : activities[j].date # editingDate}
                            |-> activities[i]]
          /\ finishDate' = editingDate
      BY <2>1 DEF SaveFinish
    <3>2. Free(editingDate)
      BY <2>1 DEF SaveFinish, SaveEnabled, Free
    <3>3. QED
      BY <3>1, <3>2 DEF Placed
  <2>2. CASE \E i \in Ids : SaveNew(i)
    <3>1. PICK i \in Ids : SaveNew(i)
      BY <2>2
    <3> DEFINE S == DOMAIN activities \cup {i}
    <3>2. activities' = [j \in S |-> IF j = i THEN Edited ELSE activities[j]]
          /\ SaveEnabled /\ editingDate # finishDate /\ finishDate' = finishDate
      BY <3>1 DEF SaveNew
    <3>3. S \ {i} \subseteq DOMAIN activities
      OBVIOUS
    <3> HIDE DEF S
    <3>4. QED
      BY <1>1, <3>2, <3>3, SavePlaces
  <2>3. CASE SaveChange
    <3> DEFINE S == DOMAIN activities
    <3>1. activities' = [j \in S |-> IF j = editingID THEN Edited ELSE activities[j]]
          /\ SaveEnabled /\ editingDate # finishDate /\ finishDate' = finishDate
      BY <2>3 DEF SaveChange
    <3>2. S \ {editingID} \subseteq DOMAIN activities
      OBVIOUS
    <3> HIDE DEF S
    <3>3. QED
      BY <1>1, <3>1, <3>2, SavePlaces
  <2>4. CASE DeleteActivity
    BY <2>4 DEF DeleteActivity, Placed
  <2>5. CASE \E i \in Ids, c \in Columns : MoveActivity(i, c)
    <3>1. PICK i \in Ids, c \in Columns : MoveActivity(i, c)
      BY <2>5
    <3>2. DOMAIN activities' = DOMAIN activities
          /\ \A j \in DOMAIN activities : activities'[j].date = activities[j].date
      BY <3>1 DEF MoveActivity, IInv, TypeOK
    <3>3. QED
      BY <3>1, <3>2 DEF MoveActivity, Placed
  <2>6. CASE \E p \in Offered : HandOver(p)
    BY <2>6 DEF HandOver, Placed, IInv, TypeOK
  <2>7. CASE UNCHANGED plan
    BY <2>7 DEF plan, Placed
  <2>8. QED
    BY <1>1, <2>1, <2>2, <2>3, <2>4, <2>5, <2>6, <2>7
       DEF Next, OpenNew, OpenEdit, EditDate, EditText, MarkFinish, CloseEditor, SetMode,
           HolidayQuery, Midnight
<1>2. ASSUME IInv, [Next]_vars PROVE [Placed]_vars
  BY <1>1, <1>2
<1>3. QED
  BY <1>2, Invariance, PTL DEF Spec, PlacedOnFreeDays, Placed

-----------------------------------------------------------------------------
\* Every step of the planner is one of ActivityPlan or leaves the plan alone.
LEMMA StepImplements == IInv /\ [Next]_vars => [Plan!Next]_(Plan!planVars)
<1> SUFFICES ASSUME IInv, [Next]_vars PROVE Plan!Next \/ UNCHANGED plan
  BY DEF plan, Plan!planVars
<1>1. CASE SaveFinish
  <2>1. ~readOnly /\ editingDate \in Days
    BY <1>1 DEF SaveFinish, SaveEnabled, Editing, IInv, ReadOnlyEditor, TypeOK
  <2>2. Plan!FinishOn(editingDate)
    BY <1>1, <2>1 DEF SaveFinish, Plan!FinishOn
  <2>3. QED
    BY <1>1, <2>1, <2>2 DEF SaveFinish, Plan!Next, Plan!Change
<1>2. CASE \E i \in Ids : SaveNew(i)
  <2>1. PICK i \in Ids : SaveNew(i)
    BY <1>2
  <2>2. ~readOnly
    BY <2>1 DEF SaveNew, SaveEnabled, Editing, IInv, ReadOnlyEditor
  <2>3. Edited \in Plan!Activity /\ Edited.date # finishDate
    BY <2>1 DEF SaveNew, SaveEnabled, Editing, Edited, IInv, TypeOK, Plan!Activity
  <2> HIDE DEF Edited
  <2>4. Plan!Put(i, Edited)
    BY <2>1, <2>2, <2>3 DEF SaveNew, Plan!Put
  <2>5. QED
    BY <2>1, <2>3, <2>4 DEF SaveNew, Plan!Next, Plan!Change
<1>3. CASE SaveChange
  <2>1. Edited \in Plan!Activity /\ Edited.date # finishDate
    BY <1>3 DEF SaveChange, SaveEnabled, Editing, Edited, IInv, TypeOK, Plan!Activity
  <2>2. editingID \in Ids
    BY <1>3 DEF SaveChange, IInv, TypeOK
  <2> HIDE DEF Edited
  <2>3. activities' = [i \in DOMAIN activities |->
                          IF i = editingID THEN Edited ELSE activities[i]]
        /\ UNCHANGED <<finishDate, readOnly, given>>
    BY <1>3 DEF SaveChange
  <2>4. CASE editingID \notin DOMAIN activities
    <3>1. activities' = [i \in DOMAIN activities |-> activities[i]]
      BY <2>3, <2>4
    <3>2. activities = [i \in DOMAIN activities |-> activities[i]]
      BY DEF IInv, TypeOK
    <3>3. QED
      BY <2>3, <3>1, <3>2 DEF plan
  <2>5. CASE editingID \in DOMAIN activities
    <3>1. ~readOnly
      BY <1>3, <2>5 DEF SaveChange, SaveEnabled, Editing, Reading
    <3>2. DOMAIN activities \cup {editingID} = DOMAIN activities
      BY <2>5
    <3>3. Plan!Put(editingID, Edited)
      BY <2>1, <2>2, <2>3, <3>1, <3>2 DEF Plan!Put
    <3>4. QED
      BY <2>1, <2>2, <2>3, <3>3 DEF Plan!Next, Plan!Change
  <2>6. QED
    BY <2>4, <2>5
<1>4. CASE DeleteActivity
  <2>1. editingID \in Ids
    BY <1>4 DEF DeleteActivity, IInv, TypeOK
  <2>2. activities' = [i \in DOMAIN activities \ {editingID} |-> activities[i]]
        /\ UNCHANGED <<finishDate, readOnly, given>>
    BY <1>4 DEF DeleteActivity
  <2>3. CASE editingID \notin DOMAIN activities
    <3>1. DOMAIN activities \ {editingID} = DOMAIN activities
      BY <2>3
    <3>2. activities = [i \in DOMAIN activities |-> activities[i]]
      BY DEF IInv, TypeOK
    <3>3. QED
      BY <2>2, <3>1, <3>2 DEF plan
  <2>4. CASE editingID \in DOMAIN activities
    <3>1. ~readOnly
      BY <1>4, <2>4 DEF DeleteActivity, Editing, Reading
    <3>2. Plan!Remove(editingID)
      BY <2>2, <3>1 DEF Plan!Remove
    <3>3. QED
      BY <2>1, <2>2, <3>2 DEF Plan!Next, Plan!Change
  <2>5. QED
    BY <2>3, <2>4
<1>5. CASE \E i \in Ids, c \in Columns : MoveActivity(i, c)
  <2>1. PICK i \in Ids, c \in Columns : MoveActivity(i, c)
    BY <1>5
  <2> DEFINE q == [date |-> activities[i].date, column |-> c]
  <2>2. q \in Plan!Activity /\ q.date = activities[i].date
    BY <2>1, Planned DEF MoveActivity, Plan!Activity, IInv
  <2> HIDE DEF q
  <2>3. activities' = [j \in DOMAIN activities |-> IF j = i THEN q ELSE activities[j]]
    BY <2>1 DEF MoveActivity, q
  <2>4. DOMAIN activities \cup {i} = DOMAIN activities
    BY <2>1 DEF MoveActivity
  <2>5. Plan!Put(i, q)
    BY <2>1, <2>2, <2>3, <2>4 DEF MoveActivity, Plan!Put
  <2>6. QED
    BY <2>1, <2>2, <2>5 DEF MoveActivity, Plan!Next, Plan!Change
<1>6. CASE \E p \in Offered : HandOver(p)
  BY <1>6 DEF HandOver, Plan!Next, Plan!Replace
<1>7. CASE UNCHANGED plan
  BY <1>7
<1>8. QED
  BY <1>1, <1>2, <1>3, <1>4, <1>5, <1>6, <1>7
     DEF Next, OpenNew, OpenEdit, EditDate, EditText, MarkFinish, CloseEditor, SetMode,
         HolidayQuery, Midnight, vars

\* The planner keeps the promises of ActivityPlan.
THEOREM PlannerImplementsPlan == Spec => ImplementsPlan
<1>1. Init => Plan!Init
  BY DEF Init
<1>2. IInv /\ [Next]_vars => [Plan!Next]_(Plan!planVars)
  BY StepImplements
<1>3. QED
  BY <1>1, <1>2, Invariance, PTL DEF Spec, ImplementsPlan, Plan!Spec
=============================================================================
