--------------------------- MODULE SettingsForms ---------------------------
(***************************************************************************)
(* The forms of SettingsPage.tsx, in the window of one admin, and the rows *)
(* they change.                                                            *)
(*                                                                         *)
(* There are four kinds: drawers that add an item, drawers that change     *)
(* one, forms that follow a query, and the two of General and Knowledge    *)
(* Types that write parts of one row.  One panel is on the screen; leaving *)
(* it forgets its fields, and its requests go on.  A value is the number   *)
(* of the moment it was typed in; the greater ones are what the items had  *)
(* at the start.  Validation and refusals are left out.                    *)
(***************************************************************************)
EXTENDS Naturals, SequencesExt

CONSTANTS
    Items,          \* items of a list: divisions, teams, knowledge types
    Types,          \* knowledge types 1, 2, ..., in an order
    Limits,         \* knowledge_visible_type_limit
    FirstLimit, DefaultLimit,   \* its value at the start, and while it is not known
    Tours,          \* bound: sets of panels and forms; a session uses those of one set
    MaxTyped,       \* bound: values typed in
    MaxSaves,       \* bound: saves
    MaxMounts,      \* bound: panels shown, one after the other
    MaxTroubles     \* bound: lost requests or answers, changes by another admin

ASSUME SettingsAssumption ==
    /\ Items \subseteq Nat \ {0} /\ Types \subseteq Nat \ {0} /\ IsFiniteSet(Types)
    /\ {FirstLimit, DefaultLimit} \subseteq Limits /\ Limits \subseteq Nat
    /\ {MaxTyped, MaxSaves, MaxMounts, MaxTroubles} \subseteq Nat

SettingsTabs == {"general", "ai", "github", "notifications", "webhooks", "types", "metadata",
                 "knowledge", "users"}
OrganizationTabs == {"divisions", "teams"}
Panels == SettingsTabs \cup OrganizationTabs

\* What a form changes is named by the form and the item, or 0.
Mirrors == {"ai", "github", "notifications"}
ItemForms == {"knowledge-type", "team", "team-members", "division", "division-members", "leads"}
Key(name) == <<name, 0>>
RankKeys == {<<"rank", t>> : t \in Types}
ItemKeys == ItemForms \X Items
Keys == {Key(n) : n \in Mirrors \cup {"limit", "theme"}} \cup ItemKeys \cup RankKeys

\* What an item has at the start, another value for each.
FirstOf(k) == MaxTyped + k[2]

Queries == Mirrors \cup {"general", "knowledge-types", "divisions"}
QueryOf(k) ==
    CASE k[1] \in Mirrors -> k[1]
      [] k[1] \in {"limit", "theme"} -> "general"
      [] k[1] \in {"rank", "knowledge-type"} -> "knowledge-types"
      [] OTHER -> "divisions"

KeysOf == [q \in Queries |-> {k \in Keys : QueryOf(k) = q}]

Nothing == <<"none", 0>>
Adding == <<"add", 0>>

VARIABLES
    stored,         \* server: key |-> value
    added,          \* server: value |-> items added with it
    cached, known,  \* the answers of the queries, and which of them have come
    tour,           \* the panels and forms of this session
    panel, mount,   \* the panel on the screen; panels shown so far
    filled,         \* the panel's form is there
    open,           \* the open drawer: form and item, Adding or Nothing
    shown,          \* fields, those of the drawers for an item together: form |-> value
    order,          \* ordered, of KnowledgeTypes
    saves,          \* mutations that are pending
    requests,       \* their requests, and those of mutations that have failed
    typed, issued, troubles,    \* counts
    meant,          \* history: value |-> the drawer it was typed in
    mislaid,        \* history: values whose request or answer was lost
    rev, cachedRev, seen,   \* history: changes of the stored limit, those before the last
                            \* fetch, and those known to the general form
    dragged,        \* history: the last order dragged, if nothing has interfered with it
    cleared         \* history: teams whose open drawer of members was emptied

server == <<stored, added>>
page == <<panel, mount, filled, open, shown, order>>
history == <<meant, mislaid, rev, cachedRev, seen, dragged, cleared>>
settingsVars ==
    <<tour, server, cached, known, page, saves, requests, typed, issued, troubles, history>>

Fields == Mirrors \cup {"limit", "theme", "add", "item"}

-----------------------------------------------------------------------------
(* The panel on the screen. *)

\* Orders of the types by sort_order; the server does not say which of two equal ones is first.
Orders(values) ==
    {q \in SetToSeqs(Types) :
        \A i, j \in DOMAIN q : i < j => values[<<"rank", q[i]>>] <= values[<<"rank", q[j]>>]}

OrderOf(p, values) == IF p = "knowledge" THEN Orders(values) ELSE {<<>>}

RanksOf(q) == [k \in RankKeys |-> CHOOSE i \in DOMAIN q : q[i] = k[2]]

\* Deviation: the form does not wait for its data.
FormReadyAlways(p) == TRUE

\* General and the forms that follow a query wait for their data.
FormReady(p) == p \in Mirrors \cup {"general"} => p \in known

\* The state a panel begins with.
Fill(p) ==
    [f \in Fields |->
        IF f = p \/ (p = "general" /\ f \in {"limit", "theme"}) THEN cached[Key(f)] ELSE 0]

Show(p) ==
    /\ p \in tour /\ mount < MaxMounts /\ mount' = mount + 1
    /\ panel' = p /\ filled' = FormReady(p) /\ open' = Nothing
    /\ shown' = Fill(p) /\ order' \in OrderOf(p, cached)
    /\ seen' = IF p = "general" THEN cachedRev ELSE 0
    /\ UNCHANGED <<tour, server, cached, known, saves, requests, typed, issued, troubles, meant,
                   mislaid, rev, cachedRev, dragged, cleared>>

SwitchTab(p) ==
    /\ {panel, p} \subseteq SettingsTabs \/ {panel, p} \subseteq OrganizationTabs
    /\ p # panel /\ Show(p)

SwitchPage == Show(IF panel \in SettingsTabs THEN "divisions" ELSE "general")

\* A query is answered: at first, after a save, or when the window gets the focus.  The
\* effects of the forms that follow it overwrite their fields when the answer has changed.
Fetch(q) ==
    LET news == {k \in KeysOf[q] : cached[k] # stored[k]}
        late == q = "general" /\ panel = "general" /\ ~filled
    IN  /\ cached' = [k \in Keys |-> IF k \in news THEN stored[k] ELSE cached[k]]
        /\ known' = known \cup {q}
        /\ cachedRev' = IF q = "general" THEN rev ELSE cachedRev
        /\ filled' = (filled \/ panel = q)
        /\ shown' = [f \in Fields |->
                        IF Key(f) \in news /\ (f = panel \/ late) THEN stored[Key(f)]
                        ELSE shown[f]]
        /\ seen' = IF late THEN rev ELSE seen
        /\ IF news \cap RankKeys # {} THEN order' \in OrderOf(panel, stored) ELSE order' = order
        /\ UNCHANGED <<tour, server, panel, mount, open, saves, requests, typed, issued, troubles,
                       meant, mislaid, rev, dragged, cleared>>

-----------------------------------------------------------------------------
(* Filling a form in and saving it. *)

\* Deviation: a mutation is begun while the one before is pending.
PendingNever(name) == FALSE

Pending(name) == \E s \in saves : s.mount = mount /\ s.name = name

\* A mutation with a request for each element of puts.
Save(name, value, puts) ==
    /\ name \in tour /\ ~Pending(name) /\ issued < MaxSaves /\ issued' = issued + 1
    /\ saves' = saves \cup {[id |-> issued', mount |-> mount, name |-> name, value |-> value]}
    /\ requests' = requests \cup
            {[save |-> issued', puts |-> p, adds |-> IF name = "add" THEN value ELSE 0,
              seen |-> seen] : p \in puts}
    /\ UNCHANGED <<tour, server, cached, known, panel, mount, filled, open, shown, typed, troubles,
                   meant, mislaid, rev, cachedRev, seen, cleared>>

KeepOrder == UNCHANGED <<order, dragged>>

TypeIn(f) ==
    /\ filled /\ typed < MaxTyped /\ typed' = typed + 1
    /\ shown' = [shown EXCEPT ![f] = typed']
    /\ meant' = [meant EXCEPT ![typed'] = open]
    /\ UNCHANGED <<tour, server, cached, known, panel, mount, filled, open, order, saves, requests,
                   issued, troubles, mislaid, rev, cachedRev, seen, dragged, cleared>>

SetOpen(drawer, fields) ==
    /\ open' = drawer /\ shown' = fields
    /\ UNCHANGED <<tour, server, cached, known, panel, mount, filled, order, saves, requests, typed,
                   issued, troubles, history>>

CloseDrawer == open # Nothing /\ SetOpen(Nothing, shown)

AddForm ==
    \/ TypeIn("add")
    \/ shown["add"] # 0 /\ Save("add", shown["add"], {<<>>}) /\ KeepOrder

\* A drawer that adds an item.  Closing it keeps what was typed.
AddDrawer(p) ==
    /\ panel = p /\ "add" \in tour
    /\ \/ open = Nothing /\ SetOpen(Adding, shown)
       \/ open = Adding /\ AddForm

\* Deviation: the fields are those of the item whose drawer was open before.
OpenItemKeeping(name, i) ==
    /\ open = Nothing
    /\ SetOpen(<<name, i>>,
               IF shown["item"] = 0 THEN [shown EXCEPT !["item"] = cached[<<name, i>>]] ELSE shown)

OpenItem(name, i) ==
    open = Nothing /\ SetOpen(<<name, i>>, [shown EXCEPT !["item"] = cached[<<name, i>>]])

\* A drawer that changes the item it was opened for.
ItemDrawer(p, name) ==
    /\ panel = p
    /\ \/ name \in tour /\ \E i \in Items : OpenItem(name, i)
       \/ open[1] = name /\ TypeIn("item")
       \/ /\ open[1] = name
          /\ Save(name, shown["item"], {[k \in {open} |-> shown["item"]]}) /\ KeepOrder

\* A form that follows its query.
MirrorForm(name) ==
    /\ panel = name
    /\ \/ TypeIn(name)
       \/ filled /\ Save(name, shown[name], {[k \in {Key(name)} |-> shown[name]]}) /\ KeepOrder

-----------------------------------------------------------------------------
(* The panels. *)

\* Of the two requests that change a team, the second, for its divisions, is left out; the
\* popover that changes a knowledge type is taken for a drawer; adding a webhook needs none.
\* The members ticked in the form that adds a team are left out.
ProjectTypes == AddDrawer("types")
MetadataFields == AddDrawer("metadata")
UsersRoles == AddDrawer("users")
TeamManagement ==
    AddDrawer("teams") \/ ItemDrawer("teams", "team") \/ ItemDrawer("teams", "team-members")
AddDivision == AddDrawer("divisions")
EditDivision == ItemDrawer("divisions", "division")
DivisionMembers == ItemDrawer("divisions", "division-members")
DivisionLeads == ItemDrawer("divisions", "leads")
WebhookSettings == panel = "webhooks" /\ "add" \in tour /\ AddForm
AiIntegrationSettings == MirrorForm("ai")
GithubIntegrationSettings == MirrorForm("github")
NotificationDeliverySettings == MirrorForm("notifications")

\* All fields are sent, the limit among them, which has no input in this form.
GeneralSettings ==
    /\ panel = "general"
    /\ \/ TypeIn("theme")
       \/ /\ filled /\ \E f \in {"limit", "theme"} : shown[f] # cached[Key(f)]
          /\ Save("general", shown["theme"],
                  {[k \in {Key("limit"), Key("theme")} |-> shown[k[1]]]})
          /\ KeepOrder

\* autoSaveLimit, when the input is left
SaveLimit(l) ==
    /\ panel = "knowledge" /\ l # cached[Key("limit")]
    /\ Save("limit", l, {[k \in {Key("limit")} |-> l]}) /\ KeepOrder

OtherRankRequests ==
    {r \in requests : DOMAIN r.puts \cap RankKeys # {}
                        /\ ~\E s \in saves : s.id = r.save /\ s.mount = mount}

\* drop: the type at i goes to j, and every type's sort_order is sent in a request of its own.
Drop(i, j) ==
    LET next == InsertAt(RemoveAt(order, i), j, order[i])
        ranks == RanksOf(next)
    IN  /\ panel = "knowledge" /\ i # j /\ order' = next
        /\ Save("rank", 0, {[k \in {key} |-> ranks[key]] : key \in RankKeys})
        /\ dragged' = IF OtherRankRequests = {} THEN ranks ELSE <<>>

KnowledgeTypes ==
    \/ AddDrawer("knowledge") \/ ItemDrawer("knowledge", "knowledge-type")
    \/ \E l \in Limits : SaveLimit(l)
    \/ \E i, j \in DOMAIN order : Drop(i, j)

-----------------------------------------------------------------------------
(* The server and the network. *)

Put(puts) ==
    /\ stored' = [k \in Keys |-> IF k \in DOMAIN puts THEN puts[k] ELSE stored[k]]
    /\ rev' = IF stored'[Key("limit")] # stored[Key("limit")] THEN rev + 1 ELSE rev

Stored(r) ==
    /\ Put(r.puts)
    /\ added' = IF r.adds = 0 THEN added ELSE [added EXCEPT ![r.adds] = @ + 1]

Serve(r) ==
    /\ requests' = requests \ {r} /\ Stored(r)
    /\ UNCHANGED <<tour, cached, known, page, saves, typed, issued, troubles, meant, mislaid,
                   cachedRev, seen, dragged, cleared>>

\* A request is lost or its answer is: the mutation has failed, its other requests go on.
Lose(r) ==
    /\ troubles < MaxTroubles /\ troubles' = troubles + 1
    /\ requests' = requests \ {r} /\ saves' = {s \in saves : s.id # r.save}
    /\ Stored(r) \/ UNCHANGED <<server, rev>>
    /\ mislaid' = IF r.adds = 0 THEN mislaid ELSE mislaid \cup {r.adds}
    /\ dragged' = IF DOMAIN r.puts \cap RankKeys = {} THEN dragged ELSE <<>>
    /\ UNCHANGED <<tour, cached, known, page, typed, issued, meant, cachedRev, seen,
                   cleared>>

\* Deviation: the drawer stays open with what was typed.
SucceededKeeping(s) == UNCHANGED <<open, shown>>

\* The form that adds a team and the drawer of a team's members have one list of members.
EmptiesMembers(s) == s.name = "add" /\ s.mount = mount /\ open[1] = "team-members"

\* onSuccess: the drawer of that form closes, whatever item it shows by now; an added item's
\* fields are cleared, and two forms take the answer over what was typed since.
Succeeded(s) ==
    /\ open' = IF open[1] = s.name THEN Nothing ELSE open
    /\ shown' = CASE s.name = "add" ->
                         [shown EXCEPT !["add"] = 0,
                                       !["item"] = IF EmptiesMembers(s) THEN 0 ELSE @]
                  [] s.name \in {"ai", "github"} -> [shown EXCEPT ![s.name] = s.value]
                  [] OTHER -> shown

Finish(s) ==
    /\ ~\E r \in requests : r.save = s.id
    /\ saves' = saves \ {s}
    /\ IF s.mount = mount THEN Succeeded(s) ELSE UNCHANGED <<open, shown>>
    /\ cleared' = IF EmptiesMembers(s) THEN cleared \cup {open} ELSE cleared
    /\ UNCHANGED <<tour, server, cached, known, panel, mount, filled, order, requests, typed,
                   issued, troubles, meant, mislaid, rev, cachedRev, seen, dragged>>

\* Another admin sets the limit or reorders the types.
OtherAdmin ==
    /\ troubles < MaxTroubles /\ troubles' = troubles + 1
    /\ \/ \E l \in Limits : Put([k \in {Key("limit")} |-> l]) /\ UNCHANGED dragged
       \/ \E q \in SetToSeqs(Types) : Put(RanksOf(q)) /\ dragged' = <<>>
    /\ UNCHANGED <<tour, added, cached, known, page, saves, requests, typed, issued, meant, mislaid,
                   cachedRev, seen, cleared>>

-----------------------------------------------------------------------------
\* A panel is opened; the other lists have been fetched, the general settings have
\* not.
SettingsInit ==
    /\ stored = [k \in Keys |-> CASE k = Key("limit") -> FirstLimit
                                  [] k \in RankKeys -> k[2]
                                  [] k \in ItemKeys -> FirstOf(k)
                                  [] OTHER -> 0]
    /\ added = [v \in 1 .. MaxTyped |-> 0]
    /\ cached = [stored EXCEPT ![Key("limit")] = DefaultLimit]
    /\ known = Queries \ {"general"}
    /\ tour \in Tours /\ panel \in tour \cap Panels /\ mount = 1 /\ open = Nothing
    /\ filled = FormReady(panel) /\ shown = Fill(panel) /\ order \in OrderOf(panel, cached)
    /\ saves = {} /\ requests = {} /\ typed = 0 /\ issued = 0 /\ troubles = 0
    /\ meant = [v \in 1 .. MaxTyped |-> Nothing] /\ mislaid = {}
    /\ rev = 0 /\ cachedRev = 0 /\ seen = 0
    /\ dragged = <<>> /\ cleared = {}

SettingsNext ==
    \/ \E p \in Panels : SwitchTab(p)
    \/ SwitchPage
    \/ \E q \in Queries : Fetch(q)
    \/ CloseDrawer
    \/ ProjectTypes \/ MetadataFields \/ UsersRoles \/ WebhookSettings
    \/ TeamManagement
    \/ AddDivision \/ EditDivision \/ DivisionMembers \/ DivisionLeads
    \/ AiIntegrationSettings \/ GithubIntegrationSettings \/ NotificationDeliverySettings
    \/ GeneralSettings
    \/ KnowledgeTypes
    \/ \E r \in requests : Serve(r) \/ Lose(r)
    \/ \E s \in saves : Finish(s)
    \/ OtherAdmin

SettingsSpec == SettingsInit /\ [][SettingsNext]_settingsVars

-----------------------------------------------------------------------------
(* Properties. *)

\* Reordering sends a request per knowledge type, in no order.  When they have all been
\* served, the server has the order of the last drag, unless one was lost, another admin
\* reordered, or the requests of a panel that was left were still under way.
OrderIsAsDragged ==
    (dragged # <<>> /\ \A r \in requests : DOMAIN r.puts \cap RankKeys = {})
        => \A k \in RankKeys : stored[k] = dragged[k]

\* However often a drawer is closed, opened and saved again while a save is under way, what
\* was typed in it is added once, unless a request or an answer was lost.
AddedOnce == \A v \in 1 .. MaxTyped : added[v] > 1 => v \in mislaid

\* What is stored for an item is what it had or was typed in the drawer of that item, although
\* an answer may close the drawer of another.  Only the members of a team can become empty
\* without anyone's wish: of one whose drawer was open when the answer came that a team had
\* been added.
StoredWhereTyped ==
    \A k \in ItemKeys :
        \/ stored[k] = FirstOf(k)
        \/ stored[k] \in 1 .. MaxTyped /\ meant[stored[k]] = k
        \/ stored[k] = 0 /\ k \in cleared

\* Saving General, which sends the limit of Knowledge Types too, changes that limit only if it
\* has changed since the copy was fetched that the form was filled with.
OnlyUnseenLimitsAreReverted ==
    [][\A r \in requests :
          (Serve(r) /\ Key("theme") \in DOMAIN r.puts /\ rev' # rev)
                => r.seen # rev]_settingsVars
=============================================================================
