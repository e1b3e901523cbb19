--------------------------- MODULE WorkspaceTabs ---------------------------
(***************************************************************************)
(* The tabs of the workspace: App.tsx in one browser window, the history   *)
(* of that window, and the row of user_workspace_states behind it.         *)
(*                                                                         *)
(* A click is one step with the effects that React runs after it.  The     *)
(* debounced PUT, the restoring GET and the browser's Back are steps of    *)
(* their own, so a tab may be opened before the stored tabs come, and PUTs *)
(* overtake each other or get lost.  The forms of a project and the        *)
(* knowledge panel open another page when what they saved is stored: also  *)
(* after the page was left, and then with the list of tabs that was there  *)
(* when it was.  Of the labels it matters only whether the server takes    *)
(* them.                                                                   *)
(***************************************************************************)
EXTENDS Integers, Sequences, FiniteSets

CONSTANTS
    Projects,       \* projects a tab may show
    NoProject,      \* projectID is undefined
    LongNames,      \* projects whose name is too long for the label of a draft about them
    Views,          \* the views of the run, "overview" among them
    DefaultLimit,   \* tabs kept while the settings are not known (8 in the code)
    Limit,          \* tenant_settings.workspace_tab_limit (1 to 12)
    Saves,          \* bound: saves of pages under way at a time
    MaxPuts,        \* bound: PUTs under way at a time
    MaxNew,         \* bound: tabs opened, beside the first
    MaxEntries      \* bound: entries of the browser's history

AllViews == {"overview", "projects", "organization", "operations", "knowledge",
             "documentation", "settings", "project-create", "project-edit", "project-detail"}

\* crypto.randomUUID() gives 1, 2, ...; the first tab's id is 0.
IDs == 0 .. MaxNew
FirstID == 0

ASSUME TabsAssumption ==
    /\ NoProject \notin Projects /\ LongNames \subseteq Projects
    /\ "overview" \in Views /\ Views \subseteq AllViews
    /\ DefaultLimit \in Nat \ {0} /\ Limit \in Nat \ {0}
    /\ MaxPuts \in Nat /\ MaxNew \in Nat /\ MaxEntries \in Nat \ {0}

Tab == [id : IDs, view : Views, project : Projects \cup {NoProject},
        page : {"none", "list", "new"}, long : BOOLEAN]

Page(v, p, k) == [view |-> v, project |-> p, page |-> k]
TabOf(id, p) ==
    [id |-> id, view |-> p.view, project |-> p.project, page |-> p.page, long |-> FALSE]
PageOf(t) == Page(t.view, t.project, t.page)

FirstTab == TabOf(FirstID, Page("overview", NoProject, "none"))

\* An entry pushed by the knowledge panel: its state has no palemo.
Blank == [id |-> -1]

VARIABLES
    tabs, activeTabID, view, selectedProject,   \* what the window shows
    tabsReady,      \* the stored tabs have been restored
    signedIn,       \* user.isSuccess
    timer,          \* the 450 ms before the PUT are running
    entries, here,  \* window.history, and the current entry
    callbacks,      \* what the saves under way will open
    stored,         \* user_workspace_states: tabs and active_tab_id
    fetched,        \* the answer to the GET that has not arrived, if there is one
    puts,           \* PUTs under way, in the order they were sent
    fresh,          \* the next id
    unsearched,     \* history: ids of tabs that were added without a look at the tabs there
                    \* are: by Back, Forward or a late answer
    stray,          \* history: the window shows a tab that was closed when a late answer
                    \* turned to it
    behind          \* history: the newest PUT was lost, or an older one was stored after it

screen == <<tabs, activeTabID, view, selectedProject>>
browser == <<entries, here>>
requests == <<stored, fetched, puts, behind>>
tabsVars == <<screen, tabsReady, signedIn, timer, browser, callbacks, requests, fresh,
              unsearched, stray>>

-----------------------------------------------------------------------------
(* Pages and the links to them. *)

Plain(v) == Page(v, NoProject, IF v = "knowledge" THEN "list" ELSE "none")
Draft(p) == Page("knowledge", p, "new")
Detail(p) == Page("project-detail", p, "none")
Edit(p) == Page("project-edit", p, "none")

MenuPages ==
    {Plain(v) : v \in {"overview", "projects", "knowledge", "organization",
                       "documentation", "settings"}}

Breadcrumbs ==
    {Plain("overview")}
        \cup {p \in {Plain("projects")} : view \in {"project-edit", "project-detail",
                                                    "project-create"}}
        \cup {p \in {Detail(selectedProject)} : view = "project-edit"}

\* The links of the view itself: lists of projects, forms, the knowledge panel.
PageLinks ==
    CASE view = "overview" -> {Detail(p) : p \in Projects}
      [] view = "projects" -> {Detail(p) : p \in Projects} \cup {Plain("project-create")}
      [] view = "project-create" -> {Plain("projects")}
      [] view = "project-edit" -> {Detail(selectedProject)}
      [] view = "project-detail" ->
            {Plain("projects"), Edit(selectedProject), Draft(selectedProject)}
      [] view = "knowledge" -> {Draft(NoProject)}
      [] OTHER -> {}

\* What a page opens when it has saved: onCreated of the forms, onBackToList of the panel.
SaveOpens ==
    CASE view = "project-create" -> {Detail(p) : p \in Projects}
      [] view = "project-edit" -> {Detail(selectedProject)}
      [] view = "knowledge" -> {Plain("knowledge")}
      [] OTHER -> {}

Links == {p \in MenuPages \cup Breadcrumbs \cup PageLinks : p.view \in Views}

-----------------------------------------------------------------------------
(* Lists of tabs. *)

Elems(s) == {s[i] : i \in 1 .. Len(s)}
TabIDs(s) == {t.id : t \in Elems(s)}

\* filter: the elements at the positions P, in their order.
Filtered(s, P) ==
    LET pick == CHOOSE f \in [1 .. Cardinality(P) -> P] :
                    \A i, j \in DOMAIN f : i < j => f[i] < f[j]
    IN  [i \in DOMAIN pick |-> s[pick[i]]]

Without(s, id) == Filtered(s, {i \in 1 .. Len(s) : s[i].id # id})
FirstOf(s, n) == SubSeq(s, 1, IF n < Len(s) THEN n ELSE Len(s))
LastOf(s, n) == SubSeq(s, IF n < Len(s) THEN Len(s) - n + 1 ELSE 1, Len(s))

\* What openTab takes for the page, when it is open: a draft never is.
Showing(p, t) ==
    /\ p.page # "new" /\ t.page # "new"
    /\ t.view = p.view
    /\ p.view \in {"project-detail", "project-edit"} => t.project = p.project

FirstShowing(p) ==
    tabs[CHOOSE i \in 1 .. Len(tabs) :
            /\ Showing(p, tabs[i])
            /\ \A j \in 1 .. i - 1 : ~Showing(p, tabs[j])]

\* What openTab finds among the tabs.
Found(p) == IF \E t \in Elems(tabs) : Showing(p, t) THEN <<FirstShowing(p)>> ELSE <<>>

Top == entries[here]

\* After a render with tabs: an entry without a tab gets the active one.
Stamped(s, id, ready) ==
    IF ready /\ Top = Blank /\ \E t \in Elems(s) : t.id = id
    THEN [entries EXCEPT ![here] = CHOOSE t \in Elems(s) : t.id = id]
    ELSE entries

-----------------------------------------------------------------------------
(* The window's handlers. *)

\* addTab: the limit is the default until the settings are here, and in the popstate
\* listener until the next change of the tabs after that.
Added(tab) ==
    {FirstOf(<<tab>> \o Without(tabs, tab.id), n) : n \in {DefaultLimit, Limit}}

\* Deviation: closing a tab leaves the history as it is.
ActivateTabUnrecorded(tab, mode) ==
    /\ activeTabID' = tab.id /\ view' = tab.view /\ selectedProject' = tab.project
    /\ \/ mode = "replace" /\ UNCHANGED browser
       \/ mode = "push" /\ Top.id = tab.id /\ UNCHANGED browser
       \/ /\ mode = "push" /\ Top.id # tab.id /\ here < MaxEntries
          /\ entries' = Append(SubSeq(entries, 1, here), tab)
          /\ here' = here + 1
       \/ mode = "none"

\* activateTab
ActivateTab(tab, mode) ==
    /\ activeTabID' = tab.id /\ view' = tab.view /\ selectedProject' = tab.project
    /\ \/ /\ mode = "replace"
          /\ entries' = [entries EXCEPT ![here] = tab]
          /\ here' = here
       \/ /\ mode = "push" /\ Top.id = tab.id
          /\ UNCHANGED browser
       \/ /\ mode = "push" /\ Top.id # tab.id
          /\ here < MaxEntries
          /\ entries' = Append(SubSeq(entries, 1, here), tab)
          /\ here' = here + 1
       \/ mode = "none"

\* Deviation: the PUT is armed by a change of the active tab alone.
AfterChangeOfActive ==
    timer' = (timer \/ (tabsReady /\ signedIn /\ activeTabID' # activeTabID))

\* The effects that follow a change of the tabs or of the active one.
AfterChange == timer' = (tabsReady /\ signedIn)

\* A save under way: what it opens, and once its page was left, what the page found last.
NoSave == [phase |-> "none", to |-> PageOf(FirstTab), found |-> <<>>]

\* The page is unmounted: the panel with its tab, a form with its view.
Unmounted ==
    \/ ~signedIn' \/ view' # view
    \/ view = "knowledge" /\ activeTabID' # activeTabID

\* The callbacks cs of a page that is left stay as it was rendered last.
Leaving(cs) ==
    callbacks' = [s \in Saves |->
                    IF cs[s].phase = "live" /\ Unmounted
                    THEN [phase |-> "left", to |-> cs[s].to, found |-> Found(cs[s].to)]
                    ELSE cs[s]]

StillStray == stray' = (stray /\ activeTabID' = activeTabID)

Rest == UNCHANGED <<tabsReady, signedIn, requests>> /\ Leaving(callbacks) /\ StillStray

\* openTab, when the page is open already; a click on a tab.
SwitchTab(t) ==
    /\ ActivateTab(t, "push")
    /\ UNCHANGED <<tabs, fresh>>
    /\ IF t.id = activeTabID THEN UNCHANGED timer ELSE AfterChange

ClickTab(t) == signedIn /\ t \in Elems(tabs) /\ SwitchTab(t) /\ UNCHANGED unsearched /\ Rest

AddTab(p) ==
    /\ fresh <= MaxNew /\ fresh' = fresh + 1
    /\ tabs' \in Added(TabOf(fresh, p))
    /\ ActivateTab(TabOf(fresh, p), "push")
    /\ AfterChange

\* openTab, with what the list of the last render has for the page.
Opened(p, found) == IF found # <<>> THEN SwitchTab(found[1]) ELSE AddTab(p)

\* Deviation: the list is never searched, every link opens a tab.
OpenTabAlways(p) == signedIn /\ p \in Links /\ AddTab(p) /\ UNCHANGED unsearched /\ Rest

OpenTab(p) ==
    signedIn /\ p \in Links /\ Opened(p, Found(p)) /\ UNCHANGED unsearched /\ Rest

\* closeTab: the active tab gives way to the one on its left.
CloseTab(i) ==
    LET next == Without(tabs, tabs[i].id)
        fallback == next[IF i > 2 THEN i - 1 ELSE 1]
    IN  /\ signedIn /\ i \in 1 .. Len(tabs) /\ Len(tabs) > 1
        /\ tabs' = next
        /\ IF tabs[i].id = activeTabID
           THEN ActivateTab(fallback, "replace")
           ELSE /\ UNCHANGED <<activeTabID, view, selectedProject, here>>
                /\ entries' = Stamped(next, activeTabID, tabsReady)
        /\ AfterChange
        /\ Rest /\ UNCHANGED <<fresh, unsearched>>

Moved(s, from, to) ==
    LET rest == SubSeq(s, 1, from - 1) \o SubSeq(s, from + 1, Len(s))
    IN  SubSeq(rest, 1, to - 1) \o <<s[from]>> \o SubSeq(rest, to, Len(rest))

\* reorderTab, from the start of a drag to its drop.
ReorderTab(from, to) ==
    /\ signedIn
    /\ from \in 1 .. Len(tabs) /\ to \in 1 .. Len(tabs) /\ from # to
    /\ tabs' = Moved(tabs, from, to)
    /\ entries' = Stamped(tabs, activeTabID, tabsReady)
    /\ UNCHANGED <<activeTabID, view, selectedProject, here, fresh, unsearched>>
    /\ AfterChange /\ Rest

\* updateKnowledgeDraftTitle: the panel makes a title of the name of the project, which may be
\* longer than the server takes; one that is typed is not.
RenameDraft(b) ==
    /\ signedIn /\ view = "knowledge"
    /\ \E t \in Elems(tabs) :
          t.id = activeTabID /\ t.page = "new" /\ (b => t.project \in LongNames)
    /\ tabs' = [i \in 1 .. Len(tabs) |->
                  IF tabs[i].id = activeTabID THEN [tabs[i] EXCEPT !.long = b] ELSE tabs[i]]
    /\ UNCHANGED <<activeTabID, view, selectedProject, here, fresh, unsearched>>
    /\ entries' = Stamped(tabs', activeTabID, tabsReady)
    /\ AfterChange /\ Rest

\* The knowledge panel pushes an entry of its own.
PanelPushesEntry ==
    /\ signedIn /\ view = "knowledge" /\ here < MaxEntries
    /\ entries' = Append(SubSeq(entries, 1, here), Blank)
    /\ here' = here + 1
    /\ UNCHANGED <<screen, timer, fresh, unsearched>> /\ Rest

-----------------------------------------------------------------------------
(* The browser. *)

\* Deviation: the tab of the entry is shown, whether it is among the tabs or not.
PopStateShows(h) ==
    /\ h \in {here - 1, here + 1} \cap (1 .. Len(entries))
    /\ here' = h /\ UNCHANGED entries
    /\ IF entries[h] = Blank
       THEN UNCHANGED <<screen, timer, unsearched>>
       ELSE /\ ActivateTab(entries[h], "none")
            /\ UNCHANGED <<tabs, unsearched>>
            /\ IF entries[h].id = activeTabID THEN UNCHANGED timer ELSE AfterChange
    /\ Rest /\ UNCHANGED fresh

\* The popstate listener: a tab that was closed comes back.
PopState(h) ==
    /\ h \in {here - 1, here + 1} \cap (1 .. Len(entries))
    /\ here' = h /\ UNCHANGED entries
    /\ CASE entries[h] = Blank -> UNCHANGED <<screen, timer, unsearched>>
         [] entries[h].id \in TabIDs(tabs) ->
                LET existing == CHOOSE t \in Elems(tabs) : t.id = entries[h].id
                IN  /\ ActivateTab(existing, "none")
                    /\ UNCHANGED <<tabs, unsearched>>
                    /\ IF existing.id = activeTabID THEN UNCHANGED timer
                       ELSE AfterChange
         [] OTHER ->
                /\ tabs' \in Added(entries[h])
                /\ ActivateTab(entries[h], "none")
                /\ unsearched' = unsearched \cup {entries[h].id}
                /\ AfterChange
    /\ Rest /\ UNCHANGED fresh

\* A reload, or a crash of the page: the history of the window outlives it, and so does a
\* PUT under way.
Reload ==
    /\ tabs' = <<FirstTab>> /\ activeTabID' = FirstID
    /\ view' = "overview" /\ selectedProject' = NoProject
    /\ tabsReady' = FALSE /\ timer' = FALSE /\ fetched' = <<>>
    /\ callbacks' = [s \in Saves |-> NoSave] /\ stray' = FALSE
    /\ UNCHANGED <<signedIn, browser, stored, puts, behind, fresh, unsearched>>

SignOut ==
    /\ signedIn /\ signedIn' = FALSE
    /\ timer' = FALSE /\ fetched' = <<>>
    /\ UNCHANGED <<screen, tabsReady, browser, stored, puts, behind, fresh, unsearched, stray>>
    /\ Leaving(callbacks)

SignIn ==
    /\ ~signedIn /\ signedIn' = TRUE
    /\ timer' = tabsReady
    /\ UNCHANGED <<screen, tabsReady, browser, callbacks, requests, fresh, unsearched, stray>>

-----------------------------------------------------------------------------
(* Saves of the pages that are open. *)

\* Create or save of a form, save or publish of the knowledge panel: disabled while the save
\* of this page is pending.
StartSave(s, p) ==
    /\ signedIn /\ p \in SaveOpens /\ p.view \in Views
    /\ callbacks[s].phase = "none" /\ \A r \in Saves : callbacks[r].phase # "live"
    /\ callbacks' = [callbacks EXCEPT ![s] = [phase |-> "live", to |-> p, found |-> <<>>]]
    /\ UNCHANGED <<screen, tabsReady, signedIn, timer, browser, requests, fresh, unsearched,
                   stray>>

\* onSuccess: the callback of a page that was left looks for the tab in the list of its last
\* render, and turns to it even if it was closed since.
Answer(s) ==
    LET c == callbacks[s]
        found == IF c.phase = "live" THEN Found(c.to) ELSE c.found
    IN  /\ c.phase # "none"
        /\ Opened(c.to, found)
        /\ unsearched' = unsearched \cup {i \in {fresh} : c.phase = "left" /\ found = <<>>}
        /\ stray' = (found # <<>> /\ found[1].id \notin TabIDs(tabs))
        /\ UNCHANGED <<tabsReady, signedIn, requests>>
        /\ Leaving([callbacks EXCEPT ![s] = NoSave])

FailSave(s) ==
    /\ callbacks[s].phase # "none" /\ callbacks' = [callbacks EXCEPT ![s] = NoSave]
    /\ UNCHANGED <<screen, tabsReady, signedIn, timer, browser, requests, fresh, unsearched,
                   stray>>

-----------------------------------------------------------------------------
(* The stored tabs. *)

\* The server answers the GET.
FetchTabs ==
    /\ signedIn /\ ~tabsReady /\ fetched = <<>> /\ fetched' = <<stored>>
    /\ UNCHANGED <<screen, tabsReady, signedIn, timer, browser, callbacks, stored, puts, behind,
                   fresh, unsearched, stray>>

\* The answer arrives: whatever was opened in the meantime is replaced.
RestoreTabs ==
    LET row == fetched[1]
        restored == Filtered(row.tabs,
                             {i \in 1 .. Len(row.tabs) : row.tabs[i].view # "operations"})
        active == IF row.active \in TabIDs(restored)
                  THEN CHOOSE t \in Elems(restored) : t.id = row.active
                  ELSE restored[Len(restored)]
    IN  /\ signedIn /\ ~tabsReady /\ tabsReady' = TRUE
        /\ fetched # <<>> /\ fetched' = <<>>
        /\ IF restored = <<>> THEN UNCHANGED screen
           ELSE /\ tabs' = restored /\ activeTabID' = active.id
                /\ view' = active.view /\ selectedProject' = active.project
        /\ entries' = Stamped(tabs', activeTabID', TRUE)
        /\ timer' = TRUE
        /\ UNCHANGED <<signedIn, here, stored, puts, behind, fresh, unsearched>>
        /\ Leaving(callbacks) /\ StillStray

\* The views that WorkspaceController's saveWorkspaceTabs lets through.
SavableViews == AllViews \ {"project-edit"}
Savable(s) == \A t \in Elems(s) : t.view \in SavableViews /\ ~t.long

\* What the server keeps: the last tabs up to the limit.
Sanitized(p) ==
    LET kept == LastOf(p.tabs, Limit)
    IN  [tabs |-> kept,
         active |-> IF p.active \in TabIDs(kept) THEN p.active ELSE kept[Len(kept)].id]

\* The timer fires.
SendTabs ==
    /\ timer /\ timer' = FALSE /\ Len(puts) < MaxPuts
    /\ puts' = Append(puts, [tabs |-> tabs, active |-> activeTabID, overtaken |-> FALSE])
    /\ behind' = FALSE
    /\ UNCHANGED <<screen, tabsReady, signedIn, browser, callbacks, stored, fetched, fresh,
                   unsearched, stray>>

\* A PUT is over, and those sent before it come late.
PutOver(i) ==
    puts' = [j \in 1 .. Len(puts) - 1 |->
                IF j < i THEN [puts[j] EXCEPT !.overtaken = TRUE] ELSE puts[j + 1]]

\* saveWorkspaceTabs: the whole list is refused when it does not take one of the tabs.  The
\* window does not listen to the answer.
SaveWorkspaceTabs(i) ==
    /\ i \in 1 .. Len(puts) /\ PutOver(i)
    /\ IF Savable(puts[i].tabs)
       THEN stored' = Sanitized(puts[i]) /\ behind' = puts[i].overtaken
       ELSE UNCHANGED <<stored, behind>>
    /\ UNCHANGED <<screen, tabsReady, signedIn, timer, browser, callbacks, fetched, fresh,
                   unsearched, stray>>

\* A PUT does not reach the server, and is not sent again.
LoseTabs(i) ==
    /\ i \in 1 .. Len(puts) /\ PutOver(i)
    /\ behind' = (behind \/ (i = Len(puts) /\ ~puts[i].overtaken))
    /\ UNCHANGED <<screen, tabsReady, signedIn, timer, browser, callbacks, stored, fetched,
                   fresh, unsearched, stray>>

-----------------------------------------------------------------------------
TabsInit ==
    /\ tabs = <<FirstTab>> /\ activeTabID = FirstID
    /\ view = "overview" /\ selectedProject = NoProject
    /\ tabsReady = FALSE /\ signedIn = TRUE
    /\ timer = FALSE
    /\ entries = <<Blank>> /\ here = 1
    /\ callbacks = [s \in Saves |-> NoSave]
    /\ stored = [tabs |-> <<>>, active |-> FirstID] /\ fetched = <<>> /\ puts = <<>>
    /\ fresh = 1 /\ unsearched = {} /\ stray = FALSE /\ behind = FALSE

UserStep ==
    \/ \E t \in Elems(tabs) : ClickTab(t)
    \/ \E p \in Links : OpenTab(p)
    \/ \E i \in 1 .. Len(tabs) : CloseTab(i)
    \/ \E i, j \in 1 .. Len(tabs) : ReorderTab(i, j)
    \/ \E b \in BOOLEAN : RenameDraft(b)
    \/ PanelPushesEntry
    \/ \E h \in 1 .. Len(entries) : PopState(h)
    \/ SignOut
    \/ SignIn
    \/ \E s \in Saves, p \in SaveOpens : StartSave(s, p)

SystemStep ==
    \/ \E s \in Saves : Answer(s)
    \/ \E s \in Saves : FailSave(s)
    \/ FetchTabs
    \/ RestoreTabs
    \/ SendTabs
    \/ \E i \in 1 .. Len(puts) : SaveWorkspaceTabs(i)
    \/ \E i \in 1 .. Len(puts) : LoseTabs(i)

TabsNext == UserStep \/ SystemStep \/ Reload

TabsSpec == TabsInit /\ [][TabsNext]_tabsVars

-----------------------------------------------------------------------------
(* Properties. *)

\* The window shows one of its tabs, and shows the page of that tab: React keeps the tab
\* bar, the view and the project in separate states, which Back, restoring, closing and the
\* limit on tabs all change.  Only the late answer of a page that was left can turn to a tab
\* that has been closed, and it stays so until the window turns to another.
ActiveTabIsShown ==
    /\ stray \/ activeTabID \in TabIDs(tabs)
    /\ \A t \in Elems(tabs) :
          t.id = activeTabID => t.view = view /\ t.project = selectedProject
    /\ \A i, j \in 1 .. Len(tabs) : tabs[i].id = tabs[j].id => i = j

\* Two tabs for one page come about only when one is added without a look at the tabs there
\* are: Back and Forward reopen a closed tab beside one that shows its page, and the answer
\* of a page that was left does not know a tab that was opened since.
OneTabPerPage ==
    \A s, t \in Elems(tabs) :
        s # t /\ Showing(PageOf(s), t) => s.id \in unsearched \/ t.id \in unsearched

\* Whenever the window turns to another tab, other than by loading, the current entry of
\* the history is that tab: the way back is not cut.
TurningIsRecorded ==
    [][activeTabID' # activeTabID /\ tabsReady /\ tabsReady'
          => Top'.id = activeTabID']_tabsVars

Quiet == tabsReady /\ signedIn /\ ~timer /\ puts = <<>>

StoredIsShown ==
    stored = Sanitized([tabs |-> tabs, active |-> activeTabID])

\* When the debounced PUTs are over, the server holds the tabs of the window, cut to the
\* limit, unless it refuses one of them, or the PUT that was sent last was lost or overtook
\* one that was stored after it: every change of the tabs, of their labels and of the active
\* one has been sent.
TabsAreRemembered == Quiet /\ Savable(tabs) /\ ~behind => StoredIsShown
=============================================================================
