--------------------------- MODULE KnowledgeDraft ---------------------------
(***************************************************************************)
(* Writing knowledge: the editor of KnowledgePanel.tsx, with its autosave  *)
(* every 20 seconds and its save and publish buttons, over Laravel's       *)
(* createKnowledge and updateKnowledge and the trigger that keeps the      *)
(* versions of a wiki page.                                                *)
(*                                                                         *)
(* One panel of one author, who may edit whatever it lists.  A text is the *)
(* document the author has in mind, with the number of its words, and what *)
(* its content (among the contents with as many words), its heading (title *)
(* and tags) and its other details are.  The lists are answers the panel   *)
(* keeps: a row is opened as it was when its list was fetched.  The server *)
(* runs a request in one step: what updateKnowledge reads before its       *)
(* transaction decides nothing for the author of the row.                  *)
(***************************************************************************)
EXTENDS Naturals, Sequences

CONSTANTS
    Docs,           \* documents
    NewDoc,         \* the one the panel was opened for, as new
    OldRows,        \* the author's rows before that: a sequence of drafts
    NoDoc,          \* no document
    Values,         \* what a number of words, a content, a heading or other details may be
    Tables,         \* the tables of the run: "wiki" is wiki_pages, which has versions, "other"
                    \* those of meetings, decisions and lessons
    Valid,          \* BOOLEAN if texts of the run may be refused, and {TRUE} if not
    MaxEdits,       \* bound on the author's edits
    MaxOpens,       \* bound: rows opened from a list
    MaxLosses,      \* bound: requests and answers that the network loses
    MaxSteps        \* bound on the three together

\* table: of the first of the types.  valid: updateKnowledge and createKnowledge take it: not
\* too many tags, resources or types, no too long title or content, a cover that exists.
Text == [doc : Docs, words : Values, content : Values, heading : Values, details : Values,
         table : Tables, valid : Valid]

NewText == [doc |-> NewDoc, words |-> 0, content |-> 0, heading |-> 0, details |-> 0,
            table |-> "wiki", valid |-> TRUE]
NoText == [NewText EXCEPT !.doc = NoDoc]

ASSUME DraftAssumption ==
    /\ NewDoc \in Docs /\ NoDoc \notin Docs
    /\ 0 \in Values /\ "wiki" \in Tables /\ TRUE \in Valid /\ Valid \subseteq BOOLEAN
    /\ OldRows \in Seq(Text)
    /\ MaxEdits \in Nat /\ MaxOpens \in Nat /\ MaxLosses \in Nat
    /\ MaxSteps \in Nat

\* Each row there was is a document of its own, and the new one has none yet.
ASSUME OldAssumption ==
    \A i, j \in DOMAIN OldRows :
        /\ OldRows[i].doc = OldRows[j].doc => i = j
        /\ OldRows[i].doc # NewDoc

VARIABLES
    rows,       \* wiki_pages with their wiki_page_versions
    listed,     \* the cached answers: "Your Draft", and the published of a type
    form,       \* the editor: addOpen, the text, whether title and types are given,
                \* editingKnowledge's status
    asked,      \* how many covers are being uploaded, and types created
    ref, kind,  \* autosaveDraftRef: the row, and the table of the kind
    saved,      \* autosaveWordCountRef and autosaveMetadataSignatureRef
    saving,     \* autosaveStatus = "saving"
    auto,       \* the autosave under way: autosaveRunningRef
    save,       \* the mutation under way: createKnowledge.isPending
    edits,      \* edits made
    losses,     \* messages lost
    opens,      \* documents opened from a list
    calm        \* history: no request overlapped or failed, or was under way when the
                \* editor was closed

editor == <<form, asked, ref, kind, saved, saving>>
vars == <<rows, listed, editor, auto, save, edits, losses, opens, calm>>

-----------------------------------------------------------------------------
NoRow == 0

\* What a version keeps of a text.
Pages == [doc : Docs, words : Values, content : Values, heading : Values]
Page(t) == [doc |-> t.doc, words |-> t.words, content |-> t.content, heading |-> t.heading]

\* countMarkdownWords, and metadataSignature: what the autosave looks at.
Words(t) == t.words
Signature(t) == <<t.heading, t.details, t.table>>
NoSignature == <<>>
Signatures == {NoSignature} \cup (Values \X Values \X Tables)

Statuses == {"draft", "published"}

\* texts: history, those the row has had.
Row == [table : Tables, text : Text, texts : SUBSET Text, status : Statuses,
        versions : SUBSET Pages, by : {"auto", "save", "given"}]

NoRequest ==
    [pc |-> "idle", method |-> "PATCH", row |-> NoRow, table |-> "wiki", text |-> NoText,
     status |-> "draft"]

Request == [pc : {"idle", "sent", "done", "refused"}, method : {"POST", "PATCH"}, row : Nat,
            table : Tables, text : Text \cup {NoText}, status : Statuses]

Ids == DOMAIN rows

NothingSaved == [words |-> 0, meta |-> NoSignature]

TypeOK ==
    /\ rows \in Seq(Row)
    /\ listed \in [Statuses -> SUBSET [row : Ids, table : Tables, text : Text]]
    /\ form \in [open : BOOLEAN, text : Text \cup {NoText}, complete : BOOLEAN, published : BOOLEAN]
    /\ form.open => form.text # NoText
    /\ asked \in [{"cover", "type"} -> Nat]
    /\ ref \in {NoRow} \cup Ids /\ kind \in Tables
    /\ saved \in [words : Values, meta : Signatures]
    /\ auto \in Request /\ save \in Request
    /\ {auto.row, save.row} \subseteq {NoRow} \cup Ids
    /\ saving \in BOOLEAN /\ (saving => auto.pc # "idle")
    /\ edits \in 0 .. MaxEdits /\ losses \in 0 .. MaxLosses
    /\ opens \in 0 .. MaxOpens /\ calm \in BOOLEAN

\* The table of the kind that an item of a list has: for a draft of wiki_pages it is the
\* first of its types, whatever table that is of.
KindOf(i, status) ==
    IF status = "draft" /\ rows[i].table = "wiki" THEN rows[i].text.table ELSE rows[i].table

\* The rows of a status: Laravel lists drafts and published knowledge apart.
Listing(status) ==
    {[row |-> i, table |-> KindOf(i, status), text |-> rows[i].text] :
        i \in {j \in Ids : rows[j].status = status}}

GivenRow(t) ==
    [table |-> t.table, text |-> t, texts |-> {t}, status |-> "draft", versions |-> {},
     by |-> "given"]

Init ==
    /\ rows = [i \in DOMAIN OldRows |-> GivenRow(OldRows[i])]
    /\ listed = [status \in Statuses |-> Listing(status)]
    /\ form = [open |-> TRUE, text |-> NewText, complete |-> TRUE, published |-> FALSE]
    /\ asked = [d \in {"cover", "type"} |-> 0]
    /\ ref = NoRow /\ kind = "wiki"
    /\ saved = NothingSaved
    /\ saving = FALSE
    /\ auto = NoRequest /\ save = NoRequest
    /\ edits = 0 /\ losses = 0
    /\ opens = 0 /\ calm = TRUE

\* Not a part of the code: the bound on edits, openings and losses together.
StepsLeft == edits + opens + losses < MaxSteps

-----------------------------------------------------------------------------
(* The server *)

\* Deviation: the trigger does not look at the title and the tags.
WrittenByContent(i, q) ==
    [rows EXCEPT ![i].text = q.text, ![i].status = q.status, ![i].texts = @ \cup {q.text},
                 ![i].versions =
                    IF q.text.words # rows[i].text.words \/ q.text.content # rows[i].text.content
                    THEN @ \cup {Page(rows[i].text)} ELSE @]

\* updateKnowledge, and the trigger of wiki_pages: another title, content or tags make a
\* version of those before.
Written(i, q) ==
    [rows EXCEPT ![i].text = q.text, ![i].status = q.status, ![i].texts = @ \cup {q.text},
                 ![i].versions =
                    IF rows[i].table = "wiki" /\ Page(q.text) # Page(rows[i].text)
                    THEN @ \cup {Page(rows[i].text)} ELSE @]

\* createKnowledge does not look at the Idempotency-Key.
Created(q, by) ==
    Append(rows, [table |-> q.table, text |-> q.text, texts |-> {q.text}, status |-> q.status,
                  versions |-> {}, by |-> by])

\* 422 for a text that is not valid, 404 for a row that is not in the table of the kind.
Refuses(q) == ~q.text.valid \/ (q.method = "PATCH" /\ rows[q.row].table # q.table)

Handle(q, by) ==
    /\ q.pc = "sent"
    /\ rows' = IF Refuses(q) THEN rows
               ELSE IF q.method = "POST" THEN Created(q, by) ELSE Written(q.row, q)
    /\ UNCHANGED <<listed, editor, edits, losses, opens, calm>>

\* The row a request wrote is what its answer names.
Answered(q) ==
    IF Refuses(q) THEN [q EXCEPT !.pc = "refused"]
    ELSE [q EXCEPT !.pc = "done", !.row = IF q.method = "POST" THEN Len(rows) + 1 ELSE q.row]

ServeAuto == Handle(auto, "auto") /\ auto' = Answered(auto) /\ UNCHANGED save

ServeSave == Handle(save, "save") /\ save' = Answered(save) /\ UNCHANGED auto

\* A list is fetched again: after a success, when the window is focused, when it is shown.
\* (One that brings nothing new changes nothing, and nobody reads it after MaxOpens.)
Refetch(status) ==
    /\ opens < MaxOpens /\ StepsLeft /\ listed[status] # Listing(status)
    /\ listed' = [listed EXCEPT ![status] = Listing(status)]
    /\ UNCHANGED <<rows, editor, auto, save, edits, losses, opens, calm>>

-----------------------------------------------------------------------------
(* The author *)

\* The form is edited; nothing else of the panel changes.
Edit(text, complete) ==
    /\ form.open /\ edits < MaxEdits /\ StepsLeft /\ edits' = edits + 1
    /\ text # form.text \/ complete # form.complete
    /\ form' = [form EXCEPT !.text = text, !.complete = complete]
    /\ UNCHANGED <<rows, listed, asked, ref, kind, saved, saving, auto, save, losses, opens, calm>>

\* Whatever is edited may be taken back, or be more than the server takes.
Type ==
    \E n, c \in Values, ok \in Valid :
        Edit([form.text EXCEPT !.words = n, !.content = c, !.valid = ok], form.complete)

\* The title and the tags; without a title the document is not complete.
EditHeading ==
    \E v \in Values, ok \in Valid, complete \in BOOLEAN :
        Edit([form.text EXCEPT !.heading = v, !.valid = ok], complete)

\* The types, divisions, resources, project and cover; it has to have a type.
EditDetails ==
    \E v \in Values, t \in Tables, ok \in Valid, complete \in BOOLEAN :
        Edit([form.text EXCEPT !.details = v, !.table = t, !.valid = ok], complete)

\* A cover is uploaded, a type created.  (The control is disabled until the answer; that of
\* the cover, until another draft is resumed.)
Ask(detail) ==
    /\ form.open /\ edits < MaxEdits /\ StepsLeft /\ edits' = edits + 1
    /\ asked' = [asked EXCEPT ![detail] = @ + 1]
    /\ UNCHANGED <<rows, listed, form, ref, kind, saved, saving, auto, save, losses, opens, calm>>

UploadCover == Ask("cover")
CreateType == asked["type"] = 0 /\ Ask("type")

\* The answer, if it is not an error, sets the detail of whatever document is in the editor
\* by then.
Arrives(detail, text, complete) ==
    /\ asked[detail] > 0
    /\ asked' = [asked EXCEPT ![detail] = @ - 1]
    /\ form' = IF form.open THEN [form EXCEPT !.text = text, !.complete = complete] ELSE form
    /\ UNCHANGED <<rows, listed, ref, kind, saved, saving, auto, save, edits, losses, opens, calm>>

CoverArrives ==
    \E v \in Values, ok \in {form.text.valid, TRUE} :
        Arrives("cover", [form.text EXCEPT !.details = v, !.valid = ok], form.complete)

\* The new type is of wiki_pages, if it is the first.
TypeArrives ==
    \E v \in Values, t \in {form.text.table, "wiki"}, ok \in {form.text.valid, FALSE} \cap Valid,
       complete \in {form.complete, TRUE} :
        Arrives("type", [form.text EXCEPT !.details = v, !.table = t, !.valid = ok], complete)

Quiet == auto.pc = "idle" /\ save.pc = "idle"

NoForm == [open |-> FALSE, text |-> NoText, complete |-> FALSE, published |-> FALSE]

\* Cancel, or the browser's back button.
Close ==
    /\ form.open
    /\ form' = NoForm
    /\ ref' = NoRow
    /\ calm' = (calm /\ Quiet)
    /\ UNCHANGED <<rows, listed, asked, kind, saved, saving, auto, save, edits, losses, opens>>

\* An item is opened as its list has it, whatever request is still under way.
Open(item, status) ==
    /\ ~form.open /\ opens < MaxOpens /\ StepsLeft
    /\ item \in listed[status]
    /\ opens' = opens + 1
    /\ form' = [open |-> TRUE, text |-> item.text, complete |-> TRUE,
                published |-> status = "published"]
    /\ ref' = item.row /\ kind' = item.table
    /\ UNCHANGED <<rows, listed, asked, auto, save, edits, losses, calm>>

\* resumeDraft sets the word count, and not the signature of the rest.
ResumeDraft(item) ==
    /\ Open(item, "draft")
    /\ saved' = [saved EXCEPT !.words = Words(item.text)]
    /\ saving' = FALSE

OpenKnowledgeDetail(item) ==
    /\ Open(item, "published")
    /\ UNCHANGED <<saved, saving>>

-----------------------------------------------------------------------------
(* The autosave *)

\* Deviation: the autosave looks at the number of words alone.
UnsavedByWords == Words(form.text) # saved.words

\* An edit that keeps the number of words and the details is not seen.
Unsaved == Words(form.text) # saved.words \/ Signature(form.text) # saved.meta

Sent(status) ==
    [pc |-> "sent", method |-> IF ref = NoRow THEN "POST" ELSE "PATCH",
     row |-> ref, table |-> IF ref = NoRow THEN form.text.table ELSE kind,
     text |-> form.text, status |-> status]

\* The interval comes round.  It runs while the mutation is pending, too.
Autosave ==
    /\ form.open /\ ~form.published /\ form.complete
    /\ auto.pc = "idle" /\ Unsaved
    /\ auto' = Sent("draft")
    /\ saving' = TRUE
    /\ calm' = (calm /\ save.pc = "idle")
    /\ UNCHANGED <<rows, listed, form, asked, ref, kind, saved, save, edits, losses, opens>>

\* Deviation: the row that was created is not remembered.
AutosavedForgets ==
    /\ auto.pc = "done"
    /\ saved' = [words |-> Words(auto.text), meta |-> Signature(auto.text)]
    /\ auto' = NoRequest /\ saving' = FALSE
    /\ UNCHANGED <<rows, listed, form, asked, ref, kind, save, edits, losses, opens, calm>>

\* The answer arrives, whatever document is in the editor by then.
Autosaved ==
    /\ auto.pc = "done"
    /\ IF auto.method = "POST"
       THEN ref' = auto.row /\ kind' = auto.table
       ELSE UNCHANGED <<ref, kind>>
    /\ saved' = [words |-> Words(auto.text), meta |-> Signature(auto.text)]
    /\ auto' = NoRequest /\ saving' = FALSE
    /\ UNCHANGED <<rows, listed, form, asked, save, edits, losses, opens, calm>>

\* The network loses a request that is not served yet, or an answer.
Lost(q) ==
    /\ q.pc # "idle" /\ losses < MaxLosses /\ StepsLeft
    /\ losses' = losses + 1
    /\ calm' = FALSE

Refused(q) == q.pc = "refused" /\ UNCHANGED <<losses, calm>>

\* "Autosave failed - retrying in 20 seconds"
AutosaveFailed ==
    /\ Lost(auto) \/ Refused(auto)
    /\ auto' = NoRequest /\ saving' = FALSE
    /\ UNCHANGED <<rows, listed, form, asked, ref, kind, saved, save, edits, opens>>

-----------------------------------------------------------------------------
(* The buttons *)

\* "Save draft" and "Publish"
SaveOrPublish(status) ==
    /\ form.open /\ ~form.published /\ form.complete
    /\ save.pc = "idle" /\ ~saving
    /\ save' = Sent(status)
    /\ UNCHANGED <<rows, listed, editor, auto, edits, losses, opens, calm>>

\* "Save changes", of knowledge that was published when it was opened.
SaveChanges ==
    /\ form.open /\ form.published /\ form.complete
    /\ save.pc = "idle"
    /\ save' = Sent("published")
    /\ UNCHANGED <<rows, listed, editor, auto, edits, losses, opens, calm>>

\* onSuccess closes the editor, whatever document is in it by then.
Saved ==
    /\ save.pc = "done"
    /\ form' = NoForm
    /\ ref' = NoRow
    /\ saved' = NothingSaved
    /\ saving' = FALSE
    /\ save' = NoRequest
    /\ UNCHANGED <<rows, listed, asked, kind, auto, edits, losses, opens, calm>>

SaveFailed ==
    /\ Lost(save) \/ Refused(save)
    /\ save' = NoRequest
    /\ UNCHANGED <<rows, listed, editor, auto, edits, opens>>

-----------------------------------------------------------------------------
Author ==
    \/ Type \/ EditHeading \/ EditDetails \/ Close
    \/ UploadCover \/ CreateType
    \/ \E item \in listed["draft"] : ResumeDraft(item)
    \/ \E item \in listed["published"] : OpenKnowledgeDetail(item)
    \/ \E status \in Statuses : SaveOrPublish(status)
    \/ SaveChanges

Next ==
    \/ Author
    \/ CoverArrives \/ TypeArrives
    \/ Autosave \/ ServeAuto \/ Autosaved \/ AutosaveFailed
    \/ ServeSave \/ Saved \/ SaveFailed
    \/ \E status \in Statuses : Refetch(status)

Spec == Init /\ [][Next]_vars

\* The interval keeps coming round while the editor is open, and the server and the
\* network answer what they do not lose.  The author has to do nothing.
FairSpec ==
    /\ Spec
    /\ WF_vars(Autosave) /\ WF_vars(ServeAuto) /\ WF_vars(Autosaved)
    /\ WF_vars(auto.pc = "refused" /\ AutosaveFailed)

-----------------------------------------------------------------------------
(* Properties *)

\* The pages that a row keeps: its own and those of its versions.
Keeps(i) == rows[i].versions \cup {Page(rows[i].text)}

\* Action property: what a wiki page once said is not lost: title, content and tags stay
\* those of the row or of one of its versions, whatever overlaps, fails, is opened from an
\* old list or is written over afterwards.  (What was said by its other details, and in the
\* other tables, is lost when it is written over.)
SavedTextsAreKept ==
    [][\A i \in Ids : rows[i].table = "wiki" => Keeps(i) \subseteq Keeps(i)']_vars

\* Safety: a document has one row ("memperbarui draft yang sama"), if requests did not
\* overlap or get lost and the editor was not closed on one.
OneRowWhenCalm ==
    calm => \A i, j \in Ids : rows[i].text.doc = rows[j].text.doc => i = j

\* The server refuses what is in the editor, whenever it is sent.
NeverTaken == ~form.text.valid \/ (ref # NoRow /\ rows[ref].table # kind)

\* What the autosave looks at is as in texts that the server has stored.
LooksStored ==
    \E s, t \in UNION {rows[i].texts : i \in Ids} :
        Words(s) = Words(form.text) /\ Signature(t) = Signature(form.text)

\* Liveness: the autosave comes to rest only on what is stored.  Although requests get lost
\* and details arrive late, for every state of an open draft it finds in the end nothing
\* more to save, and the number of words and the details in the editor have been stored;
\* unless there is no title or no type, the server refuses the text, or the editor is closed.
\* (An edit that changes neither the number of words nor the details is never sent.)
DraftsAreAutosaved ==
    (form.open /\ ~form.published) ~>
        (~Unsaved /\ LooksStored) \/ ~form.complete \/ NeverTaken \/ ~form.open

\* What is said of the autosave ("Autosave pertama membuat satu draft secara
\* idempotent"): it creates one row for a document at most.
AutosaveCreatesOnce ==
    \A i, j \in Ids :
        (rows[i].by = "auto" /\ rows[j].by = "auto" /\ rows[i].text.doc = rows[j].text.doc)
            => i = j
=============================================================================
