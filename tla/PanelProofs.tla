---------------------------- MODULE PanelProofs -----------------------------
(***************************************************************************)
(* Two panels that write to the server while the user goes on: the         *)
(* knowledge panel and the forms of the settings page.  For any documents  *)
(* and rows, and for any items, types and values.                          *)
(***************************************************************************)
EXTENDS KnowledgeDraft, SettingsForms, TLAPS

(***************************************************************************)
(* KnowledgeDraft: one row per document while nothing overlaps, and no     *)
(* saved text is lost.  The argument follows the row the editor refers to: *)
(* the document has no row but the one referred to, or the one in an       *)
(* answer that has not come yet.                                           *)
(***************************************************************************)

\* A request under way has a text to write, and a row to write it to or to answer with.
RequestOK(q) ==
    q.pc # "idle" => /\ q.text # NoText
                     /\ q.method = "PATCH" \/ q.pc = "done" => q.row \in Ids

DraftInv == TypeOK /\ RequestOK(auto) /\ RequestOK(save)

\* While nothing overlaps, a request under way is of the document in the editor: it was
\* sent with the row that the editor still refers to, and a row it made is of it.
CalmRequest(q) ==
    q.pc # "idle" =>
        /\ form.open /\ q.text.doc = form.text.doc
        /\ q.method = "POST" => ref = NoRow
        /\ q.method = "PATCH" => q.row = ref
        /\ q.pc = "done" => rows[q.row].text.doc = q.text.doc

\* The answer that makes a row known has been sent, and has not come.
Announced(q) == q.pc = "done" /\ q.method = "POST"

\* A document in the editor that refers to no row is the new one, and has no row but one
\* that is being announced.
RefInv ==
    /\ ~form.open => ref = NoRow
    /\ (form.open /\ ref # NoRow) => rows[ref].text.doc = form.text.doc
    /\ (form.open /\ ref = NoRow) =>
          /\ form.text.doc = NewDoc
          /\ Announced(auto) \/ Announced(save) \/ \A i \in Ids : rows[i].text.doc # NewDoc

CalmInv ==
    calm => /\ auto.pc = "idle" \/ save.pc = "idle"
            /\ auto.pc # "idle" => saving /\ ~form.published
            /\ CalmRequest(auto) /\ CalmRequest(save)
            /\ RefInv
            /\ \A s \in Statuses : \A item \in listed[s] :
                  rows[item.row].text.doc = item.text.doc

DraftIInv == DraftInv /\ CalmInv /\ OneRowWhenCalm

-----------------------------------------------------------------------------
(* Types *)

\* An edit makes a text of the same document.
LEMMA EditedText ==
    ASSUME NEW t \in Text, NEW u \in Text, u.doc = t.doc
    PROVE  u # NoText
BY DraftAssumption DEF Text, NoText, NewText

\* What the counter and the signature of the editor remember of a text, and what a version
\* keeps of it.
LEMMA LooksOf ==
    ASSUME NEW t \in Text
    PROVE  Words(t) \in Values /\ Signature(t) \in Signatures /\ Page(t) \in Pages
<1>1. /\ t.doc \in Docs /\ t.words \in Values /\ t.content \in Values /\ t.heading \in Values
      /\ t.details \in Values /\ t.table \in Tables
  BY DEF Text
<1>2. Words(t) \in Values /\ Signature(t) \in Signatures
  BY <1>1 DEF Words, Signature, Signatures
<1>3. Page(t) \in Pages
  BY <1>1 DEF Page, Pages
<1>4. QED
  BY <1>2, <1>3

\* A row that is written keeps its place and its table, and what it had of a wiki page; a
\* request that has a text writes a row.
LEMMA WrittenRows ==
    ASSUME rows \in Seq(Row), NEW i \in Ids, NEW q \in Request, q.text # NoText
    PROVE  /\ Written(i, q) \in Seq(Row) /\ DOMAIN Written(i, q) = Ids
           /\ \A j \in Ids : j # i => Written(i, q)[j] = rows[j]
           /\ Written(i, q)[i].text = q.text
           /\ rows[i].table = "wiki" =>
                 Keeps(i) \subseteq Written(i, q)[i].versions \cup {Page(q.text)}
<1>1. rows[i] \in Row /\ q.text \in Text /\ q.status \in Statuses
  BY DEF Ids, Request
<1> DEFINE v == IF rows[i].table = "wiki" /\ Page(q.text) # Page(rows[i].text)
                THEN rows[i].versions \cup {Page(rows[i].text)} ELSE rows[i].versions
           w == rows[i].texts \cup {q.text}
           x == [rows[i] EXCEPT !.text = q.text, !.status = q.status, !.texts = w,
                                !.versions = v]
<1>2. Written(i, q) = [rows EXCEPT ![i] = x]
  BY DEF Written
<1>3. Page(rows[i].text) \in Pages /\ rows[i].versions \in SUBSET Pages
      /\ rows[i].texts \in SUBSET Text
  BY <1>1, LooksOf DEF Row
<1>4. v \in SUBSET Pages /\ w \in SUBSET Text
  BY <1>1, <1>3
<1>5. rows[i].table = "wiki" => Keeps(i) \subseteq v \cup {Page(q.text)}
  BY DEF Keeps
<1> HIDE DEF v, w
<1>6. x \in Row /\ x.text = q.text /\ x.versions = v
  BY <1>1, <1>4 DEF Row
<1> HIDE DEF x
<1>7. QED
  BY <1>2, <1>5, <1>6 DEF Ids

\* A row that is created comes after the others.
LEMMA CreatedRows ==
    ASSUME rows \in Seq(Row), NEW q \in Request, q.text # NoText, NEW by \in {"auto", "save"}
    PROVE  /\ Created(q, by) \in Seq(Row) /\ DOMAIN Created(q, by) = Ids \cup {Len(rows) + 1}
           /\ Len(rows) + 1 \notin Ids
           /\ \A j \in Ids : Created(q, by)[j] = rows[j]
           /\ Created(q, by)[Len(rows) + 1].text = q.text
<1>1. q.text \in Text /\ q.status \in Statuses /\ q.table \in Tables
  BY DEF Request
<1> DEFINE x == [table |-> q.table, text |-> q.text, texts |-> {q.text}, status |-> q.status,
                 versions |-> {}, by |-> by]
<1>2. x \in Row /\ x.text = q.text
  BY <1>1 DEF Row
<1>3. Created(q, by) = Append(rows, x)
  BY DEF Created
<1> HIDE DEF x
<1>4. QED
  BY <1>2, <1>3 DEF Ids

\* What the server does with a request: the rows there were stay, and the answer names one,
\* or the request is refused.
LEMMA ServedRows ==
    ASSUME rows \in Seq(Row), NEW q \in Request, RequestOK(q), NEW by \in {"auto", "save"},
           Handle(q, by), ~Refuses(q)
    PROVE  /\ rows' \in Seq(Row) /\ Ids \subseteq Ids' /\ Ids' = DOMAIN rows'
           /\ Answered(q) \in Request /\ Answered(q).pc = "done"
           /\ Answered(q).text = q.text /\ Answered(q).method = q.method
           /\ Answered(q).row \in Ids'
           /\ q.method = "PATCH" => q.row \in Ids /\ Answered(q).row = q.row /\ Ids' = Ids
           /\ q.method = "POST" => /\ Answered(q).row \notin Ids
                                   /\ Ids' = Ids \cup {Answered(q).row}
           /\ rows'[Answered(q).row].text = q.text
           /\ \A i \in Ids : i # Answered(q).row => rows'[i] = rows[i]
<1>1. q.text # NoText /\ q.method \in {"POST", "PATCH"} /\ Len(rows) \in Nat
  BY DEF RequestOK, Request, Handle
<1>2. CASE q.method = "POST"
  <2>1. rows' = Created(q, by)
    BY <1>2 DEF Handle
  <2>2. PICK n \in Nat : n = Len(rows) + 1
    BY <1>1
  <2>3. Answered(q) = [q EXCEPT !.pc = "done", !.row = n]
    BY <1>2, <2>2 DEF Answered
  <2>4. /\ Answered(q) \in Request /\ Answered(q).row = n
        /\ Answered(q).text = q.text /\ Answered(q).method = q.method /\ Answered(q).pc = "done"
    BY <1>1, <2>3 DEF Request
  <2>5. /\ rows' \in Seq(Row) /\ DOMAIN rows' = Ids \cup {n} /\ n \notin Ids
        /\ \A j \in Ids : rows'[j] = rows[j]
        /\ rows'[n].text = q.text
    BY <1>1, <2>1, <2>2, CreatedRows
  <2>6. Ids' = DOMAIN rows'
    BY DEF Ids
  <2>7. QED
    BY <1>2, <2>4, <2>5, <2>6
<1>3. CASE q.method = "PATCH"
  <2>1. rows' = Written(q.row, q) /\ q.row \in Ids
    BY <1>3 DEF RequestOK, Handle
  <2>2. Answered(q) = [q EXCEPT !.pc = "done", !.row = q.row]
    BY <1>3 DEF Answered
  <2>3. /\ Answered(q) \in Request /\ Answered(q).row = q.row
        /\ Answered(q).text = q.text /\ Answered(q).method = q.method /\ Answered(q).pc = "done"
    BY <1>1, <2>2 DEF Request
  <2>4. /\ rows' \in Seq(Row) /\ DOMAIN rows' = Ids
        /\ \A j \in Ids : j # q.row => rows'[j] = rows[j]
        /\ rows'[q.row].text = q.text
    BY <1>1, <2>1, WrittenRows
  <2>5. Ids' = DOMAIN rows'
    BY DEF Ids
  <2>6. QED
    BY <1>3, <2>1, <2>3, <2>4, <2>5
<1>4. QED
  BY <1>1, <1>2, <1>3

\* A request that is refused changes no row, and is answered so.
LEMMA RefusedRows ==
    ASSUME NEW q \in Request, NEW by \in {"auto", "save"}, Handle(q, by), Refuses(q)
    PROVE  /\ rows' = rows /\ Answered(q) \in Request /\ Answered(q).pc = "refused"
           /\ Answered(q).text = q.text /\ Answered(q).method = q.method
           /\ Answered(q).row = q.row
BY DEF Handle, Answered, Request

\* The lists that the server answers with name rows.
LEMMA ListingType ==
    ASSUME rows \in Seq(Row), NEW s \in Statuses
    PROVE  /\ Listing(s) \in SUBSET [row : Ids, table : Tables, text : Text]
           /\ \A item \in Listing(s) : item.text = rows[item.row].text
<1>1. SUFFICES ASSUME NEW item \in Listing(s)
               PROVE  /\ item \in [row : Ids, table : Tables, text : Text]
                      /\ item.text = rows[item.row].text
  OBVIOUS
<1>2. PICK i \in Ids : item = [row |-> i, table |-> KindOf(i, s), text |-> rows[i].text]
  BY DEF Listing
<1>3. rows[i] \in Row
  BY DEF Ids
<1>4. rows[i].text \in Text /\ KindOf(i, s) \in Tables
  BY <1>3 DEF Row, Text, KindOf
<1>5. QED
  BY <1>2, <1>4

\* The initial states.
LEMMA InitDraftInv == Init => DraftInv
<1> SUFFICES ASSUME Init PROVE DraftInv
  OBVIOUS
<1>1. \A t \in Text : GivenRow(t) \in Row
  BY DEF GivenRow, Row, Statuses, Text
<1>2. rows \in Seq(Row)
  BY <1>1, DraftAssumption DEF Init
<1>3. listed \in [Statuses -> SUBSET [row : Ids, table : Tables, text : Text]]
  BY <1>2, ListingType DEF Init
<1>4. NewText \in Text /\ NewText # NoText
  BY DraftAssumption DEF NewText, Text, NoText
<1>5. NoRequest \in Request /\ NoRequest.pc = "idle" /\ NoRequest.row = NoRow
  BY DraftAssumption DEF NoRequest, Request, NoRow, Statuses
<1>6. NothingSaved \in [words : Values, meta : Signatures] /\ "wiki" \in Tables
  BY DraftAssumption DEF NothingSaved, NoSignature, Signatures
<1>7. 0 \in 0 .. MaxEdits /\ 0 \in 0 .. MaxLosses /\ 0 \in 0 .. MaxOpens
  BY DraftAssumption
<1>8. /\ form \in [open : BOOLEAN, text : Text \cup {NoText}, complete : BOOLEAN,
                   published : BOOLEAN]
      /\ form.open => form.text # NoText
      /\ asked \in [{"cover", "type"} -> Nat]
  BY <1>4, <1>7 DEF Init
<1>9. TypeOK
  BY <1>2, <1>3, <1>5, <1>6, <1>7, <1>8 DEF Init, TypeOK
<1>10. QED
  BY <1>5, <1>9 DEF Init, DraftInv, RequestOK

\* A step of the author or of the network that leaves the rows and the lists.
LEMMA EditorType ==
    ASSUME DraftInv, rows' = rows, listed' = listed,
           form' \in [open : BOOLEAN, text : Text \cup {NoText}, complete : BOOLEAN,
                      published : BOOLEAN],
           form'.open => form'.text # NoText,
           asked' \in [{"cover", "type"} -> Nat],
           ref' \in {NoRow} \cup Ids,
           kind' \in Tables, saved' \in [words : Values, meta : Signatures],
           auto' \in Request, auto'.row \in {NoRow} \cup Ids, RequestOK(auto'),
           save' \in Request, save'.row \in {NoRow} \cup Ids, RequestOK(save'),
           saving' \in BOOLEAN, saving' => auto'.pc # "idle",
           edits' \in 0 .. MaxEdits, losses' \in 0 .. MaxLosses, opens' \in 0 .. MaxOpens,
           calm' \in BOOLEAN
    PROVE  DraftInv'
<1>1. Ids' = Ids
  BY DEF Ids
<1>2. TypeOK'
  BY <1>1 DEF DraftInv, TypeOK
<1>3. RequestOK(auto)' /\ RequestOK(save)'
  BY <1>1 DEF RequestOK
<1>4. QED
  BY <1>2, <1>3 DEF DraftInv

\* The requests that there are keep their rows.
LEMMA Requests ==
    ASSUME DraftInv
    PROVE  /\ auto \in Request /\ auto.row \in {NoRow} \cup Ids /\ RequestOK(auto)
           /\ save \in Request /\ save.row \in {NoRow} \cup Ids /\ RequestOK(save)
           /\ NoRequest \in Request /\ NoRequest.row = NoRow /\ RequestOK(NoRequest)
           /\ NoRequest.pc = "idle"
<1>1. NoRequest \in Request /\ NoRequest.pc = "idle" /\ NoRequest.row = NoRow
  BY DraftAssumption DEF NoRequest, Request, NoRow, Statuses
<1>2. QED
  BY <1>1 DEF DraftInv, TypeOK, RequestOK

\* Editing changes the form alone.
LEMMA EditType ==
    ASSUME DraftInv, Type \/ EditHeading \/ EditDetails
    PROVE  /\ DraftInv' /\ form.open /\ form'.open /\ form'.published = form.published
           /\ form'.text.doc = form.text.doc
           /\ UNCHANGED <<rows, listed, asked, ref, kind, saved, saving, auto, save, losses,
                          opens, calm>>
<1>0. form.open
  BY DEF Type, EditHeading, EditDetails, Edit
<1>1. form.open /\ form.text \in Text /\ form.complete \in BOOLEAN /\ edits \in Nat
  BY <1>0 DEF DraftInv, TypeOK
<1>2. PICK t, c : Edit(t, c) /\ c \in BOOLEAN /\ t \in Text /\ t.doc = form.text.doc
  <2>1. CASE Type
    <3>1. PICK n, c \in Values, ok \in Valid :
             Edit([form.text EXCEPT !.words = n, !.content = c, !.valid = ok], form.complete)
      BY <2>1 DEF Type
    <3>2. [form.text EXCEPT !.words = n, !.content = c, !.valid = ok] \in Text
          /\ [form.text EXCEPT !.words = n, !.content = c, !.valid = ok].doc = form.text.doc
      BY <1>1 DEF Text
    <3>3. QED
      BY <1>1, <3>1, <3>2
  <2>2. CASE EditHeading
    <3>1. PICK v \in Values, ok \in Valid, c \in BOOLEAN :
             Edit([form.text EXCEPT !.heading = v, !.valid = ok], c)
      BY <2>2 DEF EditHeading
    <3>2. [form.text EXCEPT !.heading = v, !.valid = ok] \in Text
          /\ [form.text EXCEPT !.heading = v, !.valid = ok].doc = form.text.doc
      BY <1>1 DEF Text
    <3>3. QED
      BY <3>1, <3>2
  <2>3. CASE EditDetails
    <3>1. PICK v \in Values, t \in Tables, ok \in Valid, c \in BOOLEAN :
             Edit([form.text EXCEPT !.details = v, !.table = t, !.valid = ok], c)
      BY <2>3 DEF EditDetails
    <3>2. [form.text EXCEPT !.details = v, !.table = t, !.valid = ok] \in Text
          /\ [form.text EXCEPT !.details = v, !.table = t, !.valid = ok].doc = form.text.doc
      BY <1>1 DEF Text
    <3>3. QED
      BY <3>1, <3>2
  <2>4. QED
    BY <2>1, <2>2, <2>3
<1>3. UNCHANGED <<rows, listed, asked, ref, kind, saved, saving, auto, save, losses, opens, calm>>
  BY <1>2 DEF Edit
<1>4. /\ form' \in [open : BOOLEAN, text : Text \cup {NoText}, complete : BOOLEAN,
                    published : BOOLEAN]
      /\ form'.open /\ form'.text = t /\ form'.published = form.published
  BY <1>1, <1>2 DEF Edit, DraftInv, TypeOK
<1>5. edits' \in 0 .. MaxEdits
  BY <1>1, <1>2, DraftAssumption DEF Edit
<1>6. t # NoText
  BY <1>1, <1>2, EditedText
<1>7. DraftInv'
  BY <1>3, <1>4, <1>5, <1>6, Requests, EditorType DEF DraftInv, TypeOK
<1>8. QED
  BY <1>1, <1>2, <1>3, <1>4, <1>7

\* A cover or a type arrives in the form, whatever is in it.
LEMMA ArrivesType ==
    ASSUME DraftInv, NEW d \in {"cover", "type"}, NEW t, NEW c \in BOOLEAN,
           Arrives(d, t, c), form.open => t \in Text /\ t.doc = form.text.doc
    PROVE  /\ DraftInv' /\ form'.open = form.open /\ form'.published = form.published
           /\ form.open => form'.text.doc = form.text.doc
           /\ UNCHANGED <<rows, listed, ref, kind, saved, saving, auto, save, losses, opens, calm>>
<1>1. UNCHANGED <<rows, listed, ref, kind, saved, saving, auto, save, edits, losses, opens, calm>>
  BY DEF Arrives
<1>2. asked' \in [{"cover", "type"} -> Nat]
  BY DEF Arrives, DraftInv, TypeOK
<1>3. CASE form.open
  <2>1. form.text \in Text /\ t # NoText
    BY <1>3, EditedText DEF DraftInv, TypeOK
  <2>2. form' = [form EXCEPT !.text = t, !.complete = c]
    BY <1>3 DEF Arrives
  <2>3. /\ form' \in [open : BOOLEAN, text : Text \cup {NoText}, complete : BOOLEAN,
                      published : BOOLEAN]
        /\ form'.open = form.open /\ form'.text = t /\ form'.published = form.published
    BY <1>3, <2>2 DEF DraftInv, TypeOK
  <2>4. DraftInv'
    BY <1>1, <1>2, <2>1, <2>3, Requests, EditorType DEF DraftInv, TypeOK
  <2>5. QED
    BY <1>1, <1>3, <2>3, <2>4
<1>4. CASE ~form.open
  <2>1. form' = form
    BY <1>4 DEF Arrives
  <2>2. DraftInv'
    BY <1>1, <1>2, <2>1, Requests, EditorType DEF DraftInv, TypeOK
  <2>3. QED
    BY <1>1, <1>4, <2>1, <2>2
<1>5. QED
  BY <1>3, <1>4

\* A cover or a type is asked for, and the form gets it.
LEMMA DetailType ==
    ASSUME DraftInv, UploadCover \/ CreateType \/ CoverArrives \/ TypeArrives
    PROVE  /\ DraftInv' /\ form'.open = form.open /\ form'.published = form.published
           /\ form.open => form'.text.doc = form.text.doc
           /\ UNCHANGED <<rows, listed, ref, kind, saved, saving, auto, save, losses, opens, calm>>
<1>1. CASE UploadCover \/ CreateType
  <2>1. PICK d \in {"cover", "type"} : Ask(d)
    BY <1>1 DEF UploadCover, CreateType
  <2>2. edits' \in 0 .. MaxEdits
    BY <2>1, DraftAssumption DEF Ask, DraftInv, TypeOK
  <2>3. asked' \in [{"cover", "type"} -> Nat]
    BY <2>1 DEF Ask, DraftInv, TypeOK
  <2>4. UNCHANGED <<rows, listed, form, ref, kind, saved, saving, auto, save, losses, opens, calm>>
    BY <2>1 DEF Ask
  <2>5. DraftInv'
    BY <2>2, <2>3, <2>4, Requests, EditorType DEF DraftInv, TypeOK
  <2>6. QED
    BY <2>4, <2>5
<1>2. CASE CoverArrives
  <2>1. PICK v \in Values, ok \in {form.text.valid, TRUE} :
           Arrives("cover", [form.text EXCEPT !.details = v, !.valid = ok], form.complete)
    BY <1>2 DEF CoverArrives
  <2>2. form.open => /\ [form.text EXCEPT !.details = v, !.valid = ok] \in Text
                     /\ [form.text EXCEPT !.details = v, !.valid = ok].doc = form.text.doc
    BY DraftAssumption DEF DraftInv, TypeOK, Text
  <2>3. form.complete \in BOOLEAN
    BY DEF DraftInv, TypeOK
  <2>4. QED
    BY <2>1, <2>2, <2>3, ArrivesType
<1>3. CASE TypeArrives
  <2>1. PICK v \in Values, t \in {form.text.table, "wiki"},
             ok \in {form.text.valid, FALSE} \cap Valid, c \in {form.complete, TRUE} :
           Arrives("type", [form.text EXCEPT !.details = v, !.table = t, !.valid = ok], c)
    BY <1>3 DEF TypeArrives
  <2>2. form.open =>
            /\ [form.text EXCEPT !.details = v, !.table = t, !.valid = ok] \in Text
            /\ [form.text EXCEPT !.details = v, !.table = t, !.valid = ok].doc = form.text.doc
    BY DraftAssumption DEF DraftInv, TypeOK, Text
  <2>3. c \in BOOLEAN
    BY DEF DraftInv, TypeOK
  <2>4. QED
    BY <2>1, <2>2, <2>3, ArrivesType
<1>4. QED
  BY <1>1, <1>2, <1>3

\* The editor is closed, by the author or by the answer to a save.
LEMMA ClosedForm ==
    /\ NoForm \in [open : BOOLEAN, text : Text \cup {NoText}, complete : BOOLEAN,
                   published : BOOLEAN]
    /\ ~NoForm.open
BY DEF NoForm

\* What a save or an autosave sends.
LEMMA SentType ==
    ASSUME DraftInv, form.open, NEW s \in Statuses
    PROVE  /\ Sent(s) \in Request /\ Sent(s).pc = "sent" /\ RequestOK(Sent(s))
           /\ Sent(s).row = ref /\ ref \in {NoRow} \cup Ids
           /\ Sent(s).text = form.text
           /\ Sent(s).method = "POST" <=> ref = NoRow
           /\ Sent(s).method = "PATCH" <=> ref # NoRow
<1>1. ref \in {NoRow} \cup Ids /\ NoRow \in Nat /\ Ids \subseteq Nat /\ kind \in Tables
  BY DEF DraftInv, TypeOK, NoRow, Ids
<1>2. form.text \in Text /\ form.text # NoText /\ form.text.table \in Tables
  BY DEF DraftInv, TypeOK, Text
<1>3. QED
  BY <1>1, <1>2 DEF Sent, Request, RequestOK, Ids

-----------------------------------------------------------------------------
(* The steps preserve the invariant *)

\* The initial states: each earlier draft is a document of its own.
LEMMA InitDraftIInv == Init => DraftIInv
<1> SUFFICES ASSUME Init PROVE DraftIInv
  OBVIOUS
<1>1. DraftInv /\ NoRequest.pc = "idle"
  BY InitDraftInv DEF NoRequest
<1>2. Ids = DOMAIN OldRows /\ \A i \in Ids : rows[i].text = OldRows[i]
  BY DEF Init, Ids, GivenRow
<1>3. OneRowWhenCalm
  BY <1>2, OldAssumption DEF OneRowWhenCalm
<1>4. RefInv
  BY <1>2, OldAssumption DEF Init, RefInv, NewText
<1>5. \A s \in Statuses : \A item \in listed[s] : rows[item.row].text.doc = item.text.doc
  BY <1>1, ListingType DEF Init, DraftInv, TypeOK
<1>6. CalmInv
  BY <1>1, <1>4, <1>5 DEF Init, CalmInv, CalmRequest
<1>7. QED
  BY <1>1, <1>3, <1>6 DEF DraftIInv

\* A step that leaves the requests, the rows and the document in the editor.
LEMMA SameDocument ==
    ASSUME DraftIInv, UNCHANGED <<rows, listed, ref, saving, auto, save, calm>>,
           form'.open = form.open, form'.published = form.published,
           form.open => form'.text.doc = form.text.doc
    PROVE  CalmInv' /\ OneRowWhenCalm'
BY DEF DraftIInv, CalmInv, CalmRequest, RefInv, Announced, OneRowWhenCalm, Ids

\* Editing, and the details that come late.
LEMMA EditKeeps ==
    ASSUME DraftIInv,
           \/ Type \/ EditHeading \/ EditDetails
           \/ UploadCover \/ CreateType \/ CoverArrives \/ TypeArrives
    PROVE  DraftIInv'
<1>1. DraftInv
  BY DEF DraftIInv
<1>2. CASE UploadCover \/ CreateType \/ CoverArrives \/ TypeArrives
  BY <1>1, <1>2, DetailType, SameDocument DEF DraftIInv
<1>3. CASE ~(UploadCover \/ CreateType \/ CoverArrives \/ TypeArrives)
  BY <1>1, <1>3, EditType, SameDocument DEF DraftIInv
<1>4. QED
  BY <1>2, <1>3

\* The server writes or makes a row: of the document in the editor, if all is calm, which
\* is a new row only if that document had none.
LEMMA ServeKeeps ==
    ASSUME DraftIInv, NEW q, NEW other, NEW by \in {"auto", "save"},
           {auto, save} = {q, other}, Handle(q, by), ~Refuses(q),
           \/ q = auto /\ auto' = Answered(q) /\ other = save /\ save' = save
           \/ q = save /\ save' = Answered(q) /\ other = auto /\ auto' = auto
    PROVE  DraftIInv'
<1>1. q \in Request /\ RequestOK(q) /\ rows \in Seq(Row) /\ DraftInv /\ q.pc = "sent"
      /\ other \in Request /\ RequestOK(other)
  BY Requests DEF DraftIInv, DraftInv, TypeOK, Handle
<1>2. PICK a : a = Answered(q)
  OBVIOUS
<1>3. /\ rows' \in Seq(Row) /\ Ids \subseteq Ids'
      /\ a \in Request /\ a.pc = "done" /\ a.text = q.text /\ a.method = q.method
      /\ a.row \in Ids'
      /\ q.method = "PATCH" => q.row \in Ids /\ a.row = q.row /\ Ids' = Ids
      /\ q.method = "POST" => a.row \notin Ids /\ Ids' = Ids \cup {a.row}
      /\ rows'[a.row].text = q.text
      /\ \A i \in Ids : i # a.row => rows'[i] = rows[i]
  BY <1>1, <1>2, ServedRows
<1>4. UNCHANGED <<listed, form, asked, ref, kind, saved, saving, edits, losses, opens, calm>>
  BY DEF Handle, editor
<1>5. DraftInv'
  <2>1. RequestOK(a)' /\ RequestOK(other)'
    BY <1>1, <1>3 DEF RequestOK
  <2>2. TypeOK'
    BY <1>1, <1>2, <1>3, <1>4 DEF DraftInv, TypeOK
  <2>3. QED
    BY <1>2, <2>1, <2>2 DEF DraftInv
<1>6. CalmInv' /\ OneRowWhenCalm'
  <2>1. SUFFICES ASSUME calm PROVE CalmInv' /\ OneRowWhenCalm'
    BY <1>4 DEF CalmInv, OneRowWhenCalm
  <2>2. /\ auto.pc = "idle" \/ save.pc = "idle"
        /\ auto.pc # "idle" => saving /\ ~form.published
        /\ CalmRequest(q) /\ CalmRequest(other) /\ RefInv
        /\ \A s \in Statuses : \A item \in listed[s] : rows[item.row].text.doc = item.text.doc
    BY <2>1 DEF DraftIInv, CalmInv
  <2>3. other.pc = "idle" /\ form.open /\ q.text.doc = form.text.doc
    BY <1>1, <2>2 DEF CalmRequest
  <2>4. CASE q.method = "PATCH"
    <3>1. q.row = ref /\ ref # NoRow /\ rows[ref].text.doc = q.text.doc
      BY <1>1, <1>3, <2>2, <2>3, <2>4 DEF CalmRequest, RefInv, NoRow, Ids
    <3>2. Ids' = Ids /\ \A i \in Ids : rows'[i].text.doc = rows[i].text.doc
      BY <1>3, <2>4, <3>1
    <3>3. OneRowWhenCalm'
      BY <1>4, <2>1, <3>2 DEF DraftIInv, OneRowWhenCalm
    <3>4. RefInv'
      BY <1>1, <1>2, <1>3, <1>4, <2>2, <2>3, <2>4, <3>1, <3>2 DEF RefInv
    <3>5. CalmRequest(a)' /\ CalmRequest(other)'
      BY <1>3, <1>4, <2>2, <2>3, <2>4, <3>1 DEF CalmRequest
    <3>6. \A s \in Statuses : \A item \in listed'[s] : rows'[item.row].text.doc = item.text.doc
      BY <1>1, <1>4, <2>2, <3>2 DEF DraftInv, TypeOK
    <3>7. QED
      BY <1>1, <1>2, <1>3, <1>4, <2>2, <2>3, <3>3, <3>4, <3>5, <3>6 DEF CalmInv
  <2>5. CASE q.method = "POST"
    <3>1. ref = NoRow /\ form.text.doc = NewDoc /\ \A i \in Ids : rows[i].text.doc # NewDoc
      BY <1>1, <2>2, <2>3, <2>5 DEF CalmRequest, RefInv, Announced
    <3>2. /\ \A i \in Ids : i # a.row /\ rows'[i] = rows[i]
          /\ rows'[a.row].text.doc = NewDoc
      BY <1>3, <2>3, <2>5, <3>1
    <3>3. OneRowWhenCalm'
      BY <1>3, <1>4, <2>1, <2>5, <3>1, <3>2 DEF DraftIInv, OneRowWhenCalm
    <3>4. RefInv' /\ CalmRequest(a)' /\ CalmRequest(other)'
      BY <1>2, <1>3, <1>4, <2>2, <2>3, <2>5, <3>1, <3>2 DEF RefInv, CalmRequest, Announced
    <3>5. \A s \in Statuses : \A item \in listed'[s] : rows'[item.row].text.doc = item.text.doc
      BY <1>1, <1>4, <2>2, <3>2 DEF DraftInv, TypeOK
    <3>6. QED
      BY <1>1, <1>2, <1>3, <1>4, <2>2, <2>3, <3>3, <3>4, <3>5 DEF CalmInv
  <2>6. QED
    BY <1>1, <2>4, <2>5 DEF Request
<1>7. QED
  BY <1>5, <1>6 DEF DraftIInv

\* A request is refused: nothing of it stays.
LEMMA RefusedKeeps ==
    ASSUME DraftIInv, NEW q, NEW other, NEW by \in {"auto", "save"},
           {auto, save} = {q, other}, Handle(q, by), Refuses(q),
           \/ q = auto /\ auto' = Answered(q) /\ other = save /\ save' = save
           \/ q = save /\ save' = Answered(q) /\ other = auto /\ auto' = auto
    PROVE  DraftIInv'
<1>1. /\ q \in Request /\ q.row \in {NoRow} \cup Ids /\ RequestOK(q) /\ q.pc = "sent"
      /\ other \in Request /\ other.row \in {NoRow} \cup Ids /\ RequestOK(other)
      /\ DraftInv
  BY Requests DEF DraftIInv, Handle
<1>2. PICK a : a = Answered(q)
  OBVIOUS
<1>3. /\ rows' = rows /\ a \in Request /\ a.pc = "refused"
      /\ a.text = q.text /\ a.method = q.method /\ a.row = q.row
  BY <1>1, <1>2, RefusedRows
<1>4. UNCHANGED <<listed, form, asked, ref, kind, saved, saving, edits, losses, opens, calm>>
  BY DEF Handle, editor
<1>5. /\ auto' \in Request /\ auto'.row \in {NoRow} \cup Ids /\ RequestOK(auto')
      /\ save' \in Request /\ save'.row \in {NoRow} \cup Ids /\ RequestOK(save')
      /\ saving => auto'.pc # "idle"
  BY <1>1, <1>2, <1>3 DEF RequestOK, DraftInv, TypeOK
<1>6. DraftInv'
  BY <1>1, <1>3, <1>4, <1>5, EditorType DEF DraftInv, TypeOK
<1>7. CalmInv'
  <2>1. SUFFICES ASSUME calm PROVE CalmInv'
    BY <1>4 DEF CalmInv
  <2>2. /\ auto.pc = "idle" \/ save.pc = "idle"
        /\ auto.pc # "idle" => saving /\ ~form.published
        /\ CalmRequest(q) /\ CalmRequest(other) /\ RefInv
        /\ \A s \in Statuses : \A item \in listed[s] : rows[item.row].text.doc = item.text.doc
    BY <2>1 DEF DraftIInv, CalmInv
  <2>3. CalmRequest(a)' /\ CalmRequest(other)'
    BY <1>1, <1>3, <1>4, <2>2 DEF CalmRequest
  <2>4. RefInv'
    BY <1>1, <1>2, <1>3, <1>4, <2>2 DEF RefInv, Announced, Ids
  <2>5. QED
    BY <1>1, <1>2, <1>3, <1>4, <2>2, <2>3, <2>4 DEF CalmInv
<1>8. OneRowWhenCalm'
  BY <1>3, <1>4 DEF DraftIInv, OneRowWhenCalm, Ids
<1>9. QED
  BY <1>6, <1>7, <1>8 DEF DraftIInv

\* A list is fetched again: its items are as the rows are.
LEMMA RefetchKeeps ==
    ASSUME DraftIInv, NEW s \in Statuses, Refetch(s)
    PROVE  DraftIInv'
<1>1. /\ UNCHANGED <<rows, form, asked, ref, kind, saved, saving, auto, save, edits, losses, opens,
                    calm>>
      /\ listed' = [listed EXCEPT ![s] = Listing(s)]
  BY DEF Refetch, editor
<1>2. TypeOK /\ rows \in Seq(Row)
  BY DEF DraftIInv, DraftInv, TypeOK
<1>3. \A t \in Statuses : listed'[t] = listed[t] \/ listed'[t] = Listing(t)
  BY <1>1, <1>2 DEF TypeOK
<1>4. Ids' = Ids
  BY <1>1 DEF Ids
<1>5. listed' \in [Statuses -> SUBSET [row : Ids, table : Tables, text : Text]]
  BY <1>1, <1>2, ListingType DEF TypeOK
<1>6. DraftInv'
  BY <1>1, <1>2, <1>4, <1>5 DEF DraftIInv, DraftInv, TypeOK, RequestOK
<1>7. CalmInv'
  <2>1. calm => \A t \in Statuses : \A item \in listed'[t] :
                    rows[item.row].text.doc = item.text.doc
    BY <1>2, <1>3, ListingType DEF DraftIInv, CalmInv
  <2>2. QED
    BY <1>1, <2>1 DEF DraftIInv, CalmInv, CalmRequest, RefInv, Announced, Ids
<1>8. OneRowWhenCalm'
  BY <1>1 DEF DraftIInv, OneRowWhenCalm, Ids
<1>9. QED
  BY <1>6, <1>7, <1>8 DEF DraftIInv

\* The editor is closed by the author: calm, if no request was under way.
LEMMA CloseKeeps ==
    ASSUME DraftIInv, Close
    PROVE  DraftIInv'
<1>1. /\ form' = NoForm /\ ref' = NoRow /\ calm' = (calm /\ Quiet)
      /\ UNCHANGED <<rows, listed, asked, kind, saved, saving, auto, save, edits, losses, opens>>
  BY DEF Close
<1>2. DraftInv
  BY DEF DraftIInv
<1>3. DraftInv'
  BY <1>1, <1>2, ClosedForm, Requests, EditorType DEF DraftInv, TypeOK, Quiet
<1>4. CalmInv'
  BY <1>1, ClosedForm DEF DraftIInv, CalmInv, CalmRequest, RefInv, Quiet
<1>5. OneRowWhenCalm'
  BY <1>1 DEF DraftIInv, OneRowWhenCalm, Ids
<1>6. QED
  BY <1>3, <1>4, <1>5 DEF DraftIInv

\* A row is opened from a list: the document is that of the row, if all is calm.
LEMMA OpenKeeps ==
    ASSUME DraftIInv, NEW s \in Statuses, NEW item \in listed[s],
           Open(item, s), saved' \in [words : Values, meta : Signatures],
           saving' \in {FALSE, saving}
    PROVE  DraftIInv'
<1>1. /\ form' = [open |-> TRUE, text |-> item.text, complete |-> TRUE,
                  published |-> s = "published"]
      /\ ~form.open /\ ref' = item.row /\ kind' = item.table
      /\ opens' = opens + 1 /\ opens < MaxOpens
      /\ UNCHANGED <<rows, listed, asked, auto, save, edits, losses, calm>>
  BY DEF Open
<1>2. DraftInv /\ TypeOK
  BY DEF DraftIInv, DraftInv
<1>3. item.row \in Ids /\ item.text \in Text /\ item.text # NoText /\ item.table \in Tables
  BY <1>2, EditedText DEF TypeOK
<1>4. opens' \in 0 .. MaxOpens
  BY <1>1, <1>2, DraftAssumption DEF TypeOK
<1>5. (s = "published") \in BOOLEAN
  OBVIOUS
<1>6. /\ form' \in [open : BOOLEAN, text : Text \cup {NoText}, complete : BOOLEAN,
                    published : BOOLEAN]
      /\ form'.open /\ form'.text = item.text
  BY <1>1, <1>3, <1>5
<1>7. saving' \in BOOLEAN /\ saving' => auto'.pc # "idle"
  BY <1>1, <1>2 DEF TypeOK
<1>8. DraftInv'
  BY <1>1, <1>2, <1>3, <1>4, <1>6, <1>7, Requests, EditorType DEF TypeOK
<1>9. CalmInv'
  <2>1. SUFFICES ASSUME calm PROVE CalmInv'
    BY <1>1 DEF CalmInv
  <2>2. auto.pc = "idle" /\ save.pc = "idle" /\ rows[item.row].text.doc = item.text.doc
    BY <1>1, <2>1 DEF DraftIInv, CalmInv, CalmRequest
  <2>3. ref' # NoRow
    BY <1>1, <1>2, <1>3 DEF TypeOK, NoRow, Ids
  <2>4. RefInv'
    BY <1>1, <1>6, <2>2, <2>3 DEF RefInv
  <2>5. \A t \in Statuses : \A x \in listed[t] : rows[x.row].text.doc = x.text.doc
    BY <2>1 DEF DraftIInv, CalmInv
  <2>6. QED
    BY <1>1, <2>2, <2>4, <2>5 DEF CalmInv, CalmRequest
<1>10. OneRowWhenCalm'
  BY <1>1 DEF DraftIInv, OneRowWhenCalm, Ids
<1>11. QED
  BY <1>8, <1>9, <1>10 DEF DraftIInv

\* A draft is resumed, or published knowledge shown.
LEMMA ShowKeeps ==
    ASSUME DraftIInv,
           \/ \E item \in listed["draft"] : ResumeDraft(item)
           \/ \E item \in listed["published"] : OpenKnowledgeDetail(item)
    PROVE  DraftIInv'
<1>1. TypeOK /\ "draft" \in Statuses /\ "published" \in Statuses
  BY DEF DraftIInv, DraftInv, Statuses
<1>2. ASSUME NEW item \in listed["draft"], ResumeDraft(item) PROVE DraftIInv'
  <2>1. item.text \in Text
    BY <1>1 DEF TypeOK
  <2>2. saved' \in [words : Values, meta : Signatures] /\ saving' \in {FALSE, saving}
    BY <1>1, <1>2, <2>1, LooksOf DEF ResumeDraft, TypeOK
  <2>3. QED
    BY <1>1, <1>2, <2>2, OpenKeeps DEF ResumeDraft
<1>3. ASSUME NEW item \in listed["published"], OpenKnowledgeDetail(item) PROVE DraftIInv'
  <2>1. saved' \in [words : Values, meta : Signatures] /\ saving' \in {FALSE, saving}
    BY <1>1, <1>3 DEF OpenKnowledgeDetail, TypeOK
  <2>2. QED
    BY <1>1, <1>3, <2>1, OpenKeeps DEF OpenKnowledgeDetail
<1>4. QED
  BY <1>2, <1>3

\* A request is sent, beside none: what it carries is what the editor has.
LEMMA SendKeeps ==
    ASSUME DraftIInv, form.open, NEW s \in Statuses,
           UNCHANGED <<rows, listed, form, asked, ref, kind, saved, edits, losses, opens>>,
           \/ /\ auto.pc = "idle" /\ auto' = Sent(s) /\ save' = save /\ ~form.published
              /\ saving' = TRUE /\ calm' = (calm /\ save.pc = "idle")
           \/ /\ save.pc = "idle" /\ save' = Sent(s) /\ auto' = auto
              /\ ~saving \/ form.published
              /\ saving' = saving /\ calm' = calm
    PROVE  DraftIInv'
<1>1. DraftInv /\ TypeOK
  BY DEF DraftIInv, DraftInv
<1>2. PICK q : q = Sent(s)
  OBVIOUS
<1>3. /\ q \in Request /\ q.pc = "sent" /\ RequestOK(q) /\ q.row = ref
      /\ q.text = form.text /\ ref \in {NoRow} \cup Ids
      /\ q.method = "POST" <=> ref = NoRow
      /\ q.method = "PATCH" <=> ref # NoRow
  BY <1>1, <1>2, SentType
<1>4. DraftInv'
  <2>1. /\ auto' \in Request /\ auto'.row \in {NoRow} \cup Ids /\ RequestOK(auto')
        /\ save' \in Request /\ save'.row \in {NoRow} \cup Ids /\ RequestOK(save')
    BY <1>1, <1>2, <1>3, Requests
  <2>2. /\ saving' \in BOOLEAN /\ saving' => auto'.pc # "idle"
        /\ calm' \in BOOLEAN
    BY <1>1, <1>2, <1>3 DEF TypeOK
  <2>3. QED
    BY <1>1, <2>1, <2>2, EditorType DEF TypeOK
<1>5. CalmInv'
  <2>1. SUFFICES ASSUME calm' PROVE CalmInv'
    BY DEF CalmInv
  <2>2. /\ auto.pc = "idle" /\ save.pc = "idle" /\ RefInv
        /\ \A t \in Statuses : \A item \in listed[t] : rows[item.row].text.doc = item.text.doc
    BY <2>1 DEF DraftIInv, CalmInv
  <2>3. RefInv'
    BY <1>2, <1>3, <2>2 DEF RefInv, Announced, Ids
  <2>4. CalmRequest(auto)' /\ CalmRequest(save)'
    BY <1>2, <1>3, <2>2 DEF CalmRequest
  <2>5. /\ auto'.pc = "idle" \/ save'.pc = "idle"
        /\ auto'.pc # "idle" => saving' /\ ~form.published
    BY <1>2, <2>2
  <2>6. QED
    BY <2>2, <2>3, <2>4, <2>5 DEF CalmInv
<1>6. OneRowWhenCalm'
  BY DEF DraftIInv, OneRowWhenCalm, Ids
<1>7. QED
  BY <1>4, <1>5, <1>6 DEF DraftIInv

\* The answer to an autosave: the row it made becomes the one the editor refers to.
LEMMA AutosavedKeeps ==
    ASSUME DraftIInv, Autosaved
    PROVE  DraftIInv'
<1>1. /\ auto.pc = "done" /\ auto' = NoRequest /\ saving' = FALSE
      /\ ref' = IF auto.method = "POST" THEN auto.row ELSE ref
      /\ kind' \in {kind, auto.table}
      /\ saved' = [words |-> Words(auto.text), meta |-> Signature(auto.text)]
      /\ UNCHANGED <<rows, listed, form, asked, save, edits, losses, opens, calm>>
  BY DEF Autosaved
<1>2. DraftInv /\ TypeOK
  BY DEF DraftIInv, DraftInv
<1>3. auto.text \in Text /\ auto.row \in Ids /\ auto.table \in Tables /\ kind \in Tables
  BY <1>1, <1>2, Requests DEF RequestOK, Request, TypeOK
<1>4. saved' \in [words : Values, meta : Signatures]
  BY <1>1, <1>3, LooksOf
<1>5. DraftInv'
  BY <1>1, <1>2, <1>3, <1>4, Requests, EditorType DEF TypeOK
<1>6. CalmInv'
  <2>1. SUFFICES ASSUME calm PROVE CalmInv'
    BY <1>1 DEF CalmInv
  <2>2. /\ save.pc = "idle" /\ CalmRequest(auto) /\ RefInv
        /\ \A t \in Statuses : \A item \in listed[t] : rows[item.row].text.doc = item.text.doc
    BY <1>1, <2>1 DEF DraftIInv, CalmInv
  <2>3. /\ form.open /\ rows[auto.row].text.doc = form.text.doc /\ auto.row # NoRow
        /\ auto.method \in {"POST", "PATCH"}
    BY <1>1, <1>2, <1>3, <2>2 DEF CalmRequest, NoRow, Ids, TypeOK, Request
  <2>4. RefInv'
    BY <1>1, <2>2, <2>3 DEF RefInv, Announced, CalmRequest, NoRequest
  <2>5. QED
    BY <1>1, <2>2, <2>4 DEF CalmInv, CalmRequest, NoRequest
<1>7. OneRowWhenCalm'
  BY <1>1 DEF DraftIInv, OneRowWhenCalm, Ids
<1>8. QED
  BY <1>5, <1>6, <1>7 DEF DraftIInv

\* The answer to a save closes the editor.
LEMMA SavedKeeps ==
    ASSUME DraftIInv, Saved
    PROVE  DraftIInv'
<1>1. /\ save.pc = "done" /\ save' = NoRequest /\ saving' = FALSE
      /\ form' = NoForm /\ ref' = NoRow /\ saved' = NothingSaved
      /\ UNCHANGED <<rows, listed, asked, kind, auto, edits, losses, opens, calm>>
  BY DEF Saved
<1>2. DraftInv /\ TypeOK
  BY DEF DraftIInv, DraftInv
<1>3. saved' \in [words : Values, meta : Signatures]
  BY <1>1, DraftAssumption DEF NothingSaved, NoSignature, Signatures
<1>4. DraftInv'
  BY <1>1, <1>2, <1>3, ClosedForm, Requests, EditorType DEF TypeOK
<1>5. CalmInv'
  <2>1. SUFFICES ASSUME calm PROVE CalmInv'
    BY <1>1 DEF CalmInv
  <2>2. /\ auto.pc = "idle"
        /\ \A t \in Statuses : \A item \in listed[t] : rows[item.row].text.doc = item.text.doc
    BY <1>1, <2>1 DEF DraftIInv, CalmInv
  <2>3. QED
    BY <1>1, <2>2, ClosedForm DEF CalmInv, CalmRequest, RefInv, NoRequest
<1>6. OneRowWhenCalm'
  BY <1>1 DEF DraftIInv, OneRowWhenCalm, Ids
<1>7. QED
  BY <1>4, <1>5, <1>6 DEF DraftIInv

\* A request or an answer is lost, and nothing is calm any more; or the server has refused it.
LEMMA FailedKeeps ==
    ASSUME DraftIInv, AutosaveFailed \/ SaveFailed
    PROVE  DraftIInv'
<1>1. /\ \/ calm' = FALSE /\ losses < MaxLosses /\ losses' = losses + 1
         \/ calm' = calm /\ losses' = losses
      /\ UNCHANGED <<rows, listed, form, asked, ref, kind, saved, edits, opens>>
      /\ \/ /\ auto' = NoRequest /\ saving' = FALSE /\ save' = save
            /\ auto.pc = "refused" \/ calm' = FALSE
         \/ /\ save' = NoRequest /\ saving' = saving /\ auto' = auto
            /\ save.pc = "refused" \/ calm' = FALSE
  <2>1. CASE AutosaveFailed
    BY <2>1 DEF AutosaveFailed, Lost, Refused
  <2>2. CASE SaveFailed
    BY <2>2 DEF SaveFailed, Lost, Refused, editor
  <2>3. QED
    BY <2>1, <2>2
<1>2. DraftInv /\ TypeOK
  BY DEF DraftIInv, DraftInv
<1>3. losses' \in 0 .. MaxLosses /\ calm' \in BOOLEAN
  <2>1. losses \in 0 .. MaxLosses /\ calm \in BOOLEAN /\ MaxLosses \in Nat
    BY <1>2, DraftAssumption DEF TypeOK
  <2>2. (losses < MaxLosses /\ losses' = losses + 1) \/ losses' = losses
    BY <1>1
  <2>3. calm' \in BOOLEAN
    BY <1>1, <2>1
  <2>4. QED
    BY <2>1, <2>2, <2>3
<1>4. /\ auto' \in Request /\ auto'.row \in {NoRow} \cup Ids /\ RequestOK(auto')
      /\ save' \in Request /\ save'.row \in {NoRow} \cup Ids /\ RequestOK(save')
      /\ saving' \in BOOLEAN /\ saving' => auto'.pc # "idle"
  BY <1>1, <1>2, Requests DEF TypeOK
<1>5. DraftInv'
  BY <1>1, <1>2, <1>3, <1>4, EditorType DEF TypeOK
<1>6. CalmInv'
  <2>1. SUFFICES ASSUME calm' PROVE CalmInv'
    BY DEF CalmInv
  <2>2. /\ calm /\ RefInv /\ CalmRequest(auto) /\ CalmRequest(save)
        /\ auto.pc = "idle" \/ save.pc = "idle"
        /\ auto.pc # "idle" => saving /\ ~form.published
        /\ \A t \in Statuses : \A item \in listed[t] : rows[item.row].text.doc = item.text.doc
    BY <1>1, <2>1 DEF DraftIInv, CalmInv
  <2>3. CalmRequest(auto)' /\ CalmRequest(save)'
    BY <1>1, <2>2 DEF CalmRequest, NoRequest
  <2>4. RefInv'
    BY <1>1, <2>1, <2>2 DEF RefInv, Announced, Ids
  <2>5. QED
    BY <1>1, <2>1, <2>2, <2>3, <2>4 DEF CalmInv, NoRequest
<1>7. OneRowWhenCalm'
  BY <1>1 DEF DraftIInv, OneRowWhenCalm, Ids
<1>8. QED
  BY <1>5, <1>6, <1>7 DEF DraftIInv

\* Every step preserves the invariant.
LEMMA NextDraftIInv == DraftIInv /\ [Next]_vars => DraftIInv'
<1> SUFFICES ASSUME DraftIInv, [Next]_vars PROVE DraftIInv'
  OBVIOUS
<1>1. CASE Author
  <2>1. ASSUME NEW s \in Statuses, SaveOrPublish(s) PROVE DraftIInv'
    BY <2>1, SendKeeps DEF SaveOrPublish, editor
  <2>2. ASSUME SaveChanges PROVE DraftIInv'
    <3>1. "published" \in Statuses
      BY DEF Statuses
    <3>2. QED
      BY <2>2, <3>1, SendKeeps DEF SaveChanges, editor
  <2>3. QED
    BY <1>1, <2>1, <2>2, EditKeeps, CloseKeeps, ShowKeeps DEF Author
<1>2. CASE Autosave
  <2>1. "draft" \in Statuses
    BY DEF Statuses
  <2>2. QED
    BY <1>2, <2>1, SendKeeps DEF Autosave
<1>3. CASE ServeAuto
  BY <1>3, ServeKeeps, RefusedKeeps DEF ServeAuto
<1>4. CASE ServeSave
  BY <1>4, ServeKeeps, RefusedKeeps DEF ServeSave
<1>5. CASE \E s \in Statuses : Refetch(s)
  BY <1>5, RefetchKeeps
<1>6. CASE UNCHANGED vars
  BY <1>6, SameDocument DEF vars, editor, DraftIInv, DraftInv, TypeOK, RequestOK, Ids
<1>7. QED
  BY <1>1, <1>2, <1>3, <1>4, <1>5, <1>6, EditKeeps, AutosavedKeeps, SavedKeeps, FailedKeeps
     DEF Next

-----------------------------------------------------------------------------
(* The theorems *)

\* The invariant holds in every state of every behaviour.
THEOREM DraftInvariance == Spec => []DraftIInv
BY InitDraftIInv, NextDraftIInv, PTL DEF Spec

\* Type correctness: the editor refers to a row there is, and every request that is under
\* way has a row to answer with.
THEOREM DraftTypeCorrect == Spec => []TypeOK
<1>1. DraftIInv => TypeOK
  BY DEF DraftIInv, DraftInv
<1>2. QED
  BY <1>1, DraftInvariance, PTL

\* As long as no requests overlap or fail and the editor is not closed on one, a document
\* has one row, however it is edited, autosaved, saved and opened again from old lists.
THEOREM OneRow == Spec => []OneRowWhenCalm
<1>1. DraftIInv => OneRowWhenCalm
  BY DEF DraftIInv
<1>2. QED
  BY <1>1, DraftInvariance, PTL

\* What the server does keeps every page that a row of wiki_pages has, or a version of it.
LEMMA ServedKeepsPages ==
    ASSUME rows \in Seq(Row), NEW q \in Request, RequestOK(q), NEW by \in {"auto", "save"},
           Handle(q, by), NEW i \in Ids, rows[i].table = "wiki"
    PROVE  Keeps(i) \subseteq Keeps(i)'
<1>1. q.text # NoText /\ q.method \in {"POST", "PATCH"}
  BY DEF RequestOK, Handle, Request
<1>2. CASE rows' = rows
  BY <1>2 DEF Keeps
<1>3. CASE ~Refuses(q) /\ q.method = "POST"
  <2>1. rows'[i] = rows[i]
    BY <1>1, <1>3, CreatedRows DEF Handle
  <2>2. QED
    BY <2>1 DEF Keeps
<1>4. CASE ~Refuses(q) /\ q.method = "PATCH"
  <2>1. rows' = Written(q.row, q) /\ q.row \in Ids
    BY <1>4 DEF Handle, RequestOK
  <2>2. CASE i = q.row
    <3>1. /\ rows'[i].text = q.text
          /\ Keeps(i) \subseteq rows'[i].versions \cup {Page(q.text)}
      BY <1>1, <2>1, <2>2, WrittenRows
    <3>2. QED
      BY <3>1 DEF Keeps
  <2>3. CASE i # q.row
    <3>1. rows'[i] = rows[i]
      BY <1>1, <2>1, <2>3, WrittenRows
    <3>2. QED
      BY <3>1 DEF Keeps
  <2>4. QED
    BY <2>2, <2>3
<1>5. QED
  BY <1>1, <1>2, <1>3, <1>4 DEF Handle

\* What a wiki page once said is never lost: whatever overlaps, is refused, fails or comes
\* from an old list, its title, content and tags are those of the row still, or of one of its
\* versions.  (Of its other details, and of the other tables, nothing is said.)
THEOREM NoSavedTextIsLost == Spec => SavedTextsAreKept
<1> DEFINE Keeping ==
        \A i \in Ids : rows[i].table = "wiki" => Keeps(i) \subseteq Keeps(i)'
<1>1. ASSUME DraftIInv, [Next]_vars PROVE [Keeping]_vars
  <2>1. CASE rows' = rows
    BY <2>1 DEF Keeps
  <2>2. CASE ServeAuto \/ ServeSave
    BY <1>1, <2>2, Requests, ServedKeepsPages
       DEF ServeAuto, ServeSave, DraftIInv, DraftInv, TypeOK
  <2>3. QED
    <3>1. Author => rows' = rows
      BY DEF Author, Type, EditHeading, EditDetails, Edit, Close, UploadCover, CreateType, Ask,
             ResumeDraft, OpenKnowledgeDetail, Open, SaveOrPublish, SaveChanges
    <3>2. Next => rows' = rows \/ ServeAuto \/ ServeSave
      BY <3>1 DEF Next, CoverArrives, TypeArrives, Arrives, Autosave, Autosaved, AutosaveFailed,
                  Saved, SaveFailed, Refetch
    <3>3. QED
      BY <1>1, <2>1, <2>2, <3>2
<1>2. QED
  BY <1>1, DraftInvariance, PTL DEF Spec, SavedTextsAreKept

(***************************************************************************)
(* SettingsForms: the order of a list, additions, drawers and the limit.   *)
(* The argument follows a value through the form, its mutation, the        *)
(* requests of the mutation and the server.                                *)
(***************************************************************************)

\* What the variables hold, as far as the arguments below need it.
SettingsTypes ==
    /\ DOMAIN stored = Keys /\ DOMAIN cached = Keys /\ DOMAIN shown = Fields
    /\ added \in [1 .. MaxTyped -> Nat] /\ DOMAIN meant = 1 .. MaxTyped
    /\ typed \in 0 .. MaxTyped /\ issued \in Nat
    /\ rev \in Nat /\ cachedRev \in 0 .. rev /\ seen \in 0 .. rev
    /\ open \in {Nothing, Adding} \cup (ItemKeys)
    /\ panel \in Panels /\ known \subseteq Queries /\ filled \in BOOLEAN
    /\ \A s \in saves : s.id \in 1 .. issued
    /\ \A r \in requests : r.save \in 1 .. issued /\ r.adds \in 0 .. typed /\ r.seen \in 0 .. rev

\* A request does what the form whose mutation it belongs to does.
NamesInv ==
    \A r \in requests, s \in saves :
        s.id = r.save => /\ DOMAIN r.puts \cap RankKeys # {} => s.name = "rank"
                         /\ s.name = "add" => r.adds = s.value

\* What the last drag wants of a type is stored, or requested and nothing else is.
DragInv ==
    dragged # <<>> =>
        \A k \in RankKeys :
            /\ stored[k] = dragged[k] \/ \E r \in requests : k \in DOMAIN r.puts
            /\ \A r \in requests : k \in DOMAIN r.puts => r.puts[k] = dragged[k]

\* A value that is being added, or has been.
Underway(v) == added[v] # 0 \/ \E r \in requests : r.adds = v

\* A value that is not mislaid is added by one request; while the form shows it, the
\* mutation that sent it is pending, and the button is disabled.
AddInv ==
    /\ shown["add"] \in 0 .. typed
    /\ \A v \in 1 .. MaxTyped :
          /\ v > typed => added[v] = 0
          /\ v \notin mislaid =>
                /\ added[v] \in {0, 1}
                /\ \A q, r \in requests : q.adds = v /\ r.adds = v => q = r
                /\ \A r \in requests : r.adds = v => added[v] = 0
                /\ (shown["add"] = v /\ Underway(v))
                       => \E s \in saves : s.mount = mount /\ s.name = "add" /\ s.value = v

\* A value that belongs to an item: what it had, or what was typed in its drawer, or nothing
\* if its drawer was emptied.
Belongs(v, k) ==
    \/ v = FirstOf(k)
    \/ v \in 1 .. typed /\ meant[v] = k
    \/ v = 0 /\ k \in cleared

\* Every copy of an item's value was typed in the drawer of that item.
ItemInv ==
    /\ \A k \in ItemKeys :
          /\ Belongs(stored[k], k) /\ Belongs(cached[k], k)
          /\ \A r \in requests : k \in DOMAIN r.puts => Belongs(r.puts[k], k)
    /\ open \in ItemKeys => Belongs(shown["item"], open)

\* Who knows the last change of the stored limit knows the limit: the cache, the general
\* form that was filled from it, and the requests that it has sent.
LimitInv ==
    /\ ("general" \in known /\ cachedRev = rev) => cached[Key("limit")] = stored[Key("limit")]
    /\ panel = "general" =>
          /\ filled <=> "general" \in known
          /\ ~filled => shown["limit"] = cached[Key("limit")]
          /\ (filled /\ seen = rev) => shown["limit"] = stored[Key("limit")]
    /\ \A r \in requests :
          Key("theme") \in DOMAIN r.puts =>
              /\ Key("limit") \in DOMAIN r.puts
              /\ r.seen = rev => r.puts[Key("limit")] = stored[Key("limit")]

SettingsIInv == SettingsTypes /\ NamesInv /\ DragInv /\ AddInv /\ ItemInv /\ LimitInv

-----------------------------------------------------------------------------
(* Names and keys. *)

\* What the names of forms, fields and queries are, and that they do not overlap.
LEMMA KeyFacts ==
    /\ Key("limit") \in Keys /\ Key("theme") \in Keys
    /\ Key("add") \notin Keys /\ Key("item") \notin Keys
    /\ {Key("limit"), Key("theme")} \cap (RankKeys \cup (ItemKeys)) = {}
    /\ ItemKeys \subseteq Keys /\ RankKeys \subseteq Keys
    /\ RankKeys \cap (ItemKeys) = {}
    /\ \A n \in Mirrors : Key(n) \in Keys \ (RankKeys \cup (ItemKeys))
    /\ {"limit", "theme", "add", "item"} \cap (Panels \cup Mirrors) = {}
    /\ \A q \in Queries : Key("limit") \in KeysOf[q] <=> q = "general"
  BY SettingsAssumption
     DEF Key, Keys, Mirrors, ItemForms, ItemKeys, RankKeys, Panels, SettingsTabs, OrganizationTabs,
         Queries, KeysOf, QueryOf

\* No value but an item's drawer is of the form of one.
LEMMA DrawerFacts ==
    /\ Nothing \notin ItemKeys /\ Adding \notin ItemKeys
    /\ \A d \in {Nothing, Adding} \cup (ItemKeys) :
          d[1] \in ItemForms => d \in ItemKeys
  BY DEF Nothing, Adding, ItemForms, ItemKeys

-----------------------------------------------------------------------------
(* The steps. *)

\* What a form may save: the drawers what they show, General the limit that it shows.
MaySave(name, value, puts) ==
    /\ name = "add" => value = shown["add"] /\ value # 0 /\ puts = {<<>>}
    /\ \A p \in puts :
          /\ DOMAIN p \cap RankKeys # {} => name = "rank"
          /\ \A k \in ItemKeys : k \in DOMAIN p => Belongs(p[k], k)
          /\ Key("theme") \in DOMAIN p =>
                /\ panel = "general" /\ filled
                /\ Key("limit") \in DOMAIN p /\ p[Key("limit")] = shown["limit"]

\* The forms do four things, beside reordering types.
Forms ==
    \/ \E drawer \in {Nothing, Adding} : SetOpen(drawer, shown)
    \/ \E name \in ItemForms, i \in Items : OpenItem(name, i)
    \/ \E f \in Fields \ {"limit"} : TypeIn(f)
    \/ \E name, value, puts :
          /\ name # "rank" /\ MaySave(name, value, puts)
          /\ Save(name, value, puts) /\ KeepOrder

\* A drawer that adds does no other.
LEMMA AddFormForms == AddForm => Forms
<1>1. TypeIn("add") => Forms
  BY DEF Forms, Fields
<1>2. ASSUME shown["add"] # 0, Save("add", shown["add"], {<<>>}), KeepOrder PROVE Forms
  <2>1. MaySave("add", shown["add"], {<<>>})
    BY <1>2 DEF MaySave
  <2>2. QED
    BY <1>2, <2>1 DEF Forms
<1>3. QED
  BY <1>1, <1>2 DEF AddForm

\* Nor does it when it is opened.
LEMMA AddDrawerForms == ASSUME NEW p, AddDrawer(p) PROVE Forms
  BY AddFormForms DEF AddDrawer, Forms

\* A drawer that changes an item does no other.
LEMMA ItemDrawerForms ==
    ASSUME SettingsTypes, ItemInv, NEW p, NEW name \in ItemForms, ItemDrawer(p, name)
    PROVE  Forms
<1>1. ASSUME NEW i \in Items, OpenItem(name, i) PROVE Forms
  BY <1>1 DEF Forms
<1>2. TypeIn("item") => Forms
  BY DEF Forms, Fields
<1>3. ASSUME open[1] = name, KeepOrder,
             Save(name, shown["item"], {[k \in {open} |-> shown["item"]]})
      PROVE  Forms
  <2> DEFINE put == [k \in {open} |-> shown["item"]]
  <2>1. open \in ItemKeys
    BY <1>3, DrawerFacts DEF SettingsTypes
  <2>2. Belongs(shown["item"], open)
    BY <2>1 DEF ItemInv
  <2>3. DOMAIN put = {open} /\ put[open] = shown["item"]
    OBVIOUS
  <2>4. name \notin {"add", "rank"}
    BY DEF ItemForms
  <2>5. MaySave(name, shown["item"], {put})
    BY <2>1, <2>2, <2>3, <2>4, KeyFacts DEF MaySave
  <2>6. QED
    BY <1>3, <2>4, <2>5 DEF Forms
<1>4. QED
  BY <1>1, <1>2, <1>3 DEF ItemDrawer

\* Nor does a form that follows its query.
LEMMA MirrorFormForms == ASSUME NEW name \in Mirrors, MirrorForm(name) PROVE Forms
<1>1. TypeIn(name) => Forms
  BY KeyFacts DEF Forms, Fields
<1>2. ASSUME KeepOrder, Save(name, shown[name], {[k \in {Key(name)} |-> shown[name]]})
      PROVE  Forms
  <2> DEFINE put == [k \in {Key(name)} |-> shown[name]]
  <2>1. DOMAIN put = {Key(name)} /\ name \notin {"add", "rank"} /\ Key(name) # Key("theme")
    BY DEF Mirrors, Key
  <2>2. MaySave(name, shown[name], {put})
    BY <2>1, KeyFacts DEF MaySave
  <2>3. QED
    BY <1>2, <2>1, <2>2 DEF Forms
<1>3. QED
  BY <1>1, <1>2 DEF MirrorForm

\* Nor does the form of General.
LEMMA GeneralForms == ASSUME GeneralSettings PROVE Forms
<1> DEFINE put == [k \in {Key("limit"), Key("theme")} |-> shown[k[1]]]
<1>1. TypeIn("theme") => Forms
  BY DEF Forms, Fields
<1>2. ASSUME panel = "general", filled, KeepOrder, Save("general", shown["theme"], {put})
      PROVE  Forms
  <2>1. DOMAIN put = {Key("limit"), Key("theme")} /\ put[Key("limit")] = shown["limit"]
    BY DEF Key
  <2>2. MaySave("general", shown["theme"], {put})
    BY <1>2, <2>1, KeyFacts DEF MaySave
  <2> HIDE DEF put
  <2>3. QED
    BY <1>2, <2>2 DEF Forms
<1>3. QED
  BY <1>1, <1>2 DEF GeneralSettings

\* Nor does the field of the limit of Knowledge Types.
LEMMA LimitForms == ASSUME NEW l \in Limits, SaveLimit(l) PROVE Forms
<1> DEFINE put == [k \in {Key("limit")} |-> l]
<1>1. DOMAIN put = {Key("limit")} /\ Key("theme") # Key("limit")
  BY DEF Key
<1>2. MaySave("limit", l, {put})
  BY <1>1, KeyFacts DEF MaySave
<1>3. QED
  BY <1>2 DEF SaveLimit, Forms

\* What the admin, the network and the server do, in a few kinds of steps.
LEMMA KindsOfSteps ==
    ASSUME SettingsTypes, ItemInv, SettingsNext
    PROVE  \/ \E p \in Panels : Show(p)
           \/ \E q \in Queries : Fetch(q)
           \/ Forms
           \/ \E i, j \in DOMAIN order : Drop(i, j)
           \/ \E r \in requests : Serve(r) \/ Lose(r)
           \/ \E s \in saves : Finish(s)
           \/ OtherAdmin
<1>1. \A p : AddDrawer(p) => Forms
  BY AddDrawerForms
<1>2. \A p, name : name \in ItemForms /\ ItemDrawer(p, name) => Forms
  BY ItemDrawerForms
<1>3. \A name \in Mirrors : MirrorForm(name) => Forms
  BY MirrorFormForms
<1>4. SwitchPage => \E p \in Panels : Show(p)
  BY DEF SwitchPage, Panels, SettingsTabs, OrganizationTabs
<1>5. CloseDrawer => Forms
  BY DEF CloseDrawer, Forms
<1>6. KnowledgeTypes => Forms \/ \E i, j \in DOMAIN order : Drop(i, j)
  BY <1>1, <1>2, LimitForms DEF KnowledgeTypes, ItemForms
<1>7. TeamManagement \/ EditDivision \/ DivisionMembers \/ DivisionLeads => Forms
  BY <1>1, <1>2 DEF TeamManagement, EditDivision, DivisionMembers, DivisionLeads, ItemForms
<1>8. ProjectTypes \/ MetadataFields \/ UsersRoles \/ AddDivision \/ WebhookSettings => Forms
  BY <1>1, AddFormForms
     DEF ProjectTypes, MetadataFields, UsersRoles, AddDivision, WebhookSettings
<1>9. AiIntegrationSettings \/ GithubIntegrationSettings \/ NotificationDeliverySettings => Forms
  BY <1>3 DEF AiIntegrationSettings, GithubIntegrationSettings, NotificationDeliverySettings,
              Mirrors
<1>10. QED
  BY <1>4, <1>5, <1>6, <1>7, <1>8, <1>9, GeneralForms DEF SettingsNext, SwitchTab

-----------------------------------------------------------------------------
(* The steps preserve the invariant. *)

\* It holds at the start.
LEMMA SettingsStart == SettingsInit => SettingsIInv
<1> SUFFICES ASSUME SettingsInit PROVE SettingsIInv
  OBVIOUS
<1> USE DEF SettingsInit
<1>1. shown = Fill(panel) /\ panel \in Panels
  OBVIOUS
<1>2. DOMAIN cached = Keys /\ DOMAIN stored = Keys
  OBVIOUS
<1>3. \A k \in ItemKeys : stored[k] = FirstOf(k) /\ cached[k] = FirstOf(k)
  BY KeyFacts
<1>4. DOMAIN shown = Fields /\ shown["add"] = 0
  BY <1>1, KeyFacts DEF Fill, Fields
<1>5. panel = "general" => shown["limit"] = cached[Key("limit")]
  BY <1>1 DEF Fill, Fields
<1>6. SettingsTypes
  BY <1>1, <1>2, <1>4, SettingsAssumption DEF SettingsTypes, FormReady, Queries
<1>7. NamesInv /\ DragInv
  BY DEF NamesInv, DragInv
<1>8. AddInv
  BY <1>4 DEF AddInv, Underway
<1>9. ItemInv
  BY <1>3, DrawerFacts DEF ItemInv, Belongs
<1>10. LimitInv
  BY <1>5, KeyFacts DEF LimitInv, FormReady, Queries
<1>11. QED
  BY <1>6, <1>7, <1>8, <1>9, <1>10 DEF SettingsIInv

\* A new panel begins with what is cached, and no drawer.
LEMMA ShowPanelKeeps == ASSUME SettingsIInv, NEW p \in Panels, Show(p) PROVE SettingsIInv'
<1> USE DEF SettingsIInv
<1>1. UNCHANGED <<stored, added, cached, known, saves, requests, typed, issued, meant, mislaid,
                  rev, cachedRev, dragged, cleared>>
  BY DEF Show, server
<1>2. /\ panel' = p /\ filled' = FormReady(p) /\ open' = Nothing /\ shown' = Fill(p)
      /\ seen' = IF p = "general" THEN cachedRev ELSE 0
  BY DEF Show
<1>3. DOMAIN shown' = Fields /\ shown'["add"] = 0
  BY <1>2, KeyFacts DEF Fill, Fields
<1>4. p = "general" => shown'["limit"] = cached[Key("limit")]
  BY <1>2 DEF Fill, Fields
<1>5. SettingsTypes'
  BY <1>1, <1>2, <1>3 DEF SettingsTypes, FormReady
<1>6. NamesInv' /\ DragInv'
  BY <1>1 DEF NamesInv, DragInv
<1>7. AddInv'
  BY <1>1, <1>3 DEF AddInv, Underway, SettingsTypes
<1>8. ItemInv'
  BY <1>1, <1>2, DrawerFacts DEF ItemInv, Belongs
<1>9. LimitInv'
  BY <1>1, <1>2, <1>4 DEF LimitInv, FormReady
<1>10. QED
  BY <1>5, <1>6, <1>7, <1>8, <1>9

\* An answer of a query changes the copies of what is stored, and no field of a drawer.
LEMMA FetchKeeps == ASSUME SettingsIInv, NEW q \in Queries, Fetch(q) PROVE SettingsIInv'
<1> USE DEF SettingsIInv
<1> DEFINE news == {k \in KeysOf[q] : cached[k] # stored[k]}
           late == q = "general" /\ panel = "general" /\ ~filled
<1>1. UNCHANGED <<stored, added, panel, mount, open, saves, requests, typed, issued, meant,
                  mislaid, rev, dragged, cleared>>
  BY DEF Fetch, server
<1>2. /\ cached' = [k \in Keys |-> IF k \in news THEN stored[k] ELSE cached[k]]
      /\ known' = known \cup {q}
      /\ cachedRev' = IF q = "general" THEN rev ELSE cachedRev
      /\ filled' = (filled \/ panel = q)
      /\ shown' = [f \in Fields |->
                      IF Key(f) \in news /\ (f = panel \/ late) THEN stored[Key(f)]
                      ELSE shown[f]]
      /\ seen' = IF late THEN rev ELSE seen
  BY DEF Fetch
<1>3. news \subseteq Keys
  BY DEF KeysOf
<1>4. shown'["add"] = shown["add"] /\ shown'["item"] = shown["item"]
  BY <1>2, <1>3, KeyFacts DEF Fields
<1>5. SettingsTypes'
  BY <1>1, <1>2 DEF SettingsTypes
<1>6. NamesInv' /\ DragInv'
  BY <1>1 DEF NamesInv, DragInv
<1>7. AddInv'
  BY <1>1, <1>4 DEF AddInv, Underway
<1>8. ItemInv'
  <2>1. \A k \in ItemKeys : cached'[k] \in {stored[k], cached[k]}
    BY <1>2, KeyFacts
  <2>2. QED
    BY <1>1, <1>4, <2>1 DEF ItemInv, Belongs
<1>9. LimitInv'
  <2> DEFINE lim == Key("limit")
  <2>1. lim \in Keys /\ (lim \in KeysOf[q] <=> q = "general")
    BY KeyFacts
  <2>2. cached'[lim] = IF q = "general" THEN stored[lim] ELSE cached[lim]
    BY <1>2, <2>1
  <2>3. panel = "general" => shown'["limit"] = IF late /\ lim \in news THEN stored[lim]
                                               ELSE shown["limit"]
    BY <1>2 DEF Fields
  <2>4. (q = "general" /\ lim \notin news) => cached[lim] = stored[lim]
    BY <2>1
  <2>5. panel = "general" /\ late => shown'["limit"] = stored[lim]
    BY <2>3, <2>4 DEF LimitInv
  <2>6. panel = "general" /\ ~late => shown'["limit"] = shown["limit"]
    BY <2>3
  <2>7. filled \in BOOLEAN /\ filled' \in BOOLEAN
    BY <1>5 DEF SettingsTypes
  <2>8. panel' = "general" =>
          /\ filled' <=> "general" \in known'
          /\ ~filled' => shown'["limit"] = cached'[lim]
          /\ (filled' /\ seen' = rev') => shown'["limit"] = stored'[lim]
    BY <1>1, <1>2, <2>2, <2>5, <2>6, <2>7 DEF LimitInv
  <2>9. ("general" \in known' /\ cachedRev' = rev') => cached'[lim] = stored'[lim]
    BY <1>1, <1>2, <2>2 DEF LimitInv
  <2>10. QED
    BY <1>1, <2>8, <2>9 DEF LimitInv
<1>10. QED
  BY <1>5, <1>6, <1>7, <1>8, <1>9

\* A drawer that is opened or closed keeps the fields, or takes those of its item.
LEMMA SetOpenKeeps ==
    ASSUME SettingsIInv, NEW drawer, NEW fields, SetOpen(drawer, fields),
           drawer \in {Nothing, Adding} \cup (ItemKeys),
           \/ drawer \in {Nothing, Adding} /\ fields = shown
           \/ /\ drawer \in ItemKeys
              /\ fields = [shown EXCEPT !["item"] = cached[drawer]]
    PROVE  SettingsIInv'
<1> USE DEF SettingsIInv
<1>1. /\ open' = drawer /\ shown' = fields
      /\ UNCHANGED <<stored, added, cached, known, panel, mount, filled, saves, requests, typed,
                     issued, meant, mislaid, rev, cachedRev, seen, dragged, cleared>>
  BY DEF SetOpen, server, history
<1>2. /\ DOMAIN shown' = Fields
      /\ shown'["add"] = shown["add"] /\ shown'["limit"] = shown["limit"]
  <2>1. CASE fields = shown
    BY <1>1, <2>1 DEF SettingsTypes
  <2>2. CASE fields = [shown EXCEPT !["item"] = cached[drawer]]
    BY <1>1, <2>2 DEF SettingsTypes, Fields
  <2>3. QED
    BY <2>1, <2>2
<1>3. SettingsTypes'
  BY <1>1, <1>2 DEF SettingsTypes
<1>4. NamesInv' /\ DragInv'
  BY <1>1 DEF NamesInv, DragInv
<1>5. AddInv'
  BY <1>1, <1>2 DEF AddInv, Underway
<1>6. ItemInv'
  <2>1. drawer \in ItemKeys => shown'["item"] = cached[drawer]
    BY <1>1, DrawerFacts DEF SettingsTypes, Fields
  <2>2. QED
    BY <1>1, <2>1, DrawerFacts DEF ItemInv, Belongs
<1>7. LimitInv'
  BY <1>1, <1>2 DEF LimitInv
<1>8. QED
  BY <1>3, <1>4, <1>5, <1>6, <1>7

\* A value that is typed in is new, and belongs to the drawer that is open.
LEMMA TypeInKeeps ==
    ASSUME SettingsIInv, NEW f \in Fields \ {"limit"}, TypeIn(f) PROVE SettingsIInv'
<1> USE DEF SettingsIInv
<1>1. /\ typed < MaxTyped /\ typed' = typed + 1
      /\ shown' = [shown EXCEPT ![f] = typed'] /\ meant' = [meant EXCEPT ![typed'] = open]
      /\ UNCHANGED <<stored, added, cached, known, panel, mount, filled, open, saves, requests,
                     issued, mislaid, rev, cachedRev, seen, dragged, cleared>>
  BY DEF TypeIn, server
<1>2. typed \in Nat /\ typed' \in 1 .. MaxTyped
  BY <1>1, SettingsAssumption DEF SettingsTypes
<1>3. /\ DOMAIN shown' = Fields /\ shown'["limit"] = shown["limit"]
      /\ shown'["add"] \in {typed', shown["add"]} /\ shown'["item"] \in {typed', shown["item"]}
  BY <1>1 DEF SettingsTypes, Fields
<1>4. \A v \in 1 .. typed : meant'[v] = meant[v]
  BY <1>1, <1>2 DEF SettingsTypes
<1>5. meant'[typed'] = open
  BY <1>1, <1>2 DEF SettingsTypes
<1>6. SettingsTypes'
  BY <1>1, <1>2, <1>3 DEF SettingsTypes
<1>7. NamesInv' /\ DragInv'
  BY <1>1 DEF NamesInv, DragInv
<1>8. AddInv'
  <2>1. ~Underway(typed')
    BY <1>1, <1>2 DEF AddInv, Underway, SettingsTypes
  <2>2. \A v \in 1 .. MaxTyped : Underway(v)' <=> Underway(v)
    BY <1>1 DEF Underway
  <2>3. shown'["add"] \in 0 .. typed'
    BY <1>1, <1>2, <1>3 DEF AddInv
  <2>4. \A v \in 1 .. MaxTyped : v > typed' => added'[v] = 0
    BY <1>1, <1>2 DEF AddInv
  <2>5. ASSUME NEW v \in 1 .. MaxTyped, v \notin mislaid, shown'["add"] = v, Underway(v)'
        PROVE  \E s \in saves : s.mount = mount /\ s.name = "add" /\ s.value = v
    <3>1. Underway(v) /\ v # typed'
      BY <2>1, <2>2, <2>5
    <3>2. shown["add"] = v
      BY <1>3, <2>5, <3>1
    <3>3. QED
      BY <2>5, <3>1, <3>2 DEF AddInv
  <2>6. QED
    BY <1>1, <2>3, <2>4, <2>5 DEF AddInv
<1>9. ItemInv'
  <2>1. \A v : \A k \in ItemKeys : Belongs(v, k) => Belongs(v, k)'
    BY <1>1, <1>2, <1>4 DEF Belongs
  <2>2. open \in ItemKeys => Belongs(shown["item"], open)'
    BY <1>1, <1>2, <1>3, <1>5, <2>1 DEF ItemInv, Belongs
  <2>3. QED
    BY <1>1, <2>1, <2>2 DEF ItemInv
<1>10. LimitInv'
  BY <1>1, <1>3 DEF LimitInv
<1>11. QED
  BY <1>6, <1>7, <1>8, <1>9, <1>10

\* A mutation that is begun is the only one of its form in this panel, and has a new id.
LEMMA SaveKeeps ==
    ASSUME SettingsIInv, NEW name, NEW value, NEW puts,
           MaySave(name, value, puts), Save(name, value, puts),
           (UNCHANGED dragged /\ name # "rank") \/ DragInv'
    PROVE  SettingsIInv'
<1> USE DEF SettingsIInv
<1> DEFINE id == issued + 1
           adds == IF name = "add" THEN value ELSE 0
           mutation == [id |-> id, mount |-> mount, name |-> name, value |-> value]
           Sending(p) == [save |-> id, puts |-> p, adds |-> adds, seen |-> seen]
           new == {Sending(p) : p \in puts}
<1>1. /\ ~Pending(name) /\ issued' = id
      /\ saves' = saves \cup {mutation} /\ requests' = requests \cup new
      /\ UNCHANGED <<stored, added, cached, known, panel, mount, filled, open, shown, typed,
                     meant, mislaid, rev, cachedRev, seen, cleared>>
  BY DEF Save, server
<1>2. issued \in Nat /\ id \in 1 .. id
  BY DEF SettingsTypes
<1>3. \A r \in new : r.save = id /\ r.adds = adds /\ r.seen = seen /\ r.puts \in puts
  OBVIOUS
<1>4. mutation.id = id /\ mutation.mount = mount /\ mutation.name = name
      /\ mutation.value = value
  OBVIOUS
<1>5. adds \in 0 .. typed /\ (name # "add" <=> adds = 0)
  BY DEF MaySave, AddInv, SettingsTypes
<1>6. \A q, r \in new : name = "add" => q = r
  BY DEF MaySave
<1> HIDE DEF new, mutation, adds, id
<1>7. SettingsTypes'
  <2>1. \A s \in saves : s.id \in 1 .. id
    BY <1>2 DEF SettingsTypes, id
  <2>2. \A r \in requests : r.save \in 1 .. id
    BY <1>2 DEF SettingsTypes, id
  <2>3. seen \in 0 .. rev
    BY DEF SettingsTypes
  <2>4. \A s \in saves' : s.id \in 1 .. id
    BY <1>1, <1>2, <1>4, <2>1
  <2>5. \A r \in requests' : r.save \in 1 .. id /\ r.adds \in 0 .. typed /\ r.seen \in 0 .. rev
    BY <1>1, <1>2, <1>3, <1>5, <2>2, <2>3 DEF SettingsTypes
  <2>6. id \in Nat
    BY <1>2 DEF id
  <2>7. QED
    BY <1>1, <2>4, <2>5, <2>6 DEF SettingsTypes
<1>8. NamesInv'
  <2>1. \A s \in saves : s.id # id
    BY <1>2 DEF SettingsTypes, id
  <2>2. \A r \in requests : r.save # id
    BY <1>2 DEF SettingsTypes, id
  <2>3. \A r \in new : DOMAIN r.puts \cap RankKeys # {} => name = "rank"
    BY <1>3 DEF MaySave
  <2>4. name = "add" => adds = value
    BY DEF adds
  <2>5. QED
    BY <1>1, <1>3, <1>4, <2>1, <2>2, <2>3, <2>4 DEF NamesInv
<1>9. DragInv'
  <2>1. CASE UNCHANGED dragged /\ name # "rank"
    <3>1. \A r \in new, k \in RankKeys : k \notin DOMAIN r.puts
      BY <1>3, <2>1 DEF MaySave
    <3>2. QED
      BY <1>1, <2>1, <3>1 DEF DragInv
  <2>2. QED
    BY <2>1
<1>10. AddInv'
  <2>1. \A v \in 1 .. MaxTyped : v > typed' => added'[v] = 0
    BY <1>1 DEF AddInv
  <2>2. ASSUME NEW v \in 1 .. MaxTyped, v \notin mislaid
        PROVE  /\ added'[v] \in {0, 1}
               /\ \A q, r \in requests' : q.adds = v /\ r.adds = v => q = r
               /\ \A r \in requests' : r.adds = v => added'[v] = 0
               /\ (shown'["add"] = v /\ Underway(v)')
                      => \E s \in saves' : s.mount = mount' /\ s.name = "add" /\ s.value = v
    <3>1. CASE adds # v
      <4>1. \A r \in new : r.adds # v
        BY <1>3, <3>1
      <4>2. Underway(v)' <=> Underway(v)
        BY <1>1, <4>1 DEF Underway
      <4>3. QED
        BY <1>1, <2>2, <4>1, <4>2 DEF AddInv
    <3>2. CASE adds = v
      <4>1. name = "add" /\ value = v /\ shown["add"] = v
        BY <1>5, <3>2 DEF MaySave, adds
      <4>2. ~Underway(v)
        BY <1>1, <2>2, <4>1 DEF AddInv, Pending
      <4>3. added'[v] = 0 /\ \A r \in requests : r.adds # v
        BY <1>1, <4>2 DEF Underway
      <4>4. QED
        BY <1>1, <1>4, <1>6, <4>1, <4>3
    <3>3. QED
      BY <3>1, <3>2
  <2>3. QED
    BY <1>1, <2>1, <2>2 DEF AddInv
<1>11. ItemInv'
  <2>1. \A v : \A k \in ItemKeys : Belongs(v, k)' <=> Belongs(v, k)
    BY <1>1 DEF Belongs
  <2>2. \A r \in new, k \in ItemKeys : k \in DOMAIN r.puts => Belongs(r.puts[k], k)
    BY <1>3 DEF MaySave
  <2>3. QED
    BY <1>1, <2>1, <2>2 DEF ItemInv
<1>12. LimitInv'
  <2>1. \A r \in new :
           Key("theme") \in DOMAIN r.puts =>
               /\ Key("limit") \in DOMAIN r.puts
               /\ r.seen = rev => r.puts[Key("limit")] = stored[Key("limit")]
    BY <1>3 DEF MaySave, LimitInv
  <2>2. QED
    BY <1>1, <2>1 DEF LimitInv
<1>13. QED
  BY <1>7, <1>8, <1>9, <1>10, <1>11, <1>12

\* When types are dragged, no request for their order is under way but those that the drag
\* sends, or the order is not followed.
LEMMA DropKeeps ==
    ASSUME SettingsIInv, NEW i, NEW j, Drop(i, j) PROVE SettingsIInv'
<1> USE DEF SettingsIInv
<1> DEFINE ranks == RanksOf(InsertAt(RemoveAt(order, i), j, order[i]))
           Put1(key) == [k \in {key} |-> ranks[key]]
           puts == {Put1(key) : key \in RankKeys}
<1>1. Save("rank", 0, puts) /\ dragged' = IF OtherRankRequests = {} THEN ranks ELSE <<>>
  BY DEF Drop
<1>2. \A p \in puts : \E key \in RankKeys : DOMAIN p = {key} /\ p[key] = ranks[key]
  OBVIOUS
<1>3. \A key \in RankKeys : \E p \in puts : key \in DOMAIN p
  <2>1. TAKE key \in RankKeys
  <2>2. Put1(key) \in puts /\ key \in DOMAIN Put1(key)
    OBVIOUS
  <2>3. QED
    BY <2>2
<1> HIDE DEF puts, ranks
<1>4. MaySave("rank", 0, puts)
  <2>1. ASSUME NEW p \in puts
        PROVE  DOMAIN p \cap ({Key("theme")} \cup (ItemKeys)) = {}
    BY <1>2, KeyFacts
  <2>2. QED
    BY <2>1 DEF MaySave
<1>5. DragInv'
  <2>1. CASE OtherRankRequests = {}
    <3>1. \A r \in requests, k \in RankKeys : k \notin DOMAIN r.puts
      <4>1. SUFFICES ASSUME NEW r \in requests, DOMAIN r.puts \cap RankKeys # {} PROVE FALSE
        OBVIOUS
      <4>2. PICK s \in saves : s.id = r.save /\ s.mount = mount
        BY <2>1, <4>1 DEF OtherRankRequests
      <4>3. s.name = "rank"
        BY <4>1, <4>2 DEF NamesInv
      <4>4. QED
        BY <1>1, <4>2, <4>3 DEF Save, Pending
    <3>2. \A r \in requests' \ requests : r.puts \in puts
      BY <1>1 DEF Save
    <3>3. \A p \in puts : \E r \in requests' : r.puts = p
      <4>1. TAKE p \in puts
      <4>2. PICK r : r = [save |-> issued', puts |-> p, adds |-> 0, seen |-> seen]
        OBVIOUS
      <4>3. r \in requests' /\ r.puts = p
        BY <1>1, <4>2 DEF Save
      <4>4. QED
        BY <4>3
    <3>4. dragged' = ranks
      BY <1>1, <2>1
    <3>5. QED
      <4>1. ASSUME NEW k \in RankKeys PROVE \E r \in requests' : k \in DOMAIN r.puts
        BY <1>3, <3>3
      <4>2. ASSUME NEW k \in RankKeys, NEW r \in requests', k \in DOMAIN r.puts
            PROVE  r.puts[k] = ranks[k]
        BY <1>2, <3>1, <3>2, <4>2
      <4>3. QED
        BY <3>4, <4>1, <4>2 DEF DragInv
  <2>2. CASE OtherRankRequests # {}
    BY <1>1, <2>2 DEF DragInv
  <2>3. QED
    BY <2>1, <2>2
<1>6. QED
  BY <1>1, <1>4, <1>5, SaveKeeps

\* What one request, or another admin, does to a key that is stored.
LEMMA PutFacts ==
    ASSUME rev \in Nat, NEW puts, Put(puts)
    PROVE  /\ DOMAIN stored' = Keys
           /\ \A k \in Keys : stored'[k] = IF k \in DOMAIN puts THEN puts[k] ELSE stored[k]
           /\ rev' \in {rev, rev + 1}
           /\ rev' = rev => stored'[Key("limit")] = stored[Key("limit")]
<1> DEFINE lim == Key("limit")
<1>1. stored' = [k \in Keys |-> IF k \in DOMAIN puts THEN puts[k] ELSE stored[k]]
  BY DEF Put
<1>2. CASE stored'[lim] = stored[lim]
  BY <1>1, <1>2 DEF Put
<1>3. CASE stored'[lim] # stored[lim]
  BY <1>1, <1>3 DEF Put
<1>4. QED
  BY <1>2, <1>3

\* A request that is answered is the only one to add its value; the dragged order, and what
\* belongs to an item, come from the requests.
LEMMA ServedRequestKeeps == ASSUME SettingsIInv, NEW r \in requests, Serve(r) PROVE SettingsIInv'
<1> USE DEF SettingsIInv
<1>1. /\ requests' = requests \ {r} /\ Put(r.puts)
      /\ added' = IF r.adds = 0 THEN added ELSE [added EXCEPT ![r.adds] = @ + 1]
      /\ UNCHANGED <<cached, known, panel, mount, filled, open, shown, saves, typed, issued,
                     meant, mislaid, cachedRev, seen, dragged, cleared>>
  BY DEF Serve, Stored, page
<1>2. /\ DOMAIN stored' = Keys
      /\ \A k \in Keys : stored'[k] = IF k \in DOMAIN r.puts THEN r.puts[k] ELSE stored[k]
      /\ rev' \in {rev, rev + 1}
      /\ rev' = rev => stored'[Key("limit")] = stored[Key("limit")]
  BY <1>1, PutFacts DEF SettingsTypes
<1>3. \A v \in 1 .. MaxTyped : added'[v] = IF r.adds = v THEN added[v] + 1 ELSE added[v]
  BY <1>1 DEF SettingsTypes
<1>4. added' \in [1 .. MaxTyped -> Nat]
  <2>1. DOMAIN added' = 1 .. MaxTyped
    BY <1>1 DEF SettingsTypes
  <2>2. \A v \in 1 .. MaxTyped : added'[v] \in Nat
    BY <1>3 DEF SettingsTypes
  <2>3. added' = [v \in 1 .. MaxTyped |-> added'[v]]
    BY <1>1, <2>1 DEF SettingsTypes
  <2>4. QED
    BY <2>2, <2>3
<1>5. SettingsTypes'
  BY <1>1, <1>2, <1>4 DEF SettingsTypes
<1>6. NamesInv'
  BY <1>1 DEF NamesInv
<1>7. DragInv'
  BY <1>1, <1>2, KeyFacts DEF DragInv
<1>8. AddInv'
  <2>1. \A v \in 1 .. MaxTyped : v > typed' => added'[v] = 0
    BY <1>1, <1>3 DEF AddInv, SettingsTypes
  <2>2. \A v \in 1 .. MaxTyped : Underway(v)' => Underway(v)
    BY <1>1, <1>3 DEF Underway
  <2>3. \A v \in 1 .. MaxTyped : v \notin mislaid =>
                /\ added'[v] \in {0, 1}
                /\ \A q \in requests' : q.adds = v => added'[v] = 0
    BY <1>1, <1>3 DEF AddInv
  <2>4. QED
    BY <1>1, <2>1, <2>2, <2>3 DEF AddInv
<1>9. ItemInv'
  BY <1>1, <1>2, KeyFacts DEF ItemInv, Belongs
<1>10. LimitInv'
  <2>1. rev' = rev + 1 =>
          /\ cachedRev' # rev' /\ seen' # rev' /\ \A q \in requests' : q.seen # rev'
    BY <1>1 DEF SettingsTypes
  <2>2. QED
    BY <1>1, <1>2, <2>1 DEF LimitInv
<1>11. QED
  BY <1>5, <1>6, <1>7, <1>8, <1>9, <1>10

\* A request that is lost may have been answered; what it adds is mislaid, and the order
\* that it was a part of is not followed.
LEMMA LoseKeeps == ASSUME SettingsIInv, NEW r \in requests, Lose(r) PROVE SettingsIInv'
<1> USE DEF SettingsIInv
<1>1. /\ requests' = requests \ {r} /\ saves' = {s \in saves : s.id # r.save}
      /\ Stored(r) \/ UNCHANGED <<stored, added, rev>>
      /\ mislaid' = IF r.adds = 0 THEN mislaid ELSE mislaid \cup {r.adds}
      /\ dragged' = IF DOMAIN r.puts \cap RankKeys = {} THEN dragged ELSE <<>>
      /\ UNCHANGED <<cached, known, panel, mount, filled, open, shown, typed, issued, meant,
                     cachedRev, seen, cleared>>
  BY DEF Lose, server, page
<1>2. /\ DOMAIN stored' = Keys
      /\ \A k \in Keys : stored'[k] \in IF k \in DOMAIN r.puts THEN {r.puts[k], stored[k]}
                                        ELSE {stored[k]}
      /\ rev' \in {rev, rev + 1}
      /\ rev' = rev => stored'[Key("limit")] = stored[Key("limit")]
  <2>1. CASE Stored(r)
    BY <2>1, PutFacts DEF Stored, SettingsTypes
  <2>2. CASE UNCHANGED <<stored, added, rev>>
    BY <2>2 DEF SettingsTypes
  <2>3. QED
    BY <1>1, <2>1, <2>2
<1>3. added' \in [1 .. MaxTyped -> Nat]
  BY <1>1 DEF Stored, SettingsTypes
<1>4. \A v \in 1 .. MaxTyped : r.adds # v => added'[v] = added[v]
  BY <1>1 DEF Stored, SettingsTypes
<1>5. SettingsTypes'
  BY <1>1, <1>2, <1>3 DEF SettingsTypes
<1>6. NamesInv'
  BY <1>1 DEF NamesInv
<1>7. DragInv'
  <2>1. CASE DOMAIN r.puts \cap RankKeys = {}
    BY <1>1, <1>2, <2>1, KeyFacts DEF DragInv
  <2>2. CASE DOMAIN r.puts \cap RankKeys # {}
    BY <1>1, <2>2 DEF DragInv
  <2>3. QED
    BY <2>1, <2>2
<1>8. AddInv'
  <2>1. \A v \in 1 .. MaxTyped : v > typed' => added'[v] = 0
    BY <1>1, <1>4 DEF AddInv, SettingsTypes
  <2>2. ASSUME NEW v \in 1 .. MaxTyped, v \notin mislaid'
        PROVE  /\ added'[v] \in {0, 1}
               /\ \A p, q \in requests' : p.adds = v /\ q.adds = v => p = q
               /\ \A q \in requests' : q.adds = v => added'[v] = 0
               /\ (shown'["add"] = v /\ Underway(v)')
                      => \E s \in saves' : s.mount = mount' /\ s.name = "add" /\ s.value = v
    <3>1. v \notin mislaid /\ r.adds # v
      BY <1>1, <2>2
    <3>2. added'[v] = added[v]
      BY <1>4, <3>1
    <3>3. Underway(v)' => Underway(v)
      BY <1>1, <3>2 DEF Underway
    <3>4. \A s \in saves : s.name = "add" /\ s.value = v => s \in saves'
      BY <1>1, <3>1 DEF NamesInv
    <3>5. QED
      BY <1>1, <3>1, <3>2, <3>3, <3>4 DEF AddInv
  <2>3. QED
    BY <1>1, <2>1, <2>2 DEF AddInv
<1>9. ItemInv'
  BY <1>1, <1>2, KeyFacts DEF ItemInv, Belongs
<1>10. LimitInv'
  <2>1. rev' = rev + 1 =>
          /\ cachedRev' # rev' /\ seen' # rev' /\ \A q \in requests' : q.seen # rev'
    BY <1>1 DEF SettingsTypes
  <2>2. QED
    BY <1>1, <1>2, <2>1 DEF LimitInv
<1>11. QED
  BY <1>5, <1>6, <1>7, <1>8, <1>9, <1>10

\* A mutation that adds and that succeeds in its panel clears the fields; the others leave
\* them alone.
LEMMA FinishKeeps == ASSUME SettingsIInv, NEW s \in saves, Finish(s) PROVE SettingsIInv'
<1> USE DEF SettingsIInv
<1>1. /\ saves' = saves \ {s}
      /\ UNCHANGED <<stored, added, cached, known, panel, mount, filled, requests, typed, issued,
                     meant, mislaid, rev, cachedRev, seen, dragged>>
  BY DEF Finish, server, history
<1>2. open' \in {open, Nothing}
  BY DEF Finish, Succeeded
<1>3. /\ DOMAIN shown' = Fields /\ shown'["limit"] = shown["limit"]
      /\ shown'["item"] = IF EmptiesMembers(s) THEN 0 ELSE shown["item"]
      /\ shown'["add"] = IF s.mount = mount /\ s.name = "add" THEN 0 ELSE shown["add"]
      /\ cleared' = IF EmptiesMembers(s) THEN cleared \cup {open} ELSE cleared
  BY DEF Finish, Succeeded, EmptiesMembers, SettingsTypes, Fields
<1>4. SettingsTypes'
  BY <1>1, <1>2, <1>3 DEF SettingsTypes
<1>5. NamesInv' /\ DragInv'
  BY <1>1 DEF NamesInv, DragInv
<1>6. AddInv'
  <2>1. \A v \in 1 .. MaxTyped : Underway(v)' <=> Underway(v)
    BY <1>1 DEF Underway
  <2>2. QED
    BY <1>1, <1>3, <2>1 DEF AddInv, SettingsTypes
<1>7. ItemInv'
  <2>1. \A v : \A k \in ItemKeys : Belongs(v, k) => Belongs(v, k)'
    BY <1>1, <1>3 DEF Belongs
  <2>2. open' \in ItemKeys => open' = open /\ Belongs(shown["item"], open)
    BY <1>2, DrawerFacts DEF ItemInv
  <2>3. ASSUME open' \in ItemKeys PROVE Belongs(shown["item"], open)'
    <3>1. CASE EmptiesMembers(s)
      BY <1>3, <2>2, <2>3, <3>1 DEF Belongs
    <3>2. CASE ~EmptiesMembers(s)
      BY <1>3, <2>1, <2>2, <2>3, <3>2
    <3>3. QED
      BY <3>1, <3>2
  <2>4. QED
    BY <1>1, <2>1, <2>3 DEF ItemInv
<1>8. LimitInv'
  BY <1>1, <1>3 DEF LimitInv
<1>9. QED
  BY <1>4, <1>5, <1>6, <1>7, <1>8

\* Another admin changes the limit, which nobody here has seen then, or the order of the
\* types, which is not followed any more.
LEMMA OtherAdminKeeps == ASSUME SettingsIInv, OtherAdmin PROVE SettingsIInv'
<1> USE DEF SettingsIInv
<1>1. UNCHANGED <<added, cached, known, panel, mount, filled, open, shown, saves, requests, typed,
                  issued, meant, mislaid, cachedRev, seen, cleared>>
  BY DEF OtherAdmin, page
<1>2. PICK puts :
        /\ Put(puts)
        /\ DOMAIN puts \cap (ItemKeys) = {}
        /\ (UNCHANGED dragged /\ DOMAIN puts \cap RankKeys = {}) \/ dragged' = <<>>
  <2>1. CASE \E l \in Limits : Put([k \in {Key("limit")} |-> l]) /\ UNCHANGED dragged
    BY <2>1, KeyFacts
  <2>2. CASE \E q \in SetToSeqs(Types) : Put(RanksOf(q)) /\ dragged' = <<>>
    <3>1. \A q : DOMAIN RanksOf(q) = RankKeys
      BY DEF RanksOf
    <3>2. QED
      BY <2>2, <3>1, KeyFacts
  <2>3. QED
    BY <2>1, <2>2 DEF OtherAdmin
<1>3. /\ DOMAIN stored' = Keys
      /\ \A k \in Keys : stored'[k] = IF k \in DOMAIN puts THEN puts[k] ELSE stored[k]
      /\ rev' \in {rev, rev + 1}
      /\ rev' = rev => stored'[Key("limit")] = stored[Key("limit")]
  BY <1>2, PutFacts DEF SettingsTypes
<1>4. SettingsTypes'
  BY <1>1, <1>3 DEF SettingsTypes
<1>5. NamesInv'
  BY <1>1 DEF NamesInv
<1>6. DragInv'
  BY <1>1, <1>2, <1>3, KeyFacts DEF DragInv
<1>7. AddInv'
  BY <1>1 DEF AddInv, Underway
<1>8. ItemInv'
  BY <1>1, <1>2, <1>3, KeyFacts DEF ItemInv, Belongs
<1>9. LimitInv'
  <2>1. rev' = rev + 1 =>
          /\ cachedRev' # rev' /\ seen' # rev' /\ \A q \in requests' : q.seen # rev'
    BY <1>1 DEF SettingsTypes
  <2>2. QED
    BY <1>1, <1>3, <2>1 DEF LimitInv
<1>10. QED
  BY <1>4, <1>5, <1>6, <1>7, <1>8, <1>9

\* Every step preserves it.
LEMMA SettingsStep == ASSUME SettingsIInv, [SettingsNext]_settingsVars PROVE SettingsIInv'
<1>1. CASE UNCHANGED settingsVars
  BY <1>1 DEF settingsVars, server, page, history, SettingsIInv, SettingsTypes, NamesInv, DragInv,
              AddInv, Underway, ItemInv, Belongs, LimitInv
<1>2. Forms => SettingsIInv'
  <2>1. ASSUME NEW drawer \in {Nothing, Adding}, SetOpen(drawer, shown) PROVE SettingsIInv'
    BY <2>1, SetOpenKeeps
  <2>2. ASSUME NEW name \in ItemForms, NEW i \in Items, OpenItem(name, i) PROVE SettingsIInv'
    BY <2>2, SetOpenKeeps DEF OpenItem, ItemKeys
  <2>3. ASSUME NEW name, NEW value, NEW puts, name # "rank", MaySave(name, value, puts),
               Save(name, value, puts), KeepOrder
        PROVE  SettingsIInv'
    BY <2>3, SaveKeeps DEF KeepOrder
  <2>4. QED
    BY <2>1, <2>2, <2>3, TypeInKeeps DEF Forms
<1>3. CASE SettingsNext
  BY <1>2, <1>3, KindsOfSteps, ShowPanelKeeps, FetchKeeps, DropKeeps, ServedRequestKeeps,
     LoseKeeps, FinishKeeps, OtherAdminKeeps DEF SettingsIInv
<1>4. QED
  BY <1>1, <1>3

-----------------------------------------------------------------------------
(* The theorems. *)

\* The invariant of the forms holds in every state.
THEOREM SettingsInvariance == SettingsSpec => []SettingsIInv
  BY SettingsStart, SettingsStep, PTL DEF SettingsSpec

\* When no request for an order is under way, the server has the order of the last drag,
\* unless one of its requests was lost, another admin reordered the types, or requests of a
\* panel that was left were still under way when it was made.
THEOREM DraggedOrderArrives == SettingsSpec => []OrderIsAsDragged
<1>1. SettingsIInv => OrderIsAsDragged
  BY DEF SettingsIInv, DragInv, OrderIsAsDragged
<1>2. QED
  BY <1>1, SettingsInvariance, PTL

\* What was typed in a drawer is added once, unless a request or an answer was lost.
THEOREM NothingIsAddedTwice == SettingsSpec => []AddedOnce
<1>1. SettingsIInv => AddedOnce
  BY DEF SettingsIInv, AddInv, AddedOnce
<1>2. QED
  BY <1>1, SettingsInvariance, PTL

\* What is stored for an item is what it had or was typed in the drawer of that item, but for
\* the members of a team whose drawer was emptied when a team was added.
THEOREM NoMixedUpItems == SettingsSpec => []StoredWhereTyped
<1>1. SettingsIInv => StoredWhereTyped
  BY SettingsAssumption
     DEF SettingsIInv, SettingsTypes, ItemInv, Belongs, StoredWhereTyped
<1>2. QED
  BY <1>1, SettingsInvariance, PTL

\* General changes the limit only if it was changed behind its back.
THEOREM NoSeenLimitIsReverted == SettingsSpec => OnlyUnseenLimitsAreReverted
<1> DEFINE Unseen == \A r \in requests :
              (Serve(r) /\ Key("theme") \in DOMAIN r.puts /\ rev' # rev) => r.seen # rev
<1>1. ASSUME SettingsIInv, [SettingsNext]_settingsVars PROVE [Unseen]_settingsVars
  <2>1. SUFFICES ASSUME NEW r \in requests, Serve(r), Key("theme") \in DOMAIN r.puts, r.seen = rev
                 PROVE  rev' = rev
    OBVIOUS
  <2>2. Key("limit") \in DOMAIN r.puts /\ r.puts[Key("limit")] = stored[Key("limit")]
    BY <1>1, <2>1 DEF SettingsIInv, LimitInv
  <2>3. QED
    BY <2>1, <2>2, KeyFacts DEF Serve, Stored, Put
<1>2. QED
  BY <1>1, SettingsInvariance, PTL DEF SettingsSpec, OnlyUnseenLimitsAreReverted
=============================================================================
