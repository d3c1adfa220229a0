------------------------------ MODULE DocsEdit ------------------------------
(***************************************************************************)
(* A write tool of src/mcp/docs.rs on a document other people are editing.    *)
(*                                                                          *)
(* The caller lists the paragraphs and asks for a write against what it       *)
(* read; the handler reads the document again, plans, and either shows the   *)
(* plan or sends it in one batch, which Docs applies only to the revision it  *)
(* names.  A table, and a row or a column, takes a second read and a second   *)
(* batch.  docs_append names no revision at all.                            *)
(*                                                                          *)
(* Others change the document between any two of these steps: one keystroke  *)
(* of theirs is one revision, and MaxEdits bounds what they do.           *)
(***************************************************************************)
EXTENDS DocPlans

CONSTANTS
    Documents,     \* what the document may be to begin with
    Ops,           \* what a caller may ask for
    MaxEdits       \* how often others change the document during a call

(* A body ends in a paragraph of its own, and never loses it.                *)
Strings ==
    STRING \cup Structure
    \cup {"nl", "a", "W", "w", "picture", "NORMAL_TEXT", "ours", "font", "colour", "bold"}
AnyUnit == [c : Strings, s : SUBSET Strings]
Whole == {d \in Seq(AnyUnit) : d # <<>> /\ Last(d).c = "nl"}

ASSUME DocumentsAreWhole == Documents \subseteq Whole

(* What the parameters of the tools can hold.                               *)
Text == Seq(Strings)
Maybe(S) == {None} \cup S

AnyOp ==
    [kind : {"insert"}, where : Strings, n : Nat, text : Text, style : Maybe(Strings), expect : Maybe(Text)]
    \cup [kind : {"edit"}, n : Nat, find : Text, occurrence : Nat, replace : Text, expect : Text]
    \cup [kind : {"style"}, n : Nat, style : Strings, expect : Text]
    \cup [kind : {"code"}, n : Nat, code : Text, spans : Seq([start : Nat, end : Nat]), expect : Maybe(Text)]
    \cup [kind : {"table"}, n : Nat, grid : Seq(Seq(Text)), header : BOOLEAN, expect : Maybe(Text)]
    \cup [kind : {"image"}, n : Nat, insertable : BOOLEAN, expect : Maybe(Text)]
    \cup [kind : {"insertLine", "deleteLine"}, axis : {"row", "column"}, n : Nat, number : Nat,
           cells : Seq(Text), expect : Text]
    \cup [kind : {"delete"}, n : Nat, to : Maybe(Nat), expect : Text, last : Maybe(Text)]
    \cup [kind : {"deleteTable"}, n : Nat, expect : Text]
    \cup [kind : {"append"}, text : Text]
    \cup [kind : {"replace"}, find : Text, replace : Text]

ASSUME OpsAreTyped == Ops \subseteq AnyOp

ASSUME EditsAreCounted == MaxEdits \in Nat

VARIABLES
    doc,      \* the document, as Docs keeps it
    rev,      \* its revision
    pc,       \* how far the call has come, or what it was answered
    op,       \* what it was asked for
    named,    \* the revision its next batch names
    plan,     \* the requests it holds
    seen,     \* the requests its caller was shown
    table,    \* the table it is to make or change: where it is and its shape
    upload,   \* the staged picture of a docs_insert_image
    mine      \* history: the revisions its batches made

vars == <<doc, rev, pc, op, named, plan, seen, table, upload, mine>>

NoOp == [kind |-> "none"]
NoTable == [index |-> 0, rows |-> 0, columns |-> 0, tidy |-> FALSE, first |-> 0, last |-> 0]

Answers == {"done", "refused", "stale", "rejected", "failed", "half"}

Init ==
    /\ doc \in Documents
    /\ rev = 1
    /\ pc = "idle"
    /\ op = NoOp
    /\ named = 0
    /\ plan = <<>>
    /\ seen = None
    /\ table = NoTable
    /\ upload = "staged"
    /\ mine = {}

-----------------------------------------------------------------------------
(* The caller and the handler, up to the first batch.                       *)

\* docs_list_paragraphs, and a tool called with what it answered.
Ask ==
    /\ pc = "idle"
    /\ op' \in Ops
    /\ named' = rev
    /\ pc' = "asked"
    /\ UNCHANGED <<doc, rev, plan, seen, table, upload, mine>>

\* docs_append and docs_replace_text name no revision.
Guarded == op.kind \notin {"append", "replace"}

CheckRevision == Guarded => named = rev

\* The picture is read before anything else, and left where it is.
Peeked == op.kind = "image" => upload = "staged"

Writable == Peeked /\ CheckRevision /\ Takes(Outline(doc), op)

\* confirmed=false: the plan is shown and nothing is sent.  An append and a
\* replacement are shown without a look at the document.
Preview ==
    /\ pc = "asked"
    /\ seen = None
    /\ Writable
    /\ seen' = IF Guarded THEN Planned(doc, Outline(doc), op) ELSE <<>>
    /\ UNCHANGED <<doc, rev, pc, op, named, plan, table, upload, mine>>

\* What a plan says of the table its first batch makes or changes.
TableAsked(o) ==
    CASE op.kind = "table" ->
            [NoTable EXCEPT !.index = Boundary(o, op.n), !.tidy = MayTidy(o, op.n),
                            !.rows = Len(op.grid), !.columns = Len(op.grid[1])]
      [] op.kind = "insertLine" ->
            [NoTable EXCEPT !.index = TheTable(o, op.n).index,
                            !.rows = Grown(TheTable(o, op.n), op.axis)[1],
                            !.columns = Grown(TheTable(o, op.n), op.axis)[2]]
      [] OTHER -> NoTable

\* Mutant of Plan: it names the revision it has read, not the caller's.
PlanAfresh ==
    /\ pc = "asked"
    /\ Takes(Outline(doc), op)
    /\ named' = rev
    /\ plan' = Planned(doc, Outline(doc), op)
    /\ table' = TableAsked(Outline(doc))
    /\ pc' = IF op.kind = "image" THEN "checked" ELSE "planned"
    /\ UNCHANGED <<doc, rev, op, seen, upload, mine>>

Plan ==
    /\ pc = "asked"
    /\ Writable
    /\ plan' = Planned(doc, Outline(doc), op)
    /\ table' = TableAsked(Outline(doc))
    /\ pc' = IF op.kind = "image" THEN "checked" ELSE "planned"
    /\ UNCHANGED <<doc, rev, op, named, seen, upload, mine>>

Refuse ==
    /\ pc = "asked"
    /\ ~Writable
    /\ pc' = "refused"
    /\ UNCHANGED <<doc, rev, op, named, plan, seen, table, upload, mine>>

Handled == Preview \/ Plan \/ Refuse

DocsInsertText == op.kind = "insert" /\ Handled
DocsEditParagraph == op.kind = "edit" /\ Handled
DocsStyleParagraph == op.kind = "style" /\ Handled
DocsInsertCode == op.kind = "code" /\ Handled
DocsInsertTable == op.kind = "table" /\ Handled
DocsInsertImage == op.kind = "image" /\ Handled
DocsDeleteParagraphs == op.kind = "delete" /\ Handled
DocsDeleteTable == op.kind = "deleteTable" /\ Handled
InsertRowOrColumn == op.kind = "insertLine" /\ Handled
DeleteRowOrColumn == op.kind = "deleteLine" /\ Handled
DocsAppend == op.kind = "append" /\ Handled
DocsReplaceText == op.kind = "replace" /\ Handled

\* docs_insert_image spends the upload once its plan stands, and then mints
\* the link Google is to fetch the picture by.  The plan is not made again.
Hold ==
    /\ pc = "checked"
    /\ IF upload = "staged"
       THEN upload' = "held" /\ pc' \in {"planned", "failed"}
       ELSE UNCHANGED upload /\ pc' = "refused"
    /\ UNCHANGED <<doc, rev, op, named, plan, seen, table, mine>>

\* The upload's time is over, or another call took it.
Expire ==
    /\ op.kind = "image" /\ upload = "staged" /\ pc \in {"asked", "checked"}
    /\ upload' = "gone"
    /\ UNCHANGED <<doc, rev, pc, op, named, plan, seen, table, mine>>

-----------------------------------------------------------------------------
(* Batches.                                                                *)

TwoBatches == op.kind \in {"table", "insertLine"}

Current == Guarded => named = rev

\* Mutant of Applied: a batch that makes no revision.
AppliedUnseen(answers) ==
    /\ Batch(doc, plan) # Refused
    /\ doc' = Batch(doc, plan)
    /\ mine' = mine \cup {rev + 1}
    /\ pc' \in answers
    /\ UNCHANGED <<rev, op, named, plan, seen, table, upload>>

\* The batch went through; its reply may still be lost.
Applied(answers) ==
    /\ Batch(doc, plan) # Refused
    /\ doc' = Batch(doc, plan)
    /\ rev' = rev + 1
    /\ mine' = mine \cup {rev + 1}
    /\ pc' \in answers
    /\ UNCHANGED <<op, named, plan, seen, table, upload>>

Write ==
    /\ pc = "planned"
    /\ Current
    /\ Applied({"failed", IF TwoBatches THEN "made" ELSE "done"})

Answered(answer) ==
    /\ pc' = answer
    /\ UNCHANGED <<doc, rev, op, named, plan, seen, table, upload, mine>>

\* Docs refuses a revision that has moved, and what it cannot carry out.
WriteRefused ==
    /\ pc = "planned"
    /\ IF ~Current THEN Answered("stale")
       ELSE Batch(doc, plan) = Refused /\ Answered("rejected")

-----------------------------------------------------------------------------
(* The second batch of a table, a row or a column.                          *)

\* Mutant of Filling: it answers before the cells are written.
FillingLater(requests, found) ==
    /\ plan' = requests
    /\ table' = found
    /\ named' = rev
    /\ pc' = "done"
    /\ UNCHANGED <<doc, rev, op, seen, upload, mine>>

\* The requests of the second batch go out against the revision just read.
Filling(requests, found) ==
    /\ plan' = requests
    /\ table' = found
    /\ named' = rev
    /\ pc' = IF requests = <<>> THEN "done" ELSE "filling"
    /\ UNCHANGED <<doc, rev, op, seen, upload, mine>>

FoundTable(o) == NewTable(o, table.index, table.rows, table.columns)

FindTable ==
    LET o == Outline(doc)
        g == o.tables[FoundTable(o)]
        tidy == table.tidy /\ TidyBefore(o, op.n, table.index, g.index)
        closed == IF tidy THEN 1 ELSE 0
    IN /\ pc = "made" /\ op.kind = "table"
       /\ FoundTable(o) # 0
       /\ Filling(FillRequests(g, op.grid, op.header)
                     \o (IF tidy THEN <<Delete(table.index - 1, table.index)>> ELSE <<>>),
                  [table EXCEPT !.index = g.index - closed, !.tidy = tidy,
                                !.first = FirstParagraph(g) - closed,
                                !.last = LastParagraph(g) - closed])

FoundCells(o) ==
    NewLineCells(o, table.index, <<table.rows, table.columns>>, op.axis, op.number + 1)

FindLine ==
    LET cells == FoundCells(Outline(doc))
    IN /\ pc = "made" /\ op.kind = "insertLine"
       /\ cells # <<>>
       /\ Filling(FillCells(cells, op.cells),
                  [table EXCEPT !.first = cells[1].ordinal, !.last = Last(cells).ordinal])

\* The document could not be read back, or what was made was not found in it.
LeftEmpty ==
    /\ pc = "made"
    /\ Answered("half")

\* Whatever becomes of the second batch, its failure is told the same way.
Fill ==
    /\ pc = "filling"
    /\ Current
    /\ Applied({"done", "half"})

FillRefused ==
    /\ pc = "filling"
    /\ ~Current \/ Batch(doc, plan) = Refused
    /\ Answered("half")

-----------------------------------------------------------------------------
(* Everybody else.                                                         *)

\* They type, break a paragraph, and take out a unit or a paragraph.
OthersEdits(d) ==
    {Put(d, i, Typed(d, i, <<c>>)) : i \in {j \in 1 .. Len(d) : InParagraph(d, j)}, c \in {"a", "nl"}}
    \cup {Cut(d, i, i + 1) : i \in {j \in 1 .. Len(d) : Deletable(d, j, j + 1)}}
    \cup {Cut(d, ParagraphStart(d, i), i + 1) :
              i \in {j \in Places(d, {"nl"}) : Deletable(d, ParagraphStart(d, j), j + 1)}}

Others ==
    /\ pc \notin Answers \cup {"idle"}
    /\ rev - 1 - Cardinality(mine) < MaxEdits
    /\ doc' \in OthersEdits(doc)
    /\ rev' = rev + 1
    /\ UNCHANGED <<pc, op, named, plan, seen, table, upload, mine>>

Next ==
    \/ Ask
    \/ DocsInsertText \/ DocsEditParagraph \/ DocsStyleParagraph \/ DocsInsertCode
    \/ DocsInsertTable \/ InsertRowOrColumn \/ DeleteRowOrColumn
    \/ DocsDeleteParagraphs \/ DocsDeleteTable
    \/ DocsAppend \/ DocsReplaceText
    \/ DocsInsertImage \/ Hold \/ Expire
    \/ Write \/ WriteRefused
    \/ FindTable \/ FindLine \/ LeftEmpty
    \/ Fill \/ FillRefused
    \/ Others

Spec == Init /\ [][Next]_vars

-----------------------------------------------------------------------------
(* A document the way a person reads it: paragraphs, and what stands between *)
(* them.  The properties say what a write does to that, without an index.    *)

Elements(d) ==
    LET marks == InOrder(Places(d, Structure \cup {"nl"}))
        element(i) == IF d[i].c = "nl"
                      THEN [what |-> "nl", units |-> SubSeq(d, ParagraphStart(d, i), i - 1), style |-> d[i].s]
                      ELSE [what |-> d[i].c, units |-> <<>>, style |-> d[i].s]
    IN [k \in DOMAIN marks |-> element(marks[k])]

\* The same without styles and pictures.
Words(v) == [k \in DOMAIN v |-> <<v[k].what, Chars(v[k].units)>>]

Paragraph(v, n) == InOrder({k \in DOMAIN v : v[k].what = "nl"})[n]

\* A text as paragraphs in this style, its k-th character set as s(k) says.
Fresh(text, style, s(_)) ==
    Elements(FlattenSeq([k \in DOMAIN text |->
                 IF text[k] = "nl" THEN <<Unit("nl", style)>>
                 ELSE [u \in DOMAIN Units(<<text[k]>>) |-> Unit(Units(<<text[k]>>)[u].c, s(k))]])
             \o <<Unit("nl", style)>>)

Plain(k) == {}
Coloured(k) ==
    {"font"} \cup (IF \E i \in DOMAIN op.spans : op.spans[i].start < k /\ k <= op.spans[i].end
                   THEN {"colour"} ELSE {})

Spliced(v, from, to, new) == SubSeq(v, 1, from - 1) \o new \o SubSeq(v, to, Len(v))

\* The innermost table around a paragraph, as its place in the document.
Around(d, n) ==
    LET i == InOrder(Places(d, {"nl"}))[n]
    IN Greatest({t \in Places(d, {"table"}) : t < i /\ i < TableEnd(d, t)})

Contents(d, t) ==
    LET at == CellPlaces(d, t)
    IN [r \in DOMAIN at |-> [c \in DOMAIN at[r] |->
           SubSeq(d, at[r][c] + 1, NextAt(d, at[r][c], {"cell", "row", "end"}) - 1)]]

NewCell == <<Unit("nl", {"NORMAL_TEXT"})>>

\* The row or column in or out of the table, and the table in the same document.
LineEdited(d, e, t) ==
    LET old == Contents(d, t)
        new == Contents(e, t)
        at == op.number + (IF op.kind = "insertLine" THEN 1 ELSE 0)
        line(cells) == IF op.axis = "row" THEN cells[at] ELSE [r \in DOMAIN cells |-> cells[r][at]]
        without(cells) == IF op.axis = "row" THEN RemoveAt(cells, at)
                          ELSE [r \in DOMAIN cells |-> RemoveAt(cells[r], at)]
    IN /\ SubSeq(d, 1, t - 1) = SubSeq(e, 1, t - 1)
       /\ SubSeq(d, TableEnd(d, t), Len(d)) = SubSeq(e, TableEnd(e, t), Len(e))
       /\ IF op.kind = "insertLine"
          THEN without(new) = old /\ \A k \in DOMAIN line(new) : line(new)[k] = NewCell
          ELSE new = without(old)

\* Every occurrence of one text, for another.
Substituted(text, find, replace) ==
    LET at == Matches(text, find)
        from(k) == IF k = 0 THEN 0 ELSE at[k] + Len(find)
        piece(k) == SubSeq(text, from(k) + 1, IF k = Len(at) THEN Len(text) ELSE at[k + 1])
    IN piece(0) \o FlattenSeq([k \in DOMAIN at |-> replace \o piece(k)])

\* What the write asked for makes of document d.
IsAsked(d, e) ==
    LET v == Elements(d)
        w == Elements(e)
        p == Paragraph(v, op.n)
        style == IF op.style = None THEN v[p].style ELSE {op.style}
        last == Paragraph(v, IF op.to = None THEN op.n ELSE op.to)
        words == Chars(v[p].units)
        k == Matches(words, op.find)[op.occurrence]
    IN CASE op.kind = "insert" /\ op.where = "before" ->
              w = Spliced(v, p, p, Fresh(StripNewline(op.text), style, Plain))
         [] op.kind = "insert" /\ op.where = "after" ->
              w = Spliced(v, p + 1, p + 1, Fresh(StripNewline(op.text), style, Plain))
         [] op.kind = "edit" ->
              Words(w) = Words(Spliced(v, p, p + 1,
                  Fresh(SubSeq(words, 1, k) \o op.replace \o SubSeq(words, k + Len(op.find) + 1, Len(words)),
                        {}, Plain)))
         [] op.kind = "style" -> w = [v EXCEPT ![p].style = {op.style}]
         [] op.kind = "code" ->
              w = Spliced(v, p + 1, p + 1, Fresh(Listing(op.code), v[p].style, Coloured))
         [] op.kind = "image" ->
              w = Spliced(v, p + 1, p + 1,
                          <<[what |-> "nl", units |-> <<Unit("picture", {})>>, style |-> v[p].style]>>)
         [] op.kind = "table" ->
              Words(w) = Words(Spliced(v, p + 1, p + 1,
                             Elements(<<Unit("nl", {})>> \o EmptyTable(Len(op.grid), Len(op.grid[1]), "ours"))))
         [] op.kind \in {"insertLine", "deleteLine"} -> LineEdited(d, e, Around(d, op.n))
         [] op.kind = "delete" -> w = Spliced(v, p, last + 1, <<>>)
         [] op.kind = "deleteTable" ->
              e = Cut(d, Around(d, op.n), TableEnd(d, Around(d, op.n)) + 1)
         [] op.kind = "replace" ->
              Words(w) = [i \in DOMAIN v |->
                  <<v[i].what, IF Contains(v[i].units, Unit("picture", {})) THEN Words(w)[i][2]
                               ELSE Substituted(Chars(v[i].units), op.find, op.replace)>>]
         [] op.kind = "append" ->
              named = rev => Words(w) = Words(Elements(Front(d) \o Units(op.text) \o <<Last(d)>>))

-----------------------------------------------------------------------------
(* Properties.                                                             *)

\* Every variable has a value of its type.
TypeOK ==
    /\ doc \in Whole
    /\ rev \in 1 .. MaxEdits + 3
    /\ pc \in {"idle", "asked", "checked", "planned", "made", "filling"} \cup Answers
    /\ pc = "idle" <=> op = NoOp
    /\ named \in 0 .. rev
    /\ DOMAIN table = DOMAIN NoTable
    /\ upload \in {"staged", "held", "gone"}
    /\ mine \subseteq 2 .. rev

\* A write does to the paragraphs of the document what was asked and nothing
\* else, whatever the indexes were: pictures, pairs, cells and breaks are where
\* an index goes wrong.  Others may have written in between (google/docs.rs 381).
WritesAreExact == [][pc = "planned" /\ doc' # doc /\ pc' # "planned" => IsAsked(doc, doc')]_vars

\* What Docs cannot delete and where it cannot write is refused before it is
\* asked: Docs itself refuses no plan made for the revision it is at, but a table
\* put in front of another (google/docs.rs 818).
DocsTakesEveryPlan ==
    pc = "rejected" =>
        \/ op.kind = "append" /\ named # rev
        \/ op.kind = "table" /\ table.index \in Places(doc, {"table", "break"})

\* What is written is what its caller was shown (mcp/docs.rs 1132), when it was
\* shown a plan at all.
WrittenAsShown ==
    [][pc = "planned" /\ pc' # "planned" /\ doc' # doc /\ Guarded /\ seen # None => plan = seen]_vars

\* The cells of the table or line hold the text asked for, each its own, and the
\* numbers answered are the table's own.
CellsHoldTheText ==
    LET t == table.index
        cells == Contents(doc', t)
        words == [r \in DOMAIN cells |-> [c \in DOMAIN cells[r] |-> Words(Elements(cells[r][c]))[1][2]]]
        line == IF op.axis = "row" THEN words[op.number + 1]
                ELSE [r \in DOMAIN words |-> words[r][op.number + 1]]
        first == 1 + Cardinality({i \in 1 .. t : doc'[i].c = "nl"})
        covered == Cardinality({i \in t .. TableEnd(doc', t) : doc'[i].c = "nl"})
    IN /\ doc'[t].c = "table"
       /\ op.kind = "table" =>
             /\ words = op.grid
             /\ table.first = first /\ table.last = first + covered - 1
             /\ table.tidy => Chars(Elements(doc')[Paragraph(Elements(doc'), op.n)].units)
                               = Chars(Elements(doc)[Paragraph(Elements(doc), op.n)].units)
       /\ op.kind = "insertLine" => line = op.cells

\* Text went into cells that held nothing, and into no paragraph anywhere else.
OnlyEmptyCellsFilled ==
    LET before == Outline(doc).paragraphs
        after == Outline(doc').paragraphs
        closed == IF table.tidy THEN 1 ELSE 0
    IN /\ Len(after) = Len(before) - closed
       /\ \A n \in DOMAIN after :
             LET was == before[IF n <= op.n \/ ~table.tidy THEN n ELSE n + 1].text
             IN after[n].text = was \/ (was = <<>> /\ CellOf(Outline(doc'), n) # {})

\* The second batch of a table or a line fills it, whatever others wrote since the
\* first: the cells hold the text asked for, they held nothing before, and nothing
\* else is written to (google/docs.rs 2011).
FilledAsAsked ==
    [][pc = "filling" /\ doc' # doc /\ pc' # "filling" => CellsHoldTheText /\ OnlyEmptyCellsFilled]_vars

\* The table a table's text goes into is the one this call made: "text in the
\* wrong cells is not" an acceptable failure (google/docs.rs 2016).
TextInItsOwnTable ==
    [][pc = "filling" /\ pc' = "done" /\ op.kind = "table" => doc'[table.index].s = {"ours"}]_vars

\* Changing words takes no picture out of the document: docs_edit_paragraph
\* changes "one occurrence of one string" (mcp/docs.rs 1096).
EditKeepsPictures ==
    [][pc = "planned" /\ pc' # "planned" /\ op.kind = "edit" =>
        Cardinality(Places(doc', {"picture"})) = Cardinality(Places(doc, {"picture"}))]_vars

\* A refusal wrote nothing and kept the upload; "half" is a table or a line that
\* was made; "done" left nothing to do.
AnswersAreTrue ==
    /\ pc \in {"refused", "stale", "rejected"} => mine = {}
    /\ pc = "refused" => upload # "held"
    /\ pc = "half" => TwoBatches /\ mine # {}
    /\ pc = "done" => mine # {} /\ (plan # <<>> /\ TwoBatches => Cardinality(mine) = 2)
=============================================================================
