------------------------------ MODULE DocPlans ------------------------------
(***************************************************************************)
(* The plans of src/google/docs.rs: for each write tool, which requests it     *)
(* makes of the document it read and when it makes none.  `o` is an outline,  *)
(* `op` what a caller asked for; a caller's `expect` is the beginning of the   *)
(* paragraph it believes it named, None when it left that out.              *)
(***************************************************************************)
EXTENDS Document

CONSTANTS None, MaxInsert, MaxRows, MaxColumns

-----------------------------------------------------------------------------
(* What a caller asks for: `n` is the paragraph it names, None what it left out. *)

DocsInsertParam(where, n, text, style, expect) ==
    [kind |-> "insert", where |-> where, n |-> n, text |-> text, style |-> style, expect |-> expect]
DocsEditParam(n, find, occurrence, replace, expect) ==
    [kind |-> "edit", n |-> n, find |-> find, occurrence |-> occurrence, replace |-> replace, expect |-> expect]
DocsStyleParam(n, style, expect) == [kind |-> "style", n |-> n, style |-> style, expect |-> expect]
DocsSpanParam(start, end) == [start |-> start, end |-> end]
DocsCodeParam(n, code, spans, expect) ==
    [kind |-> "code", n |-> n, code |-> code, spans |-> spans, expect |-> expect]
DocsTableParam(n, grid, header, expect) ==
    [kind |-> "table", n |-> n, grid |-> grid, header |-> header, expect |-> expect]
DocsInsertImageParam(n, insertable, expect) ==
    [kind |-> "image", n |-> n, insertable |-> insertable, expect |-> expect]
DocsDeleteParam(n, to, expect, last) ==
    [kind |-> "delete", n |-> n, to |-> to, expect |-> expect, last |-> last]
DocsDeleteTableParam(n, expect) == [kind |-> "deleteTable", n |-> n, expect |-> expect]
DocsAppendParam(text) == [kind |-> "append", text |-> text]
DocsReplaceParam(find, replace) == [kind |-> "replace", find |-> find, replace |-> replace]

\* What a row and a column share, cells only for one that goes in.
TableEdit(kind, axis, n, number, expect) ==
    [kind |-> kind, axis |-> axis, n |-> n, number |-> number, cells |-> <<>>, expect |-> expect]
InsertLineParam(axis, n, number, cells, expect) ==
    [TableEdit("insertLine", axis, n, number, expect) EXCEPT !.cells = cells]
DocsInsertRowParam(n, number, cells, expect) == InsertLineParam("row", n, number, cells, expect)
DocsInsertColumnParam(n, number, cells, expect) == InsertLineParam("column", n, number, cells, expect)
DocsDeleteRowParam(n, number, expect) == TableEdit("deleteLine", "row", n, number, expect)
DocsDeleteColumnParam(n, number, expect) == TableEdit("deleteLine", "column", n, number, expect)

-----------------------------------------------------------------------------
(* Paragraphs.                                                             *)

Numbered(o, n) == n \in DOMAIN o.paragraphs

\* Paragraph::check_expect and Paragraph::check_expect_blank
CheckExpect(o, n, expect) == expect # <<>> /\ IsPrefix(expect, o.paragraphs[n].text)

CheckExpectBlank(o, n, expect) ==
    \/ o.paragraphs[n].text = <<>> /\ expect = <<>>
    \/ o.paragraphs[n].text # <<>> /\ CheckExpect(o, n, expect)

\* A paragraph the caller numbered and, where it said so, knows.
Named(o, n, expect) == Numbered(o, n) /\ (expect # None => CheckExpect(o, n, expect))

-----------------------------------------------------------------------------
(* Cells and tables.                                                       *)

Grids(o) == {o.tables[t] : t \in DOMAIN o.tables}
Cells(grid) == UNION {{grid.rows[r][c] : c \in DOMAIN grid.rows[r]} : r \in DOMAIN grid.rows}
LastRow(grid) == grid.rows[Len(grid.rows)]
FirstParagraph(grid) == grid.rows[1][1].ordinal
LastParagraph(grid) == LastRow(grid)[Len(LastRow(grid))].last
Shape(grid, rows, columns) ==
    Len(grid.rows) = rows /\ \A r \in DOMAIN grid.rows : Len(grid.rows[r]) = columns

\* The cells of a row or a column, in document order.
Line(grid, axis, number) ==
    IF axis = "row"
    THEN IF number \in DOMAIN grid.rows THEN grid.rows[number] ELSE <<>>
    ELSE LET has == InOrder({r \in DOMAIN grid.rows : number \in DOMAIN grid.rows[r]})
         IN [k \in DOMAIN has |-> grid.rows[has[k]][number]]

\* The innermost cell and the innermost table a paragraph sits in, as a set of
\* at most one.
CellOf(o, n) ==
    LET holding == {c \in UNION {Cells(g) : g \in Grids(o)} : n \in c.ordinal .. c.last}
        span(c) == c.last - c.ordinal
    IN IF holding = {} THEN {}
       ELSE {CHOOSE c \in holding : \A x \in holding : span(c) <= span(x)}

TableOf(o, n) ==
    LET holding == {g \in Grids(o) : n \in FirstParagraph(g) .. LastParagraph(g)}
        span(g) == LastParagraph(g) - FirstParagraph(g)
    IN IF holding = {} THEN {}
       ELSE {CHOOSE g \in holding : \A x \in holding : span(g) <= span(x)}

LastDeletable(o) == Greatest({o.end - 1, 1})

\* Mutant of CheckDeletable: the last paragraph of a cell goes too.
CheckDeletableInCells(o, from, to, end) ==
    LET opens == CellOf(o, from)
        closes == CellOf(o, to)
    IN /\ {c.index : c \in opens} = {c.index : c \in closes}
       /\ opens = {} => end <= LastDeletable(o)
       /\ \A g \in Grids(o) : g.index # end
       /\ end \notin o.structural

\* What Docs would refuse to delete, refused before it is asked.
CheckDeletable(o, from, to, end) ==
    LET opens == CellOf(o, from)
        closes == CellOf(o, to)
    IN /\ {c.index : c \in opens} = {c.index : c \in closes}
       /\ \A c \in opens : end < c.end
       /\ opens = {} => end <= LastDeletable(o)
       /\ \A g \in Grids(o) : g.index # end
       /\ end \notin o.structural

CheckTableFits(o, n) ==
    /\ o.paragraphs[n].end < o.end
    /\ \A c \in CellOf(o, n) : c.last # n

-----------------------------------------------------------------------------
(* Text, styles, listings and pictures.                                    *)

\* Mutant of Insertion: after a paragraph means behind its break.
InsertionBehind(o, where, n, body) ==
    LET p == o.paragraphs[n]
        index == IF where = "before" THEN p.start ELSE p.end
    IN [at |-> index, text |-> body \o <<"nl">>, begins |-> index]

\* Where an insert goes, what is written there and where the caller's own text
\* begins.
Insertion(o, where, n, body) ==
    LET p == o.paragraphs[n]
        index == Greatest({p.end - 1, 1})
    IN IF where = "before"
       THEN [at |-> p.start, text |-> body \o <<"nl">>, begins |-> p.start]
       ELSE [at |-> index, text |-> <<"nl">> \o body, begins |-> index + 1]

StripNewline(text) == IF text # <<>> /\ Last(text) = "nl" THEN Front(text) ELSE text

TakesInsert(o, op) ==
    /\ op.where \in {"before", "after"}
    /\ Len(Lines(StripNewline(op.text))) <= MaxInsert
    /\ Named(o, op.n, op.expect)

PlanInsert(o, op) ==
    LET body == StripNewline(op.text)
        trailing == IF body = <<>> \/ Last(body) = "nl" THEN 1 ELSE 0
        i == Insertion(o, op.where, op.n, body)
    IN <<InsertText(i.at, i.text)>>
       \o (IF op.style = None THEN <<>>
           ELSE <<ParagraphStyle(i.begins, i.begins + ULen(body) + trailing, op.style)>>)

\* match_indices: where `find` occurs, left to right, none over another.
Matches(text, find) ==
    LET at(k) == k + Len(find) <= Len(text) /\ SubSeq(text, k + 1, k + Len(find)) = find
        found[k \in 0 .. Len(text)] ==
            IF k = Len(text) THEN <<>>
            ELSE IF at(k) THEN <<k>> \o found[k + Len(find)]
            ELSE found[k + 1]
    IN found[0]

\* Paragraph::index_at: the first run that reaches this far, so at the seam of
\* two runs it is the end of the earlier one.
IndexAt(d, p, k) ==
    LET text == {i \in p.start .. p.end - 1 : d[i].c # "picture"}
        char(i) == Len(Chars(SubSeq(d, p.start, i)))
    IN IF k = 0 THEN Least(text) ELSE 1 + Greatest({i \in text : d[i].c # "nl" /\ char(i) = k})

TakesEdit(o, op) ==
    /\ Numbered(o, op.n) /\ CheckExpect(o, op.n, op.expect)
    /\ op.find # <<>>
    /\ op.occurrence \in DOMAIN Matches(o.paragraphs[op.n].text, op.find)

Match(o, op) == Matches(o.paragraphs[op.n].text, op.find)[op.occurrence]

\* The new text goes in in front and the old comes out where that pushed it.
PlanEdit(d, o, op) ==
    LET p == o.paragraphs[op.n]
        start == IndexAt(d, p, Match(o, op))
        end == IndexAt(d, p, Match(o, op) + Len(op.find))
        shift == ULen(op.replace)
    IN (IF op.replace = <<>> THEN <<>> ELSE <<InsertText(start, op.replace)>>)
       \o <<Delete(start + shift, end + shift)>>

\* The body's last newline is Docs' own: the last paragraph is styled short of it.
StyleRange(o, n) ==
    LET p == o.paragraphs[n]
    IN [from |-> p.start,
        to |-> IF p.end >= o.end THEN Greatest({o.end - 1, p.start + 1}) ELSE p.end]

TakesStyle(o, op) == Numbered(o, op.n) /\ CheckExpect(o, op.n, op.expect)

PlanStyle(o, op) == <<ParagraphStyle(StyleRange(o, op.n).from, StyleRange(o, op.n).to, op.style)>>

\* Every span names characters of the code and no two name the same one.
SpansFit(code, spans) ==
    /\ \A k \in DOMAIN spans : spans[k].start < spans[k].end /\ spans[k].end <= Len(code)
    /\ LET sorted == SortSeq(spans, LAMBDA a, b : a.start < b.start)
       IN \A k \in 1 .. Len(spans) - 1 : sorted[k].end <= sorted[k + 1].start

\* The listing without the newlines it ends in.
Listing(code) ==
    SubSeq(code, 1, Greatest({0} \cup {k \in DOMAIN code : code[k] # "nl"}))

TakesCode(o, op) ==
    /\ Listing(op.code) # <<>>
    /\ Named(o, op.n, op.expect)
    /\ SpansFit(Listing(op.code), op.spans)

PlanCode(o, op) ==
    LET body == Listing(op.code)
        i == Insertion(o, "after", op.n, body)
    IN <<InsertText(i.at, i.text), TextStyle(i.begins, i.begins + ULen(body), "font")>>
       \o [k \in DOMAIN op.spans |->
              TextStyle(i.begins + FromChars(body, op.spans[k].start),
                        i.begins + FromChars(body, op.spans[k].end), "colour")]

PlanImage(o, op) ==
    LET i == Insertion(o, "after", op.n, <<>>)
    IN <<InsertText(i.at, i.text), InsertPicture(i.begins)>>

-----------------------------------------------------------------------------
(* Tables, rows, columns and deletions.                                    *)

\* A table is written in two batches; a grid is a sequence of rows of texts.
TakesTable(o, op) ==
    /\ Len(op.grid) \in 1 .. MaxRows
    /\ \A r \in DOMAIN op.grid : Len(op.grid[r]) = Len(op.grid[1])
    /\ Len(op.grid[1]) \in 1 .. MaxColumns
    /\ \A r \in DOMAIN op.grid : \A c \in DOMAIN op.grid[r] : ~Contains(op.grid[r][c], "nl")
    /\ Named(o, op.n, op.expect)
    /\ CheckTableFits(o, op.n)

Boundary(o, n) == o.paragraphs[n].end

MayTidy(o, n) == Boundary(o, n) > 1 /\ CheckDeletable(o, n, n, Boundary(o, n))

PlanTable(o, op) == <<InsertTable(Boundary(o, op.n), Len(op.grid), Len(op.grid[1]))>>

\* Which table of the document read back is the new one: 0 when none is.
NewTable(o, index, rows, columns) ==
    SelectInSeq(o.tables, LAMBDA g : /\ g.index >= index
                                     /\ Shape(g, rows, columns)
                                     /\ \A c \in Cells(g) : c.empty)

TidyBefore(o, n, index, table) ==
    /\ table = index + 1
    /\ Numbered(o, n) /\ o.paragraphs[n].end = index
    /\ CheckDeletable(o, n, n, index)

\* Mutant of FillCells: from the first cell to the last.
FillCellsForward(cells, texts) ==
    FlattenSeq([k \in 1 .. Least({Len(cells), Len(texts)}) |->
        IF texts[k] = <<>> THEN <<>> ELSE <<InsertText(cells[k].index, texts[k])>>])

\* From the last cell to the first, so that no insert moves one still to come.
FillCells(cells, texts) ==
    LET n == Least({Len(cells), Len(texts)})
        fill(k) == IF texts[k] = <<>> THEN <<>> ELSE <<InsertText(cells[k].index, texts[k])>>
    IN FlattenSeq([k \in 1 .. n |-> fill(n + 1 - k)])

\* A header cell is set bold right after its own text went in.
BoldAfter(fill) ==
    FlattenSeq([k \in DOMAIN fill |->
        <<fill[k], TextStyle(fill[k].at, fill[k].at + ULen(fill[k].text), "bold")>>])

FillRequests(table, grid, header) ==
    LET n == Len(grid)
        fill(r) == FillCells(table.rows[r], grid[r])
    IN FlattenSeq([k \in 1 .. n |->
           IF header /\ k = n THEN BoldAfter(fill(1)) ELSE fill(n + 1 - k)])

TakesLine(o, op) ==
    /\ Numbered(o, op.n) /\ CheckExpectBlank(o, op.n, op.expect)
    /\ \E g \in TableOf(o, op.n) :
          LET have == IF op.axis = "row" THEN Len(g.rows) ELSE Columns(g)
              across == IF op.axis = "row" THEN Columns(g) ELSE Len(g.rows)
          IN /\ op.number \in 1 .. have
             /\ op.kind = "deleteLine" => have > 1
             /\ op.kind = "insertLine" =>
                   /\ op.cells # <<>> => Len(op.cells) = across
                   /\ \A c \in DOMAIN op.cells : ~Contains(op.cells[c], "nl")

TheTable(o, n) == CHOOSE g \in TableOf(o, n) : TRUE

PlanInsertLine(o, op) == <<InsertLine(op.axis, TheTable(o, op.n).index, op.number)>>
PlanDeleteLine(o, op) == <<DeleteLine(op.axis, TheTable(o, op.n).index, op.number)>>

\* The shape the table is to have, and the cells of the line that went in.
Grown(grid, axis) ==
    IF axis = "row" THEN <<Len(grid.rows) + 1, Columns(grid)>> ELSE <<Len(grid.rows), Columns(grid) + 1>>

NewLineCells(o, index, shape, axis, number) ==
    LET t == SelectInSeq(o.tables, LAMBDA g : g.index = index /\ Shape(g, shape[1], shape[2]))
        cells == IF t = 0 THEN <<>> ELSE Line(o.tables[t], axis, number)
    IN IF \A k \in DOMAIN cells : cells[k].empty THEN cells ELSE <<>>

TakesDelete(o, op) ==
    LET to == IF op.to = None THEN op.n ELSE op.to
    IN /\ op.n <= to
       /\ Numbered(o, op.n) /\ Numbered(o, to)
       /\ CheckExpectBlank(o, op.n, op.expect)
       /\ op.last # None => CheckExpectBlank(o, to, op.last)
       /\ op.last = None => to = op.n
       /\ CheckDeletable(o, op.n, to, o.paragraphs[to].end)

PlanDelete(o, op) ==
    LET to == IF op.to = None THEN op.n ELSE op.to
    IN <<Delete(o.paragraphs[op.n].start, o.paragraphs[to].end)>>

TakesDeleteTable(o, op) ==
    Numbered(o, op.n) /\ CheckExpectBlank(o, op.n, op.expect) /\ TableOf(o, op.n) # {}

PlanDeleteTable(o, op) == <<Delete(TheTable(o, op.n).index, TheTable(o, op.n).end)>>

\* Document::append_index
AppendIndex(o) == Greatest({o.end - 1, 1})

-----------------------------------------------------------------------------
Takes(o, op) ==
    CASE op.kind = "insert" -> TakesInsert(o, op)
      [] op.kind = "edit" -> TakesEdit(o, op)
      [] op.kind = "style" -> TakesStyle(o, op)
      [] op.kind = "code" -> TakesCode(o, op)
      [] op.kind = "image" -> op.insertable /\ Named(o, op.n, op.expect)
      [] op.kind = "table" -> TakesTable(o, op)
      [] op.kind \in {"insertLine", "deleteLine"} -> TakesLine(o, op)
      [] op.kind = "delete" -> TakesDelete(o, op)
      [] op.kind = "deleteTable" -> TakesDeleteTable(o, op)
      [] op.kind = "append" -> op.text # <<>>
      [] op.kind = "replace" -> op.find # <<>>

Planned(d, o, op) ==
    CASE op.kind = "insert" -> PlanInsert(o, op)
      [] op.kind = "edit" -> PlanEdit(d, o, op)
      [] op.kind = "style" -> PlanStyle(o, op)
      [] op.kind = "code" -> PlanCode(o, op)
      [] op.kind = "image" -> PlanImage(o, op)
      [] op.kind = "table" -> PlanTable(o, op)
      [] op.kind = "insertLine" -> PlanInsertLine(o, op)
      [] op.kind = "deleteLine" -> PlanDeleteLine(o, op)
      [] op.kind = "delete" -> PlanDelete(o, op)
      [] op.kind = "deleteTable" -> PlanDeleteTable(o, op)
      [] op.kind = "append" -> <<InsertText(AppendIndex(o), op.text)>>
      [] op.kind = "replace" -> <<ReplaceText(op.find, op.replace)>>
=============================================================================
