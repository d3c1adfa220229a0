-------------------------------- MODULE Sheets --------------------------------
(***************************************************************************)
(* The writes of src/mcp/sheets.rs and the batches of src/google/sheets.rs.    *)
(* A structural tool looks its tab up by title and changes it by id; rows are *)
(* numbered from 1 where a caller names them and from 0 where Google takes    *)
(* them, as unsigned numbers of a fixed width.  A new spreadsheet is a file   *)
(* put into Drive, and tabs added to it one by one.                          *)
(***************************************************************************)
EXTENDS DriveWrites

CONSTANTS
    InBooks,      \* what each spreadsheet holds to begin with, by the file's id
    Lower,        \* a title in lower case
    MaxRows,      \* MAX_ROWS_PER_CALL
    PreviewRowsMax,   \* PREVIEW_ROWS
    PreviewFormulas,  \* PREVIEW_FORMULAS
    Word          \* how many numbers a u32 holds

VARIABLES
    books,     \* the spreadsheets: tabs in order
    target,    \* the tab a call has found
    missing,   \* the tabs of its new spreadsheet a call could not add
    shown      \* what its caller was shown of a spreadsheet, and what was left to a count

sheetVars == <<books, target, missing, shown>>

Tab(id, title, rows) == [id |-> id, title |-> title, rows |-> rows]
Row(cells, look) == [cells |-> cells, look |-> look]

\* book: as it was read.  rows: those shown of what a delete takes.  cells: those
\* named of the formulas a write replaces.  more: how many are counted besides.
NotShown == [book |-> None, cells |-> {}, rows |-> <<>>, more |-> 0]

SheetsInit ==
    /\ books = InBooks
    /\ target = [c \in Calls |-> 0]
    /\ missing = [c \in Calls |-> {}]
    /\ shown = [c \in Calls |-> NotShown]

\* What a call may ask for.
AppendRowsParam(book, tab, rows) == [tool |-> "appendRows", book |-> book, tab |-> tab, rows |-> rows]
UpdateRangeParam(book, tab, top, left, height, width, rows) ==
    [tool |-> "updateRange", book |-> book, tab |-> tab, top |-> top, left |-> left, height |-> height,
     width |-> width, rows |-> rows]
InsertRowsParam(book, tab, at, count) ==
    [tool |-> "insertRows", book |-> book, tab |-> tab, at |-> at, count |-> count]
DeleteRowsParam(book, tab, from, count) ==
    [tool |-> "deleteRows", book |-> book, tab |-> tab, at |-> from, count |-> count]
CopyFormatParam(book, tab, from, to, count) ==
    [tool |-> "copyFormat", book |-> book, tab |-> tab, at |-> to, count |-> count, from |-> from]
AddTabParam(book, title) == [tool |-> "addTab", book |-> book, title |-> title]
SheetsCreateParam(title, tabs, rows, folder) ==
    [tool |-> "newBook", title |-> title, tabs |-> tabs, rows |-> rows, folder |-> folder]

-----------------------------------------------------------------------------
(* The spreadsheet Google keeps.                                            *)

Columns == 2
Rows == [cells : [1 .. Columns -> STRING], look : STRING]
Tabs == [id : Nat \ {0}, title : STRING, rows : Seq(Rows)]
EmptyCells == [k \in 1 .. Columns |-> ""]
IsFormula(cell) == cell = "=sum"

Titled(tabs, title) == {k \in DOMAIN tabs : Lower[tabs[k].title] = Lower[title]}
WithId(tabs, id) == {k \in DOMAIN tabs : tabs[k].id = id}

\* Sheets has no two tabs of one title, in any case.
Distinct(tabs) == \A j, k \in DOMAIN tabs : Lower[tabs[j].title] = Lower[tabs[k].title] => j = k

\* Rows of cells over those from a row and a column on.
Overwritten(rows, top, left, cells) ==
    [r \in DOMAIN rows |->
        IF r - top \in 0 .. Len(cells) - 1
        THEN LET new == cells[r - top + 1]
             IN [rows[r] EXCEPT !.cells = [k \in DOMAIN @ |->
                    IF k - left \in 0 .. Len(new) - 1 THEN new[k - left + 1] ELSE @[k]]]
        ELSE rows[r]]

\* A cell as a reader sees it: not the formula, but what that comes to.
Displayed(cells) == [k \in DOMAIN cells |-> IF IsFormula(cells[k]) THEN "0" ELSE cells[k]]

\* Rows after the last used one, in a table's own columns.
Used(rows) == {r \in DOMAIN rows : rows[r].cells # EmptyCells}
LastUsed(rows) == IF Used(rows) = {} THEN 0 ELSE CHOOSE r \in Used(rows) : \A q \in Used(rows) : q <= r
Filled(cells) == [k \in 1 .. Columns |-> IF k \in DOMAIN cells THEN cells[k] ELSE ""]
Appended(rows, new) ==
    SubSeq(rows, 1, LastUsed(rows))
    \o [k \in DOMAIN new |-> Row(Filled(new[k]), "plain")]
    \o SubSeq(rows, LastUsed(rows) + 1, Len(rows))

\* The rows of a batch, from 0, the start in it and the end not.
InGrid(r, length) == r.start < r.end /\ r.start <= length

Dimensioned(rows, request) ==
    LET r == request.range
        before == SubSeq(rows, 1, r.start)
        look == IF request.inherit THEN rows[r.start].look ELSE "plain"
    IN CASE request.kind = "insert" ->
              before \o [k \in 1 .. r.end - r.start |-> Row(EmptyCells, look)] \o SubSeq(rows, r.start + 1, Len(rows))
         [] request.kind = "delete" -> before \o SubSeq(rows, r.end + 1, Len(rows))
         [] request.kind = "paste" ->
              [k \in DOMAIN rows |->
                  IF k - 1 \in r.start .. r.end - 1
                  THEN [rows[k] EXCEPT !.look = rows[request.source.start + 1].look] ELSE rows[k]]

Carried(rows, request) ==
    /\ InGrid(request.range, Len(rows))
    /\ request.kind # "insert" => request.range.end <= Len(rows)
    /\ request.kind = "paste" => request.source.start < Len(rows)

-----------------------------------------------------------------------------
(* Rows as a batch names them.                                              *)

\* Arithmetic of a release build.
Wrap(n) == n % Word

\* Mutant of RowRange: rows are counted from 1 on both sides.
RowRangeFromOne(at, count) == [start |-> Wrap(at), end |-> Wrap(at + count)]

\* `saturating_sub`, and an end that may wrap.
RowRange(at, count) ==
    LET start == IF at = 0 THEN 0 ELSE at - 1
    IN [start |-> start, end |-> Wrap(start + count)]

InsertRows(o) ==
    [kind |-> "insert", range |-> RowRange(o.at, o.count), inherit |-> o.at > 1]
DeleteRows(o) ==
    [kind |-> "delete", range |-> RowRange(o.at, o.count), inherit |-> FALSE]
CopyRowFormat(o) ==
    [kind |-> "paste", range |-> RowRange(o.at, o.count), inherit |-> FALSE, source |-> RowRange(o.from, 1)]

Request(o) ==
    CASE o.tool = "insertRows" -> InsertRows(o)
      [] o.tool = "deleteRows" -> DeleteRows(o)
      [] o.tool = "copyFormat" -> CopyRowFormat(o)

-----------------------------------------------------------------------------
(* The handlers.                                                           *)

Deny(c) == Refuse(c) /\ UNCHANGED sheetVars
Break(c) == Fail(c) /\ UNCHANGED sheetVars
Proceed(c, to) == Goto(c, to) /\ Unspent /\ UNCHANGED driveVars

\* Google changed the spreadsheet; the reply may be lost.
ChangeBook(c, new) ==
    /\ books' = [books EXCEPT ![op[c].book] = new]
    /\ \E to \in {"done", "failed"} : Proceed(c, to)
    /\ UNCHANGED <<target, missing, shown>>

Show(c, what) ==
    /\ Proceed(c, "called")
    /\ shown' = [shown EXCEPT ![c] = what]
    /\ UNCHANGED <<books, target, missing>>

RowNumber(n) == n # 0
RowCount(n) == n \in 1 .. MaxRows

SheetsAppendRows(c) ==
    LET o == op[c]
        tabs == books[o.book]
    IN /\ Under(c, "appendRows", "called")
       /\ IF o.rows = <<>> THEN Deny(c)
          ELSE \/ Break(c)
               \/ \E k \in Titled(tabs, o.tab) :
                     ChangeBook(c, [tabs EXCEPT ![k].rows = Appended(@, o.rows)])

\* A cell is under one of the values a call writes.
WrittenOver(o, r, k) == r - o.top \in 0 .. Len(o.rows) - 1 /\ k - o.left \in 0 .. Len(o.rows[r - o.top + 1]) - 1
InRange(o, r, k) == r \in o.top .. o.top + o.height - 1 /\ k \in o.left .. o.left + o.width - 1

\* The formulas a write covers, of the cells that were read: those of the range.
FormulasOverwritten(rows, o) ==
    {cell \in (DOMAIN rows) \X (1 .. Columns) :
        /\ InRange(o, cell[1], cell[2]) /\ WrittenOver(o, cell[1], cell[2])
        /\ IsFormula(rows[cell[1]].cells[cell[2]])}

\* formula_warning names the first of them, row by row, and counts the others.
Before(a, b) == a[1] < b[1] \/ (a[1] = b[1] /\ a[2] < b[2])
FirstFormulas(found) ==
    {named \in SUBSET found :
        /\ Cardinality(named) = IF Cardinality(found) <= PreviewFormulas THEN Cardinality(found) ELSE PreviewFormulas
        /\ \A a \in named : \A b \in found \ named : Before(a, b)}

\* Mutant of FormulasShown: those that are not named are not counted.
FormulasUncounted(tabs, found, named) == [NotShown EXCEPT !.book = tabs, !.cells = named]

FormulasShown(tabs, found, named) ==
    [NotShown EXCEPT !.book = tabs, !.cells = named, !.more = Cardinality(found \ named)]

\* confirmed=false reads the range as formulas and says which it would replace.  What
\* becomes of values past the end of the range is Google's: it may write them.
SheetsUpdateRange(c) ==
    LET o == op[c]
        tabs == books[o.book]
    IN /\ Under(c, "updateRange", "called")
       /\ IF o.rows = <<>> THEN Deny(c)
          ELSE \/ Break(c)
               \/ \E k \in Titled(tabs, o.tab) :
                     \/ LET found == FormulasOverwritten(tabs[k].rows, o)
                        IN \E named \in FirstFormulas(found) : Show(c, FormulasShown(tabs, found, named))
                     \/ ChangeBook(c, [tabs EXCEPT ![k].rows = Overwritten(@, o.top, o.left, o.rows)])

Structural == {"insertRows", "deleteRows", "copyFormat"}

SheetsStructural(c) ==
    LET o == op[c]
    IN IF RowCount(o.count) /\ RowNumber(o.at) /\ (o.tool = "copyFormat" => RowNumber(o.from))
       THEN Proceed(c, "tab") /\ UNCHANGED sheetVars
       ELSE Deny(c)

SheetsInsertRows(c) == Under(c, "insertRows", "called") /\ SheetsStructural(c)
SheetsDeleteRows(c) == Under(c, "deleteRows", "called") /\ SheetsStructural(c)
SheetsCopyFormat(c) == Under(c, "copyFormat", "called") /\ SheetsStructural(c)

\* Gmcp::tab: the first tab of that title, in any case, by its id.
FindTab(c) ==
    LET tabs == books[op[c].book]
        found == Titled(tabs, op[c].tab)
    IN /\ pc[c] = "tab"
       /\ \/ Break(c)
          \/ found = {} /\ Deny(c)
          \/ \E k \in found :
                /\ \A j \in found : k <= j
                /\ target' = [target EXCEPT ![c] = tabs[k].id]
                /\ Proceed(c, "change")
                /\ UNCHANGED <<books, missing, shown>>

\* The rows a delete would take, as values.get has them: displayed, and without
\* the empty ones at the end.
Doomed(rows, o) ==
    LET last == o.at + o.count - 1
        asked == SubSeq(rows, o.at, IF last < Len(rows) THEN last ELSE Len(rows))
    IN [r \in 1 .. LastUsed(asked) |-> Displayed(asked[r].cells)]

\* preview_rows: the first of them, and how many more there are.
RowsShown(tabs, doomed) ==
    LET printed == IF Len(doomed) < PreviewRowsMax THEN Len(doomed) ELSE PreviewRowsMax
    IN [NotShown EXCEPT !.book = tabs, !.rows = SubSeq(doomed, 1, printed), !.more = Len(doomed) - printed]

\* Mutant of PreviewRows: the rows are those of the tab that was found, whatever its title is now.
PreviewRowsById(c) ==
    LET o == op[c]
        tabs == books[o.book]
    IN /\ pc[c] = "change"
       /\ IF o.tool = "deleteRows"
          THEN \/ Break(c)
               \/ \E k \in WithId(tabs, target[c]) : Show(c, RowsShown(tabs, Doomed(tabs[k].rows, o)))
          ELSE Show(c, shown[c])

\* confirmed=false: a delete reads the rows it would take, by the title the tab
\* was found by.
PreviewRows(c) ==
    LET o == op[c]
        tabs == books[o.book]
    IN /\ pc[c] = "change"
       /\ IF o.tool = "deleteRows"
          THEN \/ Break(c)
               \/ \E k \in Titled(tabs, o.tab) : Show(c, RowsShown(tabs, Doomed(tabs[k].rows, o)))
          ELSE Show(c, shown[c])

\* One request in the batch, on the tab of that id wherever it is now.
Change(c) ==
    LET tabs == books[op[c].book]
        request == Request(op[c])
    IN /\ pc[c] = "change"
       /\ \/ Break(c)
          \/ \E k \in WithId(tabs, target[c]) :
                /\ Carried(tabs[k].rows, request)
                /\ ChangeBook(c, [tabs EXCEPT ![k].rows = Dimensioned(@, request)])

\* One tab, at the end; two of one title are not to be.
TabAdded(tabs, title) == Append(tabs, Tab(Len(tabs) + 1, title, <<Row(EmptyCells, "plain")>>))
Addable(tabs, title) == Titled(tabs, title) = {}

SheetsAddTab(c) ==
    LET o == op[c]
        tabs == books[o.book]
    IN /\ Under(c, "addTab", "called")
       /\ IF o.title = "" THEN Deny(c)
          ELSE \/ Break(c)
               \/ tabs # <<>> /\ Addable(tabs, o.title) /\ ChangeBook(c, TabAdded(tabs, o.title))

\* Names in their order, the blank ones left out.
NonBlank(names) ==
    LET first[n \in 0 .. Len(names)] ==
            IF n = 0 THEN <<>>
            ELSE IF names[n] = "" THEN first[n - 1] ELSE Append(first[n - 1], names[n])
    IN first[Len(names)]

\* The spreadsheet is a file made of the rows; its tabs come after.
SheetsCreate(c) ==
    LET o == op[c]
        place == IF o.folder = None THEN Root ELSE o.folder
        tabs == NonBlank(o.tabs)
        first == Tab(1, "Sheet1", [k \in DOMAIN o.rows |-> Row(Filled(o.rows[k]), "plain")])
    IN /\ Under(c, "newBook", "called")
       /\ UNCHANGED <<target, missing, shown>>
       /\ \/ o.title = "" /\ Refuse(c) /\ UNCHANGED books
          \/ o.title # "" /\ Fail(c) /\ UNCHANGED books
          \/ /\ o.title # "" /\ Open(place)
             /\ \E i \in Ids :
                   /\ Put(c, i, Item("sheet", o.title, place, TRUE, c), "adding",
                          [NoJob EXCEPT !.place = i, !.missing = tabs])
                   /\ books' = [books EXCEPT ![i] = <<first>>]

\* Mutant of AddNextTab: a tab that could not be added ends the call.
AddNextTabOrStop(c) ==
    LET title == Head(job[c].missing)
        i == job[c].place
    IN /\ pc[c] = "adding" /\ job[c].missing # <<>>
       /\ \/ /\ Addable(books[i], title)
             /\ books' = [books EXCEPT ![i] = TabAdded(@, title)]
             /\ Read(c, "adding", [job[c] EXCEPT !.missing = Tail(@)])
             /\ UNCHANGED <<target, missing, shown>>
          \/ Break(c)

\* A tab that was not added is told and does not end the call, and so is one
\* whose reply was lost.
AddNextTab(c) ==
    LET title == Head(job[c].missing)
        i == job[c].place
    IN /\ pc[c] = "adding" /\ job[c].missing # <<>>
       /\ Read(c, "adding", [job[c] EXCEPT !.missing = Tail(@)])
       /\ \/ /\ Addable(books[i], title)
             /\ books' = [books EXCEPT ![i] = TabAdded(@, title)]
             /\ \E untold \in {{}, {title}} : missing' = [missing EXCEPT ![c] = @ \cup untold]
          \/ missing' = [missing EXCEPT ![c] = @ \cup {title}] /\ UNCHANGED books
       /\ UNCHANGED <<target, shown>>

Created(c) ==
    /\ pc[c] = "adding" /\ job[c].missing = <<>>
    /\ Proceed(c, "done") /\ UNCHANGED sheetVars

SheetCall(c) ==
    \/ SheetsAppendRows(c) \/ SheetsUpdateRange(c)
    \/ SheetsInsertRows(c) \/ SheetsDeleteRows(c) \/ SheetsCopyFormat(c)
    \/ FindTab(c) \/ PreviewRows(c) \/ Change(c)
    \/ SheetsAddTab(c) \/ SheetsCreate(c) \/ AddNextTab(c) \/ Created(c)

-----------------------------------------------------------------------------
(* People in the spreadsheet.                                               *)

PersonTypes(i, k) ==
    \E r \in DOMAIN books[i][k].rows :
        books' = [books EXCEPT ![i][k].rows[r].cells[1] = "=sum"]

PersonInsertsRow(i, k) ==
    books' = [books EXCEPT ![i][k].rows = <<Row(EmptyCells, "plain")>> \o @]

\* A title no tab has, or the titles of two tabs for each other.
PersonRetitles(i, k) ==
    \/ Titled(books[i], "New") = {} /\ books' = [books EXCEPT ![i][k].title = "New"]
    \/ \E j \in DOMAIN books[i] \ {k} :
          books' = [books EXCEPT ![i][k].title = books[i][j].title, ![i][j].title = books[i][k].title]

PersonMovesTab(i, k) ==
    /\ k < Len(books[i])
    /\ books' = [books EXCEPT ![i][k] = books[i][k + 1], ![i][k + 1] = books[i][k]]

PersonInSheet ==
    \E i \in Ids : books[i] # <<>> /\ InBooks[i] # <<>> /\ \E k \in DOMAIN books[i] :
        PersonTypes(i, k) \/ PersonInsertsRow(i, k) \/ PersonRetitles(i, k) \/ PersonMovesTab(i, k)
=============================================================================
