------------------------------ MODULE Document ------------------------------
(***************************************************************************)
(* A Google Doc the way the Docs API counts it, and what src/google/docs.rs  *)
(* reads out of one.                                                       *)
(*                                                                          *)
(* The body is a sequence of units and the index of a unit is its place in   *)
(* the sequence.  A character takes one unit, a character outside the basic  *)
(* plane two ("W" then "w": a surrogate pair), an inline picture one.  "nl"   *)
(* ends a paragraph.  A table is "table", then for each row "row" and for    *)
(* each of its cells "cell" and the paragraphs of the cell, then "end".       *)
(* "break" is a section break or a table of contents.                       *)
(*                                                                          *)
(* `s` is what is set on a unit: on a character its text style, on "nl" the    *)
(* named style of its paragraph, on "table" who made the table.              *)
(***************************************************************************)
EXTENDS Integers, Sequences, FiniteSets, SequencesExt

Structure == {"table", "row", "cell", "end", "break"}

Unit(c, s) == [c |-> c, s |-> s]

Places(d, kinds) == {i \in 1 .. Len(d) : d[i].c \in kinds}

Least(S) == CHOOSE x \in S : \A y \in S : x <= y
Greatest(S) == CHOOSE x \in S : \A y \in S : x >= y
InOrder(S) == [k \in 1 .. Cardinality(S) |-> CHOOSE x \in S : Cardinality({y \in S : y < x}) = k - 1]

\* How many tables are open where unit i stands.
Depth(d, i) == Cardinality({j \in 1 .. i - 1 : d[j].c = "table"})
               - Cardinality({j \in 1 .. i - 1 : d[j].c = "end"})

\* The next unit of one of these kinds inside the same table as unit i.
NextAt(d, i, kinds) ==
    Least({j \in i + 1 .. Len(d) : d[j].c \in kinds /\ Depth(d, j) = Depth(d, i)})

TableEnd(d, i) == Least({j \in i + 1 .. Len(d) : d[j].c = "end" /\ Depth(d, j) = Depth(d, i) + 1})

Within(d, i, e, kind) ==
    {j \in Places(d, {kind}) : i < j /\ j < e /\ Depth(d, j) = Depth(d, i) + 1}

-----------------------------------------------------------------------------
(* Text.  A caller's text is a sequence of characters.                      *)

\* Every UTF-16 unit the text takes, none of it styled.
Units(text) == FlattenSeq([k \in 1 .. Len(text) |->
                   IF text[k] = "W" THEN <<Unit("W", {}), Unit("w", {})>>
                                    ELSE <<Unit(text[k], {})>>])

\* index::len
ULen(text) == Len(text) + Cardinality({k \in 1 .. Len(text) : text[k] = "W"})

\* index::from_chars, for an offset that the text has.
FromChars(text, chars) == ULen(SubSeq(text, 1, chars))

\* index::to_chars: an offset that falls inside a pair, or past the end, is none.
ToChars(text, units) ==
    LET at == {k \in 0 .. Len(text) : FromChars(text, k) = units}
    IN IF at = {} THEN -1 ELSE Least(at)

\* The characters among these units: no picture, and a pair is one character.
Chars(units) == FlattenSeq([k \in 1 .. Len(units) |->
                    IF units[k].c \in {"picture", "w"} THEN <<>> ELSE <<units[k].c>>])

\* Text cut into the lines a newline separates: one more than the newlines.
Lines(text) ==
    LET cuts == InOrder({0, Len(text) + 1} \cup {k \in 1 .. Len(text) : text[k] = "nl"})
    IN [n \in 1 .. Len(cuts) - 1 |-> SubSeq(text, cuts[n] + 1, cuts[n + 1] - 1)]

-----------------------------------------------------------------------------
(* What is read out of a document: numbered paragraphs, tables, breaks.     *)

ParagraphStart(d, i) == 1 + Greatest({0} \cup {j \in 1 .. i - 1 : d[j].c \in Structure \cup {"nl"}})

ParagraphAt(d, i) ==
    LET start == ParagraphStart(d, i)
    IN [start |-> start, end |-> i + 1, style |-> d[i].s,
        text |-> Chars(SubSeq(d, start, i - 1)),
        pictures |-> {k \in start .. i - 1 : d[k].c = "picture"}]

\* collect: a cell is named by the first of its paragraphs.
CellAt(d, i) ==
    LET e == NextAt(d, i, {"cell", "row", "end"})
        before == Cardinality({j \in 1 .. i : d[j].c = "nl"})
        held == {j \in i + 1 .. e - 1 : d[j].c = "nl"}
    IN [index |-> ParagraphStart(d, Least(held)), end |-> e,
        ordinal |-> before + 1, last |-> before + Cardinality(held),
        empty |-> \A j \in held : ParagraphAt(d, j).text = <<>>]

\* Where the cells of a table are, row by row.
CellPlaces(d, i) ==
    LET rows == InOrder(Within(d, i, TableEnd(d, i), "row"))
    IN [r \in 1 .. Len(rows) |->
           InOrder({c \in Within(d, i, TableEnd(d, i), "cell") :
                       rows[r] < c /\ c < NextAt(d, rows[r], {"row", "end"})})]

GridAt(d, i) ==
    LET at == CellPlaces(d, i)
    IN [index |-> i, end |-> TableEnd(d, i) + 1,
        rows |-> [r \in DOMAIN at |-> [c \in DOMAIN at[r] |-> CellAt(d, at[r][c])]]]

\* A table is noted once its cells have been walked, so an inner one comes first.
Outline(d) ==
    LET ends == InOrder(Places(d, {"nl"}))
        tables == InOrder({TableEnd(d, i) : i \in Places(d, {"table"})})
    IN [paragraphs |-> [n \in DOMAIN ends |-> ParagraphAt(d, ends[n])],
        tables |-> [t \in DOMAIN tables |->
                       GridAt(d, CHOOSE i \in Places(d, {"table"}) : TableEnd(d, i) = tables[t])],
        structural |-> Places(d, {"break"}),
        end |-> Len(d) + 1]

-----------------------------------------------------------------------------
(* What Docs does with one request of a batch, and what it refuses.         *)

InsertText(at, text) == [r |-> "insertText", at |-> at, text |-> text]
InsertPicture(at) == [r |-> "insertInlineImage", at |-> at]
InsertTable(at, rows, columns) == [r |-> "insertTable", at |-> at, rows |-> rows, columns |-> columns]
Delete(from, to) == [r |-> "deleteContentRange", from |-> from, to |-> to]
ParagraphStyle(from, to, s) == [r |-> "updateParagraphStyle", from |-> from, to |-> to, s |-> s]
TextStyle(from, to, s) == [r |-> "updateTextStyle", from |-> from, to |-> to, s |-> s]
InsertLine(axis, table, after) == [r |-> "insertTableLine", axis |-> axis, table |-> table, number |-> after]
DeleteLine(axis, table, number) == [r |-> "deleteTableLine", axis |-> axis, table |-> table, number |-> number]
ReplaceText(find, text) == [r |-> "replaceAllText", find |-> find, text |-> text]

Put(d, at, units) == SubSeq(d, 1, at - 1) \o units \o SubSeq(d, at, Len(d))
Cut(d, from, to) == SubSeq(d, 1, from - 1) \o SubSeq(d, to, Len(d))

\* A break inserted into a paragraph leaves both halves in its style.
Typed(d, at, text) ==
    LET close == d[Least({j \in at .. Len(d) : d[j].c = "nl"})]
    IN [k \in DOMAIN Units(text) |-> IF Units(text)[k].c = "nl" THEN close ELSE Units(text)[k]]

EmptyLine(columns) == FlattenSeq([c \in 1 .. columns |-> <<Unit("cell", {}), Unit("nl", {"NORMAL_TEXT"})>>])
EmptyTable(rows, columns, maker) ==
    <<Unit("table", {maker})>>
    \o FlattenSeq([r \in 1 .. rows |-> <<Unit("row", {})>> \o EmptyLine(columns)])
    \o <<Unit("end", {})>>

\* The units a row or a column takes, as ranges, the last one first.
LineRanges(d, axis, table, number) ==
    LET at == CellPlaces(d, table)
        row == InOrder(Within(d, table, TableEnd(d, table), "row"))[number]
    IN IF axis = "row"
       THEN <<<<row, NextAt(d, row, {"row", "end"})>>>>
       ELSE Reverse([r \in DOMAIN at |->
                <<at[r][number], NextAt(d, at[r][number], {"cell", "row", "end"})>>])

Columns(grid) == Len(grid.rows[1])

\* The table has the line; no range of it reaches into another or out of the body.
HasLine(d, axis, table, number) ==
    LET at == CellPlaces(d, table)
        ranges == LineRanges(d, axis, table, number)
    IN /\ table \in Places(d, {"table"})
       /\ IF axis = "row" THEN number \in DOMAIN at ELSE \A r \in DOMAIN at : number \in DOMAIN at[r]
       /\ \A k \in DOMAIN ranges :
             /\ ranges[k][2] \in 1 .. (IF k = 1 THEN Len(d) ELSE ranges[k - 1][1])
             /\ ranges[k][1] \in 1 .. ranges[k][2]

NewLine(d, axis, table) ==
    IF axis = "row" THEN <<Unit("row", {})>> \o EmptyLine(Columns(GridAt(d, table))) ELSE EmptyLine(1)

\* The units behind every range, and no range at all.
PutLine(d, ranges, units) ==
    LET after[k \in 0 .. Len(ranges)] ==
            IF k = 0 THEN d ELSE Put(after[k - 1], ranges[k][2], units)
    IN after[Len(ranges)]

CutLine(d, ranges) ==
    LET after[k \in 0 .. Len(ranges)] ==
            IF k = 0 THEN d ELSE Cut(after[k - 1], ranges[k][1], ranges[k][2])
    IN after[Len(ranges)]

Restyled(d, from, to, s, paragraphs) ==
    [i \in 1 .. Len(d) |->
        IF paragraphs
        THEN IF d[i].c = "nl" /\ ParagraphStart(d, i) < to /\ i >= from THEN Unit("nl", {s}) ELSE d[i]
        ELSE IF i \in from .. to - 1 /\ d[i].c \notin Structure \cup {"nl", "picture"}
             THEN Unit(d[i].c, d[i].s \cup {s}) ELSE d[i]]

\* Every occurrence, from the first to the last; a picture ends a match, and so
\* does the end of a paragraph.
ReplacedAll(d, find, text) ==
    LET units == Units(find)
        here(i) == i + Len(units) <= Len(d) + 1
                   /\ \A k \in DOMAIN units : d[i + k - 1].c = units[k].c /\ d[i + k - 1].c # "nl"
        replaced[i \in 1 .. Len(d) + 1] ==
            IF i > Len(d) THEN <<>>
            ELSE IF here(i) THEN Units(text) \o replaced[i + Len(units)]
            ELSE <<d[i]>> \o replaced[i + 1]
    IN replaced[1]

Served(d, q) ==
    CASE q.r = "insertText" -> Put(d, q.at, Typed(d, q.at, q.text))
      [] q.r = "insertInlineImage" -> Put(d, q.at, <<Unit("picture", {})>>)
      [] q.r = "insertTable" ->
            Put(d, q.at, Typed(d, q.at, <<"nl">>) \o EmptyTable(q.rows, q.columns, "ours"))
      [] q.r = "deleteContentRange" -> Cut(d, q.from, q.to)
      [] q.r = "updateParagraphStyle" -> Restyled(d, q.from, q.to, q.s, TRUE)
      [] q.r = "updateTextStyle" -> Restyled(d, q.from, q.to, q.s, FALSE)
      [] q.r = "insertTableLine" ->
            PutLine(d, LineRanges(d, q.axis, q.table, q.number), NewLine(d, q.axis, q.table))
      [] q.r = "deleteTableLine" -> CutLine(d, LineRanges(d, q.axis, q.table, q.number))
      [] q.r = "replaceAllText" -> ReplacedAll(d, q.find, q.text)

InParagraph(d, at) == at \in 1 .. Len(d) /\ d[at].c \notin Structure

\* Tables go whole; a body, a cell and a break or a table keep the newline
\* in front of their end.
Deletable(d, from, to) ==
    /\ from \in 1 .. Len(d) - 1 /\ to \in from + 1 .. Len(d)
    /\ \A i \in from .. to - 1 :
          /\ d[i].c = "table" => TableEnd(d, i) < to
          /\ d[i].c \in {"row", "cell", "end"} =>
                \E t \in from .. i - 1 : d[t].c = "table" /\ i <= TableEnd(d, t)
    /\ d[to - 1].c = "nl" => d[to].c \notin Structure

Accepts(d, q) ==
    CASE q.r = "insertText" -> q.text # <<>> /\ InParagraph(d, q.at)
      [] q.r \in {"insertInlineImage", "insertTable"} -> InParagraph(d, q.at)
      [] q.r = "deleteContentRange" -> Deletable(d, q.from, q.to)
      [] q.r \in {"updateParagraphStyle", "updateTextStyle"} ->
            1 <= q.from /\ q.from < q.to /\ q.to <= Len(d) + 1
      [] q.r = "replaceAllText" -> TRUE
      [] OTHER -> HasLine(d, q.axis, q.table, q.number)

\* A batch goes through whole, in order, or not at all.
Refused == <<>>

Batch(d, requests) ==
    LET after[k \in 0 .. Len(requests)] ==
            IF k = 0 THEN d
            ELSE LET x == after[k - 1]
                 IN IF x = Refused \/ ~Accepts(x, requests[k]) THEN Refused ELSE Served(x, requests[k])
    IN after[Len(requests)]
=============================================================================
