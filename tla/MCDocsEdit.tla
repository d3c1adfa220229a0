----------------------------- MODULE MCDocsEdit -----------------------------
(* Small documents in which every index can go wrong, and the writes a       *)
(* caller may ask of them.                                                 *)
EXTENDS DocsEdit

Nl == <<Unit("nl", {"NORMAL_TEXT"})>>
Title == <<Unit("nl", {"TITLE"})>>
Picture == <<Unit("picture", {})>>
Break == <<Unit("break", {})>>
A == Units(<<"a">>)
B == Units(<<"b">>)
W == Units(<<"W">>)

Cell(content) == <<Unit("cell", {})>> \o content
Row(cells) == <<Unit("row", {})>> \o cells
Table(rows) == <<Unit("table", {"theirs"})>> \o rows \o <<Unit("end", {})>>

\* Pairs and a blank paragraph; a picture between two runs and a break; a table
\* of one cell, empty, further on; a table of two rows with a table inside.
Plaintext == W \o A \o Title \o Nl \o B \o A \o W \o B \o Nl
Pictured == A \o Picture \o B \o Nl \o Nl \o Break \o Picture \o Nl
Tabled == A \o Nl \o B \o Nl \o Table(Row(Cell(Nl))) \o Nl
Nested == A \o Nl \o Table(Row(Cell(B \o Nl \o Table(Row(Cell(A \o Nl))) \o Nl) \o Cell(Nl))
                           \o Row(Cell(Nl) \o Cell(W \o Nl))) \o A \o Nl

MCDocuments == {Plaintext, Pictured, Tabled, Nested}

Expects == {<<>>, <<"a">>, <<"b">>}
Numbers == 1 .. 8

Grids1 == {<<<<<<"x">>>>>>, <<<<<<"x">>, <<"W">>>>, <<<<>>, <<"a">>>>>>}
Spans == {<<>>, <<DocsSpanParam(2, 4), DocsSpanParam(0, 2)>>, <<DocsSpanParam(0, 2), DocsSpanParam(1, 3)>>,
          <<DocsSpanParam(3, 5)>>}
NewCells == {<<>>, <<<<"x">>>>, <<<<"W">>, <<"x">>>>}

MCOps ==
    {DocsInsertParam(w, n, t, s, None) :
        w \in {"before", "after", "neither"}, n \in Numbers, s \in {None, "HEADING_1"},
        t \in {<<>>, <<"x", "nl">>, <<"W", "nl", "nl">>, <<"nl", "x", "nl", "x", "nl">>}}
    \cup {DocsEditParam(n, f, k, r, e) :
            n \in Numbers, f \in {<<"b">>, <<"W">>, <<"a">>}, k \in 1 .. 2, r \in {<<>>, <<"W">>},
            e \in {<<"a">>, <<"b">>, <<"W">>}}
    \cup {DocsStyleParam(n, "HEADING_1", e) : n \in Numbers, e \in Expects}
    \cup {DocsCodeParam(n, <<"x", "W", "nl", "x", "nl">>, s, None) : n \in Numbers, s \in Spans}
    \cup {DocsInsertImageParam(n, i, e) : n \in Numbers, i \in BOOLEAN, e \in {None, <<"a">>}}
    \cup {DocsTableParam(n, g, h, None) : n \in Numbers, g \in Grids1, h \in BOOLEAN}
    \cup {DocsInsertRowParam(n, k, c, e) : n \in Numbers, k \in 1 .. 2, c \in NewCells, e \in Expects}
    \cup {DocsInsertColumnParam(n, k, c, e) : n \in Numbers, k \in 1 .. 2, c \in NewCells, e \in Expects}
    \cup {DocsDeleteRowParam(n, k, e) : n \in Numbers, k \in 1 .. 2, e \in Expects}
    \cup {DocsDeleteColumnParam(n, k, e) : n \in Numbers, k \in 1 .. 2, e \in Expects}
    \cup {DocsDeleteParam(n, to, e, last) :
            n \in Numbers, to \in {None} \cup Numbers, e \in Expects, last \in {None} \cup Expects}
    \cup {DocsDeleteTableParam(n, e) : n \in Numbers, e \in Expects \cup {<<"W">>}}
    \cup {DocsAppendParam(t) : t \in {<<>>, <<"x", "nl", "W">>}}
    \cup {DocsReplaceParam(f, r) : f \in {<<>>, <<"b">>, <<"W", "b">>, <<"a", "b">>}, r \in {<<>>, <<"W">>}}
=============================================================================
