------------------------------- MODULE MCTools -------------------------------
(* Tools with the constants TLC checks it for.                              *)
EXTENDS Tools

\* A folder this server made with a file in it, and one a person made.
Folder(name, parent, ours) == Item("folder", name, parent, ours, None)
MCInDrive ==
    [i \in Ids |-> CASE i = 1 -> Folder("a", Root, TRUE)
                     [] i = 2 -> Item("pdf", "report", 1, TRUE, None)
                     [] i = 3 -> Folder("b", Root, FALSE)
                     [] i = 4 -> Item("sheet", "sums", Root, FALSE, None)
                     [] i = 5 -> Item("pdf", "theirs", Root, FALSE, None)
                     [] OTHER -> None]
MCVersions == [i \in Ids |-> IF i = 2 THEN <<Version(None), Version(None)>> ELSE History(MCInDrive[i])]
MCTypeOf == [u \in Uploads |-> "pdf"]

\* A reply the person has begun, with a file of its own; one that another mail
\* program wrote, in HTML, around a picture; and one with pictures in its body.
Begun == [Blank EXCEPT !.by = "person", !.text = <<"hello", "">>, !.html = <<"hello">>, !.from = "me", !.to = {"ann"},
                       !.files = {"old"}, !.thread = 7]
Elsewhere == [Begun EXCEPT !.from = None, !.to = {}, !.text = <<>>, !.html = <<"above", "below">>, !.media = {"picture"},
                           !.more = {"Reply-To"}, !.thread = 8]
MCMailbox == [d \in DraftIds |-> CASE d = 1 -> Begun
                                   [] d = 2 -> Elsewhere
                                   [] d = 3 -> [Begun EXCEPT !.inline = TRUE, !.thread = 9]
                                   [] OTHER -> None]
MCLabelsOf == [m \in {"m1", "m2"} |-> {"INBOX"}]
MCSizeOf == [f \in Uploads \cup {"old", "theirs"} |-> 1]

Alias(address, default, primary, verified) ==
    [address |-> address, default |-> default, primary |-> primary, verified |-> verified]
MCAliases == <<Alias("me", TRUE, TRUE, FALSE), Alias("work", FALSE, FALSE, TRUE), Alias("old", FALSE, FALSE, FALSE)>>

Message(from, to, cc, sent) ==
    [from |-> from, to |-> to, cc |-> cc, delivered |-> <<>>, sent |-> sent, thread |-> 9]

DriveOps ==
    {DriveUploadParam("u1", None, path) : path \in {<<"a", "b">>, <<"c", "b">>}}
    \cup {DriveUploadParam("u2", 3, <<>>), DriveUploadParam("u2", 1, <<"b">>), DriveCreateFolderParam("b", 1)}
    \cup {DriveUpdateFileParam(u, 2) : u \in Uploads}
MailOps ==
    {CreateDraftParam("old", {"ann"}, {"u1"}), CreateDraftParam("work", {"not an address"}, {"u1"}),
     ReplyDraftParam(Message("ann", <<"me", "bob">>, <<"work">>, FALSE), None, TRUE, {"u1"}),
     ReplyDraftParam(Message("me", <<"bob">>, <<"ann">>, TRUE), "work", FALSE, {"u1"}),
     UpdateDraftParam(1, None, {"bob"}, {"u1"}),
     AttachToDraftParam(1, {"u1", "u2"}),
     AttachToDraftParam(2, {"u2"}),
     DeleteDraftParam(1),
     ModifyLabelsParam(<<"m1", "m2">>, {"work"}, {}, TRUE, None, TRUE),
     ModifyLabelsParam(<<"m1">>, {"TRASH"}, {}, FALSE, FALSE, None)}

\* A spreadsheet of two tabs, its formula in the second row.
Cells(a, b) == <<a, b>>
MCBook == <<Tab(1, "Data", <<Row(Cells("x", ""), "bold"), Row(Cells("=sum", "y"), "plain"), Row(Cells("", ""), "plain")>>),
            Tab(2, "Old", <<Row(Cells("z", ""), "plain")>>)>>
MCInBooks == [i \in Ids |-> IF i = 4 THEN MCBook ELSE <<>>]
MCLower == [t \in {"Data", "data", "Old", "New", "Sheet1", "Extra", "old", "Nowhere", "sheet1", ""} |->
               CASE t = "Data" -> "data" [] t = "Old" -> "old" [] t = "Sheet1" -> "sheet1" [] t = "Extra" -> "extra"
                 [] OTHER -> t]
SheetOps ==
    {AppendRowsParam(4, "data", <<<<"n">>, <<"n", "m">>>>), AppendRowsParam(4, "Nowhere", <<<<"n">>>>),
     UpdateRangeParam(4, "Data", 1, 2, 2, 1, <<<<"n">>>>), UpdateRangeParam(4, "Data", 1, 1, 2, 2, <<<<"n", "m">>, <<"n">>>>),
     UpdateRangeParam(4, "Data", 1, 1, 1, 1, <<<<"n">>, <<"m">>>>),
     InsertRowsParam(4, "Data", 2, 2), InsertRowsParam(4, "old", 1, 1), InsertRowsParam(4, "Data", 0, 1),
     DeleteRowsParam(4, "data", 2, 1), DeleteRowsParam(4, "Data", 1, 2), DeleteRowsParam(4, "Data", 7, 2),
     CopyFormatParam(4, "Data", 1, 2, 2), CopyFormatParam(4, "Data", 1, 3, 4),
     AddTabParam(4, "Extra"), AddTabParam(4, "old"),
     SheetsCreateParam("budget", <<"Extra", "", "sheet1">>, <<<<"n">>>>, None),
     SheetsCreateParam("budget", <<"Extra">>, <<>>, 1), DocsCreateParam("notes", 1)}
\* Two of those, one of which moves rows.
Movers == {InsertRowsParam(4, "old", 1, 1), DeleteRowsParam(4, "data", 2, 1)}

\* Of a time, of a whole day, and with a guest.
Time(at) == [date |-> FALSE, at |-> at]
Date(at) == [date |-> TRUE, at |-> at]
MCInCalendar ==
    [i \in EventIds |-> CASE i = 1 -> Event("talk", When("time", 1), When("time", 2), None, {})
                          [] i = 2 -> Event("trip", When("day", 3), When("day", 4), None, {})
                          [] i = 3 -> Event("review", When("time", 5), When("time", 6), None, {"bob"})
                          [] OTHER -> None]
EventOps ==
    {CreateEventParam("walk", Time(7), Date(8), None, FALSE), CreateEventParam("walk", Time(7), Date(8), None, TRUE),
     UpdateEventParam(1, "talks", Time(8), None, None, None), UpdateEventParam(1, None, None, None, None, None),
     UpdateEventParam(1, None, Date(8), Date(9), None, TRUE),
     UpdateEventParam(2, None, Date(8), None, "room", None), UpdateEventParam(2, None, Time(8), None, None, None),
     UpdateEventParam(3, "reviews", None, None, None, None),
     DeleteEventParam(1), DeleteEventParam(3)}
BothOps ==
    {DriveUploadParam("u1", None, <<"c">>), CreateDraftParam(None, {"ann"}, {"u1"}),
     DriveUpdateFileParam("u1", 2),
     AttachToDraftParam(1, {"u1"})}

\* What is refused, most of it before anything is asked of Google.
RefusedOps ==
    {DriveUploadParam("u1", 3, <<"a">>), DriveUploadParam("u1", None, <<"a", "..">>), DriveCreateFolderParam("", None),
     CreateDraftParam(None, {}, {}), ReplyDraftParam(Message("ann", <<"me">>, <<>>, FALSE), "old", FALSE, {}),
     UpdateDraftParam(1, None, {}, {}), AttachToDraftParam(1, {}), ModifyLabelsParam(<<"m1">>, {}, {}, FALSE, None, None),
     AppendRowsParam(4, "Data", <<>>), UpdateRangeParam(4, "Data", 1, 1, 1, 1, <<>>), InsertRowsParam(4, "Data", 1, 3),
     CopyFormatParam(4, "Data", 0, 1, 1), DeleteRowsParam(4, "Data", 0, 1), DeleteRowsParam(4, "Nowhere", 1, 1), AddTabParam(4, ""),
     DriveUploadParam("u1", None, <<"b", "x">>), DriveUpdateFileParam("u1", 5), AttachToDraftParam(3, {"u1"}),
     ModifyLabelsParam(<<"m1">>, {"unknown"}, {}, FALSE, None, None), SheetsCreateParam("", <<>>, <<>>, None), DocsCreateParam("", None),
     CreateEventParam("", Time(1), Time(2), None, FALSE), UpdateEventParam(1, "", None, None, None, TRUE)}

\* Two calls of one service, or one of each after the same upload.
MCOps ==
    [Calls -> DriveOps] \cup [Calls -> MailOps] \cup [Calls -> BothOps] \cup [Calls -> {DriveUploadParam("u1", None, <<>>)}]
    \cup {[c \in Calls |-> o] : o \in RefusedOps}
    \cup {o \in [Calls -> SheetOps] : \E c \in Calls : o[c] \in Movers} \cup [Calls -> EventOps]

Symmetry == Permutations(Calls)
=============================================================================
