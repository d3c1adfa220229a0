-------------------------------- MODULE Tools --------------------------------
(***************************************************************************)
(* The calls of the tools that write, together: those of src/mcp/drive.rs and  *)
(* src/mcp/gmail.rs draw on one staging area, those of src/mcp/sheets.rs and  *)
(* docs_create put files into Drive, and those of src/mcp/calendar.rs change  *)
(* events, while people work in all of it, uploads expire and Drive purges   *)
(* old versions.                                                            *)
(***************************************************************************)
EXTENDS Sheets, Drafts, Calendar

CONSTANTS
    Ops,           \* what the calls may ask for, together
    MaxOthers      \* bound: how often people change something at Google

Versions == [by : Calls \cup {None}, kept : BOOLEAN, gone : BOOLEAN, deleted : BOOLEAN]

\* Drive's files are items with a history, of which it keeps no more than it may.
ASSUME DriveHoldsItems ==
    /\ InDrive = [i \in Ids |-> InDrive[i]]
    /\ \A i \in Ids : InDrive[i] # None =>
          /\ IsItem(InDrive[i]) /\ InDrive[i].by \notin Calls
          /\ \A j \in 1 .. i : InDrive[j] # None
          /\ InDrive[i].parent \in 0 .. i - 1
    /\ "folder" \in Google
ASSUME FilesHaveVersions ==
    /\ KeepMax \in Nat
    /\ InVersions \in [Ids -> Seq(Versions)]
    /\ \A i \in Ids :
          /\ InVersions[i] # <<>> <=> InDrive[i] # None /\ InDrive[i].type \notin Google
          /\ Cardinality({v \in DOMAIN InVersions[i] : InVersions[i][v].kept /\ ~InVersions[i][v].deleted}) <= KeepMax

\* What a call may ask for: names in their order, rows by unsigned numbers, and
\* what it is about by its id.  No call is nobody.
ASSUME CallsAskForThings ==
    /\ None \notin Calls
    /\ \A o \in Ops : \A c \in Calls :
          /\ o[c].tool = "upload" => o[c].path \in Seq(STRING)
          /\ o[c].tool \in {"rewrite", "attach", "discard"} => o[c].draft \in DraftIds
          /\ o[c].tool = "reply" => o[c].message.to \in Seq(STRING)
          /\ o[c].tool = "labels" => o[c].messages \in Seq(STRING)
          /\ o[c].tool \in {"changeEvent", "deleteEvent"} => o[c].event \in EventIds
          /\ o[c].tool \in Structural \cup {"appendRows", "updateRange", "addTab"} => o[c].book \in Ids
          /\ o[c].tool \in Structural => o[c].at \in 0 .. Word - 1 /\ o[c].count \in 0 .. Word - 1
          /\ o[c].tool = "copyFormat" => o[c].from \in 0 .. Word - 1
          /\ o[c].tool \in {"appendRows", "updateRange", "newBook"} => o[c].rows \in Seq(Seq(STRING))
          /\ o[c].tool = "updateRange" => o[c].top \in Nat \ {0} /\ o[c].left \in Nat \ {0}
          /\ o[c].tool = "newBook" => o[c].tabs \in Seq(STRING)
          /\ o[c].tool = "addTab" => o[c].title \in STRING

\* Gmail's drafts have what a draft has, and none is a call's to begin with.
ASSUME MailboxHoldsDrafts ==
    /\ Mailbox = [d \in DraftIds |-> Mailbox[d]]
    /\ \A d \in DraftIds : Mailbox[d] # None =>
          IsDraft(Mailbox[d]) /\ Mailbox[d].by \notin Calls /\ Mailbox[d].files \subseteq {"old", "theirs"}
    /\ {"old", "theirs"} \cap Uploads = {} /\ "person" \notin Calls

\* What is staged is so many bytes, and so is what Gmail's drafts carry.
ASSUME FilesWeigh ==
    IsFiniteSet(Uploads) /\ \A f \in Uploads \cup {"old", "theirs"} : SizeOf[f] \in Nat

\* Gmail lets nobody make an address the default that it has not verified.
ASSUME AliasesAreAddresses ==
    /\ OwnAddress # None /\ \A k \in DOMAIN Aliases : Aliases[k].address # None
    /\ Usable(DefaultFrom) \/ DefaultFrom = OwnAddress

\* Spreadsheets are files of Drive whose tabs have a title each, and a u32 holds
\* the rows of a call.
ASSUME SheetsHoldTabs ==
    /\ InBooks \in [Ids -> Seq(Tabs)]
    /\ \A i \in Ids : InBooks[i] # <<>> => InDrive[i] # None /\ InDrive[i].type = "sheet"
    /\ \A i \in Ids : Distinct(InBooks[i])
    /\ Word \in Nat /\ MaxRows \in 0 .. Word - 1 /\ PreviewRowsMax \in Nat /\ PreviewFormulas \in Nat
\* Provers take STRING for any set: what is written here is in it.
ASSUME LiteralsAreStrings == {"", "=sum", "plain", "Sheet1", "New"} \subseteq STRING

ASSUME CalendarHoldsEvents ==
    /\ InCalendar = [i \in EventIds |-> InCalendar[i]]
    /\ \A i \in EventIds : InCalendar[i] # None => IsEvent(InCalendar[i])
ASSUME OthersAreCounted == MaxOthers \in Nat

VARIABLES
    others,    \* how often they have
    did,       \* history: what each call has changed at Google
    was        \* history: the drafts as they were when each call last read one

vars == <<calls, staged, expired, driveVars, sheetVars, mailVars, eventVars, others, did, was>>

Init ==
    /\ pc = [c \in Calls |-> "called"]
    /\ op \in Ops
    /\ staged = Uploads
    /\ expired = {}
    /\ DriveInit
    /\ SheetsInit
    /\ DraftsInit
    /\ CalendarInit
    /\ others = 0
    /\ did = [c \in Calls |-> {}]
    /\ was = [c \in Calls |-> drafts]

Tool(c) == op[c].tool

DriveTools == {"upload", "folder", "update", "newDoc", "newBook"}
MailTools == {"create", "reply", "rewrite", "attach", "discard", "labels"}
SheetTools == Structural \cup {"appendRows", "updateRange", "addTab"}
EventTools == {"newEvent", "changeEvent", "deleteEvent"}

Called(tools) == \E c \in Calls : Tool(c) \in tools

Changed == (IF items' # items THEN {"item"} ELSE {})
           \cup (IF versions' # versions THEN {"version"} ELSE {})
           \cup (IF drafts' # drafts THEN {"draft"} ELSE {})
           \cup (IF books' # books THEN {"book"} ELSE {})
           \cup (IF events' # events THEN {"event"} ELSE {})

Recorded(c) ==
    /\ did' = [did EXCEPT ![c] = @ \cup Changed]
    /\ was' = IF pc[c] = "called" THEN [was EXCEPT ![c] = drafts] ELSE was
    /\ UNCHANGED others

Drive(c) == DriveCall(c) /\ UNCHANGED <<sheetVars, mailVars, eventVars>> /\ Recorded(c)
SheetsOf(c) == SheetCall(c) /\ UNCHANGED <<mailVars, eventVars>> /\ Recorded(c)
Gmail(c) == DraftCall(c) /\ UNCHANGED <<driveVars, sheetVars, eventVars>> /\ Recorded(c)
CalendarOf(c) == EventCall(c) /\ UNCHANGED <<driveVars, sheetVars, mailVars>> /\ Recorded(c)

\* People change what the calls are about; elsewhere no call would look.
Others ==
    /\ others < MaxOthers
    /\ others' = others + 1
    /\ \/ Called(DriveTools) /\ (PersonMakes \/ PersonBins \/ PersonWrites \/ PersonDeletes \/ Purge) /\ UNCHANGED <<mail, books, events>>
       \/ Called(MailTools) /\ (PersonEdits \/ PersonAttaches \/ PersonSends) /\ UNCHANGED <<drive, books, events>>
       \/ Called(SheetTools) /\ PersonInSheet /\ UNCHANGED <<drive, mail, events>>
       \/ Called(EventTools) /\ PersonInCalendar /\ UNCHANGED <<drive, mail, books>>
    /\ UNCHANGED <<calls, staged, expired, job, target, missing, shown, copy, told, existing, patch, did, was>>

Sweep == \E u \in staged : Expire(u) /\ UNCHANGED <<driveVars, sheetVars, mailVars, eventVars, others, did, was>>

Next == (\E c \in Calls : Drive(c) \/ SheetsOf(c) \/ Gmail(c) \/ CalendarOf(c)) \/ Others \/ Sweep

Spec == Init /\ [][Next]_vars

-----------------------------------------------------------------------------
(* Views the properties share.                                              *)


\* The items a call has put into Drive, and the folders among them.
PutBy(c) == {i \in Drawn : items[i].by = c}
MadeBy(c) == {i \in PutBy(c) : items[i].type = "folder"}

\* The calls that have taken an upload for a message.
FilesOf(c) == IF Tool(c) \in {"create", "reply", "rewrite", "attach"} THEN op[c].files ELSE {}
Takers(u) ==
    {c \in Calls : u \in FilesOf(c) \cap copy[c].files /\ pc[c] \in {"write", "done", "failed"}}

\* The names on the way from the root down to an item, its own the last.
Way(i) ==
    LET way[j \in Drawn \cup {Root}] ==
            IF j = Root THEN <<>> ELSE Append(way[items[j].parent], items[j].name)
    IN way[i]

\* Two live folders of one name in one place.
Twins(i, j) ==
    i # j /\ items[i].name = items[j].name /\ items[i].parent = items[j].parent /\ ~InBin(j)

-----------------------------------------------------------------------------
(* Invariants.                                                             *)

\* Every variable keeps its shape; a version is known for every file and for
\* nothing else.
TypeOK ==
    /\ pc \in [Calls -> Answers \cup {"called", "destination", "path", "planned", "stored", "revisable",
                                      "history", "pin", "replace", "weigh", "take", "write", "labelling",
                                      "tab", "change", "adding", "drafting", "patching", "deleting"}]
    /\ op \in Ops
    /\ staged \subseteq Uploads /\ expired \subseteq Uploads /\ staged \cap expired = {}
    /\ \A i \in Ids :
          /\ versions[i] \in Seq(Versions)
          /\ versions[i] # <<>> <=> i \in Drawn /\ items[i].type \notin Google
    /\ binned \subseteq Drawn
    /\ \A i \in Drawn : items[i].parent \in Drawn \cup {Root} /\ items[i].parent < i
    /\ \A c \in Calls : job[c].place \in Drawn \cup {Root} /\ Range(job[c].made) \subseteq Drawn
    /\ \A c \in Calls : pc[c] = "write" => copy[c].from # None
    /\ \A d \in DraftIds : drafts[d] # None => drafts[d].files \subseteq Uploads \cup {"theirs", "old"}
    /\ DOMAIN labels = DOMAIN LabelsOf
    /\ books \in [Ids -> Seq(Tabs)]
    /\ \A i \in Ids : books[i] # <<>> => i \in Drawn /\ items[i].type = "sheet"
    /\ \A c \in Calls : pc[c] = "change" => target[c] # 0
    /\ \A c \in Calls : pc[c] \in {"drafting", "patching", "deleting"} => existing[c] # None
    /\ others \in 0 .. MaxOthers

\* What a call is answered is so, whatever was changed meanwhile: a refusal left
\* everything as it was but for the folders it names and took no upload; a call
\* that is done did the whole of it; labels that are answered as an error were
\* told for no message, and otherwise every message is told of once; and a
\* spreadsheet that was made is answered with, whatever became of its tabs.
AnswersAreTrue ==
    \A c \in Calls :
        /\ pc[c] = "refused" =>
              /\ PutBy(c) = Range(job[c].made)
              /\ did[c] \cap {"draft", "book", "event"} = {} /\ ("version" \in did[c] => PutBy(c) # {})
              /\ \A u \in Uploads : c \notin Takers(u)
        /\ pc[c] = "done" =>
              /\ Tool(c) \in {"upload", "newDoc", "newBook"} => Cardinality(PutBy(c) \ Range(job[c].made)) = 1
              /\ Tool(c) = "folder" => PutBy(c) = Range(job[c].made)
              /\ Tool(c) = "newBook" => \A t \in Range(op[c].tabs) \ {""} : Titled(books[job[c].place], t) # {} \/ t \in missing[c]
              /\ Tool(c) \in {"appendRows", "insertRows", "deleteRows", "addTab"} => "book" \in did[c]
              /\ Tool(c) \in {"newEvent", "deleteEvent"} => "event" \in did[c]
              /\ Tool(c) = "update" => \E v \in DOMAIN versions[op[c].file] : versions[op[c].file][v].by = c
              /\ Tool(c) \in {"create", "reply", "rewrite", "attach", "discard"} => "draft" \in did[c]
              /\ Tool(c) = "labels" => told[c].modified \cup told[c].failed = Range(op[c].messages)
        /\ Tool(c) = "newBook" /\ pc[c] = "failed" => job[c].place = Root
        /\ Tool(c) = "labels" /\ pc[c] \in Answers => (told[c].modified # {} <=> pc[c] = "done")

\* An upload is spent once: by one message at most, and only its hour, a message
\* or a store that Drive has answered takes it away.
UploadsAccounted ==
    \A u \in Uploads :
        /\ Cardinality(Takers(u)) <= 1
        /\ u \in staged => Takers(u) = {}
        /\ \/ u \in staged \cup expired
           \/ Takers(u) # {}
           \/ \E c \in Calls : Tool(c) \in {"upload", "update"} /\ op[c].upload = u /\ pc[c] = "done"

\* A file is where the call said, and nowhere else: in the folder it named, or at
\* the end of its path from the root; and a folder made on the way is on that way,
\* whatever folders of the same names there are elsewhere.
StoredWhereAsked ==
    \A c \in Calls : \A i \in PutBy(c) :
        LET way == Way(IF i \in MadeBy(c) THEN i ELSE items[i].parent)
        IN CASE Tool(c) \in {"folder", "newDoc", "newBook"} -> items[i].parent = (IF op[c].folder = None THEN Root ELSE op[c].folder)
             [] Tool(c) = "upload" /\ op[c].folder # None -> items[i].parent = op[c].folder
             [] OTHER -> Len(way) <= Len(op[c].path) /\ way = SubSeq(op[c].path, 1, Len(way))
                         /\ (i \in MadeBy(c) \/ way = op[c].path)

\* A folder a call leaves behind is one it tells of, but for the one whose reply
\* was lost; and no path makes a folder beside one that was there when it looked.
FoldersAccounted ==
    \A c \in Calls :
        LET untold == MadeBy(c) \ Range(job[c].made)
        IN /\ untold # {} => pc[c] = "failed" /\ Cardinality(untold) = 1
           /\ \A i \in MadeBy(c) : \A j \in Drawn : IsFolder(j) /\ j <= job[c].seen => ~Twins(i, j)

\* Before content is replaced the version the call read at the head is kept for
\* ever, and Drive does not purge it from then on; a person may still delete it, and
\* what others write between the read and the new content is not kept by this call.
\* A call that is to show its preview or ask for the mark has room for the mark,
\* unless a version is kept that its list did not name: kept since, or not on the page.
PinnedStays ==
    \A c \in Calls : Tool(c) = "update" =>
        LET file == op[c].file
            head == job[c].head
        IN /\ pc[c] \in {"replace", "stored", "done"} => versions[file][head].kept /\ ~versions[file][head].gone
           /\ pc[c] = "pin" /\ KeptForever(file) \subseteq job[c].kept =>
                 Cardinality(KeptForever(file) \cup {head}) <= KeepMax

\* A reply goes to the people of the conversation and not back to its writer: a
\* message the account sent is answered to those it was sent to; any other to its
\* sender and, to all, to everyone it named but the address that answers.  No
\* message is written as an address Gmail would replace.
RepliesReach ==
    \A c \in Calls : copy[c].by = c =>
        /\ Usable(copy[c].from) \/ copy[c].from = OwnAddress
        /\ Tool(c) = "reply" =>
            LET m == op[c].message
                named == Range(m.to) \cup Range(m.cc)
            IN /\ m.sent => copy[c].to = Range(m.to)
               /\ ~m.sent /\ Len(m.to) > 1 => copy[c].from \notin copy[c].to \cup copy[c].cc
               /\ op[c].all => named \cup (IF m.sent THEN {} ELSE {m.from})
                               \subseteq copy[c].to \cup copy[c].cc \cup {copy[c].from}
               /\ copy[c].to \cap copy[c].cc \subseteq Range(m.to) \cap Range(m.cc)

-----------------------------------------------------------------------------
(* Action properties.                                                      *)

\* gmail_attach_to_draft writes the draft it read and its files, each of them once
\* and together no more than a message may weigh: to the people of that draft, in
\* its conversation, as the address it was written as, with its text but for blank
\* lines at the end and with its first body in HTML.  What a person or another call
\* has made of the draft since is written over.
OnlyAdds(c) ==
    LET d == op[c].draft
        read == was[c][d]
        after == drafts'[d]
    IN after # drafts[d] =>
           /\ after.files = read.files \cup op[c].files /\ read.files \cap op[c].files = {}
           /\ Weight(after.files) <= AttachmentMax
           /\ after.to = read.to /\ after.cc = read.cc /\ after.thread = read.thread
           /\ read.from # None => after.from = read.from
           /\ Trimmed(read.text) # <<>> => after.text = Trimmed(read.text)
           /\ read.html # <<>> => after.html # <<>> /\ Head(after.html) = Head(read.html)
AttachOnlyAdds ==
    [][\A c \in Calls : Tool(c) = "attach" /\ pc[c] = "write" /\ pc'[c] # pc[c] => OnlyAdds(c)]_vars

\* A draft never leaves its conversation while it is one, and a reply is written
\* into the conversation it answers.
ThreadsKept ==
    [][\A d \in DraftIds :
          /\ There(d) /\ drafts'[d].there => drafts'[d].thread = drafts[d].thread
          /\ drafts[d] = None /\ drafts'[d] # None =>
                \E c \in Calls :
                    /\ pc[c] = "write" /\ pc'[c] # pc[c]
                    /\ drafts'[d].thread = IF Tool(c) = "reply" THEN op[c].message.thread ELSE New]_vars

\* Rows are counted the way the caller counts them, from 1: those inserted are
\* the ones named, those deleted are no others, and everything else keeps its
\* values, its looks and its order.
RowsAsAsked(o, old, new) ==
    LET asked == o.at .. o.at + o.count - 1
    IN CASE o.tool = "insertRows" ->
              /\ Len(new) = Len(old) + o.count
              /\ \A r \in DOMAIN old : new[IF r < o.at THEN r ELSE r + o.count] = old[r]
              /\ \A r \in asked : new[r] = Row(EmptyCells, IF o.at = 1 THEN "plain" ELSE old[o.at - 1].look)
         [] o.tool = "deleteRows" ->
              /\ asked \subseteq DOMAIN old /\ Len(new) = Len(old) - o.count
              /\ \A r \in DOMAIN old \ asked : new[IF r < o.at THEN r ELSE r - o.count] = old[r]
         [] o.tool = "copyFormat" ->
              /\ Len(new) = Len(old)
              /\ \A r \in DOMAIN old : new[r] = [old[r] EXCEPT !.look = old[IF r \in asked THEN o.from ELSE r].look]
         [] o.tool = "appendRows" ->
              /\ Len(new) = Len(old) + Len(o.rows)
              /\ \A r \in DOMAIN new :
                    new[r] = CASE r <= LastUsed(old) -> old[r]
                               [] r - LastUsed(old) \in 1 .. Len(o.rows) -> Row(Filled(o.rows[r - LastUsed(old)]), "plain")
                               [] OTHER -> old[r - Len(o.rows)]
         [] o.tool = "updateRange" ->
              /\ Len(new) = Len(old)
              /\ \A r \in DOMAIN old : \A k \in 1 .. Columns :
                    new[r].cells[k] = IF WrittenOver(o, r, k) THEN o.rows[r - o.top + 1][k - o.left + 1] ELSE old[r].cells[k]

\* The rows a delete takes are those a caller was shown, as far as a preview prints
\* them; so many more hold something as it was told, and the others are empty.
RowsTold(saw, old, at, count) ==
    /\ \A n \in 0 .. count - 1 :
          IF n < Len(saw.rows) THEN saw.rows[n + 1] = Displayed(old[at + n].cells)
          ELSE n < Len(saw.rows) + saw.more \/ old[at + n].cells = EmptyCells
    /\ saw.more # 0 => Len(saw.rows) = PreviewRowsMax

\* The formulas a write takes are all named, or as many as a preview names and no
\* more others than it was told.
FormulasNamed(saw, lost) ==
    \/ lost \subseteq saw.cells
    \/ Cardinality(saw.cells) = PreviewFormulas /\ Cardinality(lost) <= PreviewFormulas + saw.more

\* Nothing is lost that the caller, shown the spreadsheet as it is, was neither shown
\* nor told the number of: of the tab it named, though what is changed is the tab
\* that had that title when it was looked up, and of a write's formulas those inside
\* the range (FormulasTold says what becomes of the others).
LossShown(c, before, k, new) ==
    LET o == op[c]
        old == before[k].rows
        lost == {cell \in (DOMAIN old) \X (1 .. Columns) :
                    LET had == old[cell[1]].cells[cell[2]]
                    IN InRange(o, cell[1], cell[2]) /\ IsFormula(had) /\ new[cell[1]].cells[cell[2]] # had}
    IN shown[c].book = before /\ k \in Titled(before, o.tab) =>
        /\ Tool(c) = "deleteRows" => RowsTold(shown[c], old, o.at, o.count)
        /\ Tool(c) = "updateRange" => FormulasNamed(shown[c], lost)

SheetsAsAsked(c) ==
    LET before == books[op[c].book]
        after == books'[op[c].book]
    IN /\ \A i \in Ids \ {op[c].book} : books'[i] = books[i]
       /\ IF Tool(c) = "addTab"
          THEN Len(after) = Len(before) + 1 /\ SubSeq(after, 1, Len(before)) = before
          ELSE \E k \in DOMAIN before :
                  /\ after = [before EXCEPT ![k].rows = after[k].rows]
                  /\ Tool(c) \in Structural => before[k].id = target[c]
                  /\ RowsAsAsked(op[c], before[k].rows, after[k].rows)
                  /\ LossShown(c, before, k, after[k].rows)

\* One event, with no guest to it when it was read and none put there, and of
\* that only the fields given, whatever else became of it meanwhile.
EventsAsAsked(c) ==
    LET i == IF Tool(c) = "newEvent" THEN CHOOSE j \in EventIds : events'[j] # events[j] ELSE op[c].event
        after == events'[i]
    IN /\ \A j \in EventIds \ {i} : events'[j] = events[j]
       /\ Tool(c) = "newEvent" => events[i] = None /\ after.guests = {}
       /\ Tool(c) # "newEvent" => existing[c].guests = {} /\ after.guests = events[i].guests
       /\ Tool(c) = "changeEvent" =>
             /\ \A f \in {"title", "place"} : after[f] = IF op[c][f] \in {None, ""} THEN events[i][f] ELSE op[c][f]
             /\ \A f \in {"start", "end"} :
                   IF op[c][f] = None THEN after[f] = events[i][f] ELSE after[f].at = op[c][f].at
             /\ after.start.kind = after.end.kind

\* A write to a spreadsheet or to a calendar changes what it names and nothing
\* else, and of what it takes away inside that, a caller was shown the first and
\* told the number of the rest (mcp/sheets.rs 13, 30, 466; mcp/calendar.rs 7).
ChangesAreAsked ==
    [][\A c \in Calls :
          /\ Tool(c) \in SheetTools /\ pc'[c] # pc[c] /\ books' # books => SheetsAsAsked(c)
          /\ Tool(c) \in EventTools /\ pc'[c] # pc[c] /\ events' # events => EventsAsAsked(c)]_vars

-----------------------------------------------------------------------------
(* What does not hold.                                                     *)

\* "Last, so a call refused for anything else leaves the files where they are and
\* can simply be made again" (mcp/gmail.rs): a call refused for the addresses it
\* was given has taken no upload.
FilesKeptByRefusal ==
    \A c \in Calls : \A u \in Uploads :
        pc[c] = "failed" /\ c \in Takers(u) => Sendable(copy[c])

\* drive_update_file "replaces only content it has first made safe" (mcp/drive.rs):
\* every version under the one it wrote is kept for ever.
ContentMadeSafe ==
    \A c \in Calls :
        Tool(c) = "update" =>
            \A v \in DOMAIN versions[op[c].file] :
                versions[op[c].file][v].by = c => v > 1 /\ versions[op[c].file][v - 1].kept

\* gmail_attach_to_draft is to "keep everything else it has: its recipients, its
\* subject, both bodies and the conversation it belongs to" (mcp/gmail.rs 682): what it
\* is about to write has every body and every header of the draft it read.
AttachKeepsAll ==
    \A c \in Calls :
        Tool(c) = "attach" /\ pc[c] = "write" =>
            LET read == was[c][op[c].draft]
            IN copy[c].html = read.html /\ copy[c].media = read.media /\ copy[c].more = read.more

\* "Only as many rows as are being written are read, because those are the only cells
\* an update touches" (mcp/sheets.rs 343): the preview of an update tells of every
\* formula its values would be written over.
FormulasTold ==
    \A c \in Calls :
        Tool(c) = "updateRange" /\ shown[c].book # None =>
            \A k \in Titled(shown[c].book, op[c].tab) :
                LET rows == shown[c].book[k].rows
                IN Cardinality({cell \in (DOMAIN rows) \X (1 .. Columns) :
                                   IsFormula(rows[cell[1]].cells[cell[2]]) /\ WrittenOver(op[c], cell[1], cell[2])})
                   <= Cardinality(shown[c].cells) + shown[c].more

\* "An event that already has attendees is read-only here" (mcp/calendar.rs 7):
\* none is changed or deleted while others are invited to it.
MeetingsLeftAlone ==
    [][\A c \in Calls : Tool(c) \in EventTools /\ pc'[c] # pc[c] =>
          \A i \in EventIds : events[i] # None /\ events[i].guests # {} => events'[i] = events[i]]_vars
=============================================================================
