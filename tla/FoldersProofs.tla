----------------------------- MODULE FoldersProofs -----------------------------
(***************************************************************************)
(* Where the tools of src/mcp/drive.rs put things, for any Drive, any calls    *)
(* and whatever people and other calls do meanwhile: everything is where it   *)
(* was asked to be, and no folder is left behind untold.  Folders are only     *)
(* ever put under what was there before, so that the way down to one is       *)
(* settled when it is made; the rest is what each call knows of its own way.  *)
(***************************************************************************)
EXTENDS ToolsProofs

(* Where a call of each tool may be.                                        *)
Stations(tool) ==
    {"called"} \cup
    CASE tool = "upload" -> {"destination", "path", "planned", "stored"} \cup Answers
      [] tool = "folder" -> {"destination", "planned"} \cup Answers
      [] tool = "update" -> {"revisable", "history", "pin", "replace", "stored"} \cup Answers
      [] tool = "newBook" -> {"adding"} \cup Answers
      [] tool \in {"create", "reply", "rewrite"} -> {"take", "write"} \cup Answers
      [] tool = "attach" -> {"weigh", "take", "write"} \cup Answers
      [] tool = "labels" -> {"labelling"} \cup Answers
      [] tool \in Structural -> {"tab", "change"} \cup Answers
      [] tool = "changeEvent" -> {"drafting", "patching"} \cup Answers
      [] tool = "deleteEvent" -> {"deleting"} \cup Answers
      [] tool \in {"newDoc", "discard", "appendRows", "updateRange", "addTab", "newEvent"} -> Answers
      [] OTHER -> {}

Stationed(c) == pc[c] \in Stations(Tool(c))

StationsInOrder ==
    /\ pc = [c \in Calls |-> pc[c]]
    /\ \A c \in Calls : Stationed(c)

(* Who is at a station is of a tool that has it.                             *)
LEMMA ToolsThere ==
    ASSUME NEW tool, NEW at \in Stations(tool)
    PROVE  /\ at \in {"destination", "planned"} => tool \in {"upload", "folder"}
           /\ at = "path" => tool = "upload"
           /\ at = "stored" => tool \in {"upload", "update"}
           /\ at \in {"revisable", "history", "pin", "replace"} => tool = "update"
           /\ at = "adding" => tool = "newBook"
           /\ at \in {"take", "write"} => tool \in {"create", "reply", "rewrite", "attach"}
           /\ at = "weigh" => tool = "attach"
           /\ at = "labelling" => tool = "labels"
           /\ at \in {"tab", "change"} => tool \in Structural
           /\ at \in {"drafting", "patching"} => tool = "changeEvent"
           /\ at = "deleting" => tool = "deleteEvent"
BY DEF Stations, Answers, Structural

LEMMA WhoIsThere ==
    ASSUME NEW c, Stationed(c)
    PROVE  /\ pc[c] \in {"destination", "planned"} => Tool(c) \in {"upload", "folder"}
           /\ pc[c] = "path" => Tool(c) = "upload"
           /\ pc[c] = "stored" => Tool(c) \in {"upload", "update"}
           /\ pc[c] \in {"revisable", "history", "pin", "replace"} => Tool(c) = "update"
           /\ pc[c] = "adding" => Tool(c) = "newBook"
           /\ pc[c] \in {"take", "write"} => Tool(c) \in {"create", "reply", "rewrite", "attach"}
           /\ pc[c] = "weigh" => Tool(c) = "attach"
           /\ pc[c] = "labelling" => Tool(c) = "labels"
           /\ pc[c] \in {"tab", "change"} => Tool(c) \in Structural
           /\ pc[c] \in {"drafting", "patching"} => Tool(c) = "changeEvent"
           /\ pc[c] = "deleting" => Tool(c) = "deleteEvent"
BY ToolsThere DEF Stationed

(* Where a call goes in one step, it may be.                                 *)
Onwards(c) == \E to \in Stations(Tool(c)) : Goto(c, to)

LEMMA DriveCallsMove ==
    ASSUME NEW c, Stationed(c), DriveCall(c)
    PROVE  Onwards(c)
<1>. USE WhoIsThere DEF Onwards, Stations, Answers, Structural, Under, Tool, Refuse, Fail, Read
<1>1. CASE DriveUpload(c)  BY <1>1 DEF DriveUpload
<1>2. CASE DriveCreateFolder(c)  BY <1>2 DEF DriveCreateFolder
<1>3. CASE Destination(c)  BY <1>3 DEF Destination
<1>4. CASE LookUp(c)  BY <1>4 DEF LookUp, Inside
<1>5. CASE Preview(c)  BY <1>5 DEF Preview
<1>6. CASE MakeFolder(c)  BY <1>6 DEF MakeFolder, Put
<1>7. CASE Store(c)  BY <1>7 DEF Store, Put
<1>8. CASE Spend(c)  BY <1>8 DEF Spend
<1>9. CASE DocsCreate(c)  BY <1>9 DEF DocsCreate, Put
<1>10. CASE DriveUpdateFile(c)  BY <1>10 DEF DriveUpdateFile
<1>11. CASE ReadFile(c)  BY <1>11 DEF ReadFile
<1>12. CASE ReadHistory(c)  BY <1>12 DEF ReadHistory
<1>13. CASE PreviewUpdate(c)  BY <1>13 DEF PreviewUpdate
<1>14. CASE Pin(c)  BY <1>14 DEF Pin
<1>15. CASE Replace(c)  BY <1>15 DEF Replace
<1>. QED  BY <1>1, <1>2, <1>3, <1>4, <1>5, <1>6, <1>7, <1>8, <1>9, <1>10, <1>11, <1>12, <1>13, <1>14, <1>15
             DEF DriveCall

LEMMA SheetCallsMove ==
    ASSUME NEW c, Stationed(c), SheetCall(c)
    PROVE  Onwards(c)
<1>. USE WhoIsThere DEF Onwards, Stations, Answers, Structural, Under, Tool, Deny, Break, Refuse, Fail, Read,
                        Proceed, ChangeBook, Show
<1>1. CASE SheetsAppendRows(c)  BY <1>1 DEF SheetsAppendRows
<1>2. CASE SheetsUpdateRange(c)  BY <1>2 DEF SheetsUpdateRange
<1>3. CASE SheetsInsertRows(c)  BY <1>3 DEF SheetsInsertRows, SheetsStructural
<1>4. CASE SheetsDeleteRows(c)  BY <1>4 DEF SheetsDeleteRows, SheetsStructural
<1>5. CASE SheetsCopyFormat(c)  BY <1>5 DEF SheetsCopyFormat, SheetsStructural
<1>6. CASE FindTab(c)  BY <1>6 DEF FindTab
<1>7. CASE PreviewRows(c)  BY <1>7 DEF PreviewRows
<1>8. CASE Change(c)  BY <1>8 DEF Change
<1>9. CASE SheetsAddTab(c)  BY <1>9 DEF SheetsAddTab
<1>10. CASE SheetsCreate(c)  BY <1>10 DEF SheetsCreate, Put
<1>11. CASE AddNextTab(c)  BY <1>11 DEF AddNextTab
<1>12. CASE Created(c)  BY <1>12 DEF Created
<1>. QED  BY <1>1, <1>2, <1>3, <1>4, <1>5, <1>6, <1>7, <1>8, <1>9, <1>10, <1>11, <1>12 DEF SheetCall

LEMMA MailCallsMove ==
    ASSUME pc = [d \in Calls |-> pc[d]], NEW c \in Calls, Stationed(c), DraftCall(c)
    PROVE  Onwards(c)
<1>. USE WhoIsThere DEF Onwards, Stations, Answers, Structural, Under, Tool, Decline, Give, Hold
<1>1. CASE GmailCreateDraft(c)  BY <1>1 DEF GmailCreateDraft
<1>2. CASE GmailReplyDraft(c)  BY <1>2 DEF GmailReplyDraft
<1>3. CASE GmailUpdateDraft(c)  BY <1>3 DEF GmailUpdateDraft
<1>4. CASE GmailAttachToDraft(c)  BY <1>4 DEF GmailAttachToDraft
<1>5. CASE Weigh(c)  BY <1>5 DEF Weigh
<1>6. CASE TakeFiles(c)  BY <1>6 DEF TakeFiles
<1>7. CASE WriteDraft(c)  BY <1>7 DEF WriteDraft, Written
<1>8. CASE GmailDeleteDraft(c)  BY <1>8 DEF GmailDeleteDraft, Written
<1>9. CASE GmailModifyLabels(c)  BY <1>9 DEF GmailModifyLabels
<1>10. CASE Label(c)
  <2>1. Goto(c, pc[c])
    BY <1>10 DEF Label, calls, Goto
  <2>. QED  BY <2>1 DEF Stationed
<1>11. CASE Labelled(c)  BY <1>11 DEF Labelled
<1>. QED  BY <1>1, <1>2, <1>3, <1>4, <1>5, <1>6, <1>7, <1>8, <1>9, <1>10, <1>11 DEF DraftCall

LEMMA EventCallsMove ==
    ASSUME NEW c, Stationed(c), EventCall(c)
    PROVE  Onwards(c)
<1>. USE WhoIsThere DEF Onwards, Stations, Answers, Structural, Under, Tool, Reject, Lose, Done
<1>1. CASE CalendarCreateEvent(c)  BY <1>1 DEF CalendarCreateEvent
<1>2. CASE CalendarUpdateEvent(c)  BY <1>2 DEF CalendarUpdateEvent, ReadEvent
<1>3. CASE CalendarDeleteEvent(c)  BY <1>3 DEF CalendarDeleteEvent, ReadEvent
<1>4. CASE DraftEvent(c)  BY <1>4 DEF DraftEvent
<1>5. CASE PreviewEvent(c)  BY <1>5 DEF PreviewEvent
<1>6. CASE PatchEvent(c)  BY <1>6 DEF PatchEvent
<1>7. CASE DeleteEvent(c)  BY <1>7 DEF DeleteEvent
<1>. QED  BY <1>1, <1>2, <1>3, <1>4, <1>5, <1>6, <1>7 DEF EventCall

LEMMA StationsInit == Init => StationsInOrder
BY DEF Init, StationsInOrder, Stationed, Stations

LEMMA StationsStep == StationsInOrder /\ [Next]_vars => StationsInOrder'
<1>1. SUFFICES ASSUME StationsInOrder, [Next]_vars  PROVE StationsInOrder'
  OBVIOUS
<1>2. ASSUME NEW c \in Calls, Drive(c) \/ SheetsOf(c) \/ Gmail(c) \/ CalendarOf(c)
      PROVE  StationsInOrder'
  <2>1. Onwards(c)
    BY <1>1, <1>2, DriveCallsMove, SheetCallsMove, MailCallsMove, EventCallsMove
       DEF StationsInOrder, Drive, SheetsOf, Gmail, CalendarOf
  <2>2. op' = op /\ \E to \in Stations(Tool(c)) : pc' = [pc EXCEPT ![c] = to]
    BY <2>1 DEF Onwards, Goto
  <2>. HIDE DEF StationsInOrder
  <2>3. /\ pc' = [d \in Calls |-> pc'[d]] /\ pc'[c] \in Stations(Tool(c))
        /\ \A d \in Calls \ {c} : pc'[d] = pc[d] /\ Stationed(d)
    BY <1>1, <2>2 DEF StationsInOrder
  <2>. QED  BY <2>2, <2>3 DEF StationsInOrder, Stationed, Tool
<1>3. CASE Others \/ Sweep \/ UNCHANGED vars
  <2>1. pc' = pc /\ op' = op
    BY <1>3 DEF Others, Sweep, Expire, vars, calls
  <2>. QED  BY <1>1, <2>1 DEF StationsInOrder, Stationed, Tool
<1>. QED  BY <1>1, <1>2, <1>3 DEF Next
(* Drive's folders, as far down as they go: what InBin and Way say of each     *)
(* item is what they say of its folder, and it.                             *)
BinOf(drawn, it, bin, i) ==
    LET inside[j \in drawn] == j \in bin \/ (it[j].parent # Root /\ inside[it[j].parent])
    IN inside[i]
WayOf(drawn, it, i) ==
    LET way[j \in drawn \cup {Root}] ==
            IF j = Root THEN <<>> ELSE Append(way[it[j].parent], it[j].name)
    IN way[i]
ForestOf(drawn, it) ==
    \A j \in drawn :
        /\ j \in Nat \ {Root} /\ j <= Cardinality(Ids)
        /\ it[j].parent \in drawn \cup {Root} /\ it[j].parent < j

(* What can be counted has a first.                                         *)
LEMMA First ==
    ASSUME NEW T, T \subseteq Nat, T # {}
    PROVE  \E n \in T : \A m \in T : n <= m
<1>1. IsWellFoundedOn(OpToRel(<, Nat), Nat)
  BY NatLessThanWellFounded
<1>2. \E n \in T : \A m \in T : <<m, n>> \notin OpToRel(<, Nat)
  BY <1>1, WFMin
<1>3. \A m, n \in Nat : <<m, n>> \notin OpToRel(<, Nat) => n <= m
  BY DEF OpToRel
<1>. QED  BY <1>2, <1>3

(* A folder is in the bin when no way up from it avoids the bin.             *)
LEMMA BinIsThere ==
    ASSUME NEW drawn, NEW it, NEW bin, ForestOf(drawn, it)
    PROVE  \E f : f = [j \in drawn |-> j \in bin \/ (it[j].parent # Root /\ f[it[j].parent])]
<1>. DEFINE Closed(T) == \A j \in T : it[j].parent # Root => it[j].parent \in T
            f == [j \in drawn |-> \A T \in SUBSET drawn : j \in T /\ Closed(T) => T \cap bin # {}]
<1>1. ASSUME NEW j \in drawn
      PROVE  f[j] <=> (j \in bin \/ (it[j].parent # Root /\ f[it[j].parent]))
  <2>. DEFINE p == it[j].parent
  <2>0. p # Root => p \in drawn
    BY DEF ForestOf
  <2>1. CASE j \in bin
    BY <2>1
  <2>2. CASE j \notin bin /\ p # Root /\ f[p]
    <3>. SUFFICES ASSUME NEW T \in SUBSET drawn, j \in T, Closed(T)  PROVE T \cap bin # {}
      BY <2>2
    <3>1. p \in T
      BY <2>2
    <3>. QED  BY <2>0, <2>2, <3>1
  <2>3. CASE j \notin bin /\ (p = Root \/ ~f[p])
    <3>1. \E T \in SUBSET drawn : Closed(T) /\ T \cap bin = {} /\ (p # Root => p \in T)
      <4>1. CASE p = Root
        <5>1. Closed({}) /\ {} \cap bin = {} /\ {} \in SUBSET drawn
          OBVIOUS
        <5>. QED  BY <4>1, <5>1
      <4>2. CASE p # Root
        BY <2>0, <2>3, <4>2
      <4>. QED  BY <4>1, <4>2
    <3>2. PICK T \in SUBSET drawn : Closed(T) /\ T \cap bin = {} /\ (p # Root => p \in T)
      BY <3>1
    <3>3. Closed(T \cup {j}) /\ (T \cup {j}) \cap bin = {} /\ T \cup {j} \in SUBSET drawn
      BY <2>3, <3>2
    <3>. QED  BY <2>3, <3>3
  <2>. QED  BY <2>1, <2>2, <2>3
<1>2. f = [j \in drawn |-> j \in bin \/ (it[j].parent # Root /\ f[it[j].parent])]
  BY <1>1
<1>. QED  BY <1>2

LEMMA BinIs ==
    ASSUME NEW drawn, NEW it, NEW bin, ForestOf(drawn, it), NEW i \in drawn
    PROVE  BinOf(drawn, it, bin, i) <=> (i \in bin \/ (it[i].parent # Root /\ BinOf(drawn, it, bin, it[i].parent)))
<1>. DEFINE inside[j \in drawn] == j \in bin \/ (it[j].parent # Root /\ inside[it[j].parent])
<1>1. \E f : f = [j \in drawn |-> j \in bin \/ (it[j].parent # Root /\ f[it[j].parent])]
  BY BinIsThere
<1>2. inside = [j \in drawn |-> j \in bin \/ (it[j].parent # Root /\ inside[it[j].parent])]
  BY <1>1, Zenon
<1>3. \A j : BinOf(drawn, it, bin, j) = inside[j]
  BY Zenon DEF BinOf
<1>. HIDE DEF inside
<1>. QED  BY <1>2, <1>3

(* The ways of the items up to some id, and then of all.                     *)
AreWays(f, low, it) == f = [j \in low |-> IF j = Root THEN <<>> ELSE Append(f[it[j].parent], it[j].name)]

LEMMA WaysUpTo ==
    ASSUME NEW drawn, NEW it, ForestOf(drawn, it), NEW n \in Nat,
           NEW low, low = {k \in drawn \cup {Root} : k <= n}
    PROVE  \E f : AreWays(f, low, it)
<1>. DEFINE upTo(m) == {k \in drawn \cup {Root} : k <= m}
            Way0(f, j) == IF j = Root THEN <<>> ELSE Append(f[it[j].parent], it[j].name)
            Has(m) == \E f : f = [j \in upTo(m) |-> Way0(f, j)]
            None0 == {m \in Nat : ~Has(m)}
<1>1. SUFFICES ASSUME None0 # {}  PROVE FALSE
  BY DEF Root, AreWays
<1>2. PICK m \in None0 : \A k \in None0 : m <= k
  <2>. HIDE DEF Has
  <2>. QED  BY <1>1, First
<1>5. m \in Nat /\ ~Has(m) /\ \A k \in Nat : k < m => Has(k)
  <2>. HIDE DEF Has
  <2>. QED  BY <1>2
<1>3. CASE m = 0
  <2>1. upTo(0) = {Root}
    BY DEF Root, ForestOf
  <2>2. [j \in upTo(0) |-> <<>>] = [j \in upTo(0) |-> Way0([k \in upTo(0) |-> <<>>], j)]
    BY <2>1
  <2>3. Has(0)
    BY <2>2
  <2>. QED  BY <1>3, <2>3
<1>4. CASE m # 0
  <2>1. m - 1 \in Nat /\ Has(m - 1)
    <3>. HIDE DEF Has
    <3>1. m - 1 \in Nat /\ m - 1 < m
      BY <1>4, <1>5
    <3>. QED  BY <1>5, <3>1
  <2>2. PICK f : f = [j \in upTo(m - 1) |-> Way0(f, j)]
    BY <2>1
  <2>. DEFINE g == [j \in upTo(m) |-> Way0(f, j)]
  <2>3. \A j \in upTo(m) \ {Root} : it[j].parent \in upTo(m - 1) /\ it[j].parent \in upTo(m)
    <3>. SUFFICES ASSUME NEW j \in upTo(m) \ {Root}
                  PROVE  it[j].parent \in drawn \cup {Root} /\ it[j].parent <= m - 1 /\ it[j].parent <= m
      OBVIOUS
    <3>1. /\ j \in Nat /\ j <= m /\ m \in Nat /\ it[j].parent < j
          /\ it[j].parent \in drawn \cup {Root} /\ it[j].parent \in Nat
      BY <1>5 DEF ForestOf, Root
    <3>. QED  BY <3>1
  <2>4. \A j \in upTo(m - 1) : g[j] = f[j]
    <3>1. \A j \in upTo(m - 1) : j \in upTo(m)
      <4>. SUFFICES ASSUME NEW j \in drawn \cup {Root}, j <= m - 1  PROVE j <= m
        OBVIOUS
      <4>1. j \in Nat /\ m \in Nat
        BY <1>5 DEF ForestOf, Root
      <4>. QED  BY <4>1
    <3>2. \A j \in upTo(m - 1) : f[j] = Way0(f, j)
      BY <2>2
    <3>. QED  BY <3>1, <3>2
  <2>5. \A j \in upTo(m) : g[j] = Way0(g, j)
    BY <2>3, <2>4
  <2>6. g = [j \in upTo(m) |-> Way0(g, j)]
    BY <2>5
  <2>. HIDE DEF g
  <2>. QED  BY <1>5, <2>6
<1>. QED  BY <1>3, <1>4

LEMMA WayIs ==
    ASSUME NEW drawn, NEW it, ForestOf(drawn, it)
    PROVE  /\ WayOf(drawn, it, Root) = <<>>
           /\ \A i \in drawn : WayOf(drawn, it, i) = Append(WayOf(drawn, it, it[i].parent), it[i].name)
<1>. DEFINE way[j \in drawn \cup {Root}] == IF j = Root THEN <<>> ELSE Append(way[it[j].parent], it[j].name)
<1>1. Cardinality(Ids) \in Nat
  BY IdsFromOne, FS_CardinalityType
<1>2. {k \in drawn \cup {Root} : k <= Cardinality(Ids)} = drawn \cup {Root}
  BY <1>1 DEF ForestOf, Root
<1>3. \E f : AreWays(f, drawn \cup {Root}, it)
  BY <1>1, <1>2, WaysUpTo
<1>4. way = [j \in drawn \cup {Root} |-> IF j = Root THEN <<>> ELSE Append(way[it[j].parent], it[j].name)]
  BY <1>3, Zenon DEF AreWays
<1>5. \A j : WayOf(drawn, it, j) = way[j]
  BY Zenon DEF WayOf
<1>6. \A j \in drawn : j # Root
  BY DEF ForestOf
<1>. HIDE DEF way
<1>. QED  BY <1>4, <1>5, <1>6

(* Drive grows: what is there stays as it is and where it is.                *)
LEMMA WaysStay ==
    ASSUME NEW drawn, NEW it, ForestOf(drawn, it), NEW later, NEW itLater, ForestOf(later, itLater),
           drawn \subseteq later, \A j \in drawn : itLater[j] = it[j]
    PROVE  \A i \in drawn \cup {Root} : WayOf(later, itLater, i) = WayOf(drawn, it, i)
<1>. DEFINE Moved == {i \in drawn : WayOf(later, itLater, i) # WayOf(drawn, it, i)}
<1>0. WayOf(later, itLater, Root) = WayOf(drawn, it, Root)
  BY WayIs
<1>1. SUFFICES ASSUME Moved # {}  PROVE FALSE
  BY <1>0
<1>2. Moved \subseteq Nat
  BY DEF ForestOf
<1>3. PICK i \in Moved : \A j \in Moved : i <= j
  <2>. HIDE DEF Moved
  <2>. QED  BY <1>1, <1>2, First
<1>. DEFINE p == it[i].parent
<1>4. i \in drawn /\ i \in Nat /\ p \in drawn \cup {Root} /\ p < i /\ p \in Nat
  BY <1>3 DEF ForestOf, Root
<1>5. p \notin Moved
  <2>. HIDE DEF Moved
  <2>. QED  BY <1>3, <1>4
<1>6. WayOf(later, itLater, p) = WayOf(drawn, it, p)
  BY <1>0, <1>4, <1>5
<1>7. WayOf(later, itLater, i) = Append(WayOf(later, itLater, p), it[i].name)
  <2>1. i \in later /\ itLater[i] = it[i]
    BY <1>4
  <2>2. WayOf(later, itLater, i) = Append(WayOf(later, itLater, itLater[i].parent), itLater[i].name)
    BY <2>1, WayIs
  <2>. QED  BY <2>1, <2>2
<1>8. WayOf(drawn, it, i) = Append(WayOf(drawn, it, p), it[i].name)
  BY <1>4, WayIs
<1>. QED  BY <1>3, <1>6, <1>7, <1>8

LEMMA BinsStay ==
    ASSUME NEW drawn, NEW it, ForestOf(drawn, it), NEW later, NEW itLater, ForestOf(later, itLater),
           drawn \subseteq later, \A j \in drawn : itLater[j] = it[j], NEW bin, NEW binLater, bin \subseteq binLater
    PROVE  \A i \in drawn : BinOf(drawn, it, bin, i) => BinOf(later, itLater, binLater, i)
<1>. DEFINE Back == {i \in drawn : BinOf(drawn, it, bin, i) /\ ~BinOf(later, itLater, binLater, i)}
<1>1. SUFFICES ASSUME Back # {}  PROVE FALSE
  OBVIOUS
<1>2. Back \subseteq Nat
  BY DEF ForestOf
<1>3. PICK i \in Back : \A j \in Back : i <= j
  <2>. HIDE DEF Back
  <2>. QED  BY <1>1, <1>2, First
<1>. DEFINE p == it[i].parent
<1>4. i \in drawn /\ i \in later /\ i \in Nat /\ p \in drawn \cup {Root} /\ p < i /\ p \in Nat
  BY <1>3 DEF ForestOf, Root
<1>5. p \notin Back
  <2>. HIDE DEF Back
  <2>. QED  BY <1>3, <1>4
<1>6. BinOf(drawn, it, bin, i) <=> (i \in bin \/ (p # Root /\ BinOf(drawn, it, bin, p)))
  BY <1>4, BinIs
<1>7. BinOf(later, itLater, binLater, i)
        <=> (i \in binLater \/ (p # Root /\ BinOf(later, itLater, binLater, p)))
  BY <1>4, BinIs
<1>. QED  BY <1>3, <1>4, <1>5, <1>6, <1>7

-----------------------------------------------------------------------------
(* What is known of a call between its requests.                             *)

(* What is in a folder came after it, ids are drawn in order, and nothing but *)
(* what is there is in the bin.                                             *)
Forest ==
    /\ ForestOf(Drawn, items)
    /\ \A i \in Drawn : \A j \in 1 .. i : j \in Drawn
    /\ binned \subseteq Drawn

(* The tools that put things into Drive.                                    *)
Placers == {"upload", "folder", "newDoc", "newBook"}

Asked(folder) == IF folder = None THEN Root ELSE folder

(* How far a call has come on its way to the place it was asked for: what it  *)
(* has gone and what is still missing make up its path.                      *)
Underway(c) ==
    LET o == op[c]
        k == job[c]
    IN /\ k.place \in Drawn \cup {Root} /\ k.seen \in Drawn \cup {0} /\ k.made \in Seq(Drawn)
       /\ pc[c] \in {"called", "destination", "path"} => k.made = <<>>
       /\ pc[c] \in {"destination", "path", "planned"} /\ Tool(c) = "upload" =>
             /\ TypeOf[o.upload] \notin Google
             /\ k.missing \in Seq(STRING)
             /\ pc[c] = "path" => o.folder = None /\ k.missing # <<>>
             /\ o.folder # None => k.missing = <<>> /\ (pc[c] = "planned" => k.place = o.folder)
             /\ o.folder = None => /\ pc[c] # "destination"
                                   /\ WayOf(Drawn, items, k.place) \in Seq(STRING)
                                   /\ WayOf(Drawn, items, k.place) \o k.missing = o.path
       /\ pc[c] \in {"destination", "planned"} /\ Tool(c) = "folder" =>
             /\ k.missing = <<o.name>> /\ k.made = <<>> /\ k.seen = 0
             /\ pc[c] = "destination" => o.folder # None
             /\ pc[c] = "planned" => k.place = Asked(o.folder)

(* Whatever folder of that name was there when the call looked is in the bin. *)
Absent(c, name, place) ==
    \A j \in 1 .. job[c].seen :
        IsFolder(j) /\ items[j].name = name /\ items[j].parent = place => BinOf(Drawn, items, binned, j)

(* So it is with the folder a call is to make next, and with those it made.  *)
Unmatched(c) ==
    pc[c] = "planned" /\ job[c].missing # <<>> => Absent(c, Head(job[c].missing), job[c].place)
Apart(c) ==
    \A i \in MadeBy(c) : Absent(c, items[i].name, items[i].parent)

(* What a call has put into Drive and does not tell of: its file, or what     *)
(* came of a request whose reply was lost.                                  *)
Extra(c) == PutBy(c) \ Range(job[c].made)

Tells(c) ==
    /\ Range(job[c].made) \subseteq MadeBy(c)
    /\ \A i, j \in Extra(c) : i = j
    /\ PutBy(c) # {} => Tool(c) \in Placers
    /\ Extra(c) # {} => pc[c] \in {"failed", "stored", "adding", "done"}
    /\ Extra(c) # {} /\ pc[c] # "failed" => Tool(c) # "folder" /\ Extra(c) \cap MadeBy(c) = {}
    /\ pc[c] \in {"stored", "adding", "done"} /\ Tool(c) \in Placers \ {"folder"} => Extra(c) # {}

(* Everything a call has put into Drive is where it was asked to be.         *)
Sited(c, i) ==
    LET way == WayOf(Drawn, items, IF i \in MadeBy(c) THEN i ELSE items[i].parent)
    IN CASE Tool(c) \in {"folder", "newDoc", "newBook"} -> items[i].parent = Asked(op[c].folder)
         [] Tool(c) = "upload" /\ op[c].folder # None -> items[i].parent = op[c].folder
         [] OTHER -> Len(way) <= Len(op[c].path) /\ way = SubSeq(op[c].path, 1, Len(way))
                     /\ (i \in MadeBy(c) \/ way = op[c].path)

CallPlaces(c) ==
    Underway(c) /\ Unmatched(c) /\ Tells(c) /\ Apart(c) /\ \A i \in PutBy(c) : Sited(c, i)

FoldersInOrder == Forest /\ \A c \in Calls : CallPlaces(c)

(* Drive grows, by what one call or person puts in; what is there stays where *)
(* it is, if it does not go into the bin.                                    *)
Grows(who) ==
    /\ Forest'
    /\ binned \subseteq binned'
    /\ \A i \in Drawn : i \in Drawn' /\ items'[i] = items[i]
    /\ \A i \in Drawn' \ Drawn : items'[i].by = who

LEMMA GrowsKeeps ==
    ASSUME Forest, NEW who, Grows(who)
    PROVE  /\ Drawn \subseteq Drawn'
           /\ \A i \in Drawn \cup {Root} : WayOf(Drawn', items', i) = WayOf(Drawn, items, i)
           /\ \A i \in Drawn : /\ items[i].parent \in Drawn \cup {Root}
                               /\ BinOf(Drawn, items, binned, i) => BinOf(Drawn', items', binned', i)
<1>1. /\ ForestOf(Drawn, items) /\ ForestOf(Drawn', items') /\ Drawn \subseteq Drawn' /\ binned \subseteq binned'
      /\ \A i \in Drawn : items'[i] = items[i]
  BY DEF Grows, Forest
<1>2. \A i \in Drawn \cup {Root} : WayOf(Drawn', items', i) = WayOf(Drawn, items, i)
  BY <1>1, WaysStay
<1>3. \A i \in Drawn : BinOf(Drawn, items, binned, i) => BinOf(Drawn', items', binned', i)
  BY <1>1, BinsStay
<1>4. \A i \in Drawn : items[i].parent \in Drawn \cup {Root}
  BY <1>1 DEF ForestOf
<1>. QED  BY <1>1, <1>2, <1>3, <1>4

(* What a call was told to be absent stays so.                               *)
LEMMA AbsentStays ==
    ASSUME Forest, NEW who, Grows(who), NEW c \in Calls, job[c].seen \in Drawn \cup {0}, job'[c].seen = job[c].seen,
           NEW name, NEW place, Absent(c, name, place)
    PROVE  Absent(c, name, place)'
<1>1. \A j \in 1 .. job[c].seen : j \in Drawn
  <2>1. CASE job[c].seen = 0
    BY <2>1
  <2>2. CASE job[c].seen \in Drawn
    BY <2>2 DEF Forest
  <2>. QED  BY <2>1, <2>2
<1>2. SUFFICES ASSUME NEW j \in 1 .. job[c].seen,
                      IsFolder(j)', items'[j].name = name, items'[j].parent = place
               PROVE  BinOf(Drawn', items', binned', j)
  BY DEF Absent
<1>3. j \in Drawn /\ items'[j] = items[j]
  BY <1>1 DEF Grows
<1>4. BinOf(Drawn, items, binned, j)
  BY <1>2, <1>3 DEF Absent, IsFolder
<1>. QED  BY <1>3, <1>4, GrowsKeeps

(* Where a thing is does not change.                                        *)
LEMMA SitedStays ==
    ASSUME Forest, NEW who, Grows(who), NEW c \in Calls, op' = op, NEW i \in PutBy(c), Sited(c, i)
    PROVE  Sited(c, i)'
<1>1. i \in Drawn /\ items'[i] = items[i] /\ i \in Drawn' /\ i \in PutBy(c)' /\ items[i].parent \in Drawn \cup {Root}
  BY GrowsKeeps DEF PutBy, Grows
<1>2. i \in MadeBy(c)' <=> i \in MadeBy(c)
  BY <1>1 DEF MadeBy
<1>. DEFINE at == IF i \in MadeBy(c) THEN i ELSE items[i].parent
<1>3. WayOf(Drawn', items', at) = WayOf(Drawn, items, at)
  BY <1>1, GrowsKeeps
<1>4. at = (IF i \in MadeBy(c)' THEN i ELSE items'[i].parent)
  BY <1>1, <1>2
<1>. QED  BY <1>1, <1>2, <1>3, <1>4 DEF Sited, Tool

(* A step of another's.                                                     *)
LEMMA OthersStayPlaced ==
    ASSUME FoldersInOrder, NEW who, Grows(who), NEW d \in Calls, d # who,
           op' = op, pc'[d] = pc[d], job'[d] = job[d]
    PROVE  CallPlaces(d)'
<1>1. Forest /\ CallPlaces(d)
  BY DEF FoldersInOrder
<1>2. PutBy(d)' = PutBy(d) /\ MadeBy(d)' = MadeBy(d)
  BY <1>1 DEF Grows, PutBy, MadeBy
<1>3. Underway(d)'
  <2>1. Underway(d)
    BY <1>1 DEF CallPlaces
  <2>2. job[d].place \in Drawn' \cup {Root} /\ job[d].seen \in Drawn' \cup {0} /\ job[d].made \in Seq(Drawn')
    BY <1>1, <2>1 DEF Underway, Grows
  <2>3. WayOf(Drawn', items', job[d].place) = WayOf(Drawn, items, job[d].place)
    BY <1>1, <2>1, GrowsKeeps DEF Underway
  <2>. QED  BY <2>1, <2>2, <2>3 DEF Underway, Tool
<1>4. job[d].seen \in Drawn \cup {0}
  BY <1>1 DEF CallPlaces, Underway
<1>5. Unmatched(d)'
  <2>1. SUFFICES ASSUME pc[d] = "planned", job[d].missing # <<>>
                 PROVE  Absent(d, Head(job[d].missing), job[d].place)'
    BY DEF Unmatched
  <2>2. Absent(d, Head(job[d].missing), job[d].place)
    BY <1>1, <2>1 DEF CallPlaces, Unmatched
  <2>3. PICK name, place : name = Head(job[d].missing) /\ place = job[d].place
    OBVIOUS
  <2>4. Absent(d, name, place)'
    BY <1>1, <1>4, <2>2, <2>3, AbsentStays
  <2>. QED  BY <2>3, <2>4 DEF Absent
<1>6. Apart(d)'
  <2>1. SUFFICES ASSUME NEW i \in MadeBy(d)  PROVE Absent(d, items[i].name, items[i].parent)'
    BY <1>2 DEF Apart
  <2>2. items'[i] = items[i] /\ Absent(d, items[i].name, items[i].parent)
    BY <1>1 DEF CallPlaces, Apart, Grows, MadeBy, PutBy
  <2>3. PICK name, place : name = items[i].name /\ place = items[i].parent
    OBVIOUS
  <2>4. Absent(d, name, place)'
    BY <1>1, <1>4, <2>2, <2>3, AbsentStays
  <2>. QED  BY <2>2, <2>3, <2>4 DEF Absent
<1>7. Tells(d)'
  BY <1>1, <1>2 DEF CallPlaces, Tells, Extra, Tool
<1>8. \A i \in PutBy(d)' : Sited(d, i)'
  BY <1>1, <1>2, SitedStays DEF CallPlaces
<1>. QED  BY <1>3, <1>5, <1>6, <1>7, <1>8 DEF CallPlaces

(* A step of a call that puts nothing in.                                   *)
Still(c) ==
    /\ op' = op
    /\ pc' = [d \in Calls |-> pc'[d]] /\ job' = [d \in Calls |-> job'[d]]
    /\ \A d \in Calls \ {c} : pc'[d] = pc[d] /\ job'[d] = job[d]
    /\ items' = items /\ binned' = binned

LEMMA NothingGrows ==
    ASSUME Forest, items' = items, binned \subseteq binned', binned' \subseteq Drawn, NEW who
    PROVE  Grows(who) /\ Drawn' = Drawn
BY DEF Grows, Forest, Drawn

LEMMA OneLooks ==
    ASSUME FoldersInOrder, NEW c \in Calls, Still(c), Underway(c)', Unmatched(c)', Tells(c)',
           MadeBy(c) = {} \/ job'[c].seen = job[c].seen
    PROVE  FoldersInOrder'
<1>1. Forest /\ CallPlaces(c)
  BY DEF FoldersInOrder
<1>2. Grows(c) /\ Drawn' = Drawn /\ PutBy(c)' = PutBy(c) /\ MadeBy(c)' = MadeBy(c)
  BY <1>1, NothingGrows DEF Still, Forest, PutBy, MadeBy
<1>3. Apart(c)'
  <2>1. SUFFICES ASSUME NEW i \in MadeBy(c)  PROVE Absent(c, items[i].name, items[i].parent)'
    BY <1>2 DEF Apart, Still
  <2>2. Absent(c, items[i].name, items[i].parent) /\ job'[c].seen = job[c].seen /\ job[c].seen \in Drawn \cup {0}
    BY <1>1 DEF CallPlaces, Apart, Underway
  <2>3. PICK name, place : name = items[i].name /\ place = items[i].parent
    OBVIOUS
  <2>4. Absent(c, name, place)'
    BY <1>1, <1>2, <2>2, <2>3, AbsentStays
  <2>. QED  BY <2>3, <2>4 DEF Absent, Still
<1>4. \A i \in PutBy(c)' : Sited(c, i)'
  BY <1>1, <1>2, SitedStays DEF CallPlaces, Still
<1>5. CallPlaces(c)'
  BY <1>3, <1>4 DEF CallPlaces
<1>6. \A d \in Calls \ {c} : CallPlaces(d)'
  BY <1>2, OthersStayPlaced DEF Still
<1>. QED  BY <1>2, <1>5, <1>6 DEF FoldersInOrder, Grows

(* What becomes of Drive when a call puts something in.                      *)
PutIn(c, i, place, item) ==
    /\ Grows(c) /\ Drawn' = Drawn \cup {i} /\ i \notin Drawn /\ items'[i] = item
    /\ \A j \in Drawn \cup {0} : j < i
    /\ PutBy(c)' = PutBy(c) \cup {i}
    /\ MadeBy(c)' = MadeBy(c) \cup (IF item.type = "folder" THEN {i} ELSE {})
    /\ WayOf(Drawn', items', i) = Append(WayOf(Drawn, items, place), item.name)

(* What Drive puts in is new, and under all that was there.                  *)
LEMMA PuttingIn ==
    ASSUME FoldersInOrder, VersionsInOrder, NEW c, NEW i \in Ids, Fresh(i),
           NEW place \in Drawn \cup {Root}, NEW item, item # None, item.parent = place, item.by = c,
           items' = [items EXCEPT ![i] = item], binned' = binned
    PROVE  PutIn(c, i, place, item)
<1>1. Forest /\ ForestOf(Drawn, items)
  BY DEF FoldersInOrder, Forest
<1>2. i \notin Drawn /\ items'[i] = item /\ \A j \in Ids \ {i} : items'[j] = items[j]
  BY DEF Fresh, VersionsInOrder
<1>3. Drawn' = Drawn \cup {i}
  BY <1>2 DEF Drawn
<1>4. Cardinality(Ids) \in Nat /\ i \in 1 .. Cardinality(Ids) /\ \A j \in Drawn : j \in Nat \ {0} /\ j \in Ids
  BY <1>1, IdsFromOne, FS_CardinalityType DEF ForestOf, Root, Drawn
<1>5. \A j \in Drawn \cup {0} : j < i
  <2>1. \A j \in Drawn : ~(i <= j)
    BY <1>1, <1>2, <1>4 DEF Forest
  <2>. QED  BY <1>4, <2>1
<1>6. \A j \in 1 .. i : j \in Drawn'
  <2>1. \A j \in 1 .. i : j \in Ids
    BY <1>4, IdsFromOne
  <2>. QED  BY <1>3, <1>4, <2>1 DEF Fresh
<1>7. \A j \in Drawn : items'[j] = items[j]
  BY <1>2, <1>4
<1>8. ForestOf(Drawn', items')
  <2>1. SUFFICES ASSUME NEW j \in Drawn'
                 PROVE  /\ j \in Nat \ {Root} /\ j <= Cardinality(Ids)
                        /\ items'[j].parent \in Drawn' \cup {Root} /\ items'[j].parent < j
    BY DEF ForestOf
  <2>2. CASE j = i
    BY <1>2, <1>3, <1>4, <1>5, <2>2 DEF Root
  <2>3. CASE j \in Drawn
    BY <1>1, <1>3, <1>7, <2>3 DEF ForestOf
  <2>. QED  BY <1>3, <2>1, <2>2, <2>3
<1>9. Forest'
  BY <1>1, <1>3, <1>6, <1>8 DEF Forest
<1>10. Grows(c)
  BY <1>2, <1>3, <1>7, <1>9 DEF Grows
<1>11. PutBy(c)' = PutBy(c) \cup {i}
  BY <1>2, <1>3, <1>7 DEF PutBy
<1>12. MadeBy(c)' = MadeBy(c) \cup (IF item.type = "folder" THEN {i} ELSE {})
  <2>1. \A j \in PutBy(c) : items'[j] = items[j]
    BY <1>7 DEF PutBy
  <2>2. \A j : j \in MadeBy(c)' <=> j \in PutBy(c)' /\ items'[j].type = "folder"
    BY DEF MadeBy
  <2>3. \A j : j \in MadeBy(c) <=> j \in PutBy(c) /\ items[j].type = "folder"
    BY DEF MadeBy
  <2>4. \A j : j \in MadeBy(c)' <=> j \in MadeBy(c) \/ (j = i /\ item.type = "folder")
    BY <1>2, <1>11, <2>1, <2>2, <2>3
  <2>. QED  BY <2>4
<1>13. WayOf(Drawn', items', i) = Append(WayOf(Drawn, items, place), item.name)
  <2>1. i \in Drawn' /\ items'[i].parent = place /\ items'[i].name = item.name
    BY <1>2, <1>3
  <2>2. WayOf(Drawn', items', i) = Append(WayOf(Drawn', items', place), item.name)
    <3>1. PICK drawn, it : drawn = Drawn' /\ it = items'
      OBVIOUS
    <3>2. ForestOf(drawn, it) /\ i \in drawn
      BY <1>8, <2>1, <3>1
    <3>3. WayOf(drawn, it, i) = Append(WayOf(drawn, it, it[i].parent), it[i].name)
      BY <3>2, WayIs
    <3>. QED  BY <2>1, <3>1, <3>3
  <2>3. WayOf(Drawn', items', place) = WayOf(Drawn, items, place)
    BY <1>1, <1>10, GrowsKeeps
  <2>. QED  BY <2>2, <2>3
<1>. QED  BY <1>2, <1>3, <1>5, <1>10, <1>11, <1>12, <1>13 DEF PutIn

(* A call that puts something in answers for it.                             *)
LEMMA OnePuts ==
    ASSUME FoldersInOrder, VersionsInOrder, NEW c \in Calls, NEW i \in Ids, Fresh(i),
           NEW place \in Drawn \cup {Root}, NEW item, item # None, item.parent = place, item.by = c,
           items' = [items EXCEPT ![i] = item], binned' = binned,
           op' = op, \A d \in Calls \ {c} : pc'[d] = pc[d] /\ job'[d] = job[d],
           Underway(c)', Unmatched(c)', Tells(c)', Sited(c, i)',
           job'[c].seen = job[c].seen \/ (MadeBy(c) = {} /\ item.type # "folder"),
           item.type = "folder" => Absent(c, item.name, place)
    PROVE  FoldersInOrder'
<1>1. Forest /\ CallPlaces(c)
  BY DEF FoldersInOrder
<1>2. /\ Grows(c) /\ items'[i] = item
      /\ PutBy(c)' = PutBy(c) \cup {i}
      /\ MadeBy(c)' = MadeBy(c) \cup (IF item.type = "folder" THEN {i} ELSE {})
  <2>1. PutIn(c, i, place, item)
    BY PuttingIn
  <2>. QED  BY <2>1 DEF PutIn
<1>3. job[c].seen \in Drawn \cup {0} /\ \A j \in MadeBy(c) : items'[j] = items[j]
  BY <1>1, <1>2 DEF CallPlaces, Underway, Grows, MadeBy, PutBy
<1>4. Apart(c)'
  <2>1. SUFFICES ASSUME NEW j \in MadeBy(c)'  PROVE Absent(c, items[j].name, items[j].parent)'
    BY DEF Apart
  <2>2. PICK name, place0 : name = items'[j].name /\ place0 = items'[j].parent
    OBVIOUS
  <2>3. Absent(c, name, place0)
    BY <1>1, <1>2, <1>3, <2>2 DEF CallPlaces, Apart
  <2>4. job'[c].seen = job[c].seen
    BY <1>2
  <2>5. Absent(c, name, place0)'
    BY <1>1, <1>2, <1>3, <2>3, <2>4, AbsentStays
  <2>. QED  BY <2>2, <2>5 DEF Absent
<1>5. \A j \in PutBy(c)' : Sited(c, j)'
  BY <1>1, <1>2, SitedStays DEF CallPlaces
<1>6. CallPlaces(c)'
  BY <1>4, <1>5 DEF CallPlaces
<1>7. \A d \in Calls \ {c} : CallPlaces(d)'
  BY <1>2, OthersStayPlaced
<1>. QED  BY <1>2, <1>6, <1>7 DEF FoldersInOrder, Grows

-----------------------------------------------------------------------------
(* The steps of a call that puts things into Drive.                          *)

PlacesInOrder == CallsInOrder /\ StationsInOrder /\ PinsInOrder /\ FoldersInOrder

(* How many things there are is the last id drawn.                           *)
LEMMA CountIsLast ==
    ASSUME Forest
    PROVE  Drawn = 1 .. Cardinality(Drawn) /\ Cardinality(Drawn) \in Drawn \cup {0}
<1>. DEFINE n == Cardinality(Ids)
            Above == {n - j : j \in Drawn}
<1>1. n \in Nat /\ \A j \in Drawn : j \in 1 .. n
  BY IdsFromOne, FS_CardinalityType DEF Drawn
<1>2. \E m \in Nat : Drawn = 1 .. m
  <2>1. CASE Drawn = {}
    <3>1. Drawn = 1 .. 0
      BY <2>1
    <3>. QED  BY <3>1
  <2>2. CASE Drawn # {}
    <3>1. Above \subseteq Nat /\ Above # {}
      BY <1>1, <2>2
    <3>2. PICK k \in Above : \A j \in Above : k <= j
      <4>. HIDE DEF Above
      <4>. QED  BY <3>1, First
    <3>3. PICK m \in Drawn : k = n - m
      BY <3>2
    <3>4. \A j \in Drawn : j <= m
      <4>1. SUFFICES ASSUME NEW j \in Drawn  PROVE j <= m
        OBVIOUS
      <4>2. n - j \in Above
        OBVIOUS
      <4>3. n - m <= n - j
        <5>. HIDE DEF Above
        <5>. QED  BY <3>2, <3>3, <4>2
      <4>. QED  BY <1>1, <4>3
    <3>5. \A j \in 1 .. m : j \in Drawn
      BY DEF Forest
    <3>6. Drawn = 1 .. m /\ m \in Nat
      <4>1. m \in Nat /\ \A j \in Drawn : j \in 1 .. m
        BY <1>1, <3>4
      <4>. QED  BY <3>5, <4>1
    <3>. QED  BY <3>6
  <2>. QED  BY <2>1, <2>2
<1>3. PICK m \in Nat : Drawn = 1 .. m
  BY <1>2
<1>4. Cardinality(Drawn) = m
  <2>1. Cardinality(1 .. m) = IF 1 > m THEN 0 ELSE m - 1 + 1
    BY FS_Interval
  <2>. QED  BY <1>3, <2>1
<1>. QED  BY <1>3, <1>4

(* What a call that has not yet put anything in knows.                       *)
LEMMA NothingYet ==
    ASSUME PlacesInOrder, NEW c \in Calls
    PROVE  /\ pc[c] \in {"called", "destination", "path"} => job[c].made = <<>>
           /\ pc[c] \notin {"failed", "stored", "adding", "done"} => Extra(c) = {}
           /\ Extra(c) = {} /\ job[c].made = <<>> => PutBy(c) = {} /\ MadeBy(c) = {}
           /\ Tool(c) \notin Placers => PutBy(c) = {} /\ MadeBy(c) = {} /\ job[c].made = <<>> /\ Extra(c) = {}
<1>1. Underway(c) /\ Tells(c)
  BY DEF PlacesInOrder, FoldersInOrder, CallPlaces
<1>2. Range(<<>>) = {}
  BY DEF Range
<1>3. MadeBy(c) \subseteq PutBy(c)
  BY DEF MadeBy
<1>4. Range(job[c].made) = {} => job[c].made = <<>>
  <2>1. job[c].made \in Seq(Drawn)
    BY <1>1 DEF Underway
  <2>2. job[c].made # <<>> => 1 \in DOMAIN job[c].made
    BY <2>1
  <2>. QED  BY <2>2 DEF Range
<1>. QED  BY <1>1, <1>2, <1>3, <1>4 DEF Underway, Tells, Extra

(* A read moves one call, which knows what it has found.                     *)
LEMMA ReadingIsStill ==
    ASSUME PlacesInOrder, NEW c \in Calls, NEW to, NEW found, Read(c, to, found)
    PROVE  Still(c) /\ pc'[c] = to /\ job'[c] = found
BY DEF PlacesInOrder, CallsInOrder, PinsInOrder, JobsInOrder, Read, Goto, Still, drive

LEMMA GivingUpIsStill ==
    ASSUME PlacesInOrder, NEW c \in Calls, Refuse(c) \/ Fail(c)
    PROVE  Still(c) /\ pc'[c] \in {"refused", "failed"} /\ job'[c] = job[c]
BY DEF PlacesInOrder, CallsInOrder, PinsInOrder, JobsInOrder, Refuse, Fail, Goto, Still, driveVars, drive

(* Where nothing was put in that is not told of.                             *)
LEMMA StillTells ==
    ASSUME PlacesInOrder, NEW c \in Calls, Still(c), Extra(c) = {}, job'[c].made = job[c].made,
           pc'[c] \in {"stored", "adding", "done"} => Tool(c) \notin Placers \ {"folder"}
    PROVE  Tells(c)'
<1>1. Tells(c)
  BY DEF PlacesInOrder, FoldersInOrder, CallPlaces
<1>2. PutBy(c)' = PutBy(c) /\ MadeBy(c)' = MadeBy(c) /\ Extra(c)' = {}
  BY DEF Still, PutBy, MadeBy, Drawn, Extra
<1>. QED  BY <1>1, <1>2 DEF Tells, Still, Tool

LEMMA GivingUpPlaces ==
    ASSUME PlacesInOrder, NEW c \in Calls, Refuse(c) \/ Fail(c),
           pc[c] \notin {"failed", "stored", "adding", "done"}
    PROVE  FoldersInOrder'
<1>1. Still(c) /\ pc'[c] \in {"refused", "failed"} /\ job'[c] = job[c]
  BY GivingUpIsStill
<1>2. Extra(c) = {}
  BY NothingYet
<1>3. Tells(c)'
  BY <1>1, <1>2, StillTells
<1>4. Underway(c)'
  <2>1. Underway(c)
    BY DEF PlacesInOrder, FoldersInOrder, CallPlaces
  <2>. QED  BY <1>1, <2>1 DEF Underway, Still, Drawn
<1>5. Unmatched(c)'
  BY <1>1 DEF Unmatched
<1>. QED  BY <1>1, <1>3, <1>4, <1>5, OneLooks DEF PlacesInOrder

(* A call that puts nothing into Drive.                                     *)
LEMMA StrangersPlace ==
    ASSUME PlacesInOrder, NEW c \in Calls, Still(c), Tool(c) \notin Placers,
           job'[c].place \in Drawn \cup {Root}, job'[c].seen \in Drawn \cup {0}, job'[c].made \in {<<>>, job[c].made},
           StationsInOrder'
    PROVE  FoldersInOrder'
<1>1. PutBy(c) = {} /\ MadeBy(c) = {} /\ job[c].made = <<>> /\ Extra(c) = {}
  BY NothingYet
<1>2. pc'[c] \notin {"destination", "path", "planned"} /\ Tool(c)' = Tool(c)
  <2>1. Tool(c)' = Tool(c) /\ pc'[c] \in Stations(Tool(c))
    BY DEF Still, Tool, StationsInOrder, Stationed
  <2>. QED  BY <2>1, ToolsThere DEF Placers
<1>3. Tells(c)'
  BY <1>1, StillTells DEF Placers
<1>4. Underway(c)'
  <2>1. job'[c].made = <<>> /\ Drawn' = Drawn /\ <<>> \in Seq(Drawn')
    BY <1>1 DEF Still, Drawn
  <2>2. job'[c].place \in Drawn' \cup {Root} /\ job'[c].seen \in Drawn' \cup {0} /\ job'[c].made \in Seq(Drawn')
    BY <2>1
  <2>3. pc'[c] # "destination" /\ pc'[c] # "path" /\ pc'[c] # "planned"
    BY <1>2
  <2>. QED  BY <2>1, <2>2, <2>3 DEF Underway
<1>5. Unmatched(c)'
  BY <1>2 DEF Unmatched
<1>. QED  BY <1>1, <1>3, <1>4, <1>5, OneLooks DEF PlacesInOrder

(* A call that has put its file in goes on to the end.                       *)
LEMMA GoingOnPlaces ==
    ASSUME PlacesInOrder, NEW c \in Calls, Still(c), pc[c] \in {"stored", "adding"}, pc'[c] \in {"adding", "done"},
           job'[c].place = job[c].place, job'[c].seen = job[c].seen, job'[c].made = job[c].made
    PROVE  FoldersInOrder'
<1>1. Underway(c) /\ Tells(c)
  BY DEF PlacesInOrder, FoldersInOrder, CallPlaces
<1>2. Drawn' = Drawn /\ PutBy(c)' = PutBy(c) /\ MadeBy(c)' = MadeBy(c) /\ Extra(c)' = Extra(c) /\ Tool(c)' = Tool(c)
  BY DEF Still, PutBy, MadeBy, Drawn, Extra, Tool
<1>3. Underway(c)'
  <2>1. pc'[c] # "called" /\ pc'[c] # "destination" /\ pc'[c] # "path" /\ pc'[c] # "planned"
    OBVIOUS
  <2>. QED  BY <1>1, <1>2, <2>1 DEF Underway
<1>4. Unmatched(c)'
  BY DEF Unmatched
<1>5. Tells(c)'
  BY <1>1, <1>2 DEF Tells
<1>. QED  BY <1>3, <1>4, <1>5, OneLooks DEF PlacesInOrder

(* What a call asks for has its parts.                                      *)
LEMMA Paths ==
    ASSUME op \in Ops, NEW c \in Calls, Tool(c) = "upload"
    PROVE  op[c].path \in Seq(STRING)
BY CallsAskForThings DEF Tool

LEMMA RootIsFirst ==
    ASSUME Forest
    PROVE  WayOf(Drawn, items, Root) = <<>>
BY WayIs DEF Forest

LEMMA UploadPlaces ==
    ASSUME PlacesInOrder, NEW c \in Calls, DriveUpload(c)
    PROVE  FoldersInOrder'
<1>. DEFINE o == op[c]
            found == [NoJob EXCEPT !.missing = o.path, !.seen = Cardinality(Drawn)]
            to == CASE o.folder # None -> "destination" [] o.path # <<>> -> "path" [] OTHER -> "planned"
<1>1. pc[c] = "called" /\ Tool(c) = "upload"
  BY DEF DriveUpload, Under, Tool
<1>2. CASE Refuse(c)
  BY <1>1, <1>2, GivingUpPlaces
<1>3. CASE /\ ~(o.folder # None /\ o.path # <<>>) /\ TypeOf[o.upload] \notin Google
           /\ Read(c, to, found)
  <2>0. op \in Ops /\ Forest
    BY DEF PlacesInOrder, CallsInOrder, FoldersInOrder
  <2>1. Still(c) /\ pc'[c] = to /\ job'[c] = found
    BY <1>3, ReadingIsStill
  <2>. HIDE DEF to
  <2>2. found.place = Root /\ found.missing = o.path /\ found.made = <<>> /\ found.seen = Cardinality(Drawn)
    BY DEF NoJob
  <2>. HIDE DEF found
  <2>3. job[c].made = <<>> /\ Extra(c) = {} /\ MadeBy(c) = {}
    BY <1>1, NothingYet
  <2>4. Tool(c)' = Tool(c) /\ Drawn' = Drawn /\ items' = items /\ op' = op
    BY <2>1 DEF Still, Tool, Drawn
  <2>5. to \in {"destination", "path", "planned"} /\ o.path \in Seq(STRING)
        /\ (to = "path" => o.folder = None /\ o.path # <<>>)
        /\ (to = "destination" => o.folder # None)
        /\ (o.folder # None => to = "destination")
        /\ (to = "planned" => o.path = <<>>)
        /\ (o.folder # None => o.path = <<>>)
    BY <1>1, <1>3, <2>0, Paths DEF to
  <2>6. Tells(c)'
    BY <2>1, <2>2, <2>3, <2>5, StillTells
  <2>7. Underway(c)'
    <3>1. job'[c].place \in Drawn' \cup {Root} /\ job'[c].seen \in Drawn' \cup {0} /\ job'[c].made \in Seq(Drawn')
      BY <2>0, <2>1, <2>2, <2>4, CountIsLast
    <3>2. WayOf(Drawn', items', Root) = <<>> /\ <<>> \in Seq(STRING) /\ <<>> \o o.path = o.path
      BY <2>0, <2>4, <2>5, RootIsFirst
    <3>. QED  BY <1>1, <1>3, <2>1, <2>2, <2>4, <2>5, <3>1, <3>2 DEF Underway
  <2>8. Unmatched(c)'
    BY <2>1, <2>2, <2>5 DEF Unmatched
  <2>. QED  BY <2>1, <2>3, <2>6, <2>7, <2>8, OneLooks DEF PlacesInOrder
<1>. QED  BY <1>1, <1>2, <1>3 DEF DriveUpload

LEMMA FolderPlaces ==
    ASSUME PlacesInOrder, NEW c \in Calls, DriveCreateFolder(c)
    PROVE  FoldersInOrder'
<1>. DEFINE o == op[c]
            found == [NoJob EXCEPT !.missing = <<o.name>>]
            to == IF o.folder # None THEN "destination" ELSE "planned"
<1>1. pc[c] = "called" /\ Tool(c) = "folder"
  BY DEF DriveCreateFolder, Under, Tool
<1>2. CASE Refuse(c)
  BY <1>1, <1>2, GivingUpPlaces
<1>3. CASE Read(c, to, found)
  <2>1. Still(c) /\ pc'[c] = to /\ job'[c] = found
    BY <1>3, ReadingIsStill
  <2>2. found.place = Root /\ found.missing = <<o.name>> /\ found.made = <<>> /\ found.seen = 0
    BY DEF NoJob
  <2>. HIDE DEF found
  <2>3. job[c].made = <<>> /\ Extra(c) = {} /\ MadeBy(c) = {}
    BY <1>1, NothingYet
  <2>4. Tool(c)' = Tool(c) /\ Drawn' = Drawn /\ op' = op
    BY <2>1 DEF Still, Tool, Drawn
  <2>6. Tells(c)'
    BY <1>1, <2>1, <2>2, <2>3, StillTells
  <2>7. Underway(c)'
    <3>1. job'[c].place \in Drawn' \cup {Root} /\ job'[c].seen \in Drawn' \cup {0} /\ job'[c].made \in Seq(Drawn')
      BY <2>1, <2>2
    <3>. QED  BY <1>1, <2>1, <2>2, <2>4, <3>1 DEF Underway, Asked
  <2>8. Unmatched(c)'
    <3>1. 1 .. job'[c].seen = {}
      BY <2>1, <2>2
    <3>. QED  BY <3>1 DEF Unmatched, Absent
  <2>. QED  BY <2>1, <2>3, <2>6, <2>7, <2>8, OneLooks DEF PlacesInOrder
<1>. QED  BY <1>2, <1>3 DEF DriveCreateFolder

LEMMA DestinationPlaces ==
    ASSUME PlacesInOrder, NEW c \in Calls, Destination(c)
    PROVE  FoldersInOrder'
<1>. DEFINE folder == op[c].folder
            found == [job[c] EXCEPT !.place = folder]
<1>1. pc[c] = "destination" /\ Tool(c) \in {"upload", "folder"}
  BY WhoIsThere DEF Destination, PlacesInOrder, StationsInOrder
<1>2. CASE Refuse(c) \/ Fail(c)
  BY <1>1, <1>2, GivingUpPlaces
<1>3. CASE IsFolder(folder) /\ Read(c, "planned", found)
  <2>0. Underway(c) /\ IsJob(job[c])
    BY DEF PlacesInOrder, FoldersInOrder, CallPlaces, PinsInOrder, JobsInOrder
  <2>1. Still(c) /\ pc'[c] = "planned" /\ job'[c] = found /\ folder \in Drawn
    BY <1>3, ReadingIsStill DEF IsFolder
  <2>2. found.place = folder /\ found.missing = job[c].missing /\ found.made = job[c].made /\ found.seen = job[c].seen
    BY <2>0 DEF IsJob, NoJob
  <2>. HIDE DEF found
  <2>3. job[c].made = <<>> /\ Extra(c) = {} /\ MadeBy(c) = {}
    BY <1>1, NothingYet
  <2>4. Tool(c)' = Tool(c) /\ Drawn' = Drawn /\ op' = op
    BY <2>1 DEF Still, Tool, Drawn
  <2>6. Tells(c)'
    BY <2>1, <2>2, <2>3, StillTells
  <2>7. Underway(c)' /\ (Tool(c) = "upload" => job[c].missing = <<>>) /\ (Tool(c) = "folder" => job[c].seen = 0)
    <3>1. job'[c].place \in Drawn' \cup {Root} /\ job'[c].seen \in Drawn' \cup {0} /\ job'[c].made \in Seq(Drawn')
      BY <2>0, <2>1, <2>2, <2>4 DEF Underway
    <3>2. CASE Tool(c) = "upload"
      BY <1>1, <2>0, <2>1, <2>2, <2>4, <3>1, <3>2 DEF Underway
    <3>3. CASE Tool(c) = "folder"
      BY <1>1, <2>0, <2>1, <2>2, <2>4, <3>1, <3>3 DEF Underway, Asked
    <3>. QED  BY <1>1, <3>2, <3>3
  <2>8. Unmatched(c)'
    <3>1. CASE Tool(c) = "upload"
      BY <2>1, <2>2, <2>7, <3>1 DEF Unmatched
    <3>2. CASE Tool(c) = "folder"
      <4>1. 1 .. job'[c].seen = {}
        BY <2>1, <2>2, <2>7, <3>2
      <4>. QED  BY <4>1 DEF Unmatched, Absent
    <3>. QED  BY <1>1, <3>1, <3>2
  <2>. QED  BY <2>1, <2>3, <2>6, <2>7, <2>8, OneLooks DEF PlacesInOrder
<1>. QED  BY <1>2, <1>3 DEF Destination

(* The names gone and the names to go, a name further.                       *)
LEMMA NameFurther ==
    ASSUME NEW m \in Seq(STRING), m # <<>>, NEW w \in Seq(STRING), NEW path, w \o m = path
    PROVE  /\ Head(m) \in STRING /\ Tail(m) \in Seq(STRING)
           /\ Append(w, Head(m)) \in Seq(STRING) /\ Append(w, Head(m)) \o Tail(m) = path
           /\ Len(m) = 1 <=> Tail(m) = <<>>
<1>1. Head(m) \in STRING /\ Tail(m) \in Seq(STRING) /\ Append(w, Head(m)) \in Seq(STRING)
  OBVIOUS
<1>2. Len(m) = 1 <=> Tail(m) = <<>>
  <2>1. Len(m) \in Nat /\ Len(m) # 0 /\ Len(Tail(m)) = Len(m) - 1
    BY EmptySeq
  <2>2. Tail(m) = <<>> <=> Len(Tail(m)) = 0
    BY <1>1, EmptySeq
  <2>. QED  BY <2>1, <2>2
<1>3. Append(w, Head(m)) \o Tail(m) = w \o m
  <2>1. m = <<Head(m)>> \o Tail(m) /\ <<Head(m)>> \in Seq(STRING) /\ Append(w, Head(m)) = w \o <<Head(m)>>
    OBVIOUS
  <2>2. w \o (<<Head(m)>> \o Tail(m)) = (w \o <<Head(m)>>) \o Tail(m)
    BY <1>1, <2>1, ConcatAssociative
  <2>. QED  BY <2>1, <2>2
<1>. QED  BY <1>1, <1>2, <1>3

LEMMA GoneIsPrefix ==
    ASSUME NEW m \in Seq(STRING), NEW w \in Seq(STRING), NEW path, w \o m = path
    PROVE  Len(w) <= Len(path) /\ w = SubSeq(path, 1, Len(w)) /\ (m = <<>> => w = path)
<1>1. path \in Seq(STRING) /\ Len(path) = Len(w) + Len(m) /\ Len(w) \in Nat /\ Len(m) \in Nat
  <2>1. w \o m \in Seq(STRING) /\ Len(w \o m) = Len(w) + Len(m)
    BY ConcatProperties
  <2>. QED  BY <2>1
<1>2. \A k \in 1 .. Len(w) : path[k] = w[k]
  OBVIOUS
<1>3. SubSeq(path, 1, Len(w)) = w
  OBVIOUS
<1>4. m = <<>> => w = path
  OBVIOUS
<1>. QED  BY <1>1, <1>3, <1>4

LEMMA BinsAreBins == \A j : InBin(j) = BinOf(Drawn, items, binned, j)
BY Zenon DEF InBin, BinOf

LEMMA WaysAreWays == \A j : Way(j) = WayOf(Drawn, items, j)
BY Zenon DEF Way, WayOf

LEMMA LookingPlaces ==
    ASSUME PlacesInOrder, NEW c \in Calls, LookUp(c)
    PROVE  FoldersInOrder'
<1>. DEFINE o == op[c]
            k == job[c]
            name == Head(k.missing)
            found == FoldersNamed(k.place, name)
<1>0. /\ Forest /\ Underway(c) /\ IsJob(k)
      /\ pc[c] = "path" /\ Tool(c) = "upload" /\ k.missing # <<>>
  BY WhoIsThere DEF PlacesInOrder, FoldersInOrder, CallPlaces, PinsInOrder, JobsInOrder, LookUp, StationsInOrder
<1>1. k.made = <<>> /\ Extra(c) = {} /\ MadeBy(c) = {} /\ PutBy(c) = {}
  BY <1>0, NothingYet
<1>2. /\ TypeOf[o.upload] \notin Google /\ o.folder = None /\ k.missing \in Seq(STRING)
      /\ WayOf(Drawn, items, k.place) \in Seq(STRING) /\ WayOf(Drawn, items, k.place) \o k.missing = o.path
      /\ k.place \in Drawn \cup {Root} /\ k.seen \in Drawn \cup {0}
  BY <1>0 DEF Underway
<1>3. CASE Refuse(c) \/ Fail(c)
  BY <1>0, <1>3, GivingUpPlaces
<1>4. ASSUME found = {}, Read(c, "planned", [k EXCEPT !.seen = Cardinality(Drawn)])
      PROVE  FoldersInOrder'
  <2>. DEFINE new == [k EXCEPT !.seen = Cardinality(Drawn)]
  <2>1. Still(c) /\ pc'[c] = "planned" /\ job'[c] = new
    BY <1>4, ReadingIsStill
  <2>2. new.place = k.place /\ new.missing = k.missing /\ new.made = k.made /\ new.seen = Cardinality(Drawn)
    BY <1>0 DEF IsJob, NoJob
  <2>. HIDE DEF new
  <2>4. Tool(c)' = Tool(c) /\ Drawn' = Drawn /\ items' = items /\ binned' = binned /\ op' = op
    BY <2>1 DEF Still, Tool, Drawn
  <2>6. Tells(c)'
    BY <1>0, <1>1, <2>1, <2>2, StillTells
  <2>7. Underway(c)'
    <3>1. job'[c].place \in Drawn' \cup {Root} /\ job'[c].seen \in Drawn' \cup {0} /\ job'[c].made \in Seq(Drawn')
      BY <1>0, <1>1, <1>2, <2>1, <2>2, <2>4, CountIsLast
    <3>. QED  BY <1>0, <1>1, <1>2, <2>1, <2>2, <2>4, <3>1 DEF Underway
  <2>8. Unmatched(c)'
    <3>1. \A j : IsFolder(j) /\ items[j].name = name /\ items[j].parent = k.place => BinOf(Drawn, items, binned, j)
      BY <1>4, BinsAreBins DEF FoldersNamed, IsFolder
    <3>2. \A j : IsFolder(j)' /\ items'[j].name = name /\ items'[j].parent = k.place => BinOf(Drawn', items', binned', j)
      BY <2>4, <3>1 DEF IsFolder
    <3>3. Head(job'[c].missing) = name /\ job'[c].place = k.place
      BY <2>1, <2>2
    <3>. QED  BY <3>2, <3>3 DEF Unmatched, Absent
  <2>. QED  BY <1>1, <2>1, <2>6, <2>7, <2>8, OneLooks DEF PlacesInOrder
<1>5. ASSUME NEW i \in found, Inside(c, i)
      PROVE  FoldersInOrder'
  <2>. DEFINE new == [k EXCEPT !.place = i, !.missing = Tail(k.missing)]
              to == IF Len(k.missing) = 1 THEN "planned" ELSE "path"
  <2>1. Still(c) /\ pc'[c] = to /\ job'[c] = new
    BY <1>5, ReadingIsStill DEF Inside
  <2>2. new.place = i /\ new.missing = Tail(k.missing) /\ new.made = k.made /\ new.seen = k.seen
    BY <1>0 DEF IsJob, NoJob
  <2>. HIDE DEF new
  <2>3. i \in Drawn /\ items[i].name = name /\ items[i].parent = k.place
    BY DEF FoldersNamed
  <2>4. Tool(c)' = Tool(c) /\ Drawn' = Drawn /\ items' = items /\ binned' = binned /\ op' = op
    BY <2>1 DEF Still, Tool, Drawn
  <2>5. PICK w \in Seq(STRING) : w = WayOf(Drawn, items, k.place) /\ w \o k.missing = o.path
    BY <1>2
  <2>6. /\ Tail(k.missing) \in Seq(STRING)
        /\ Append(w, name) \in Seq(STRING) /\ Append(w, name) \o Tail(k.missing) = o.path
        /\ Len(k.missing) = 1 <=> Tail(k.missing) = <<>>
    <3>1. PICK m, path : m = k.missing /\ path = o.path
      OBVIOUS
    <3>2. m \in Seq(STRING) /\ m # <<>> /\ w \o m = path
      BY <1>0, <1>2, <2>5, <3>1
    <3>3. /\ Tail(m) \in Seq(STRING) /\ Append(w, Head(m)) \in Seq(STRING) /\ Append(w, Head(m)) \o Tail(m) = path
          /\ Len(m) = 1 <=> Tail(m) = <<>>
      BY <3>2, NameFurther
    <3>. QED  BY <3>1, <3>3
  <2>7. WayOf(Drawn, items, i) = Append(w, name)
    BY <1>0, <2>3, <2>5, WayIs DEF Forest
  <2>8. Tells(c)'
    BY <1>0, <1>1, <2>1, <2>2, StillTells
  <2>9. to \in {"path", "planned"} /\ (to = "path" => Tail(k.missing) # <<>>) /\ (to = "planned" => Tail(k.missing) = <<>>)
    BY <2>6 DEF to
  <2>. HIDE DEF to
  <2>10. Underway(c)'
    <3>1. job'[c].place \in Drawn' \cup {Root} /\ job'[c].seen \in Drawn' \cup {0} /\ job'[c].made \in Seq(Drawn')
      BY <1>1, <1>2, <2>1, <2>2, <2>3, <2>4
    <3>. QED  BY <1>0, <1>1, <1>2, <2>1, <2>2, <2>4, <2>6, <2>7, <2>9, <3>1 DEF Underway
  <2>11. Unmatched(c)'
    BY <2>1, <2>2, <2>9 DEF Unmatched
  <2>. QED  BY <1>1, <2>1, <2>8, <2>10, <2>11, OneLooks DEF PlacesInOrder
<1>. QED  BY <1>3, <1>4, <1>5 DEF LookUp

LEMMA PreviewPlaces ==
    ASSUME PlacesInOrder, NEW c \in Calls, Preview(c)
    PROVE  FoldersInOrder'
<1>1. Still(c) /\ pc'[c] = "called" /\ job'[c] = NoJob /\ pc[c] = "planned" /\ job[c].made = <<>>
  BY ReadingIsStill DEF Preview
<1>2. Extra(c) = {} /\ MadeBy(c) = {}
  BY <1>1, NothingYet
<1>3. Tells(c)'
  BY <1>1, <1>2, StillTells DEF NoJob
<1>4. Underway(c)'
  <2>1. job'[c].place = Root /\ job'[c].seen = 0 /\ job'[c].made = <<>> /\ pc'[c] = "called"
    BY <1>1 DEF NoJob
  <2>. QED  BY <2>1 DEF Underway
<1>5. Unmatched(c)'
  BY <1>1 DEF Unmatched
<1>. QED  BY <1>1, <1>2, <1>3, <1>4, <1>5, OneLooks DEF PlacesInOrder

(* What a call puts in where Drive keeps it.                                 *)
NoneIsNoItem == \A r : IsItem(r) => r # None

HasPut(c, i, item, to, found) ==
    /\ Fresh(i) /\ item # None /\ item.by = c
    /\ items' = [items EXCEPT ![i] = item] /\ binned' = binned
    /\ op' = op /\ \A d \in Calls \ {c} : pc'[d] = pc[d] /\ job'[d] = job[d]
    /\ \/ pc'[c] = to /\ job'[c] = found
       \/ pc'[c] = "failed" /\ job'[c] = job[c]

LEMMA PutIsThere ==
    ASSUME NoneIsNoItem, PlacesInOrder, NEW c \in Calls, NEW i \in Ids, NEW item, NEW to, NEW found,
           IsItem(item), item.by = c, Open(item.parent), Put(c, i, item, to, found)
    PROVE  /\ item.parent \in Drawn \cup {Root}
           /\ HasPut(c, i, item, to, found)
           /\ PutIn(c, i, item.parent, item)
<1>1. item # None /\ item.parent = item.parent
  BY DEF NoneIsNoItem
<1>2. Fresh(i) /\ items' = [items EXCEPT ![i] = item] /\ binned' = binned
  BY DEF Put
<1>3. /\ op' = op /\ \A d \in Calls \ {c} : pc'[d] = pc[d] /\ job'[d] = job[d]
      /\ \/ pc'[c] = to /\ job'[c] = found
         \/ pc'[c] = "failed" /\ job'[c] = job[c]
  BY DEF Put, Goto, PlacesInOrder, CallsInOrder, PinsInOrder, JobsInOrder
<1>4. item.parent \in Drawn \cup {Root} /\ FoldersInOrder /\ VersionsInOrder
  BY DEF Open, PlacesInOrder, PinsInOrder
<1>5. PutIn(c, i, item.parent, item)
  BY <1>1, <1>2, <1>4, PuttingIn
<1>. QED  BY <1>1, <1>2, <1>3, <1>4, <1>5 DEF HasPut

(* A request that put the thing in, and whose reply was lost.                *)
LEMMA LostPlaces ==
    ASSUME PlacesInOrder, NEW c \in Calls, NEW i \in Ids, NEW place \in Drawn \cup {Root}, NEW item,
           Fresh(i), item # None, item.parent = place, item.by = c,
           items' = [items EXCEPT ![i] = item], binned' = binned,
           op' = op, \A d \in Calls \ {c} : pc'[d] = pc[d] /\ job'[d] = job[d],
           pc'[c] = "failed", job'[c] = job[c], Extra(c) = {}, Tool(c) \in Placers, Sited(c, i)',
           item.type = "folder" => Absent(c, item.name, place)
    PROVE  FoldersInOrder'
<1>1. FoldersInOrder /\ VersionsInOrder /\ Underway(c) /\ Tells(c)
  BY DEF PlacesInOrder, FoldersInOrder, CallPlaces, PinsInOrder
<1>2. /\ Drawn' = Drawn \cup {i} /\ PutBy(c)' = PutBy(c) \cup {i}
      /\ MadeBy(c)' = MadeBy(c) \cup (IF item.type = "folder" THEN {i} ELSE {})
  <2>1. PutIn(c, i, place, item)
    BY <1>1, PuttingIn
  <2>. QED  BY <2>1 DEF PutIn
<1>3. Underway(c)'
  <2>1. job'[c].place \in Drawn' \cup {Root} /\ job'[c].seen \in Drawn' \cup {0} /\ job'[c].made \in Seq(Drawn')
    BY <1>1, <1>2 DEF Underway
  <2>2. pc'[c] # "called" /\ pc'[c] # "destination" /\ pc'[c] # "path" /\ pc'[c] # "planned"
    OBVIOUS
  <2>. QED  BY <2>1, <2>2 DEF Underway
<1>4. Unmatched(c)'
  BY DEF Unmatched
<1>5. Tells(c)'
  <2>1. Extra(c)' \subseteq {i} /\ Range(job[c].made)' \subseteq MadeBy(c)' /\ Tool(c)' = Tool(c)
    <3>1. Range(job'[c].made) = Range(job[c].made)
      OBVIOUS
    <3>. QED  BY <1>1, <1>2, <3>1 DEF Tells, Extra, Tool
  <2>. QED  BY <2>1 DEF Tells
<1>. QED  BY <1>1, <1>3, <1>4, <1>5, OnePuts

(* A file put in where it was asked for.                                     *)
WhereAsked(c, place) ==
    \/ Tool(c) \in {"newDoc", "newBook"} /\ place = Asked(op[c].folder)
    \/ Tool(c) = "upload" /\ pc[c] = "planned" /\ job[c].missing = <<>> /\ place = job[c].place

LEMMA FilePlaces ==
    ASSUME NoneIsNoItem, PlacesInOrder, NEW c \in Calls, NEW i \in Ids, NEW item, NEW to, NEW found,
           IsItem(item), item.by = c, Open(item.parent), Put(c, i, item, to, found), item.type # "folder",
           pc[c] \in {"called", "planned"}, to \in {"stored", "adding", "done"},
           found.place \in Drawn \cup {Root, i}, found.made = job[c].made,
           found.seen = job[c].seen \/ (found.seen = 0 /\ MadeBy(c) = {}),
           WhereAsked(c, item.parent)
    PROVE  FoldersInOrder'
<1>. DEFINE place == item.parent
            type == item.type
<1>0. /\ item.parent \in Drawn \cup {Root}
      /\ HasPut(c, i, item, to, found)
      /\ PutIn(c, i, item.parent, item)
  BY PutIsThere
<1>1. /\ Fresh(i) /\ place \in Drawn \cup {Root} /\ item # None /\ item.parent = place /\ item.by = c
      /\ item.type = type
      /\ items' = [items EXCEPT ![i] = item] /\ binned' = binned
      /\ PutIn(c, i, place, item)
      /\ op' = op /\ \A d \in Calls \ {c} : pc'[d] = pc[d] /\ job'[d] = job[d]
      /\ \/ pc'[c] = to /\ job'[c] = found
         \/ pc'[c] = "failed" /\ job'[c] = job[c]
  BY <1>0 DEF HasPut
<1>2. /\ Drawn' = Drawn \cup {i} /\ i \notin Drawn /\ items'[i] = item
      /\ PutBy(c)' = PutBy(c) \cup {i} /\ MadeBy(c)' = MadeBy(c) /\ Grows(c)
  BY <1>1 DEF PutIn
<1>3. FoldersInOrder /\ VersionsInOrder /\ Forest /\ Underway(c) /\ Tells(c)
  BY DEF PlacesInOrder, FoldersInOrder, CallPlaces, PinsInOrder
<1>4. Extra(c) = {} /\ Tool(c) \in Placers \ {"folder"} /\ Tool(c)' = Tool(c)
  BY <1>1, NothingYet DEF Placers, Tool, WhereAsked
<1>5. i \notin MadeBy(c) /\ items'[i].parent = place
  BY <1>1, <1>2 DEF MadeBy, PutBy
<1>6. Sited(c, i)'
  <2>1. CASE Tool(c) \in {"newDoc", "newBook"}
    BY <1>1, <1>4, <1>5, <2>1 DEF Sited, Asked, WhereAsked
  <2>2. CASE Tool(c) = "upload"
    <3>1. /\ job[c].missing = <<>> /\ place = job[c].place
          /\ op[c].folder # None => place = op[c].folder
          /\ op[c].folder = None => /\ WayOf(Drawn, items, place) \in Seq(STRING)
                                    /\ WayOf(Drawn, items, place) \o <<>> = op[c].path
      BY <1>3, <2>2 DEF Underway, WhereAsked
    <3>2. CASE op[c].folder # None
      BY <1>1, <1>4, <1>5, <2>2, <3>1, <3>2 DEF Sited
    <3>3. CASE op[c].folder = None
      <4>1. PICK w \in Seq(STRING) : w = WayOf(Drawn, items, place) /\ w \o <<>> = op[c].path
        BY <3>1, <3>3
      <4>2. <<>> \in Seq(STRING)
        OBVIOUS
      <4>3. Len(w) <= Len(op[c].path) /\ w = SubSeq(op[c].path, 1, Len(w)) /\ w = op[c].path
        BY <4>1, <4>2, GoneIsPrefix
      <4>4. WayOf(Drawn', items', place) = w
        BY <1>1, <1>2, <1>3, <4>1, GrowsKeeps
      <4>5. i \notin MadeBy(c)' /\ op'[c] = op[c] /\ items'[i].parent = place /\ Tool(c)' = "upload"
        BY <1>1, <1>2, <1>4, <1>5, <2>2
      <4>. QED  BY <3>3, <4>3, <4>4, <4>5 DEF Sited
    <3>. QED  BY <3>2, <3>3
  <2>. QED  BY <2>1, <2>2 DEF WhereAsked
<1>7. CASE pc'[c] = "failed" /\ job'[c] = job[c]
  BY <1>1, <1>4, <1>6, <1>7, LostPlaces
<1>8. CASE pc'[c] = to /\ job'[c] = found
  <2>1. Underway(c)'
    <3>1. job'[c].place \in Drawn' \cup {Root} /\ job'[c].seen \in Drawn' \cup {0} /\ job'[c].made \in Seq(Drawn')
      BY <1>2, <1>3, <1>8 DEF Underway
    <3>2. pc'[c] # "called" /\ pc'[c] # "destination" /\ pc'[c] # "path" /\ pc'[c] # "planned"
      BY <1>8
    <3>. QED  BY <3>1, <3>2 DEF Underway
  <2>2. Unmatched(c)'
    BY <1>8 DEF Unmatched
  <2>3. Tells(c)'
    <3>1. Range(job'[c].made) = Range(job[c].made)
      BY <1>8
    <3>2. Extra(c)' = {i} /\ Range(job[c].made)' \subseteq MadeBy(c)' /\ Extra(c)' \cap MadeBy(c)' = {}
      <4>1. i \notin Range(job[c].made)
        BY <1>3, <1>5 DEF Tells
      <4>. QED  BY <1>2, <1>3, <1>4, <1>5, <3>1, <4>1 DEF Tells, Extra
    <3>. QED  BY <1>4, <1>8, <3>2 DEF Tells
  <2>4. (job'[c].seen = job[c].seen \/ (MadeBy(c) = {} /\ item.type # "folder")) /\ item.type # "folder"
    BY <1>1, <1>8
  <2>. QED  BY <1>1, <1>3, <1>6, <2>1, <2>2, <2>3, <2>4, OnePuts
<1>. QED  BY <1>1, <1>7, <1>8

LEMMA StorePlaces ==
    ASSUME NoneIsNoItem, PlacesInOrder, NEW c \in Calls, Store(c)
    PROVE  FoldersInOrder'
<1>1. pc[c] = "planned" /\ Tool(c) = "upload" /\ job[c].missing = <<>>
  BY DEF Store, Under, Tool
<1>2. CASE Refuse(c) \/ Fail(c)
  BY <1>1, <1>2, GivingUpPlaces
<1>3. ASSUME NEW i \in Ids, Open(job[c].place),
             Put(c, i, Item(TypeOf[op[c].upload], op[c].upload, job[c].place, TRUE, c), "stored", job[c])
      PROVE  FoldersInOrder'
  <2>1. Underway(c)
    BY DEF PlacesInOrder, FoldersInOrder, CallPlaces
  <2>2. TypeOf[op[c].upload] # "folder" /\ job[c].place \in Drawn \cup {Root}
    BY <1>1, <2>1, DriveHoldsItems DEF Underway
  <2>3. PICK item, to, found : item = Item(TypeOf[op[c].upload], op[c].upload, job[c].place, TRUE, c)
                               /\ to = "stored" /\ found = job[c]
    OBVIOUS
  <2>4. IsItem(item) /\ item.by = c /\ item.parent = job[c].place /\ item.type # "folder"
    BY <2>2, <2>3 DEF IsItem, Item
  <2>5. Put(c, i, item, to, found) /\ Open(item.parent) /\ to \in {"stored", "adding", "done"}
    BY <1>3, <2>3, <2>4
  <2>6. found.place \in Drawn \cup {Root, i} /\ found.made = job[c].made /\ found.seen = job[c].seen
    BY <2>2, <2>3
  <2>7. WhereAsked(c, item.parent) /\ pc[c] \in {"called", "planned"}
    BY <1>1, <2>4 DEF WhereAsked
  <2>. QED  BY <2>4, <2>5, <2>6, <2>7, FilePlaces
<1>. QED  BY <1>2, <1>3 DEF Store

LEMMA DocPlaces ==
    ASSUME NoneIsNoItem, PlacesInOrder, NEW c \in Calls, DocsCreate(c)
    PROVE  FoldersInOrder'
<1>. DEFINE at == Asked(op[c].folder)
<1>1. pc[c] = "called" /\ Tool(c) = "newDoc"
  BY DEF DocsCreate, Under, Tool
<1>2. CASE Refuse(c) \/ Fail(c)
  BY <1>1, <1>2, GivingUpPlaces
<1>3. ASSUME NEW i \in Ids, Open(at), Put(c, i, Item("doc", op[c].title, at, TRUE, c), "done", job[c])
      PROVE  FoldersInOrder'
  <2>1. Underway(c)
    BY DEF PlacesInOrder, FoldersInOrder, CallPlaces
  <2>. HIDE DEF at
  <2>3. PICK item, to, found : item = Item("doc", op[c].title, at, TRUE, c) /\ to = "done" /\ found = job[c]
    OBVIOUS
  <2>4. IsItem(item) /\ item.by = c /\ item.parent = at /\ item.type # "folder"
    BY <2>3 DEF IsItem, Item
  <2>5. Put(c, i, item, to, found) /\ Open(item.parent) /\ to \in {"stored", "adding", "done"}
    BY <1>3, <2>3, <2>4
  <2>6. found.place \in Drawn \cup {Root, i} /\ found.made = job[c].made /\ found.seen = job[c].seen
    BY <2>1, <2>3 DEF Underway
  <2>7. WhereAsked(c, item.parent) /\ pc[c] \in {"called", "planned"}
    BY <1>1, <2>4 DEF at, WhereAsked
  <2>. QED  BY <2>4, <2>5, <2>6, <2>7, FilePlaces
<1>. QED  BY <1>2, <1>3 DEF DocsCreate, Asked

LEMMA BookPlaces ==
    ASSUME NoneIsNoItem, PlacesInOrder, NEW c \in Calls, SheetsCreate(c)
    PROVE  FoldersInOrder'
<1>. DEFINE at == Asked(op[c].folder)
            Noted(i, m) == [NoJob EXCEPT !.place = i, !.missing = m]
<1>1. pc[c] = "called" /\ Tool(c) = "newBook"
  BY DEF SheetsCreate, Under, Tool
<1>2. CASE Refuse(c) \/ Fail(c)
  BY <1>1, <1>2, GivingUpPlaces
<1>3. ASSUME NEW i \in Ids, NEW tabs, Open(at), Put(c, i, Item("sheet", op[c].title, at, TRUE, c), "adding", Noted(i, tabs))
      PROVE  FoldersInOrder'
  <2>1. job[c].made = <<>> /\ MadeBy(c) = {}
    BY <1>1, NothingYet
  <2>2. PICK found : found = Noted(i, tabs)
    OBVIOUS
  <2>3. found.place = i /\ found.seen = 0 /\ found.made = <<>>
    BY <2>2 DEF NoJob
  <2>. HIDE DEF at, Noted
  <2>4. PICK item, to : item = Item("sheet", op[c].title, at, TRUE, c) /\ to = "adding"
    OBVIOUS
  <2>5. IsItem(item) /\ item.by = c /\ item.parent = at /\ item.type # "folder"
    BY <2>4 DEF IsItem, Item
  <2>6. Put(c, i, item, to, found) /\ Open(item.parent) /\ to \in {"stored", "adding", "done"}
    BY <1>3, <2>2, <2>4, <2>5
  <2>7. found.place \in Drawn \cup {Root, i} /\ found.made = job[c].made /\ found.seen = 0 /\ MadeBy(c) = {}
    BY <2>1, <2>3
  <2>8. WhereAsked(c, item.parent) /\ pc[c] \in {"called", "planned"}
    BY <1>1, <2>5 DEF at, WhereAsked
  <2>. QED  BY <2>5, <2>6, <2>7, <2>8, FilePlaces
<1>. QED  BY <1>2, <1>3 DEF SheetsCreate, Asked

(* A folder put in where nothing of its name was when the call looked.       *)
LEMMA MakingPlaces ==
    ASSUME NoneIsNoItem, PlacesInOrder, NEW c \in Calls, MakeFolder(c)
    PROVE  FoldersInOrder'
<1>. DEFINE o == op[c]
            k == job[c]
            at == k.place
            name == Head(k.missing)
            Noted(i) == [k EXCEPT !.place = i, !.missing = Tail(k.missing), !.made = Append(k.made, i)]
            goal == IF Tool(c) = "folder" THEN "done" ELSE "planned"
<1>1. pc[c] = "planned" /\ Tool(c) \in {"upload", "folder"} /\ k.missing # <<>>
  BY WhoIsThere DEF MakeFolder, PlacesInOrder, StationsInOrder
<1>2. CASE Refuse(c) \/ Fail(c)
  BY <1>1, <1>2, GivingUpPlaces
<1>3. ASSUME NEW i \in Ids, Open(at), Put(c, i, Item("folder", name, at, TRUE, c), goal, Noted(i))
      PROVE  FoldersInOrder'
  <2>1. /\ FoldersInOrder /\ VersionsInOrder /\ Forest /\ Underway(c) /\ Tells(c) /\ IsJob(k)
        /\ Absent(c, name, at)
    BY <1>1 DEF PlacesInOrder, FoldersInOrder, CallPlaces, PinsInOrder, JobsInOrder, Unmatched
  <2>2. Extra(c) = {} /\ Tool(c) \in Placers /\ at \in Drawn \cup {Root} /\ k.made \in Seq(Drawn) /\ k.seen \in Drawn \cup {0}
    BY <1>1, <2>1, NothingYet DEF Placers, Underway
  <2>3. PICK found, to : found = Noted(i) /\ to = goal
    OBVIOUS
  <2>4. found.place = i /\ found.missing = Tail(k.missing) /\ found.made = Append(k.made, i) /\ found.seen = k.seen
    BY <2>1, <2>3 DEF IsJob, NoJob
  <2>5. PICK item : item = Item("folder", name, at, TRUE, c)
    OBVIOUS
  <2>6. IsItem(item) /\ item.by = c /\ item.parent = at /\ item.type = "folder" /\ item.name = name
    BY <2>5 DEF IsItem, Item
  <2>7. Put(c, i, item, to, found) /\ Open(item.parent)
    BY <1>3, <2>3, <2>5, <2>6
  <2>. HIDE DEF Noted, goal
  <2>8. HasPut(c, i, item, to, found) /\ PutIn(c, i, item.parent, item)
    BY <2>6, <2>7, PutIsThere
  <2>9. /\ Fresh(i) /\ item # None /\ items' = [items EXCEPT ![i] = item] /\ binned' = binned
        /\ op' = op /\ \A d \in Calls \ {c} : pc'[d] = pc[d] /\ job'[d] = job[d]
        /\ \/ pc'[c] = to /\ job'[c] = found
           \/ pc'[c] = "failed" /\ job'[c] = job[c]
    BY <2>8 DEF HasPut
  <2>10. /\ Drawn' = Drawn \cup {i} /\ i \notin Drawn /\ items'[i] = item /\ Grows(c)
         /\ \A j \in Drawn \cup {0} : j < i
         /\ PutBy(c)' = PutBy(c) \cup {i} /\ MadeBy(c)' = MadeBy(c) \cup {i}
         /\ WayOf(Drawn', items', i) = Append(WayOf(Drawn, items, at), name)
    BY <2>6, <2>8 DEF PutIn
  <2>11. Tool(c)' = Tool(c)
    BY <2>9 DEF Tool
  <2>12. ASSUME Tool(c) = "upload"
         PROVE  /\ o.folder = None /\ TypeOf[o.upload] \notin Google
                /\ Tail(k.missing) \in Seq(STRING)
                /\ WayOf(Drawn', items', i) \in Seq(STRING) /\ WayOf(Drawn', items', i) \o Tail(k.missing) = o.path
    <3>1. /\ o.folder = None /\ TypeOf[o.upload] \notin Google /\ k.missing \in Seq(STRING)
          /\ WayOf(Drawn, items, at) \in Seq(STRING) /\ WayOf(Drawn, items, at) \o k.missing = o.path
      BY <1>1, <2>1, <2>12 DEF Underway
    <3>2. PICK m, w, path : m = k.missing /\ w = WayOf(Drawn, items, at) /\ path = o.path
      OBVIOUS
    <3>3. m \in Seq(STRING) /\ m # <<>> /\ w \in Seq(STRING) /\ w \o m = path
      BY <1>1, <3>1, <3>2
    <3>4. Tail(m) \in Seq(STRING) /\ Append(w, Head(m)) \in Seq(STRING) /\ Append(w, Head(m)) \o Tail(m) = path
      BY <3>3, NameFurther
    <3>. QED  BY <2>10, <3>1, <3>2, <3>4
  <2>13. Sited(c, i)'
    <3>1. CASE Tool(c) = "folder"
      <4>1. at = Asked(o.folder)
        BY <1>1, <2>1, <3>1 DEF Underway
      <4>. QED  BY <2>6, <2>9, <2>10, <2>11, <3>1, <4>1 DEF Sited, Asked
    <3>2. CASE Tool(c) = "upload"
      <4>1. PICK m, w, path : m = Tail(k.missing) /\ w = WayOf(Drawn', items', i) /\ path = o.path
        OBVIOUS
      <4>2. m \in Seq(STRING) /\ w \in Seq(STRING) /\ w \o m = path
        BY <2>12, <3>2, <4>1
      <4>3. Len(w) <= Len(path) /\ w = SubSeq(path, 1, Len(w))
        BY <4>2, GoneIsPrefix
      <4>4. i \in MadeBy(c)' /\ op'[c] = o /\ o.folder = None /\ Tool(c)' = "upload"
        BY <2>9, <2>10, <2>11, <2>12, <3>2
      <4>. QED  BY <4>1, <4>3, <4>4 DEF Sited
    <3>. QED  BY <1>1, <3>1, <3>2
  <2>14. CASE pc'[c] = "failed" /\ job'[c] = job[c]
    BY <2>1, <2>2, <2>6, <2>9, <2>13, <2>14, LostPlaces
  <2>15. CASE pc'[c] = to /\ job'[c] = found
    <3>0. to = IF Tool(c) = "folder" THEN "done" ELSE "planned"
      BY <2>3 DEF goal
    <3>1. Underway(c)'
      <4>1. job'[c].place \in Drawn' \cup {Root} /\ job'[c].seen \in Drawn' \cup {0} /\ job'[c].made \in Seq(Drawn')
        <5>1. k.made \in Seq(Drawn') /\ i \in Drawn'
          BY <2>2, <2>10
        <5>2. Append(k.made, i) \in Seq(Drawn')
          BY <5>1
        <5>. QED  BY <2>2, <2>4, <2>10, <2>15, <5>1, <5>2
      <4>2. CASE Tool(c) = "folder"
        BY <2>11, <2>15, <3>0, <4>1, <4>2 DEF Underway
      <4>3. CASE Tool(c) = "upload"
        BY <2>4, <2>9, <2>11, <2>12, <2>15, <3>0, <4>1, <4>3 DEF Underway
      <4>. QED  BY <1>1, <4>2, <4>3
    <3>2. Unmatched(c)'
      <4>1. ASSUME NEW j \in Drawn  PROVE items'[j].parent # i
        BY <2>1, <2>10 DEF Forest, ForestOf, Grows, Root
      <4>2. \A j \in 1 .. k.seen : j \in Drawn
        <5>1. CASE k.seen = 0
          BY <5>1
        <5>2. CASE k.seen \in Drawn
          BY <2>1, <5>2 DEF Forest
        <5>. QED  BY <2>2, <5>1, <5>2
      <4>. QED  BY <2>4, <2>15, <4>1, <4>2 DEF Unmatched, Absent
    <3>3. Tells(c)'
      <4>1. Range(Append(k.made, i)) = Range(k.made) \cup {i}
        BY <2>2, AppendProperties DEF Range
      <4>2. Range(job'[c].made) = Range(k.made) \cup {i}
        BY <2>4, <2>15, <4>1
      <4>3. Extra(c)' = {} /\ Range(job[c].made)' \subseteq MadeBy(c)'
        BY <2>1, <2>2, <2>10, <4>2 DEF Tells, Extra
      <4>4. pc'[c] \in {"stored", "adding", "done"} => Tool(c) = "folder"
        BY <2>15, <3>0
      <4>. QED  BY <2>2, <2>11, <4>3, <4>4 DEF Tells
    <3>4. at \in Drawn \cup {Root} /\ item.parent = at /\ job'[c].seen = k.seen /\ Absent(c, item.name, at)
      BY <2>1, <2>2, <2>4, <2>6, <2>15
    <3>. QED  BY <2>1, <2>6, <2>9, <2>13, <3>1, <3>2, <3>3, <3>4, OnePuts
  <2>. QED  BY <2>9, <2>14, <2>15
<1>. QED  BY <1>2, <1>3 DEF MakeFolder, Tool

-----------------------------------------------------------------------------
(* The steps of the calls that put nothing into Drive, and of everyone else. *)

LEMMA UpdatesPlace ==
    ASSUME PlacesInOrder, NEW c \in Calls, StationsInOrder',
           DriveUpdateFile(c) \/ ReadFile(c) \/ ReadHistory(c) \/ PreviewUpdate(c) \/ Pin(c) \/ Replace(c)
    PROVE  FoldersInOrder'
<1>1. Tool(c) = "update"
  BY WhoIsThere DEF PlacesInOrder, StationsInOrder, DriveUpdateFile, ReadFile, ReadHistory, PreviewUpdate, Pin, Replace,
                    Under, Tool
<1>2. Underway(c) /\ IsJob(job[c])
  BY DEF PlacesInOrder, FoldersInOrder, CallPlaces, PinsInOrder, JobsInOrder
<1>3. \A new : \/ new = job[c] \/ new = NoJob
               \/ \E v : new = [job[c] EXCEPT !.head = v] \/ new = [job[c] EXCEPT !.kept = v]
               => new.place \in Drawn \cup {Root} /\ new.seen \in Drawn \cup {0} /\ new.made \in {<<>>, job[c].made}
  BY <1>2 DEF Underway, IsJob, NoJob
<1>4. /\ Still(c)
      /\ \/ job'[c] = job[c] \/ job'[c] = NoJob
         \/ \E v : job'[c] = [job[c] EXCEPT !.head = v] \/ job'[c] = [job[c] EXCEPT !.kept = v]
  <2>. DEFINE Known(new) == \/ new = job[c] \/ new = NoJob
                            \/ \E v : new = [job[c] EXCEPT !.head = v] \/ new = [job[c] EXCEPT !.kept = v]
  <2>0. \A v : Known([job[c] EXCEPT !.head = v]) /\ Known([job[c] EXCEPT !.kept = v])
    OBVIOUS
  <2>00. Known(job[c]) /\ Known(NoJob)
    OBVIOUS
  <2>. SUFFICES Still(c) /\ Known(job'[c])
    OBVIOUS
  <2>. HIDE DEF Known
  <2>1. CASE Refuse(c) \/ Fail(c)
    BY <2>1, <2>00, GivingUpIsStill
  <2>2. ASSUME NEW to, NEW found, Read(c, to, found), Known(found)  PROVE Still(c) /\ Known(job'[c])
    BY <2>2, ReadingIsStill
  <2>3. ASSUME NEW to, Goto(c, to), UNCHANGED <<items, binned, job>>  PROVE Still(c) /\ Known(job'[c])
    BY <2>3, <2>00 DEF PlacesInOrder, CallsInOrder, PinsInOrder, JobsInOrder, Goto, Still
  <2>4. CASE DriveUpdateFile(c)  BY <2>00, <2>1, <2>2, <2>4 DEF DriveUpdateFile
  <2>5. CASE ReadFile(c)  BY <2>0, <2>1, <2>2, <2>5 DEF ReadFile
  <2>6. CASE ReadHistory(c)  BY <2>0, <2>1, <2>2, <2>6 DEF ReadHistory
  <2>7. CASE PreviewUpdate(c)  BY <2>00, <2>2, <2>7 DEF PreviewUpdate
  <2>8. CASE Pin(c)  BY <2>3, <2>8 DEF Pin
  <2>9. CASE Replace(c)  BY <2>1, <2>3, <2>9 DEF Replace
  <2>. QED  BY <2>4, <2>5, <2>6, <2>7, <2>8, <2>9
<1>5. PICK new : new = job'[c]
  OBVIOUS
<1>6. new.place \in Drawn \cup {Root} /\ new.seen \in Drawn \cup {0} /\ new.made \in {<<>>, job[c].made}
  BY <1>3, <1>4, <1>5
<1>. QED  BY <1>1, <1>4, <1>5, <1>6, StrangersPlace DEF Placers

LEMMA UntouchedPlaces ==
    ASSUME PlacesInOrder, NEW c \in Calls, NEW to, Goto(c, to), UNCHANGED driveVars, Tool(c) \notin Placers,
           StationsInOrder'
    PROVE  FoldersInOrder'
<1>1. Still(c) /\ job'[c] = job[c]
  BY DEF PlacesInOrder, CallsInOrder, PinsInOrder, JobsInOrder, Goto, Still, driveVars, drive
<1>2. job[c].place \in Drawn \cup {Root} /\ job[c].seen \in Drawn \cup {0}
  BY DEF PlacesInOrder, FoldersInOrder, CallPlaces, Underway
<1>3. /\ job'[c].place \in Drawn \cup {Root} /\ job'[c].seen \in Drawn \cup {0} /\ job'[c].made \in {<<>>, job[c].made}
  BY <1>1, <1>2
<1>. QED  BY <1>1, <1>3, StrangersPlace

LEMMA DriveCallsPlace ==
    ASSUME NoneIsNoItem, PlacesInOrder, NEW c \in Calls, DriveCall(c), StationsInOrder'
    PROVE  FoldersInOrder'
<1>1. CASE Spend(c)
  <2>1. Still(c) /\ pc[c] = "stored" /\ pc'[c] = "done" /\ job'[c] = job[c]
    BY <1>1 DEF Spend, PlacesInOrder, CallsInOrder, PinsInOrder, JobsInOrder, Goto, Still, driveVars, drive
  <2>. QED  BY <2>1, GoingOnPlaces
<1>. QED
  BY <1>1, UploadPlaces, FolderPlaces, DestinationPlaces, LookingPlaces, PreviewPlaces, MakingPlaces, StorePlaces,
     DocPlaces, UpdatesPlace DEF DriveCall

LEMMA SheetCallsPlace ==
    ASSUME NoneIsNoItem, PlacesInOrder, NEW c \in Calls, SheetCall(c), StationsInOrder'
    PROVE  FoldersInOrder'
<1>1. CASE SheetsCreate(c)
  BY <1>1, BookPlaces
<1>2. CASE AddNextTab(c)
  <2>. DEFINE found == [job[c] EXCEPT !.missing = Tail(@)]
  <2>1. Still(c) /\ pc[c] = "adding" /\ pc'[c] = "adding" /\ job'[c] = found
    BY <1>2, ReadingIsStill DEF AddNextTab
  <2>2. found.place = job[c].place /\ found.seen = job[c].seen /\ found.made = job[c].made
    BY DEF PlacesInOrder, PinsInOrder, JobsInOrder, IsJob, NoJob
  <2>. HIDE DEF found
  <2>. QED  BY <2>1, <2>2, GoingOnPlaces
<1>3. CASE Created(c)
  <2>1. Still(c) /\ pc[c] = "adding" /\ pc'[c] = "done" /\ job'[c] = job[c]
    BY <1>3 DEF Created, Proceed, PlacesInOrder, CallsInOrder, PinsInOrder, JobsInOrder, Goto, Still, driveVars, drive
  <2>. QED  BY <2>1, GoingOnPlaces
<1>4. CASE \/ SheetsAppendRows(c) \/ SheetsUpdateRange(c) \/ SheetsInsertRows(c) \/ SheetsDeleteRows(c)
           \/ SheetsCopyFormat(c) \/ FindTab(c) \/ PreviewRows(c) \/ Change(c) \/ SheetsAddTab(c)
  <2>1. Stationed(c)
    BY DEF PlacesInOrder, StationsInOrder
  <2>2. \E to : Goto(c, to) /\ UNCHANGED driveVars /\ Tool(c) \notin Placers
    <3>. USE WhoIsThere DEF Under, Tool, Deny, Break, Refuse, Fail, Proceed, ChangeBook, Show, SheetsStructural,
                            Structural, Placers
    <3>1. CASE SheetsAppendRows(c)  BY <3>1 DEF SheetsAppendRows
    <3>2. CASE SheetsUpdateRange(c)  BY <3>2 DEF SheetsUpdateRange
    <3>3. CASE SheetsInsertRows(c)  BY <3>3 DEF SheetsInsertRows
    <3>4. CASE SheetsDeleteRows(c)  BY <3>4 DEF SheetsDeleteRows
    <3>5. CASE SheetsCopyFormat(c)  BY <3>5 DEF SheetsCopyFormat
    <3>6. CASE FindTab(c)  BY <2>1, <3>6 DEF FindTab
    <3>7. CASE PreviewRows(c)  BY <2>1, <3>7 DEF PreviewRows
    <3>8. CASE Change(c)  BY <2>1, <3>8 DEF Change
    <3>9. CASE SheetsAddTab(c)  BY <3>9 DEF SheetsAddTab
    <3>. QED  BY <1>4, <3>1, <3>2, <3>3, <3>4, <3>5, <3>6, <3>7, <3>8, <3>9
  <2>. QED  BY <2>2, UntouchedPlaces
<1>. QED  BY <1>1, <1>2, <1>3, <1>4 DEF SheetCall

LEMMA OtherCallsPlace ==
    ASSUME PlacesInOrder, NEW c \in Calls, DraftCall(c) \/ EventCall(c), UNCHANGED driveVars, StationsInOrder'
    PROVE  FoldersInOrder'
<1>1. Stationed(c) /\ pc = [d \in Calls |-> pc[d]]
  BY DEF PlacesInOrder, StationsInOrder
<1>2. \E to : Goto(c, to)
  BY <1>1, MailCallsMove, EventCallsMove DEF Onwards
<1>3. Tool(c) \notin Placers
  <2>1. CASE DraftCall(c)
    <3>. USE <1>1, WhoIsThere DEF Under, Tool, Placers
    <3>1. CASE GmailCreateDraft(c)  BY <3>1 DEF GmailCreateDraft
    <3>2. CASE GmailReplyDraft(c)  BY <3>2 DEF GmailReplyDraft
    <3>3. CASE GmailUpdateDraft(c)  BY <3>3 DEF GmailUpdateDraft
    <3>4. CASE GmailAttachToDraft(c)  BY <3>4 DEF GmailAttachToDraft
    <3>5. CASE Weigh(c)  BY <3>5 DEF Weigh
    <3>6. CASE TakeFiles(c)  BY <3>6 DEF TakeFiles
    <3>7. CASE WriteDraft(c)  BY <3>7 DEF WriteDraft
    <3>8. CASE GmailDeleteDraft(c)  BY <3>8 DEF GmailDeleteDraft
    <3>9. CASE GmailModifyLabels(c)  BY <3>9 DEF GmailModifyLabels
    <3>10. CASE Label(c)  BY <3>10 DEF Label, Unasked
    <3>11. CASE Labelled(c)  BY <3>11 DEF Labelled
    <3>. QED  BY <2>1, <3>1, <3>2, <3>3, <3>4, <3>5, <3>6, <3>7, <3>8, <3>9, <3>10, <3>11 DEF DraftCall
  <2>2. CASE EventCall(c)
    BY <1>1, <2>2, WhoIsThere
       DEF EventCall, CalendarCreateEvent, CalendarUpdateEvent, CalendarDeleteEvent, DraftEvent, PreviewEvent, PatchEvent,
           DeleteEvent, Under, Tool, Placers
  <2>. QED  BY <2>1, <2>2
<1>. QED  BY <1>2, <1>3, UntouchedPlaces

LEMMA OthersPlace ==
    ASSUME NoneIsNoItem, PlacesInOrder, Others \/ Sweep \/ UNCHANGED vars
    PROVE  FoldersInOrder'
<1>1. FoldersInOrder /\ Forest /\ VersionsInOrder /\ None \notin Calls
  BY CallsAskForThings DEF PlacesInOrder, FoldersInOrder, PinsInOrder
<1>2. op' = op /\ pc' = pc /\ job' = job
  BY DEF Others, Sweep, Expire, vars, calls, driveVars
<1>3. Grows(None)
  <2>1. CASE PersonMakes
    <3>1. PICK i \in Ids, name \in Names, parent \in Drawn \cup {Root} :
             Fresh(i) /\ binned' = binned /\ items' = [items EXCEPT ![i] = Item("folder", name, parent, FALSE, None)]
      BY <2>1 DEF PersonMakes
    <3>2. PICK item : item = Item("folder", name, parent, FALSE, None)
      OBVIOUS
    <3>3. item # None /\ item.parent = parent /\ item.by = None
      BY <3>2 DEF NoneIsNoItem, IsItem, Item
    <3>4. PutIn(None, i, parent, item)
      BY <1>1, <3>1, <3>2, <3>3, PuttingIn
    <3>. QED  BY <3>4 DEF PutIn
  <2>2. CASE PersonBins
    <3>1. items' = items /\ binned \subseteq binned' /\ binned' \subseteq Drawn
      BY <1>1, <2>2 DEF PersonBins, Forest
    <3>. QED  BY <1>1, <3>1, NothingGrows
  <2>3. CASE items' = items /\ binned' = binned
    <3>1. items' = items /\ binned \subseteq binned' /\ binned' \subseteq Drawn
      BY <1>1, <2>3 DEF Forest
    <3>. QED  BY <1>1, <3>1, NothingGrows
  <2>. QED
    BY <2>1, <2>2, <2>3 DEF Others, Sweep, vars, driveVars, drive, PersonWrites, PersonDeletes, Purge
<1>4. \A d \in Calls : CallPlaces(d)'
  BY <1>1, <1>2, <1>3, OthersStayPlaced
<1>. QED  BY <1>3, <1>4 DEF FoldersInOrder, Grows

LEMMA FoldersStep ==
    ASSUME NoneIsNoItem
    PROVE  PlacesInOrder /\ StationsInOrder' /\ [Next]_vars => FoldersInOrder'
BY DriveCallsPlace, SheetCallsPlace, OtherCallsPlace, OthersPlace DEF Next, Drive, SheetsOf, Gmail, CalendarOf

LEMMA FoldersInit == Init => FoldersInOrder
<1>1. SUFFICES ASSUME Init  PROVE FoldersInOrder
  OBVIOUS
<1>2. items = InDrive /\ binned = {} /\ \A c \in Calls : job[c] = NoJob /\ pc[c] = "called"
  BY <1>1 DEF Init, DriveInit
<1>3. Forest
  <2>1. SUFFICES ASSUME NEW i \in Drawn
                 PROVE  /\ i \in Nat \ {Root} /\ i <= Cardinality(Ids)
                        /\ items[i].parent \in Drawn \cup {Root} /\ items[i].parent < i
                        /\ \A j \in 1 .. i : j \in Drawn
    BY <1>2 DEF Forest, ForestOf
  <2>2. i \in 1 .. Cardinality(Ids) /\ Cardinality(Ids) \in Nat /\ \A j \in 1 .. i : j \in Ids
    BY IdsFromOne, FS_CardinalityType DEF Drawn
  <2>3. (\A j \in 1 .. i : j \in Drawn) /\ items[i].parent \in 0 .. i - 1
    BY <1>2, <2>2, DriveHoldsItems DEF Drawn
  <2>. QED  BY <2>2, <2>3 DEF Root
<1>4. ASSUME NEW c \in Calls  PROVE CallPlaces(c)
  <2>1. job[c].place = Root /\ job[c].seen = 0 /\ job[c].made = <<>> /\ pc[c] = "called" /\ <<>> \in Seq(Drawn)
    BY <1>2 DEF NoJob
  <2>2. PutBy(c) = {} /\ MadeBy(c) = {}
    BY <1>2, DriveHoldsItems DEF PutBy, MadeBy, Drawn
  <2>3. Range(job[c].made) = {}
    BY <2>1 DEF Range
  <2>. QED  BY <2>1, <2>2, <2>3 DEF CallPlaces, Underway, Unmatched, Tells, Extra, Apart
<1>. QED  BY <1>3, <1>4 DEF FoldersInOrder

-----------------------------------------------------------------------------
(* Where things are, and what is told of them.                               *)

(* What is kept of every call: its uploads, the version it has kept, its      *)
(* station and its place.                                                   *)
CallsKept == UploadsInOrder /\ PinsInOrder /\ StationsInOrder /\ FoldersInOrder

LEMMA CallsKeptInit == Init => CallsKept
BY UploadsInit, PinsInit, StationsInit, FoldersInit DEF CallsKept

LEMMA CallsKeptStep == ASSUME NoneIsNoItem PROVE CallsKept /\ [Next]_vars => CallsKept'
<1>1. SUFFICES ASSUME CallsKept, [Next]_vars  PROVE CallsKept'
  OBVIOUS
<1>2. UploadsInOrder' /\ PinsInOrder' /\ StationsInOrder'
  BY <1>1, UploadsStep, PinsStep, StationsStep DEF CallsKept
<1>3. PlacesInOrder
  BY <1>1 DEF CallsKept, UploadsInOrder, PlacesInOrder
<1>4. FoldersInOrder'
  BY <1>1, <1>2, <1>3, FoldersStep
<1>. QED  BY <1>2, <1>4 DEF CallsKept

LEMMA CallsStayKept == ASSUME NoneIsNoItem PROVE Spec => []CallsKept
<1>1. Init => CallsKept
  BY CallsKeptInit
<1>2. CallsKept /\ [Next]_vars => CallsKept'
  BY CallsKeptStep
<1>. QED  BY <1>1, <1>2, PTL DEF Spec

(* A file or folder a call puts into Drive is in the folder it named, or on   *)
(* the way its path names from the root (mcp/drive.rs, plan_path, make_path).  *)
THEOREM FilesStayWhereAsked == ASSUME NoneIsNoItem PROVE Spec => []StoredWhereAsked
<1>1. CallsKept => StoredWhereAsked
  <2>1. SUFFICES ASSUME FoldersInOrder, NEW c \in Calls, NEW i \in PutBy(c)
                 PROVE  LET way == Way(IF i \in MadeBy(c) THEN i ELSE items[i].parent)
                        IN CASE Tool(c) \in {"folder", "newDoc", "newBook"} ->
                                   items[i].parent = (IF op[c].folder = None THEN Root ELSE op[c].folder)
                             [] Tool(c) = "upload" /\ op[c].folder # None -> items[i].parent = op[c].folder
                             [] OTHER -> Len(way) <= Len(op[c].path) /\ way = SubSeq(op[c].path, 1, Len(way))
                                         /\ (i \in MadeBy(c) \/ way = op[c].path)
    BY DEF CallsKept, StoredWhereAsked
  <2>2. Sited(c, i)
    BY <2>1 DEF FoldersInOrder, CallPlaces
  <2>. QED  BY <2>2, WaysAreWays DEF Sited, Asked
<1>2. Spec => []CallsKept
  BY CallsStayKept
<1>. QED  BY <1>1, <1>2, PTL

(* A folder a call leaves behind is told of but for the one whose reply was   *)
(* lost, and none stands beside a live one of its name that was there when    *)
(* the call looked (mcp/drive.rs, make_path).                                *)
THEOREM FoldersStayAccounted == ASSUME NoneIsNoItem PROVE Spec => []FoldersAccounted
<1>1. CallsKept => FoldersAccounted
  <2>1. SUFFICES ASSUME FoldersInOrder, NEW c \in Calls
                 PROVE  LET untold == MadeBy(c) \ Range(job[c].made)
                        IN /\ untold # {} => pc[c] = "failed" /\ Cardinality(untold) = 1
                           /\ \A i \in MadeBy(c) : \A j \in Drawn : IsFolder(j) /\ j <= job[c].seen => ~Twins(i, j)
    BY DEF CallsKept, FoldersAccounted
  <2>. DEFINE untold == MadeBy(c) \ Range(job[c].made)
  <2>2. Forest /\ Tells(c) /\ Apart(c) /\ Underway(c)
    BY <2>1 DEF FoldersInOrder, CallPlaces
  <2>3. ASSUME untold # {}  PROVE pc[c] = "failed" /\ Cardinality(untold) = 1
    <3>1. PICK i : i \in untold
      BY <2>3
    <3>2. untold \subseteq Extra(c)
      BY DEF Extra, MadeBy
    <3>3. untold = {i} /\ pc[c] = "failed"
      BY <2>2, <3>1, <3>2 DEF Tells
    <3>. HIDE DEF untold
    <3>4. Cardinality({i}) = 1
      BY FS_Singleton
    <3>. QED  BY <3>3, <3>4
  <2>4. ASSUME NEW i \in MadeBy(c), NEW j \in Drawn, IsFolder(j), j <= job[c].seen  PROVE ~Twins(i, j)
    <3>1. j \in 1 .. job[c].seen
      <4>1. j \in Nat \ {0} /\ job[c].seen \in Nat
        BY <2>2 DEF Underway, Forest, ForestOf, Root
      <4>. QED  BY <2>4, <4>1
    <3>2. items[j].name = items[i].name /\ items[j].parent = items[i].parent => InBin(j)
      BY <2>2, <2>4, <3>1, BinsAreBins DEF Apart, Absent
    <3>. QED  BY <3>2 DEF Twins
  <2>. QED  BY <2>3, <2>4
<1>2. Spec => []CallsKept
  BY CallsStayKept
<1>. QED  BY <1>1, <1>2, PTL
=============================================================================
