------------------------------ MODULE ToolsProofs ------------------------------
(***************************************************************************)
(* What holds of Tools for any calls, uploads, mailbox and Drive: an upload   *)
(* is attached to one message at most, and nothing but its hour, a message or *)
(* a store that Drive has answered takes it away; a draft stays in its        *)
(* conversation; and the content of a file is replaced only once the version  *)
(* that was read at its head is kept for ever.                               *)
(***************************************************************************)
EXTENDS Tools, FiniteSetTheorems, SequenceTheorems, TLAPS

(* The tools that write a message, and where only they can be.              *)
Writers == {"create", "reply", "rewrite", "attach"}
Writing == {"weigh", "take", "write"}

(* A call is where its tool may be, and carries no file before it has begun. *)
AtStation(c) ==
    /\ Tool(c) \in Writers => pc[c] \in {"called"} \cup Writing \cup Answers
    /\ pc[c] \in Writing => Tool(c) \in Writers
    /\ pc[c] \in {"revisable", "history", "pin", "replace"} => Tool(c) = "update"
    /\ pc[c] = "stored" => Tool(c) \in {"upload", "update"}
    /\ Tool(c) \in Writers /\ pc[c] = "called" => copy[c].files = {}

CallsInOrder ==
    /\ op \in Ops
    /\ pc = [c \in Calls |-> pc[c]]
    /\ copy = [c \in Calls |-> copy[c]]
    /\ \A c \in Calls : IsDraft(copy[c]) /\ AtStation(c)

DraftsInOrder ==
    /\ drafts = [d \in DraftIds |-> drafts[d]]
    /\ \A d \in DraftIds : drafts[d] # None => IsDraft(drafts[d])

(* A call has taken an upload for its message.                              *)
Took(u, c) == u \in FilesOf(c) \cap copy[c].files /\ pc[c] \in {"write", "done", "failed"}

Stored(u, c) == Tool(c) \in {"upload", "update"} /\ op[c].upload = u /\ pc[c] = "done"

TakenOnce(u) == \A c, d \in Calls : Took(u, c) /\ Took(u, d) => c = d
Untaken(u) == u \in staged => \A c \in Calls : ~Took(u, c)
Found(u) == u \in staged \cup expired \/ \E c \in Calls : Took(u, c) \/ Stored(u, c)
Accounted == \A u \in Uploads : TakenOnce(u) /\ Untaken(u) /\ Found(u)

-----------------------------------------------------------------------------

(* What a step of a call that writes no message can do: move that call, and  *)
(* spend its upload once Drive has stored it.                               *)
Elsewhere(c) ==
    /\ op' = op
    /\ \E to : pc' = [pc EXCEPT ![c] = to]
    /\ pc[c] \notin Answers \cup Writing /\ pc'[c] \notin Writing
    /\ Tool(c) \notin Writers
    /\ pc'[c] \in {"revisable", "history", "pin", "replace"} => Tool(c) = "update"
    /\ pc'[c] = "stored" => Tool(c) \in {"upload", "update"}
    /\ \/ staged' = staged /\ expired' = expired
       \/ /\ pc[c] = "stored" /\ pc'[c] = "done"
          /\ staged' = staged \ {op[c].upload} /\ expired' = expired

LEMMA GoesElsewhere ==
    ASSUME CallsInOrder, NEW c \in Calls, NEW to, Goto(c, to), Unspent,
           pc[c] \notin Answers \cup Writing, Tool(c) \notin Writers, to \notin Writing,
           to \in {"revisable", "history", "pin", "replace"} => Tool(c) = "update",
           to = "stored" => Tool(c) \in {"upload", "update"}
    PROVE  Elsewhere(c)
BY DEF CallsInOrder, Goto, Unspent, Elsewhere, Tool

(* Who is where a tool that writes no message may be, is no such tool.       *)
LEMMA NoWriter ==
    ASSUME CallsInOrder, NEW c \in Calls
    PROVE  /\ pc[c] \notin {"called"} \cup Writing \cup Answers => Tool(c) \notin Writers
           /\ \A tool : Under(c, tool, "called") => Tool(c) = tool
BY DEF CallsInOrder, AtStation, Under, Tool

LEMMA SheetsElsewhere ==
    ASSUME CallsInOrder, NEW c \in Calls, SheetCall(c)
    PROVE  Elsewhere(c) /\ (pc[c] \in {"tab", "change", "adding"} \/ Tool(c) # "update")
<1>. DEFINE Places == {"called", "tab", "change", "adding", "done", "failed", "refused"}
<1>1. /\ \E to \in Places : Goto(c, to)
      /\ Unspent
      /\ \/ pc[c] \in {"tab", "change", "adding"}
         \/ pc[c] = "called" /\ Tool(c) \notin Writers \cup {"update"}
  <2>. USE DEF Deny, Break, Refuse, Fail, Proceed, ChangeBook, Show, Under, Tool, Writers
  <2>1. CASE SheetsAppendRows(c)  BY <2>1 DEF SheetsAppendRows
  <2>2. CASE SheetsUpdateRange(c)  BY <2>2 DEF SheetsUpdateRange
  <2>3. CASE SheetsInsertRows(c) \/ SheetsDeleteRows(c) \/ SheetsCopyFormat(c)
    BY <2>3 DEF SheetsInsertRows, SheetsDeleteRows, SheetsCopyFormat, SheetsStructural
  <2>4. CASE FindTab(c)  BY <2>4 DEF FindTab
  <2>5. CASE PreviewRows(c)  BY <2>5 DEF PreviewRows
  <2>6. CASE Change(c)  BY <2>6 DEF Change
  <2>7. CASE SheetsAddTab(c)  BY <2>7 DEF SheetsAddTab
  <2>8. CASE SheetsCreate(c)  BY <2>8 DEF SheetsCreate, Put
  <2>9. CASE AddNextTab(c)  BY <2>9 DEF AddNextTab, Read
  <2>10. CASE Created(c)  BY <2>10 DEF Created
  <2>. QED  BY <2>1, <2>2, <2>3, <2>4, <2>5, <2>6, <2>7, <2>8, <2>9, <2>10 DEF SheetCall
<1>2. pc[c] \notin Answers \cup Writing /\ Tool(c) \notin Writers
  BY <1>1, NoWriter DEF Answers, Writing
<1>. QED  BY <1>1, <1>2, GoesElsewhere DEF Writing

LEMMA EventsElsewhere ==
    ASSUME CallsInOrder, NEW c \in Calls, EventCall(c)
    PROVE  Elsewhere(c) /\ (pc[c] \in {"drafting", "patching", "deleting"} \/ Tool(c) # "update")
<1>. DEFINE Places == {"called", "drafting", "patching", "deleting", "done", "failed", "refused"}
<1>1. /\ \E to \in Places : Goto(c, to)
      /\ Unspent
      /\ \/ pc[c] \in {"drafting", "patching", "deleting"}
         \/ pc[c] = "called" /\ Tool(c) \notin Writers \cup {"update"}
  <2>. USE DEF Reject, Lose, Done, Under, Tool, Writers
  <2>1. CASE CalendarCreateEvent(c)  BY <2>1 DEF CalendarCreateEvent
  <2>2. CASE CalendarUpdateEvent(c) \/ CalendarDeleteEvent(c)
    BY <2>2 DEF CalendarUpdateEvent, CalendarDeleteEvent, ReadEvent
  <2>3. CASE DraftEvent(c)  BY <2>3 DEF DraftEvent
  <2>4. CASE PreviewEvent(c)  BY <2>4 DEF PreviewEvent
  <2>5. CASE PatchEvent(c)  BY <2>5 DEF PatchEvent
  <2>6. CASE DeleteEvent(c)  BY <2>6 DEF DeleteEvent
  <2>. QED  BY <2>1, <2>2, <2>3, <2>4, <2>5, <2>6 DEF EventCall
<1>2. pc[c] \notin Answers \cup Writing /\ Tool(c) \notin Writers
  BY <1>1, NoWriter DEF Answers, Writing
<1>. QED  BY <1>1, <1>2, GoesElsewhere DEF Writing

LEMMA DriveElsewhere ==
    ASSUME CallsInOrder, NEW c \in Calls, DriveCall(c)
    PROVE  Elsewhere(c)
<1>. DEFINE Places == {"called", "destination", "path", "planned", "done", "failed", "refused"}
            Updating == {"revisable", "history", "pin", "replace"}
<1>1. CASE Spend(c)
  <2>1. Tool(c) \in {"upload", "update"}
    BY <1>1 DEF CallsInOrder, AtStation, Spend
  <2>. QED
    BY <1>1, <2>1 DEF Spend, Goto, Spent, Elsewhere, Writing, Writers, Answers, CallsInOrder, Tool
<1>2. CASE DriveUpdateFile(c) \/ ReadFile(c) \/ ReadHistory(c) \/ PreviewUpdate(c) \/ Pin(c) \/ Replace(c)
  <2>1. /\ \E to \in Updating \cup {"called", "refused", "failed", "stored"} : Goto(c, to)
        /\ Unspent
        /\ pc[c] \in Updating \/ Under(c, "update", "called")
    <3>. USE DEF Refuse, Fail, Read, Under
    <3>1. CASE DriveUpdateFile(c)  BY <3>1 DEF DriveUpdateFile
    <3>2. CASE ReadFile(c)  BY <3>2 DEF ReadFile
    <3>3. CASE ReadHistory(c)  BY <3>3 DEF ReadHistory
    <3>4. CASE PreviewUpdate(c)  BY <3>4 DEF PreviewUpdate
    <3>5. CASE Pin(c)  BY <3>5 DEF Pin
    <3>6. CASE Replace(c)  BY <3>6 DEF Replace
    <3>. QED  BY <1>2, <3>1, <3>2, <3>3, <3>4, <3>5, <3>6
  <2>2. Tool(c) = "update" /\ pc[c] \notin Answers \cup Writing
    BY <2>1, NoWriter DEF CallsInOrder, AtStation, Answers, Writing, Under
  <2>. QED  BY <2>1, <2>2, GoesElsewhere DEF Writing, Writers
<1>3. CASE Store(c)
  <2>1. /\ \E to \in {"refused", "failed", "stored"} : Goto(c, to)
        /\ Unspent /\ Under(c, "upload", "planned")
    BY <1>3 DEF Store, Refuse, Fail, Put
  <2>. QED  BY <2>1, GoesElsewhere DEF Writing, Writers, Answers, Under, Tool
<1>4. CASE \/ DriveUpload(c) \/ DriveCreateFolder(c) \/ Destination(c) \/ LookUp(c) \/ Preview(c)
           \/ MakeFolder(c) \/ DocsCreate(c)
  <2>1. /\ \E to \in Places : Goto(c, to)
        /\ Unspent
        /\ \/ pc[c] \in {"destination", "path", "planned"}
           \/ pc[c] = "called" /\ Tool(c) \notin Writers
    <3>. USE DEF Refuse, Fail, Read, Put, Inside, Under, Tool, Writers
    <3>1. CASE DriveUpload(c)  BY <3>1 DEF DriveUpload
    <3>2. CASE DriveCreateFolder(c)  BY <3>2 DEF DriveCreateFolder
    <3>3. CASE Destination(c)  BY <3>3 DEF Destination
    <3>4. CASE LookUp(c)  BY <3>4 DEF LookUp
    <3>5. CASE Preview(c)  BY <3>5 DEF Preview
    <3>6. CASE MakeFolder(c)  BY <3>6 DEF MakeFolder
    <3>7. CASE DocsCreate(c)  BY <3>7 DEF DocsCreate
    <3>. QED  BY <1>4, <3>1, <3>2, <3>3, <3>4, <3>5, <3>6, <3>7
  <2>2. pc[c] \notin Answers \cup Writing /\ Tool(c) \notin Writers
    BY <2>1, NoWriter DEF Answers, Writing
  <2>. QED  BY <2>1, <2>2, GoesElsewhere DEF Writing
<1>. QED  BY <1>1, <1>2, <1>3, <1>4 DEF DriveCall

(* What a step keeps of the uploads that takes none for a message.           *)
LEMMA QuietKeeps ==
    ASSUME Accounted,
           \A u \in Uploads, d \in Calls : Took(u, d)' <=> Took(u, d),
           \A u \in Uploads, d \in Calls : Stored(u, d) => Stored(u, d)',
           staged' \subseteq staged, expired \subseteq expired',
           \A u \in staged \ staged' : u \in expired' \/ \E d \in Calls : Stored(u, d)'
    PROVE  Accounted'
<1>1. SUFFICES ASSUME NEW u \in Uploads
               PROVE  (TakenOnce(u) /\ Untaken(u) /\ Found(u))'
  BY DEF Accounted
<1>0. TakenOnce(u) /\ Untaken(u) /\ Found(u)
  BY DEF Accounted
<1>2. TakenOnce(u)'
  BY <1>0 DEF TakenOnce
<1>3. Untaken(u)'
  BY <1>0 DEF Untaken
<1>4. Found(u)'
  BY <1>0 DEF Found
<1>. QED  BY <1>2, <1>3, <1>4

(* A step that moves one call and leaves every message alone.               *)
LEMMA ElsewhereKeeps ==
    ASSUME CallsInOrder, Accounted, NEW c \in Calls, Elsewhere(c), copy' = copy
    PROVE  CallsInOrder' /\ Accounted'
<1>1. /\ op' = op
      /\ \A d \in Calls \ {c} : pc'[d] = pc[d]
      /\ pc' = [d \in Calls |-> pc'[d]]
  BY DEF Elsewhere, CallsInOrder
<1>2. CallsInOrder'
  BY <1>1 DEF CallsInOrder, AtStation, Elsewhere, Tool, IsDraft
<1>3. \A u \in Uploads, d \in Calls : Took(u, d)' <=> Took(u, d)
  <2>. SUFFICES ASSUME NEW u \in Uploads, NEW d \in Calls
                PROVE  Took(u, d)' <=> Took(u, d)
    OBVIOUS
  <2>1. FilesOf(d)' = FilesOf(d)
    BY <1>1 DEF FilesOf, Tool
  <2>2. CASE d = c
    BY <2>1, <2>2 DEF Took, FilesOf, Elsewhere, Writers
  <2>. QED  BY <1>1, <2>1, <2>2 DEF Took
<1>4. \A u \in Uploads, d \in Calls : Stored(u, d) => Stored(u, d)'
  BY <1>1 DEF Stored, Tool, Elsewhere, Answers
<1>5. /\ staged' \subseteq staged /\ expired' = expired
      /\ \A u \in staged \ staged' : Stored(u, c)'
  <2>1. pc[c] = "stored" => Tool(c) \in {"upload", "update"}
    BY DEF CallsInOrder, AtStation
  <2>. QED  BY <1>1, <2>1 DEF Elsewhere, Stored, Tool
<1>6. Accounted'
  BY <1>3, <1>4, <1>5, QuietKeeps
<1>. QED  BY <1>2, <1>6

-----------------------------------------------------------------------------

(* What putting a draft together again leaves of it.                         *)
LEMMA RebuiltKeeps ==
    ASSUME NEW d, IsDraft(d)
    PROVE  /\ IsDraft(Rebuilt(d))
           /\ \A f \in {"by", "from", "to", "cc", "files", "thread"} : Rebuilt(d)[f] = d[f]
           /\ Rebuilt(d).html = FirstBody(d.html)
           /\ Trimmed(d.text) # <<>> => Rebuilt(d).text = Trimmed(d.text)
BY DEF IsDraft, Blank, Rebuilt

(* A tool that is to write a message begins it, weighs it, or gives up.      *)
LEMMA BeginsMessage ==
    ASSUME CallsInOrder, DraftsInOrder, NEW c \in Calls,
           \/ GmailCreateDraft(c) \/ GmailReplyDraft(c) \/ GmailUpdateDraft(c) \/ GmailAttachToDraft(c) \/ Weigh(c)
    PROVE  /\ Tool(c) \in Writers /\ pc[c] \in {"called", "weigh"}
           /\ Unspent /\ drafts' = drafts
           /\ \/ copy' = copy /\ \E to \in {"refused", "failed"} : Goto(c, to) /\ (to = "failed" => pc[c] = "called")
              \/ \E r : copy' = [copy EXCEPT ![c] = r] /\ IsDraft(r) /\ \E to \in {"weigh", "take"} : Goto(c, to)
<1>. DEFINE Result == /\ Unspent /\ drafts' = drafts
                      /\ \/ copy' = copy /\ \E to \in {"refused", "failed"} : Goto(c, to) /\ (to = "failed" => pc[c] = "called")
                         \/ \E r : copy' = [copy EXCEPT ![c] = r] /\ IsDraft(r) /\ \E to \in {"weigh", "take"} : Goto(c, to)
<1>1. ASSUME Decline(c)  PROVE Result
  BY <1>1 DEF Decline, mailVars, mail
<1>2. ASSUME Give(c), pc[c] = "called"  PROVE Result
  BY <1>2 DEF Give, mailVars, mail
<1>3. ASSUME NEW r, NEW to \in {"weigh", "take"}, IsDraft(r), Hold(c, to, r)  PROVE Result
  BY <1>3 DEF Hold, mail
<1>4. CASE GmailCreateDraft(c)
  <2>1. \A from, to : IsDraft([Blank EXCEPT !.by = c, !.text = <<c>>, !.from = from, !.to = to])
    BY DEF IsDraft
  <2>. QED  BY <1>1, <1>2, <1>3, <1>4, <2>1 DEF GmailCreateDraft, Under, Tool, Writers
<1>5. CASE GmailReplyDraft(c)
  <2>1. \A from, to, cc, thread :
            IsDraft([Blank EXCEPT !.by = c, !.text = <<c>>, !.from = from, !.to = to, !.cc = cc, !.thread = thread])
    BY DEF IsDraft
  <2>2. pc[c] = "called" /\ Tool(c) \in Writers
    BY <1>5 DEF GmailReplyDraft, Under, Tool, Writers
  <2>3. \/ Decline(c) \/ Give(c)
        \/ \E from, to, cc, thread :
              Hold(c, "take", [Blank EXCEPT !.by = c, !.text = <<c>>, !.from = from, !.to = to, !.cc = cc, !.thread = thread])
    BY <1>5, Zenon DEF GmailReplyDraft
  <2>. QED  BY <1>1, <1>2, <1>3, <2>1, <2>2, <2>3
<1>6. CASE GmailUpdateDraft(c)
  <2>1. \A from, to, thread : IsDraft([Blank EXCEPT !.by = c, !.text = <<c>>, !.from = from, !.to = to, !.thread = thread])
    BY DEF IsDraft
  <2>. QED  BY <1>1, <1>2, <1>3, <1>6, <2>1 DEF GmailUpdateDraft, Under, Tool, Writers
<1>7. CASE GmailAttachToDraft(c)
  <2>1. There(op[c].draft) => IsDraft(Rebuilt(drafts[op[c].draft]))
    BY <1>7, CallsAskForThings, RebuiltKeeps DEF DraftsInOrder, CallsInOrder, There, GmailAttachToDraft, Under
  <2>. QED  BY <1>1, <1>2, <1>3, <1>7, <2>1 DEF GmailAttachToDraft, Under, Tool, Writers
<1>8. CASE Weigh(c)
  <2>1. \A from : IsDraft([copy[c] EXCEPT !.from = from])
    BY DEF CallsInOrder, IsDraft
  <2>2. pc[c] = "weigh" /\ Tool(c) \in Writers
    BY <1>8 DEF Weigh, CallsInOrder, AtStation, Writing
  <2>. QED  BY <1>1, <1>3, <1>8, <2>1, <2>2 DEF Weigh
<1>. QED  BY <1>4, <1>5, <1>6, <1>7, <1>8

LEMMA BeginningKeeps ==
    ASSUME CallsInOrder, DraftsInOrder, Accounted, NEW c \in Calls,
           \/ GmailCreateDraft(c) \/ GmailReplyDraft(c) \/ GmailUpdateDraft(c) \/ GmailAttachToDraft(c) \/ Weigh(c)
    PROVE  CallsInOrder' /\ DraftsInOrder' /\ Accounted'
<1>1. /\ Tool(c) \in Writers /\ pc[c] \in {"called", "weigh"}
      /\ Unspent /\ drafts' = drafts
      /\ \/ copy' = copy /\ \E to \in {"refused", "failed"} : Goto(c, to) /\ (to = "failed" => pc[c] = "called")
         \/ \E r : copy' = [copy EXCEPT ![c] = r] /\ IsDraft(r) /\ \E to \in {"weigh", "take"} : Goto(c, to)
  BY BeginsMessage
<1>2. /\ op' = op /\ pc' = [d \in Calls |-> pc'[d]] /\ copy' = [d \in Calls |-> copy'[d]]
      /\ \A d \in Calls \ {c} : pc'[d] = pc[d] /\ copy'[d] = copy[d]
      /\ IsDraft(copy'[c]) /\ pc'[c] \in {"refused", "failed", "weigh", "take"}
      /\ pc'[c] = "failed" => copy'[c] = copy[c] /\ pc[c] = "called"
  BY <1>1 DEF CallsInOrder, Goto
<1>3. CallsInOrder'
  BY <1>1, <1>2 DEF CallsInOrder, AtStation, Tool, IsDraft, Writing, Answers, Writers
<1>4. \A u \in Uploads, d \in Calls : Took(u, d)' <=> Took(u, d)
  <2>. SUFFICES ASSUME NEW u \in Uploads, NEW d \in Calls
                PROVE  Took(u, d)' <=> Took(u, d)
    OBVIOUS
  <2>1. FilesOf(d)' = FilesOf(d)
    BY <1>2 DEF FilesOf, Tool
  <2>2. CASE d = c
    <3>1. ~Took(u, c)
      BY <1>1 DEF Took
    <3>2. ~Took(u, c)'
      BY <1>1, <1>2 DEF Took, CallsInOrder, AtStation
    <3>. QED  BY <2>2, <3>1, <3>2
  <2>. QED  BY <1>2, <2>1, <2>2 DEF Took
<1>5. \A u \in Uploads, d \in Calls : Stored(u, d) => Stored(u, d)'
  BY <1>1, <1>2 DEF Stored, Tool
<1>6. Accounted'
  BY <1>1, <1>4, <1>5, QuietKeeps DEF Unspent
<1>7. DraftsInOrder'
  BY <1>1 DEF DraftsInOrder, IsDraft
<1>. QED  BY <1>3, <1>6, <1>7

(* Gmcp::attachments takes all of the files, none of which anybody has.      *)
LEMMA TakingKeeps ==
    ASSUME CallsInOrder, DraftsInOrder, Accounted, NEW c \in Calls, TakeFiles(c)
    PROVE  CallsInOrder' /\ DraftsInOrder' /\ Accounted'
<1>. DEFINE files == op[c].files
<1>1. pc[c] = "take" /\ Tool(c) \in Writers
  BY DEF TakeFiles, CallsInOrder, AtStation, Writing
<1>2. /\ drafts' = drafts /\ expired' = expired
      /\ \/ copy' = copy /\ staged' = staged /\ Goto(c, "refused")
         \/ /\ files \subseteq staged /\ staged' = staged \ files
            /\ copy' = [copy EXCEPT ![c].files = @ \cup files] /\ Goto(c, "write")
  BY DEF TakeFiles, Decline, Spent, Unspent, Waiting, mailVars, mail
<1>3. /\ op' = op /\ pc' = [d \in Calls |-> pc'[d]] /\ copy' = [d \in Calls |-> copy'[d]]
      /\ \A d \in Calls \ {c} : pc'[d] = pc[d] /\ copy'[d] = copy[d]
      /\ IsDraft(copy'[c]) /\ pc'[c] \in {"refused", "write"}
      /\ pc'[c] = "write" => files \subseteq staged /\ staged' = staged \ files /\ files \subseteq copy'[c].files
      /\ pc'[c] = "refused" => staged' = staged
  BY <1>2 DEF CallsInOrder, Goto, IsDraft, Blank
<1>4. CallsInOrder'
  BY <1>1, <1>3 DEF CallsInOrder, AtStation, Tool, IsDraft, Writing, Answers, Writers
<1>5. \A u \in Uploads, d \in Calls \ {c} : Took(u, d)' <=> Took(u, d)
  BY <1>3 DEF Took, FilesOf, Tool
<1>6. \A u \in Uploads : ~Took(u, c) /\ (Took(u, c)' <=> pc'[c] = "write" /\ u \in files)
  BY <1>1, <1>3 DEF Took, FilesOf, Tool, Writers
<1>7. ASSUME NEW u \in Uploads
      PROVE  (TakenOnce(u) /\ Untaken(u) /\ Found(u))'
  <2>1. TakenOnce(u) /\ Untaken(u) /\ Found(u)
    BY DEF Accounted
  <2>2. TakenOnce(u)'
    BY <1>3, <1>5, <1>6, <2>1 DEF TakenOnce, Untaken
  <2>3. Untaken(u)'
    BY <1>3, <1>5, <1>6, <2>1 DEF Untaken
  <2>4. \A d \in Calls : Stored(u, d) => Stored(u, d)'
    BY <1>1, <1>3 DEF Stored, Tool
  <2>5. Found(u)'
    BY <1>2, <1>3, <1>5, <1>6, <2>1, <2>4 DEF Found
  <2>. QED  BY <2>2, <2>3, <2>5
<1>8. DraftsInOrder'
  BY <1>2 DEF DraftsInOrder, IsDraft
<1>. QED  BY <1>4, <1>7, <1>8 DEF Accounted

(* The write ends a call, and what it wrote is a draft.                     *)
LEMMA WritingKeeps ==
    ASSUME CallsInOrder, DraftsInOrder, Accounted, NEW c \in Calls, WriteDraft(c)
    PROVE  CallsInOrder' /\ DraftsInOrder' /\ Accounted'
<1>1. /\ pc[c] = "write" /\ Unspent /\ copy' = copy
      /\ \E to \in {"done", "failed"} : Goto(c, to)
      /\ drafts' = drafts \/ \E d : drafts' = [drafts EXCEPT ![d] = copy[c]]
  BY DEF WriteDraft, Give, Written, mailVars, mail
<1>2. /\ op' = op /\ pc' = [d \in Calls |-> pc'[d]] /\ pc'[c] \in {"done", "failed"}
      /\ \A d \in Calls \ {c} : pc'[d] = pc[d]
  BY <1>1 DEF CallsInOrder, Goto
<1>3. CallsInOrder'
  BY <1>1, <1>2 DEF CallsInOrder, AtStation, Tool, IsDraft, Writing, Answers, Writers
<1>4. \A u \in Uploads, d \in Calls : Took(u, d)' <=> Took(u, d)
  BY <1>1, <1>2 DEF Took, FilesOf, Tool
<1>5. \A u \in Uploads, d \in Calls : Stored(u, d) => Stored(u, d)'
  BY <1>1, <1>2 DEF Stored, Tool
<1>6. Accounted'
  BY <1>1, <1>4, <1>5, QuietKeeps DEF Unspent
<1>7. DraftsInOrder'
  BY <1>1 DEF DraftsInOrder, CallsInOrder, IsDraft
<1>. QED  BY <1>3, <1>6, <1>7

(* Deleting a draft and changing labels concern no message of a call's own.  *)
LEMMA OtherMailElsewhere ==
    ASSUME CallsInOrder, DraftsInOrder, NEW c \in Calls,
           GmailDeleteDraft(c) \/ GmailModifyLabels(c) \/ Label(c) \/ Labelled(c)
    PROVE  /\ Elsewhere(c) /\ copy' = copy /\ DraftsInOrder'
           /\ pc[c] = "labelling" \/ Tool(c) # "update"
<1>1. ASSUME NEW to, Hold(c, to, copy[c])
      PROVE  Goto(c, to) /\ Unspent /\ copy' = copy /\ drafts' = drafts
  BY <1>1 DEF Hold, CallsInOrder, mail
<1>2. /\ \/ \E to \in {"done", "failed", "refused", "labelling"} : Goto(c, to)
         \/ UNCHANGED calls
      /\ Unspent /\ copy' = copy
      /\ drafts' = drafts \/ \E d : drafts' = [drafts EXCEPT ![d] = [Blank EXCEPT !.there = FALSE]]
      /\ pc[c] = "labelling" \/ (pc[c] = "called" /\ Tool(c) \in {"discard", "labels"})
  <2>1. CASE GmailDeleteDraft(c)
    BY <2>1 DEF GmailDeleteDraft, Give, Written, Under, Tool, mailVars, mail
  <2>2. CASE GmailModifyLabels(c)
    BY <2>2, <1>1 DEF GmailModifyLabels, Give, Decline, Under, Tool, mailVars, mail
  <2>3. CASE Label(c)
    BY <2>3 DEF Label, Unasked
  <2>4. CASE Labelled(c)
    BY <2>4, <1>1 DEF Labelled, Give, mailVars, mail
  <2>. QED  BY <2>1, <2>2, <2>3, <2>4
<1>3. pc[c] \notin Answers \cup Writing /\ Tool(c) \notin Writers
  BY <1>2, NoWriter DEF Answers, Writing, Writers
<1>4. ASSUME UNCHANGED calls  PROVE Goto(c, pc[c])
  BY <1>4 DEF Goto, calls, CallsInOrder
<1>5. \E to \in {"done", "failed", "refused", "labelling", "called"} : Goto(c, to)
  BY <1>2, <1>4
<1>6. Elsewhere(c)
  BY <1>2, <1>3, <1>5, GoesElsewhere DEF Writing
<1>7. DraftsInOrder'
  <2>1. IsDraft([Blank EXCEPT !.there = FALSE])
    BY DEF IsDraft
  <2>. QED  BY <1>2, <2>1 DEF DraftsInOrder, IsDraft
<1>. QED  BY <1>2, <1>6, <1>7

-----------------------------------------------------------------------------

UploadsInOrder == CallsInOrder /\ DraftsInOrder /\ Accounted

LEMMA UploadsInit == Init => UploadsInOrder
<1>1. SUFFICES ASSUME Init  PROVE UploadsInOrder
  OBVIOUS
<1>. USE <1>1
<1>2. CallsInOrder
  BY DEF Init, CallsInOrder, DraftsInit, IsDraft, Blank, AtStation, Writing, Answers, Writers, Tool
<1>3. DraftsInOrder
  BY MailboxHoldsDrafts DEF Init, DraftsInit, DraftsInOrder
<1>4. Accounted
  BY DEF Init, Accounted, TakenOnce, Untaken, Found, Took
<1>. QED  BY <1>2, <1>3, <1>4 DEF UploadsInOrder

(* People, and the hour of an upload, move no call.                         *)
LEMMA OutsidersKeep ==
    ASSUME UploadsInOrder, Others \/ Sweep \/ UNCHANGED vars
    PROVE  UploadsInOrder'
<1>1. /\ pc' = pc /\ op' = op /\ copy' = copy
      /\ staged' \subseteq staged /\ expired \subseteq expired' /\ staged \ staged' \subseteq expired'
  BY DEF Others, Sweep, Expire, vars, calls, mailVars
<1>2. DraftsInOrder'
  <2>1. CASE drafts' = drafts
    BY <2>1 DEF UploadsInOrder, DraftsInOrder, IsDraft
  <2>2. CASE PersonEdits \/ PersonAttaches
    <3>1. PICK d \in DraftIds : 
                            /\ There(d)
                            /\ \/ drafts' = [drafts EXCEPT ![d].by = "person", ![d].text = <<"person">>]
                               \/ drafts' = [drafts EXCEPT ![d].files = @ \cup {"theirs"}]
      BY <2>2 DEF PersonEdits, PersonAttaches
    <3>. QED  BY <3>1 DEF UploadsInOrder, DraftsInOrder, There, IsDraft
  <2>3. CASE PersonSends
    <3>1. IsDraft([Blank EXCEPT !.there = FALSE])
      BY DEF IsDraft
    <3>. QED  BY <2>3, <3>1 DEF PersonSends, UploadsInOrder, DraftsInOrder, IsDraft
  <2>. QED  BY <2>1, <2>2, <2>3 DEF Others, Sweep, vars, mail, mailVars
<1>3. CallsInOrder'
  BY <1>1 DEF UploadsInOrder, CallsInOrder, AtStation, Tool, IsDraft
<1>4. Accounted'
  <2>1. \A u \in Uploads, d \in Calls : (Took(u, d)' <=> Took(u, d)) /\ (Stored(u, d) => Stored(u, d)')
    BY <1>1 DEF Took, Stored, FilesOf, Tool
  <2>. QED  BY <1>1, <2>1, QuietKeeps DEF UploadsInOrder
<1>. QED  BY <1>2, <1>3, <1>4 DEF UploadsInOrder

LEMMA UploadsStep == UploadsInOrder /\ [Next]_vars => UploadsInOrder'
<1>1. SUFFICES ASSUME UploadsInOrder, [Next]_vars  PROVE UploadsInOrder'
  OBVIOUS
<1>. USE DEF UploadsInOrder
<1>2. ASSUME NEW c \in Calls, Elsewhere(c), copy' = copy, drafts' = drafts
      PROVE  UploadsInOrder'
  BY <1>1, <1>2, ElsewhereKeeps DEF DraftsInOrder, IsDraft
<1>3. ASSUME NEW c \in Calls, Drive(c)  PROVE UploadsInOrder'
  BY <1>1, <1>2, <1>3, DriveElsewhere DEF Drive, mailVars, mail
<1>4. ASSUME NEW c \in Calls, SheetsOf(c)  PROVE UploadsInOrder'
  BY <1>1, <1>2, <1>4, SheetsElsewhere DEF SheetsOf, mailVars, mail
<1>5. ASSUME NEW c \in Calls, CalendarOf(c)  PROVE UploadsInOrder'
  BY <1>1, <1>2, <1>5, EventsElsewhere DEF CalendarOf, mailVars, mail
<1>6. ASSUME NEW c \in Calls, Gmail(c)  PROVE UploadsInOrder'
  <2>1. DraftCall(c)
    BY <1>6 DEF Gmail
  <2>2. CASE GmailDeleteDraft(c) \/ GmailModifyLabels(c) \/ Label(c) \/ Labelled(c)
    BY <1>1, <2>2, OtherMailElsewhere, ElsewhereKeeps
  <2>. QED  BY <1>1, <2>1, <2>2, BeginningKeeps, TakingKeeps, WritingKeeps DEF DraftCall
<1>. QED  BY <1>1, <1>3, <1>4, <1>5, <1>6, OutsidersKeep DEF Next

LEMMA AccountedIsAccounted == Accounted => UploadsAccounted
<1>1. SUFFICES ASSUME Accounted, NEW u \in Uploads
               PROVE  /\ Cardinality(Takers(u)) <= 1
                      /\ u \in staged => Takers(u) = {}
                      /\ \/ u \in staged \cup expired
                         \/ Takers(u) # {}
                         \/ \E c \in Calls : Tool(c) \in {"upload", "update"} /\ op[c].upload = u /\ pc[c] = "done"
  BY DEF UploadsAccounted
<1>2. TakenOnce(u) /\ Untaken(u) /\ Found(u)
  BY <1>1 DEF Accounted
<1>3. Takers(u) = {c \in Calls : Took(u, c)}
  BY DEF Takers, Took
<1>4. Takers(u) = {} \/ \E c \in Calls : Takers(u) = {c}
  BY <1>2, <1>3 DEF TakenOnce
<1>5. Cardinality(Takers(u)) <= 1
  <2>1. CASE Takers(u) = {}
    BY <2>1, FS_EmptySet
  <2>2. CASE \E c \in Calls : Takers(u) = {c}
    <3>1. PICK c \in Calls : Takers(u) = {c}
      BY <2>2
    <3>2. Cardinality({c}) = 1
      BY FS_Singleton
    <3>. QED  BY <3>1, <3>2
  <2>. QED  BY <1>4, <2>1, <2>2
<1>6. u \in staged => Takers(u) = {}
  BY <1>2, <1>3 DEF Untaken
<1>7. u \in staged \cup expired \/ Takers(u) # {} \/ \E c \in Calls : Stored(u, c)
  BY <1>2, <1>3 DEF Found
<1>. QED  BY <1>5, <1>6, <1>7 DEF Stored

(* An upload is attached to one message at most, waits for nobody once it is  *)
(* taken, and is gone only by its hour, by a message that took it, or by a    *)
(* store that Drive has answered (Staging::take, Gmcp::attachments and the    *)
(* spend at the end of drive_upload and drive_update_file).                 *)
THEOREM UploadsStayAccounted == Spec => []UploadsAccounted
<1>1. Spec => []UploadsInOrder
  BY UploadsInit, UploadsStep, PTL DEF Spec
<1>2. UploadsInOrder => UploadsAccounted
  BY AccountedIsAccounted DEF UploadsInOrder
<1>. QED  BY <1>1, <1>2, PTL

-----------------------------------------------------------------------------
(* The conversation a draft is in.                                          *)

(* None stands for no draft.                                                *)
NoneIsNoDraft == \A r : IsDraft(r) => r # None

(* What a call holds is of the conversation of the draft it is to be written *)
(* to, for as long as that is a draft; a new one is of none, and a reply of   *)
(* the one it answers.                                                      *)
InThread(c) ==
    /\ pc[c] = "weigh" => Tool(c) = "attach"
    /\ pc[c] \in {"take", "write"} =>
          /\ Tool(c) = "create" => copy[c].thread = New
          /\ Tool(c) = "reply" => copy[c].thread = op[c].message.thread
    /\ pc[c] \in Writing /\ Tool(c) \in {"rewrite", "attach"} /\ op[c].draft \in DraftIds =>
          /\ drafts[op[c].draft] # None
          /\ There(op[c].draft) => copy[c].thread = drafts[op[c].draft].thread

ThreadsInOrder == \A c \in Calls : InThread(c)

(* What becomes of the drafts there are, whoever changes them.               *)
Lasting ==
    \A d \in DraftIds :
        drafts[d] # None => /\ drafts'[d] # None
                            /\ drafts'[d].there => There(d) /\ drafts'[d].thread = drafts[d].thread

(* Where a draft comes from.                                                *)
Arises(d) ==
    \E c \in Calls :
        /\ pc[c] = "write" /\ pc'[c] # pc[c]
        /\ drafts'[d].thread = IF Tool(c) = "reply" THEN op[c].message.thread ELSE New
NoneAppear == \A d \in DraftIds : drafts[d] = None /\ drafts'[d] # None => Arises(d)

(* A step of one call that leaves what the others hold.                      *)
LEMMA OneHolds ==
    ASSUME ThreadsInOrder, NEW c \in Calls, InThread(c)', Lasting, op' = op,
           \A e \in Calls \ {c} : pc'[e] = pc[e] /\ copy'[e] = copy[e]
    PROVE  ThreadsInOrder'
BY DEF ThreadsInOrder, InThread, Lasting, Tool, There

(* A call that writes no message holds nothing of a conversation.            *)
LEMMA ElsewhereHolds ==
    ASSUME CallsInOrder, ThreadsInOrder, NEW c \in Calls, Elsewhere(c), copy' = copy, Lasting
    PROVE  ThreadsInOrder'
<1>1. op' = op /\ pc'[c] \notin Writing /\ \A e \in Calls \ {c} : pc'[e] = pc[e]
  BY DEF Elsewhere, CallsInOrder
<1>2. InThread(c)'
  BY <1>1 DEF InThread, Writing
<1>. QED  BY <1>1, <1>2, OneHolds

LEMMA SameDraftsLast ==
    ASSUME drafts' = drafts
    PROVE  Lasting /\ NoneAppear
BY DEF Lasting, NoneAppear, There

(* Beginning a message, weighing it and taking its files.                    *)
LEMMA HoldingHolds ==
    ASSUME CallsInOrder, DraftsInOrder, ThreadsInOrder, NEW c \in Calls,
           \/ GmailCreateDraft(c) \/ GmailReplyDraft(c) \/ GmailUpdateDraft(c) \/ GmailAttachToDraft(c)
           \/ Weigh(c) \/ TakeFiles(c)
    PROVE  ThreadsInOrder' /\ Lasting /\ NoneAppear
<1>1. /\ drafts' = drafts /\ op' = op
      /\ \A e \in Calls \ {c} : pc'[e] = pc[e] /\ copy'[e] = copy[e]
  BY DEF GmailCreateDraft, GmailReplyDraft, GmailUpdateDraft, GmailAttachToDraft, Weigh, TakeFiles,
         Decline, Give, Hold, Goto, CallsInOrder, mailVars, mail
<1>2. SUFFICES InThread(c)'
  BY <1>1, SameDraftsLast, OneHolds
<1>3. ASSUME Decline(c) \/ Give(c)  PROVE InThread(c)'
  BY <1>3 DEF Decline, Give, Goto, CallsInOrder, InThread, Writing
<1>4. ASSUME NEW r, Hold(c, "take", r),
             Tool(c) = "create" => r.thread = New,
             Tool(c) = "reply" => r.thread = op[c].message.thread,
             Tool(c) = "rewrite" => There(op[c].draft) /\ r.thread = drafts[op[c].draft].thread,
             Tool(c) = "attach" /\ op[c].draft \in DraftIds =>
                 /\ drafts[op[c].draft] # None
                 /\ There(op[c].draft) => r.thread = drafts[op[c].draft].thread
      PROVE  InThread(c)'
  <2>1. pc'[c] = "take" /\ copy'[c] = r
    BY <1>4 DEF Hold, Goto, CallsInOrder
  <2>. QED  BY <1>1, <1>4, <2>1 DEF InThread, Tool, There
<1>5. CASE GmailCreateDraft(c)
  <2>. DEFINE R(from, to) == [Blank EXCEPT !.by = c, !.text = <<c>>, !.from = from, !.to = to]
  <2>1. Tool(c) = "create"
    BY <1>5 DEF GmailCreateDraft, Under, Tool
  <2>2. \A from, to : R(from, to).thread = New
    BY DEF Blank
  <2>3. Decline(c) \/ Give(c) \/ \E from, to : Hold(c, "take", R(from, to))
    BY <1>5, Zenon DEF GmailCreateDraft
  <2>. HIDE DEF R
  <2>4. ASSUME NEW from, NEW to, Hold(c, "take", R(from, to))  PROVE InThread(c)'
    BY <1>4, <2>1, <2>2, <2>4
  <2>. QED  BY <1>3, <2>3, <2>4
<1>6. CASE GmailReplyDraft(c)
  <2>. DEFINE R(from, to, cc) == [Blank EXCEPT !.by = c, !.text = <<c>>, !.from = from, !.to = to, !.cc = cc,
                                               !.thread = op[c].message.thread]
  <2>1. Tool(c) = "reply"
    BY <1>6 DEF GmailReplyDraft, Under, Tool
  <2>2. \A from, to, cc : R(from, to, cc).thread = op[c].message.thread
    BY DEF Blank
  <2>3. Decline(c) \/ Give(c) \/ \E from, to, cc : Hold(c, "take", R(from, to, cc))
    BY <1>6, Zenon DEF GmailReplyDraft
  <2>. HIDE DEF R
  <2>4. ASSUME NEW from, NEW to, NEW cc, Hold(c, "take", R(from, to, cc))  PROVE InThread(c)'
    BY <1>4, <2>1, <2>2, <2>4
  <2>. QED  BY <1>3, <2>3, <2>4
<1>7. CASE GmailUpdateDraft(c)
  <2>. DEFINE R(from, to) == [Blank EXCEPT !.by = c, !.text = <<c>>, !.from = from, !.to = to,
                                           !.thread = drafts[op[c].draft].thread]
  <2>1. Tool(c) = "rewrite"
    BY <1>7 DEF GmailUpdateDraft, Under, Tool
  <2>2. \A from, to : R(from, to).thread = drafts[op[c].draft].thread
    BY DEF Blank
  <2>3. \/ Decline(c) \/ Give(c)
        \/ There(op[c].draft) /\ \E from, to : Hold(c, "take", R(from, to))
    BY <1>7, Zenon DEF GmailUpdateDraft
  <2>. HIDE DEF R
  <2>4. ASSUME There(op[c].draft), NEW from, NEW to, Hold(c, "take", R(from, to))  PROVE InThread(c)'
    BY <1>4, <2>1, <2>2, <2>4
  <2>. QED  BY <1>3, <2>3, <2>4
<1>8. CASE GmailAttachToDraft(c)
  <2>1. Tool(c) = "attach"
    BY <1>8 DEF GmailAttachToDraft, Under, Tool
  <2>2. \/ Decline(c) \/ Give(c)
        \/ There(op[c].draft) /\ Hold(c, "weigh", Rebuilt(drafts[op[c].draft]))
    BY <1>8 DEF GmailAttachToDraft
  <2>3. ASSUME There(op[c].draft), Hold(c, "weigh", Rebuilt(drafts[op[c].draft]))  PROVE InThread(c)'
    <3>1. pc'[c] = "weigh" /\ copy'[c] = Rebuilt(drafts[op[c].draft])
      BY <2>3 DEF Hold, Goto, CallsInOrder
    <3>2. op[c].draft \in DraftIds => copy'[c].thread = drafts[op[c].draft].thread
      BY <2>3, <3>1, RebuiltKeeps DEF DraftsInOrder, There
    <3>. QED  BY <1>1, <2>1, <2>3, <3>1, <3>2 DEF InThread, Tool, There
  <2>. QED  BY <1>3, <2>2, <2>3
<1>9. CASE Weigh(c)
  <2>1. pc[c] = "weigh" /\ Tool(c) = "attach" /\ InThread(c)
    BY <1>9 DEF Weigh, ThreadsInOrder, InThread
  <2>2. \A from : [copy[c] EXCEPT !.from = from].thread = copy[c].thread
    BY DEF CallsInOrder, IsDraft, Blank
  <2>3. Decline(c) \/ \E r : Hold(c, "take", r) /\ r.thread = copy[c].thread
    BY <1>9, <2>2, Zenon DEF Weigh
  <2>. QED  BY <1>3, <1>4, <2>1, <2>3 DEF InThread, Writing, Tool
<1>10. CASE TakeFiles(c)
  <2>1. pc[c] = "take" /\ InThread(c)
    BY <1>10 DEF TakeFiles, ThreadsInOrder
  <2>2. \/ Decline(c)
        \/ pc'[c] = "write" /\ copy' = [copy EXCEPT ![c].files = @ \cup op[c].files]
    BY <1>10 DEF TakeFiles, Goto, CallsInOrder
  <2>3. ASSUME copy' = [copy EXCEPT ![c].files = @ \cup op[c].files]
        PROVE  copy'[c].thread = copy[c].thread
    BY <2>3 DEF CallsInOrder, IsDraft, Blank
  <2>. QED  BY <1>1, <1>3, <2>1, <2>2, <2>3 DEF InThread, Tool, There, Writing
<1>. QED  BY <1>5, <1>6, <1>7, <1>8, <1>9, <1>10

(* The write: over the draft that was read, or where there was none.         *)
LEMMA WritingHolds ==
    ASSUME NoneIsNoDraft, CallsInOrder, DraftsInOrder, ThreadsInOrder, NEW c \in Calls, WriteDraft(c)
    PROVE  ThreadsInOrder' /\ Lasting /\ NoneAppear
<1>1. /\ pc[c] = "write" /\ pc'[c] \in {"done", "failed"} /\ op' = op
      /\ \A e \in Calls \ {c} : pc'[e] = pc[e] /\ copy'[e] = copy[e]
  BY DEF WriteDraft, Give, Written, Goto, CallsInOrder, mailVars, mail
<1>2. Tool(c) \in Writers /\ InThread(c)
  BY <1>1 DEF CallsInOrder, AtStation, ThreadsInOrder, Writing
<1>3. copy[c] # None
  BY DEF NoneIsNoDraft, CallsInOrder
<1>4. InThread(c)'
  BY <1>1 DEF InThread, Writing
<1>5. CASE drafts' = drafts
  BY <1>1, <1>4, <1>5, SameDraftsLast, OneHolds
<1>6. ASSUME NEW d \in DraftIds, drafts[d] = None, drafts' = [drafts EXCEPT ![d] = copy[c]],
             Tool(c) \in {"create", "reply"}
      PROVE  Lasting /\ NoneAppear
  <2>1. drafts'[d].thread = IF Tool(c) = "reply" THEN op[c].message.thread ELSE New
    BY <1>1, <1>2, <1>6 DEF InThread, DraftsInOrder
  <2>2. Arises(d)
    BY <1>1, <2>1 DEF Arises
  <2>3. \A e \in DraftIds \ {d} : drafts'[e] = drafts[e]
    BY <1>6 DEF DraftsInOrder
  <2>. QED  BY <1>6, <2>2, <2>3 DEF Lasting, NoneAppear, There
<1>7. ASSUME Tool(c) \in {"rewrite", "attach"}, There(op[c].draft), drafts' = [drafts EXCEPT ![op[c].draft] = copy[c]]
      PROVE  Lasting /\ NoneAppear
  <2>1. \A e \in DraftIds \ {op[c].draft} : drafts'[e] = drafts[e]
    BY <1>7 DEF DraftsInOrder
  <2>2. CASE op[c].draft \in DraftIds
    <3>1. drafts'[op[c].draft] = copy[c]
      BY <1>7, <2>2 DEF DraftsInOrder
    <3>2. copy[c].thread = drafts[op[c].draft].thread
      BY <1>1, <1>2, <1>7, <2>2 DEF InThread, Writing
    <3>. QED  BY <1>3, <1>7, <2>1, <3>1, <3>2 DEF Lasting, NoneAppear, There
  <2>. QED  BY <2>1, <2>2 DEF Lasting, NoneAppear, There
<1>8. \/ drafts' = drafts
      \/ /\ Tool(c) \in {"create", "reply"}
         /\ \E d \in DraftIds : drafts[d] = None /\ drafts' = [drafts EXCEPT ![d] = copy[c]]
      \/ /\ Tool(c) \in {"rewrite", "attach"}
         /\ There(op[c].draft) /\ drafts' = [drafts EXCEPT ![op[c].draft] = copy[c]]
  BY <1>2 DEF WriteDraft, Give, Written, NextId, Tool, Writers, mailVars, mail
<1>. QED  BY <1>1, <1>4, <1>5, <1>6, <1>7, <1>8, OneHolds

(* A draft that is deleted or sent is one no more.                           *)
LEMMA GoneLasts ==
    ASSUME NoneIsNoDraft, DraftsInOrder, NEW d, There(d),
           drafts' = [drafts EXCEPT ![d] = [Blank EXCEPT !.there = FALSE]]
    PROVE  Lasting /\ NoneAppear
<1>1. IsDraft([Blank EXCEPT !.there = FALSE]) /\ ~[Blank EXCEPT !.there = FALSE].there
  BY DEF IsDraft, Blank
<1>2. \A e \in DraftIds : drafts'[e] = IF e = d THEN [Blank EXCEPT !.there = FALSE] ELSE drafts[e]
  BY DEF DraftsInOrder
<1>. QED  BY <1>1, <1>2 DEF NoneIsNoDraft, Lasting, NoneAppear, There

(* People write in a draft, or send it, where it is.                         *)
LEMMA PeopleLast ==
    ASSUME NoneIsNoDraft, DraftsInOrder, PersonEdits \/ PersonAttaches \/ PersonSends
    PROVE  Lasting /\ NoneAppear
<1>1. CASE PersonEdits \/ PersonAttaches
  <2>1. PICK d \in DraftIds : /\ There(d)
                              /\ \/ drafts' = [drafts EXCEPT ![d].by = "person", ![d].text = <<"person">>]
                                 \/ drafts' = [drafts EXCEPT ![d].files = @ \cup {"theirs"}]
    BY <1>1 DEF PersonEdits, PersonAttaches
  <2>2. IsDraft(drafts[d])
    BY <2>1 DEF DraftsInOrder, There
  <2>3. /\ IsDraft(drafts'[d]) /\ drafts'[d].thread = drafts[d].thread
        /\ \A e \in DraftIds \ {d} : drafts'[e] = drafts[e]
    BY <2>1, <2>2 DEF DraftsInOrder, IsDraft, Blank
  <2>. QED  BY <2>1, <2>3 DEF NoneIsNoDraft, Lasting, NoneAppear, There
<1>2. CASE PersonSends
  BY <1>2, GoneLasts DEF PersonSends
<1>. QED  BY <1>1, <1>2

LEMMA ThreadsStep ==
    ASSUME NoneIsNoDraft, UploadsInOrder, ThreadsInOrder, [Next]_vars
    PROVE  ThreadsInOrder' /\ Lasting /\ NoneAppear
<1>. USE DEF UploadsInOrder
<1>1. ASSUME NEW c \in Calls, Elsewhere(c), copy' = copy, drafts' = drafts
      PROVE  ThreadsInOrder' /\ Lasting /\ NoneAppear
  BY <1>1, SameDraftsLast, ElsewhereHolds
<1>2. ASSUME NEW c \in Calls, Drive(c) \/ SheetsOf(c) \/ CalendarOf(c)
      PROVE  ThreadsInOrder' /\ Lasting /\ NoneAppear
  BY <1>1, <1>2, DriveElsewhere, SheetsElsewhere, EventsElsewhere DEF Drive, SheetsOf, CalendarOf, mailVars, mail
<1>3. ASSUME NEW c \in Calls, Gmail(c)
      PROVE  ThreadsInOrder' /\ Lasting /\ NoneAppear
  <2>1. DraftCall(c)
    BY <1>3 DEF Gmail
  <2>2. CASE GmailDeleteDraft(c) \/ GmailModifyLabels(c) \/ Label(c) \/ Labelled(c)
    <3>1. Elsewhere(c) /\ copy' = copy
      BY <2>2, OtherMailElsewhere
    <3>2. CASE drafts' = drafts
      BY <1>1, <3>1, <3>2
    <3>3. CASE drafts' # drafts
      <4>1. There(op[c].draft) /\ drafts' = [drafts EXCEPT ![op[c].draft] = [Blank EXCEPT !.there = FALSE]]
        BY <2>2, <3>3 DEF GmailDeleteDraft, GmailModifyLabels, Label, Labelled, Give, Decline, Hold, Written,
                          mailVars, mail
      <4>. QED  BY <3>1, <4>1, GoneLasts, ElsewhereHolds
    <3>. QED  BY <3>2, <3>3
  <2>. QED  BY <2>1, <2>2, HoldingHolds, WritingHolds DEF DraftCall
<1>4. CASE Others \/ Sweep \/ UNCHANGED vars
  <2>1. pc' = pc /\ op' = op /\ copy' = copy
    BY <1>4 DEF Others, Sweep, Expire, vars, calls, mailVars
  <2>2. Lasting /\ NoneAppear
    BY <1>4, PeopleLast, SameDraftsLast DEF Others, Sweep, vars, mail, mailVars
  <2>3. ThreadsInOrder'
    BY <2>1, <2>2 DEF ThreadsInOrder, InThread, Lasting, Tool, There
  <2>. QED  BY <2>2, <2>3
<1>. QED  BY <1>2, <1>3, <1>4 DEF Next

(* A draft stays in its conversation for as long as it is one, whoever writes *)
(* it and whatever becomes of it between a call's reading and its writing;    *)
(* and a reply is written into the conversation it answers (the thread ids    *)
(* gmail_update_draft and gmail_attach_to_draft read and write back).         *)
THEOREM ThreadsStay == ASSUME NoneIsNoDraft PROVE Spec => ThreadsKept
<1>1. Init => ThreadsInOrder
  BY DEF Init, ThreadsInOrder, InThread, Writing
<1>2. UploadsInOrder /\ ThreadsInOrder /\ [Next]_vars => ThreadsInOrder'
  BY ThreadsStep
<1>3. Lasting /\ NoneAppear =>
        [\A d \in DraftIds :
            /\ There(d) /\ drafts'[d].there => drafts'[d].thread = drafts[d].thread
            /\ drafts[d] = None /\ drafts'[d] # None =>
                  \E c \in Calls :
                      /\ pc[c] = "write" /\ pc'[c] # pc[c]
                      /\ drafts'[d].thread = IF Tool(c) = "reply" THEN op[c].message.thread ELSE New]_vars
  BY DEF Lasting, NoneAppear, Arises, There
<1>4. UploadsInOrder /\ ThreadsInOrder /\ [Next]_vars => Lasting /\ NoneAppear
  BY ThreadsStep
<1>. QED  BY <1>1, <1>2, <1>3, <1>4, UploadsInit, UploadsStep, PTL DEF Spec, ThreadsKept

-----------------------------------------------------------------------------
(* What drive_update_file makes safe.                                       *)

IsJob(r) == r = [f \in DOMAIN NoJob |-> r[f]]

Safe(i, v) == versions[i][v].kept /\ ~versions[i][v].gone

VersionsInOrder ==
    /\ items = [i \in Ids |-> items[i]]
    /\ versions \in [Ids -> Seq(Versions)]
    /\ \A i \in Ids : items[i] # None =>
          /\ IsItem(items[i])
          /\ items[i].type \notin Google => versions[i] # <<>>
    /\ \A i \in Ids : Cardinality(KeptForever(i)) <= KeepMax

JobsInOrder ==
    /\ job = [c \in Calls |-> job[c]]
    /\ \A c \in Calls : IsJob(job[c])

(* A call that updates a file knows a version of it, goes to the mark only if  *)
(* the versions it was told of leave room for it, and has it kept for ever     *)
(* before it sends the new content.                                         *)
Room(known, v) == IsFiniteSet(known) /\ Cardinality(known \cup {v}) <= KeepMax
PinInOrder(c) ==
    Tool(c) = "update" =>
        /\ pc[c] \in {"called", "revisable", "history", "pin", "replace", "stored"} \cup Answers
        /\ pc[c] \in {"history", "pin", "replace", "stored", "done"} =>
              op[c].file \in Drawn /\ job[c].head \in DOMAIN versions[op[c].file]
        /\ pc[c] = "pin" => Room(job[c].kept, job[c].head)
        /\ pc[c] \in {"replace", "stored", "done"} => Safe(op[c].file, job[c].head)

PinsInOrder == VersionsInOrder /\ JobsInOrder /\ \A c \in Calls : PinInOrder(c)

(* What becomes of Drive, whoever does it: what is there stays, and so do     *)
(* versions that are kept.                                                  *)
HistoryKept ==
    \A i \in Drawn :
        /\ i \in Drawn'
        /\ \A v \in DOMAIN versions[i] : v \in DOMAIN versions'[i] /\ (Safe(i, v) => Safe(i, v)')

LEMMA PinKept ==
    ASSUME NEW c \in Calls, PinInOrder(c), HistoryKept,
           op' = op, pc'[c] = pc[c], job'[c] = job[c]
    PROVE  PinInOrder(c)'
BY DEF PinInOrder, HistoryKept, Tool, Safe

-----------------------------------------------------------------------------
(* Steps on the versions themselves.                                        *)

LEMMA SameDrive ==
    ASSUME VersionsInOrder, items' = items, versions' = versions
    PROVE  VersionsInOrder' /\ HistoryKept
BY DEF VersionsInOrder, HistoryKept, KeptForever, Safe, Drawn, IsItem

(* One file's history, for another that keeps what it kept.                  *)
LEMMA OneHistory ==
    ASSUME VersionsInOrder, NEW file \in Drawn, NEW new \in Seq(Versions), items' = items,
           versions' = [versions EXCEPT ![file] = new],
           new # <<>>,
           DOMAIN versions[file] \subseteq DOMAIN new,
           \A v \in DOMAIN versions[file] : Safe(file, v) => new[v].kept /\ ~new[v].gone,
           Cardinality({v \in DOMAIN new : new[v].kept /\ ~new[v].deleted}) <= KeepMax
    PROVE  VersionsInOrder' /\ HistoryKept
<1>1. file \in Ids /\ versions'[file] = new /\ \A i \in Ids \ {file} : versions'[i] = versions[i]
  BY DEF VersionsInOrder, Drawn
<1>2. Drawn' = Drawn
  BY DEF Drawn
<1>3. \A i \in Ids : Cardinality(KeptForever(i)') <= KeepMax
  <2>. SUFFICES ASSUME NEW i \in Ids  PROVE Cardinality(KeptForever(i)') <= KeepMax
    OBVIOUS
  <2>1. CASE i = file
    BY <1>1, <2>1 DEF KeptForever
  <2>2. CASE i # file
    <3>1. KeptForever(i)' = KeptForever(i)
      BY <1>1, <2>2 DEF KeptForever
    <3>. QED  BY <3>1 DEF VersionsInOrder
  <2>. QED  BY <2>1, <2>2
<1>4. versions' \in [Ids -> Seq(Versions)]
  BY <1>1 DEF VersionsInOrder
<1>5. VersionsInOrder'
  BY <1>1, <1>3, <1>4 DEF VersionsInOrder, IsItem
<1>6. HistoryKept
  BY <1>1, <1>2 DEF HistoryKept, Safe, Drawn
<1>. QED  BY <1>5, <1>6

(* New content over the head.                                               *)
LEMMA Appending ==
    ASSUME VersionsInOrder, NEW file \in Drawn, NEW by \in Calls \cup {None}, items' = items,
           versions' = [versions EXCEPT ![file] = Append(@, Version(by))]
    PROVE  VersionsInOrder' /\ HistoryKept
<1>. DEFINE old == versions[file]
            new == Append(old, Version(by))
<1>1. file \in Ids /\ old \in Seq(Versions) /\ Version(by) \in Versions
  BY DEF VersionsInOrder, Drawn, Version, Versions
<1>2. /\ new \in Seq(Versions) /\ new # <<>> /\ Len(new) = Len(old) + 1 /\ DOMAIN old \subseteq DOMAIN new
      /\ \A v \in DOMAIN old : new[v] = old[v]
      /\ \A v \in DOMAIN new : v \in DOMAIN old \/ new[v] = Version(by)
  BY <1>1
<1>3. {v \in DOMAIN new : new[v].kept /\ ~new[v].deleted} = KeptForever(file)
  BY <1>2 DEF KeptForever, Version
<1>4. Cardinality({v \in DOMAIN new : new[v].kept /\ ~new[v].deleted}) <= KeepMax
  BY <1>1, <1>3 DEF VersionsInOrder
<1>5. versions' = [versions EXCEPT ![file] = new]
  OBVIOUS
<1>. HIDE DEF new
<1>. QED  BY <1>2, <1>4, <1>5, OneHistory DEF Safe

(* A file has finitely many versions.                                       *)
LEMMA KeptFinite ==
    ASSUME VersionsInOrder, NEW file \in Ids
    PROVE  IsFiniteSet(KeptForever(file)) /\ \A v \in DOMAIN versions[file] : IsFiniteSet(KeptForever(file) \cup {v})
<1>. DEFINE old == versions[file]
<1>1. DOMAIN old = 1 .. Len(old) /\ Len(old) \in Int
  BY DEF VersionsInOrder
<1>2. IsFiniteSet(DOMAIN old)
  <2>1. 1 \in Int
    OBVIOUS
  <2>2. IsFiniteSet(1 .. Len(old))
    BY <1>1, <2>1, FS_Interval, Zenon
  <2>. QED  BY <1>1, <2>2
<1>3. KeptForever(file) \subseteq DOMAIN old /\ \A v \in DOMAIN old : KeptForever(file) \cup {v} \subseteq DOMAIN old
  BY DEF KeptForever
<1>. QED  BY <1>2, <1>3, FS_Subset

(* A version that is changed and keeps its place.                            *)
LEMMA OneVersion ==
    ASSUME VersionsInOrder, NEW file \in Drawn, NEW v \in DOMAIN versions[file], NEW version \in Versions,
           items' = items, versions' = [versions EXCEPT ![file][v] = version],
           Safe(file, v) => version.kept /\ ~version.gone,
           \/ version.kept /\ ~version.deleted => v \in KeptForever(file)
           \/ Cardinality(KeptForever(file) \cup {v}) <= KeepMax
    PROVE  VersionsInOrder' /\ HistoryKept
<1>. DEFINE old == versions[file]
            new == [old EXCEPT ![v] = version]
            kept == {w \in DOMAIN new : new[w].kept /\ ~new[w].deleted}
<1>1. file \in Ids /\ old \in Seq(Versions)
  BY DEF VersionsInOrder, Drawn
<1>2. /\ new \in Seq(Versions) /\ new # <<>> /\ DOMAIN new = DOMAIN old /\ new[v] = version
      /\ \A w \in DOMAIN old \ {v} : new[w] = old[w]
  BY <1>1
<1>3. IsFiniteSet(KeptForever(file) \cup {v}) /\ IsFiniteSet(KeptForever(file))
  BY <1>1, KeptFinite
<1>4. Cardinality(kept) <= KeepMax
  <2>1. CASE version.kept /\ ~version.deleted => v \in KeptForever(file)
    <3>1. kept \subseteq KeptForever(file)
      BY <1>2, <2>1 DEF KeptForever
    <3>2. Cardinality(kept) <= Cardinality(KeptForever(file)) /\ Cardinality(KeptForever(file)) \in Nat
          /\ Cardinality(kept) \in Nat
      BY <1>3, <3>1, FS_Subset, FS_CardinalityType
    <3>. QED  BY <1>1, <3>2, FilesHaveVersions DEF VersionsInOrder
  <2>2. CASE Cardinality(KeptForever(file) \cup {v}) <= KeepMax
    <3>1. kept \subseteq KeptForever(file) \cup {v}
      BY <1>2 DEF KeptForever
    <3>2. Cardinality(kept) <= Cardinality(KeptForever(file) \cup {v})
          /\ Cardinality(KeptForever(file) \cup {v}) \in Nat /\ Cardinality(kept) \in Nat
      BY <1>3, <3>1, FS_Subset, FS_CardinalityType
    <3>. QED  BY <2>2, <3>2, FilesHaveVersions
  <2>. QED  BY <2>1, <2>2
<1>5. versions' = [versions EXCEPT ![file] = new]
  OBVIOUS
<1>6. \A w \in DOMAIN versions[file] : Safe(file, w) => new[w].kept /\ ~new[w].gone
  BY <1>2 DEF Safe
<1>7. Cardinality({w \in DOMAIN new : new[w].kept /\ ~new[w].deleted}) <= KeepMax
  BY <1>4
<1>8. new \in Seq(Versions) /\ new # <<>> /\ DOMAIN versions[file] \subseteq DOMAIN new
  BY <1>2
<1>. HIDE DEF new, kept, old
<1>. QED  BY <1>5, <1>6, <1>7, <1>8, OneHistory

(* What is put in has the history of something new.                         *)
LEMMA Putting ==
    ASSUME VersionsInOrder, NEW i \in Ids, Fresh(i), NEW item, IsItem(item), item.by \in Calls \cup {None},
           items' = [items EXCEPT ![i] = item], versions' = [versions EXCEPT ![i] = History(item)]
    PROVE  VersionsInOrder' /\ HistoryKept
<1>. DEFINE new == History(item)
<1>1. /\ items' = [j \in Ids |-> items'[j]] /\ items'[i] = item
      /\ \A j \in Ids \ {i} : items'[j] = items[j] /\ versions'[j] = versions[j]
      /\ versions'[i] = new /\ i \notin Drawn
  BY DEF VersionsInOrder, Fresh
<1>2. Version(item.by) \in Versions
  BY DEF Version, Versions
<1>3. /\ new \in Seq(Versions) /\ \A v \in DOMAIN new : ~new[v].kept
      /\ item # None /\ item.type \notin Google => new # <<>>
  BY <1>2 DEF History, Version
<1>4. \A j \in Ids : Cardinality(KeptForever(j)') <= KeepMax
  <2>. SUFFICES ASSUME NEW j \in Ids  PROVE Cardinality(KeptForever(j)') <= KeepMax
    OBVIOUS
  <2>1. CASE j = i
    <3>1. KeptForever(i)' = {}
      BY <1>1, <1>3 DEF KeptForever
    <3>2. Cardinality(KeptForever(i)') = 0
      BY <3>1, FS_EmptySet
    <3>. QED  BY <2>1, <3>2, FilesHaveVersions
  <2>2. CASE j # i
    <3>1. KeptForever(j)' = KeptForever(j)
      BY <1>1, <2>2 DEF KeptForever
    <3>. QED  BY <3>1 DEF VersionsInOrder
  <2>. QED  BY <2>1, <2>2
<1>5. versions' \in [Ids -> Seq(Versions)]
  BY <1>1, <1>3 DEF VersionsInOrder
<1>6. VersionsInOrder'
  BY <1>1, <1>3, <1>4, <1>5 DEF VersionsInOrder, IsItem
<1>7. HistoryKept
  BY <1>1 DEF HistoryKept, Drawn, Safe
<1>. QED  BY <1>6, <1>7

LEMMA PeopleKeepVersions ==
    ASSUME VersionsInOrder, PersonMakes \/ PersonBins \/ PersonWrites \/ PersonDeletes \/ Purge
    PROVE  VersionsInOrder' /\ HistoryKept
<1>1. CASE PersonMakes
  <2>1. PICK i \in Ids : \E item :
            /\ Fresh(i) /\ IsItem(item) /\ item.type = "folder"
            /\ items' = [items EXCEPT ![i] = item] /\ versions' = versions
    <3>1. \A name, parent : IsItem(Item("folder", name, parent, FALSE, None))
                            /\ Item("folder", name, parent, FALSE, None).type = "folder"
      BY DEF IsItem, Item
    <3>. QED  BY <1>1, <3>1, Zenon DEF PersonMakes
  <2>2. PICK item :
            /\ Fresh(i) /\ IsItem(item) /\ item.type = "folder"
            /\ items' = [items EXCEPT ![i] = item] /\ versions' = versions
    BY <2>1
  <2>3. \A j \in Ids : KeptForever(j)' = KeptForever(j)
    BY <2>2 DEF KeptForever
  <2>4. VersionsInOrder'
    BY <2>2, <2>3, DriveHoldsItems DEF VersionsInOrder, IsItem
  <2>5. HistoryKept
    BY <2>2 DEF HistoryKept, Safe, Drawn, Fresh
  <2>. QED  BY <2>4, <2>5
<1>2. CASE PersonBins
  BY <1>2, SameDrive DEF PersonBins
<1>3. CASE PersonWrites
  BY <1>3, Appending DEF PersonWrites
<1>4. CASE PersonDeletes \/ Purge
  <2>0. PICK file \in Drawn : \E v \in 1 .. Len(versions[file]) - 1 :
            /\ items' = items
            /\ \/ versions' = [versions EXCEPT ![file][v].deleted = TRUE]
               \/ ~versions[file][v].kept /\ versions' = [versions EXCEPT ![file][v].gone = TRUE]
    BY <1>4 DEF PersonDeletes, Purge
  <2>1. PICK v \in 1 .. Len(versions[file]) - 1 :
            /\ items' = items
            /\ \/ versions' = [versions EXCEPT ![file][v].deleted = TRUE]
               \/ ~versions[file][v].kept /\ versions' = [versions EXCEPT ![file][v].gone = TRUE]
    BY <2>0
  <2>2. v \in DOMAIN versions[file] /\ versions[file][v] \in Versions
    BY DEF VersionsInOrder, Drawn
  <2>3. CASE versions' = [versions EXCEPT ![file][v].deleted = TRUE]
    <3>. DEFINE version == [versions[file][v] EXCEPT !.deleted = TRUE]
    <3>1. /\ version \in Versions /\ versions' = [versions EXCEPT ![file][v] = version]
          /\ version.deleted /\ (Safe(file, v) => version.kept /\ ~version.gone)
      BY <2>2, <2>3 DEF Versions, Safe
    <3>. HIDE DEF version
    <3>. QED  BY <2>1, <2>2, <3>1, OneVersion
  <2>4. CASE ~versions[file][v].kept /\ versions' = [versions EXCEPT ![file][v].gone = TRUE]
    <3>. DEFINE version == [versions[file][v] EXCEPT !.gone = TRUE]
    <3>1. /\ version \in Versions /\ versions' = [versions EXCEPT ![file][v] = version]
          /\ ~version.kept /\ ~Safe(file, v)
      BY <2>2, <2>4 DEF Versions, Safe
    <3>. HIDE DEF version
    <3>. QED  BY <2>1, <2>2, <3>1, OneVersion
  <2>. QED  BY <2>1, <2>3, <2>4
<1>. QED  BY <1>1, <1>2, <1>3, <1>4

-----------------------------------------------------------------------------
(* Steps of the calls.                                                      *)

(* A call moves, knowing what it knew or something else, and Drive keeps what *)
(* it is to keep.                                                          *)
Moves(c) ==
    /\ op' = op
    /\ \E to : pc' = [pc EXCEPT ![c] = to]
    /\ job' = job \/ \E r : IsJob(r) /\ job' = [job EXCEPT ![c] = r]
    /\ VersionsInOrder' /\ HistoryKept

LEMMA OneCallMoves ==
    ASSUME CallsInOrder, PinsInOrder, NEW c \in Calls, Moves(c), Tool(c) = "update" => PinInOrder(c)'
    PROVE  PinsInOrder'
<1>1. /\ op' = op /\ job' = [d \in Calls |-> job'[d]] /\ IsJob(job'[c])
      /\ \A d \in Calls \ {c} : pc'[d] = pc[d] /\ job'[d] = job[d]
  BY DEF Moves, CallsInOrder, PinsInOrder, JobsInOrder
<1>2. PinInOrder(c)'
  BY <1>1 DEF PinInOrder, Tool
<1>3. \A d \in Calls \ {c} : PinInOrder(d)'
  BY <1>1, PinKept DEF PinsInOrder, Moves
<1>4. JobsInOrder'
  BY <1>1 DEF PinsInOrder, JobsInOrder, IsJob
<1>. QED  BY <1>2, <1>3, <1>4 DEF PinsInOrder, Moves

LEMMA GivingUp ==
    ASSUME PinsInOrder, NEW c \in Calls, Refuse(c) \/ Fail(c)
    PROVE  Moves(c)
BY SameDrive DEF PinsInOrder, Moves, Refuse, Fail, Goto, driveVars, drive

LEMMA Reading ==
    ASSUME PinsInOrder, NEW c \in Calls, NEW to, NEW found, IsJob(found), Read(c, to, found)
    PROVE  Moves(c)
BY SameDrive DEF PinsInOrder, Moves, Read, Goto, drive

LEMMA Storing ==
    ASSUME PinsInOrder, NEW c \in Calls, NEW i \in Ids, NEW type, NEW name, NEW parent, NEW ours,
           NEW to, NEW found, IsJob(found), Put(c, i, Item(type, name, parent, ours, c), to, found)
    PROVE  Moves(c)
<1>. DEFINE item == Item(type, name, parent, ours, c)
<1>1. IsItem(item) /\ item.by \in Calls \cup {None}
  BY DEF IsItem, Item
<1>2. /\ Fresh(i) /\ items' = [items EXCEPT ![i] = item] /\ versions' = [versions EXCEPT ![i] = History(item)]
      /\ \E at : Goto(c, at)
      /\ job' = job \/ job' = [job EXCEPT ![c] = found]
  BY DEF Put
<1>. HIDE DEF item
<1>3. VersionsInOrder' /\ HistoryKept
  BY <1>1, <1>2, Putting DEF PinsInOrder
<1>. QED  BY <1>2, <1>3 DEF Moves, Goto

(* What a call knows has the same shape, whatever becomes of it.             *)
LEMMA JobsKeepShape ==
    ASSUME NEW r, IsJob(r)
    PROVE  \A x, y, z : /\ IsJob([r EXCEPT !.place = x])
                        /\ IsJob([r EXCEPT !.head = x])
                        /\ IsJob([r EXCEPT !.kept = x])
                        /\ IsJob([r EXCEPT !.missing = x])
                        /\ IsJob([r EXCEPT !.seen = x])
                        /\ IsJob([r EXCEPT !.missing = x, !.seen = y])
                        /\ IsJob([r EXCEPT !.place = x, !.missing = y])
                        /\ IsJob([r EXCEPT !.place = x, !.missing = y, !.made = z])
BY DEF IsJob

(* The last version of a file that has one.                                 *)
LEMMA HeadIsThere ==
    ASSUME NEW history \in Seq(Versions), history # <<>>
    PROVE  Len(history) \in DOMAIN history
<1>1. Len(history) \in Nat /\ DOMAIN history = 1 .. Len(history)
  OBVIOUS
<1>2. Len(history) # 0
  BY EmptySeq
<1>. QED  BY <1>1, <1>2

LEMMA NothingKnown == IsJob(NoJob)
BY DEF IsJob, NoJob

(* Where no call that updates a file can be.                                *)
LEMMA NoUpdate ==
    ASSUME PinsInOrder, NEW c \in Calls,
           pc[c] \notin {"called", "revisable", "history", "pin", "replace", "stored"} \cup Answers
    PROVE  Tool(c) # "update"
BY DEF PinsInOrder, PinInOrder

LEMMA PlacingKeeps ==
    ASSUME CallsInOrder, PinsInOrder, NEW c \in Calls,
           \/ DriveUpload(c) \/ DriveCreateFolder(c) \/ Destination(c) \/ LookUp(c) \/ Preview(c)
           \/ MakeFolder(c) \/ Store(c) \/ DocsCreate(c)
    PROVE  PinsInOrder'
<1>. USE GivingUp, Reading, Storing, JobsKeepShape, NothingKnown
<1>1. IsJob(job[c])
  BY DEF PinsInOrder, JobsInOrder
<1>2. Moves(c)
  <2>1. CASE DriveUpload(c)  BY <2>1 DEF DriveUpload
  <2>2. CASE DriveCreateFolder(c)  BY <2>2 DEF DriveCreateFolder
  <2>3. CASE Destination(c)  BY <1>1, <2>3 DEF Destination
  <2>4. CASE LookUp(c)  BY <1>1, <2>4 DEF LookUp, Inside
  <2>5. CASE Preview(c)  BY <2>5 DEF Preview
  <2>6. CASE MakeFolder(c)  BY <1>1, <2>6 DEF MakeFolder
  <2>7. CASE Store(c)  BY <1>1, <2>7 DEF Store
  <2>8. CASE DocsCreate(c)  BY <1>1, <2>8 DEF DocsCreate
  <2>. QED  BY <2>1, <2>2, <2>3, <2>4, <2>5, <2>6, <2>7, <2>8
<1>3. pc[c] \in {"destination", "path", "planned"} \/ Tool(c) # "update"
  BY DEF DriveUpload, DriveCreateFolder, Destination, LookUp, Preview, MakeFolder, Store, DocsCreate, Under, Tool
<1>4. Tool(c) # "update"
  BY <1>3, NoUpdate DEF Answers
<1>. QED  BY <1>2, <1>4, OneCallMoves

(* What the limit check of drive_update_file comes to: a head that is among the *)
(* versions it was told of, or fewer of those than Drive keeps.               *)
LEMMA RoomFound ==
    ASSUME NEW page, NEW kept, IsFiniteSet(kept), Cardinality(kept) <= KeepMax, NEW v,
           v \in page \cap kept \/ ~(Cardinality(page \cap kept) >= KeepMax)
    PROVE  Room(page \cap kept, v)
<1>. DEFINE known == page \cap kept
<1>1. /\ IsFiniteSet(known) /\ Cardinality(known) \in Nat /\ Cardinality(kept) \in Nat
      /\ Cardinality(known) <= Cardinality(kept)
  BY FS_Subset, FS_CardinalityType
<1>2. CASE v \in known
  <2>1. known \cup {v} = known
    BY <1>2
  <2>2. IsFiniteSet(known) /\ Cardinality(known) <= KeepMax
    BY <1>1, FilesHaveVersions
  <2>. HIDE DEF known
  <2>3. Room(known, v)
    BY <2>1, <2>2, Zenon DEF Room
  <2>. QED  BY <2>3 DEF known
<1>3. CASE v \notin known
  <2>1. Cardinality(known \cup {v}) = Cardinality(known) + 1
    BY <1>1, <1>3, FS_AddElement
  <2>2. ~(Cardinality(known) >= KeepMax)
    BY <1>3
  <2>. HIDE DEF known
  <2>3. Cardinality(known \cup {v}) <= KeepMax
    BY <1>1, <2>1, <2>2, FilesHaveVersions
  <2>. QED  BY <1>1, <2>3 DEF Room, known
<1>. QED  BY <1>2, <1>3

(* The calls that update a file, up to the mark.                            *)
LEMMA LookingKeeps ==
    ASSUME CallsInOrder, PinsInOrder, NEW c \in Calls,
           DriveUpdateFile(c) \/ ReadFile(c) \/ ReadHistory(c) \/ PreviewUpdate(c)
    PROVE  PinsInOrder'
<1>. DEFINE file == op[c].file
<1>. USE GivingUp, Reading, JobsKeepShape, NothingKnown
<1>1. /\ IsJob(job[c]) /\ PinInOrder(c)
      /\ job = [d \in Calls |-> job[d]] /\ pc = [d \in Calls |-> pc[d]]
  BY DEF PinsInOrder, JobsInOrder, CallsInOrder
<1>5. Tool(c) = "update"
  BY DEF CallsInOrder, AtStation, DriveUpdateFile, ReadFile, ReadHistory, PreviewUpdate, Under, Tool
<1>2. Moves(c)
  <2>1. CASE DriveUpdateFile(c)  BY <2>1 DEF DriveUpdateFile
  <2>2. CASE ReadFile(c)  BY <1>1, <2>2 DEF ReadFile
  <2>3. CASE ReadHistory(c)  BY <1>1, <2>3 DEF ReadHistory
  <2>4. CASE PreviewUpdate(c)  BY <2>4 DEF PreviewUpdate
  <2>. QED  BY <2>1, <2>2, <2>3, <2>4
<1>3. \/ pc'[c] \in {"called", "revisable", "refused", "failed"}
      \/ /\ pc[c] = "revisable" /\ pc'[c] = "history" /\ UNCHANGED drive
         /\ file \in Drawn /\ versions[file] # <<>> /\ job'[c].head = Len(versions[file])
      \/ /\ pc[c] = "history" /\ pc'[c] = "pin" /\ UNCHANGED drive
         /\ job'[c].head = job[c].head /\ Room(job'[c].kept, job'[c].head)
  <2>. USE DEF Refuse, Fail, Read, Goto
  <2>1. CASE DriveUpdateFile(c)  BY <1>1, <2>1 DEF DriveUpdateFile
  <2>2. CASE ReadFile(c)
    <3>1. file \in Drawn /\ items[file].type \notin Google => versions[file] # <<>>
      BY DEF PinsInOrder, VersionsInOrder, Drawn
    <3>2. [job[c] EXCEPT !.head = Len(versions[file])].head = Len(versions[file])
      BY <1>1 DEF IsJob, NoJob
    <3>. QED  BY <1>1, <2>2, <3>1, <3>2 DEF ReadFile
  <2>3. CASE ReadHistory(c)
    <3>1. \/ Refuse(c) \/ Fail(c)
          \/ \E page : /\ job[c].head \in page \cap KeptForever(file)
                          \/ ~(Cardinality(page \cap KeptForever(file)) >= KeepMax)
                       /\ Read(c, "pin", [job[c] EXCEPT !.kept = page \cap KeptForever(file)])
      BY <2>3 DEF ReadHistory
    <3>2. CASE Refuse(c) \/ Fail(c)
      BY <1>1, <3>2
    <3>3. ASSUME NEW page,
                 job[c].head \in page \cap KeptForever(file) \/ ~(Cardinality(page \cap KeptForever(file)) >= KeepMax),
                 Read(c, "pin", [job[c] EXCEPT !.kept = page \cap KeptForever(file)])
          PROVE  /\ pc'[c] = "pin" /\ UNCHANGED drive
                 /\ job'[c].head = job[c].head /\ Room(job'[c].kept, job'[c].head)
      <4>1. /\ pc'[c] = "pin" /\ UNCHANGED drive
            /\ job'[c].head = job[c].head /\ job'[c].kept = page \cap KeptForever(file)
        BY <1>1, <3>3 DEF IsJob, NoJob
      <4>2. file \in Ids /\ Cardinality(KeptForever(file)) <= KeepMax
        BY <1>5, <2>3 DEF ReadHistory, PinInOrder, PinsInOrder, VersionsInOrder, Drawn
      <4>3. IsFiniteSet(KeptForever(file))
        BY <4>2, KeptFinite DEF PinsInOrder
      <4>4. Room(page \cap KeptForever(file), job[c].head)
        BY <3>3, <4>2, <4>3, RoomFound
      <4>. QED  BY <4>1, <4>4
    <3>. QED  BY <2>3, <3>1, <3>2, <3>3 DEF ReadHistory
  <2>4. CASE PreviewUpdate(c)  BY <1>1, <2>4 DEF PreviewUpdate
  <2>. QED  BY <2>1, <2>2, <2>3, <2>4
<1>4. Tool(c) = "update" => PinInOrder(c)'
  <2>1. op' = op
    BY <1>2 DEF Moves
  <2>2. CASE pc'[c] \in {"called", "revisable", "refused", "failed"}
    BY <2>2 DEF PinInOrder, Answers
  <2>3. CASE /\ pc[c] = "revisable" /\ pc'[c] = "history" /\ UNCHANGED drive
             /\ file \in Drawn /\ versions[file] # <<>> /\ job'[c].head = Len(versions[file])
    <3>1. Len(versions[file]) \in DOMAIN versions[file]
      <4>1. versions[file] \in Seq(Versions)
        BY <2>3 DEF PinsInOrder, VersionsInOrder, Drawn
      <4>. QED  BY <2>3, <4>1, HeadIsThere
    <3>2. Drawn' = Drawn /\ versions' = versions
      BY <2>3 DEF drive, Drawn
    <3>3. op'[c].file \in Drawn' /\ job'[c].head \in DOMAIN versions'[op'[c].file]
      BY <2>1, <2>3, <3>1, <3>2
    <3>. QED  BY <2>3, <3>3 DEF PinInOrder
  <2>4. CASE /\ pc[c] = "history" /\ pc'[c] = "pin" /\ UNCHANGED drive
             /\ job'[c].head = job[c].head /\ Room(job'[c].kept, job'[c].head)
    BY <1>1, <2>1, <2>4 DEF PinInOrder, drive, Drawn, Tool
  <2>. QED  BY <1>3, <2>2, <2>3, <2>4
<1>. QED  BY <1>2, <1>4, OneCallMoves

(* The mark: what Drive answers is so.                                      *)
LEMMA PinKeeps ==
    ASSUME CallsInOrder, PinsInOrder, NEW c \in Calls, Pin(c)
    PROVE  PinsInOrder'
<1>. DEFINE file == op[c].file
            v == job[c].head
<1>1. /\ pc[c] = "pin" /\ items' = items /\ job' = job
      /\ \E to \in {"refused", "failed", "replace"} : Goto(c, to)
      /\ \/ versions' = versions /\ \E to \in {"refused", "failed"} : Goto(c, to)
         \/ Markable(file, v) /\ Mark(file, v)
  BY DEF Pin
<1>2. op' = op /\ pc' = [pc EXCEPT ![c] = pc'[c]] /\ pc'[c] \in {"refused", "failed", "replace"}
  BY <1>1 DEF Goto, CallsInOrder
<1>3. Tool(c) = "update" /\ file \in Drawn /\ v \in DOMAIN versions[file]
  BY <1>1 DEF CallsInOrder, AtStation, PinsInOrder, PinInOrder
<1>4. CASE versions' = versions /\ \E to \in {"refused", "failed"} : Goto(c, to)
  <2>1. pc'[c] \in {"refused", "failed"}
    BY <1>4 DEF Goto, CallsInOrder
  <2>2. Moves(c)
    BY <1>1, <1>2, <1>4, SameDrive DEF Moves, PinsInOrder
  <2>3. PinInOrder(c)'
    BY <2>1 DEF PinInOrder, Answers
  <2>. QED  BY <2>2, <2>3, OneCallMoves
<1>5. CASE Markable(file, v) /\ Mark(file, v)
  <2>. DEFINE version == [versions[file][v] EXCEPT !.kept = TRUE]
  <2>1. versions[file][v] \in Versions /\ file \in Ids /\ versions[file] \in Seq(Versions)
    BY <1>3 DEF PinsInOrder, VersionsInOrder, Drawn
  <2>2. /\ version \in Versions /\ version.kept /\ ~version.gone
        /\ versions' = [versions EXCEPT ![file][v] = version]
        /\ Cardinality(KeptForever(file) \cup {v}) <= KeepMax
    BY <1>5, <2>1 DEF Versions, Markable, Mark
  <2>3. versions'[file][v] = version /\ DOMAIN versions'[file] = DOMAIN versions[file] /\ Drawn' = Drawn
    BY <1>1, <1>3, <2>1, <2>2 DEF PinsInOrder, VersionsInOrder, Drawn
  <2>. HIDE DEF version
  <2>4. VersionsInOrder' /\ HistoryKept
    BY <1>1, <1>3, <2>2, OneVersion DEF PinsInOrder
  <2>5. Moves(c)
    BY <1>1, <1>2, <2>4 DEF Moves
  <2>6. PinInOrder(c)'
    BY <1>1, <1>2, <1>3, <2>2, <2>3 DEF PinInOrder, Safe, Answers
  <2>. QED  BY <2>5, <2>6, OneCallMoves
<1>. QED  BY <1>1, <1>4, <1>5

(* The content and the end, which only put a version over what is kept.      *)
LEMMA ReplacingKeeps ==
    ASSUME CallsInOrder, PinsInOrder, NEW c \in Calls, Replace(c) \/ Spend(c)
    PROVE  PinsInOrder'
<1>. DEFINE file == op[c].file
<1>1. /\ op' = op /\ job' = job /\ items' = items
      /\ \E to : pc' = [pc EXCEPT ![c] = to]
      /\ \/ versions' = versions
         \/ versions' = [versions EXCEPT ![file] = Append(@, Version(c))]
      /\ \/ pc[c] = "replace" /\ pc'[c] \in {"failed", "stored"}
         \/ pc[c] = "stored" /\ pc'[c] = "done" /\ versions' = versions
  BY DEF Replace, Spend, Fail, Goto, driveVars, drive, CallsInOrder
<1>2. pc[c] = "replace" => Tool(c) = "update" /\ file \in Drawn
  BY DEF CallsInOrder, AtStation, PinsInOrder, PinInOrder
<1>3. VersionsInOrder' /\ HistoryKept
  <2>1. CASE versions' = versions
    BY <1>1, <2>1, SameDrive DEF PinsInOrder
  <2>2. CASE versions' = [versions EXCEPT ![file] = Append(@, Version(c))] /\ pc[c] = "replace"
    BY <1>1, <1>2, <2>2, Appending DEF PinsInOrder
  <2>. QED  BY <1>1, <2>1, <2>2
<1>4. Moves(c)
  BY <1>1, <1>3 DEF Moves
<1>5. Tool(c) = "update" => PinInOrder(c)'
  BY <1>1, <1>3 DEF PinInOrder, PinsInOrder, HistoryKept, Safe, Tool, Answers
<1>. QED  BY <1>4, <1>5, OneCallMoves

(* The calls of the other services put files into Drive, or nothing.         *)
LEMMA OthersWritesKeep ==
    ASSUME CallsInOrder, DraftsInOrder, PinsInOrder, NEW c \in Calls,
           \/ SheetCall(c)
           \/ EventCall(c) /\ UNCHANGED driveVars
           \/ DraftCall(c) /\ UNCHANGED driveVars
    PROVE  PinsInOrder'
<1>1. /\ op' = op
      /\ \E to : pc' = [pc EXCEPT ![c] = to]
      /\ \/ pc[c] \in {"tab", "change", "adding", "drafting", "patching", "deleting", "take", "labelling"}
         \/ Tool(c) # "update"
  <2>1. CASE SheetCall(c)
    BY <2>1, SheetsElsewhere DEF Elsewhere
  <2>2. CASE EventCall(c)
    BY <2>2, EventsElsewhere DEF Elsewhere
  <2>3. CASE GmailDeleteDraft(c) \/ GmailModifyLabels(c) \/ Label(c) \/ Labelled(c)
    BY <2>3, OtherMailElsewhere DEF Elsewhere
  <2>4. CASE \/ GmailCreateDraft(c) \/ GmailReplyDraft(c) \/ GmailUpdateDraft(c) \/ GmailAttachToDraft(c)
             \/ Weigh(c)
    BY <2>4, BeginsMessage DEF Goto, Writers
  <2>5. CASE TakeFiles(c) \/ WriteDraft(c)
    <3>1. Tool(c) \in Writers
      BY <2>5 DEF TakeFiles, WriteDraft, CallsInOrder, AtStation, Writing
    <3>2. \E to : Goto(c, to)
      BY <2>5 DEF TakeFiles, WriteDraft, Written, Decline, Give
    <3>. QED  BY <3>1, <3>2 DEF Goto, Writers
  <2>. QED  BY <2>1, <2>2, <2>3, <2>4, <2>5 DEF DraftCall
<1>2. Tool(c) # "update"
  BY <1>1, NoUpdate DEF Answers
<1>3. IsJob(job[c])
  BY DEF PinsInOrder, JobsInOrder
<1>4. CASE UNCHANGED driveVars
  BY <1>1, <1>2, <1>4, SameDrive, OneCallMoves DEF Moves, PinsInOrder, driveVars, drive
<1>5. CASE SheetsCreate(c) \/ AddNextTab(c)
  <2>. USE GivingUp, Reading, Storing, JobsKeepShape, NothingKnown
  <2>1. Moves(c)
    BY <1>3, <1>5 DEF SheetsCreate, AddNextTab
  <2>. QED  BY <1>2, <2>1, OneCallMoves
<1>6. SheetCall(c) => UNCHANGED driveVars \/ SheetsCreate(c) \/ AddNextTab(c)
  BY DEF SheetCall, Deny, Break, Refuse, Fail, Proceed, ChangeBook, Show, SheetsAppendRows, SheetsUpdateRange,
         SheetsInsertRows, SheetsDeleteRows, SheetsCopyFormat, SheetsStructural, FindTab, PreviewRows, Change,
         SheetsAddTab, Created
<1>. QED  BY <1>4, <1>5, <1>6

-----------------------------------------------------------------------------

LEMMA PinsInit == Init => PinsInOrder
<1>1. SUFFICES ASSUME Init  PROVE PinsInOrder
  OBVIOUS
<1>. USE <1>1
<1>2. VersionsInOrder
  BY DriveHoldsItems, FilesHaveVersions DEF Init, DriveInit, VersionsInOrder, KeptForever
<1>3. JobsInOrder
  BY NothingKnown DEF Init, DriveInit, JobsInOrder
<1>4. \A c \in Calls : PinInOrder(c)
  BY DEF Init, PinInOrder, Answers
<1>. QED  BY <1>2, <1>3, <1>4 DEF PinsInOrder

LEMMA PinsStep == UploadsInOrder /\ PinsInOrder /\ [Next]_vars => PinsInOrder'
<1>1. SUFFICES ASSUME UploadsInOrder, PinsInOrder, [Next]_vars  PROVE PinsInOrder'
  OBVIOUS
<1>. USE <1>1 DEF UploadsInOrder
<1>2. ASSUME op' = op, pc' = pc, job' = job, VersionsInOrder', HistoryKept
      PROVE  PinsInOrder'
  <2>1. JobsInOrder'
    BY <1>2 DEF PinsInOrder, JobsInOrder, IsJob
  <2>2. \A c \in Calls : PinInOrder(c)'
    BY <1>2, PinKept DEF PinsInOrder
  <2>. QED  BY <1>2, <2>1, <2>2 DEF PinsInOrder
<1>3. ASSUME NEW c \in Calls, Drive(c)  PROVE PinsInOrder'
  BY <1>3, PlacingKeeps, LookingKeeps, PinKeeps, ReplacingKeeps DEF Drive, DriveCall
<1>4. ASSUME NEW c \in Calls, SheetsOf(c) \/ Gmail(c) \/ CalendarOf(c)  PROVE PinsInOrder'
  BY <1>4, OthersWritesKeep DEF SheetsOf, Gmail, CalendarOf
<1>5. CASE Others
  <2>1. op' = op /\ pc' = pc /\ job' = job
    BY <1>5 DEF Others, calls
  <2>2. VersionsInOrder' /\ HistoryKept
    <3>1. CASE UNCHANGED drive
      BY <3>1, SameDrive DEF PinsInOrder, drive
    <3>. QED  BY <1>5, <3>1, PeopleKeepVersions DEF Others, PinsInOrder
  <2>. QED  BY <1>2, <2>1, <2>2
<1>6. CASE Sweep \/ UNCHANGED vars
  <2>1. op' = op /\ pc' = pc /\ job' = job /\ items' = items /\ versions' = versions
    BY <1>6 DEF Sweep, Expire, vars, calls, driveVars, drive
  <2>. QED  BY <1>2, <2>1, SameDrive DEF PinsInOrder
<1>. QED  BY <1>3, <1>4, <1>5, <1>6 DEF Next

(* What a call was told of leaves no less room than what is kept.             *)
LEMMA RoomIsRoom ==
    ASSUME NEW known, NEW v, Room(known, v), NEW kept, kept \subseteq known
    PROVE  Cardinality(kept \cup {v}) <= KeepMax
<1>1. IsFiniteSet(known \cup {v})
  BY FS_AddElement DEF Room
<1>2. kept \cup {v} \subseteq known \cup {v}
  OBVIOUS
<1>3. /\ Cardinality(kept \cup {v}) <= Cardinality(known \cup {v})
      /\ Cardinality(kept \cup {v}) \in Nat /\ Cardinality(known \cup {v}) \in Nat
  BY <1>1, <1>2, FS_Subset, FS_CardinalityType
<1>. QED  BY <1>3, FilesHaveVersions DEF Room

(* The version a call found at the head of a file is kept for ever before the  *)
(* call replaces anything, and Drive does not purge it from then on; a version *)
(* others write between that read and the replacement is not among what is    *)
(* kept, and a person may delete any.  A call goes to its preview or to the    *)
(* mark only if there is room for the mark, for every file whose kept versions *)
(* its list named (the count of drive_update_file before the preview,         *)
(* drive::keep_forever, drive::replace, and the order of the three).          *)
THEOREM ContentStays == Spec => []PinnedStays
<1>1. Spec => [](UploadsInOrder /\ PinsInOrder)
  BY UploadsInit, UploadsStep, PinsInit, PinsStep, PTL DEF Spec
<1>2. PinsInOrder => PinnedStays
  BY RoomIsRoom DEF PinsInOrder, PinInOrder, PinnedStays, Safe
<1>. QED  BY <1>1, <1>2, PTL
=============================================================================
