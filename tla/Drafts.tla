------------------------------- MODULE Drafts -------------------------------
(***************************************************************************)
(* The drafts of src/mcp/gmail.rs, and the labels it changes.  A draft is       *)
(* written whole: the tools that change one read it first, take the uploads  *)
(* they are to add, and write it back, and a person has it open meanwhile.    *)
(***************************************************************************)
EXTENDS ToolCalls, FiniteSetsExt, Functions

CONSTANTS
    DraftIds,        \* ids Gmail gives to drafts, from 1 up
    Mailbox,         \* the drafts there are to begin with
    LabelsOf,        \* the messages there are, and the labels each has
    KnownLabels,     \* the labels the account has
    Aliases,         \* its send-as addresses, in order: [address, default, primary, verified]
    OwnAddress,      \* the address the account was connected under
    SizeOf,          \* the size of a file
    AttachmentMax    \* ATTACHMENT_MAX_BYTES

VARIABLES
    drafts,    \* Gmail's drafts
    labels,    \* the labels of every message
    copy,      \* the draft a call has read or is about to write
    told       \* how many messages a call has asked for, those it changed, those that failed

mail == <<drafts, labels>>
mailVars == <<mail, copy, told>>

\* by: who wrote it.  text: the lines of its plain bodies, one after another.
\* html: its bodies in HTML.  media: the parts that are a body of it and are
\* neither.  more: headers that are not read here, and what In-Reply-To names
\* after the first.  cc: blind copies too.  thread: the conversation it is in, New
\* until Gmail gives it one.  inline: a part beside its bodies has a Content-ID.
New == 0
Blank == [there |-> TRUE, by |-> None, from |-> None, to |-> {}, cc |-> {}, text |-> <<>>, html |-> <<>>,
          media |-> {}, more |-> {}, files |-> {}, thread |-> New, inline |-> FALSE]
IsDraft(r) == r = [f \in DOMAIN Blank |-> r[f]]
Untold == [asked |-> 0, modified |-> {}, failed |-> {}]

\* What a call may ask for.
CreateDraftParam(from, to, files) == [tool |-> "create", from |-> from, to |-> to, files |-> files]
ReplyDraftParam(message, from, all, files) ==
    [tool |-> "reply", message |-> message, from |-> from, all |-> all, files |-> files]
UpdateDraftParam(draft, from, to, files) ==
    [tool |-> "rewrite", draft |-> draft, from |-> from, to |-> to, files |-> files]
AttachToDraftParam(draft, files) == [tool |-> "attach", draft |-> draft, files |-> files]
DeleteDraftParam(draft) == [tool |-> "discard", draft |-> draft]
ModifyLabelsParam(messages, add, remove, archive, read, star) ==
    [tool |-> "labels", messages |-> messages, add |-> add, remove |-> remove, archive |-> archive,
     read |-> read, star |-> star]

DraftsInit ==
    /\ drafts = Mailbox
    /\ labels = LabelsOf
    /\ copy = [c \in Calls |-> Blank]
    /\ told = [c \in Calls |-> Untold]

There(d) == drafts[d] # None /\ drafts[d].there
Weight(files) == MapThenSumSet(LAMBDA f : SizeOf[f], files)

Decline(c) == Goto(c, "refused") /\ Unspent /\ UNCHANGED mailVars
Give(c) == Goto(c, "failed") /\ Unspent /\ UNCHANGED mailVars

\* The handler goes on with the draft it is making.
Hold(c, to, draft) ==
    /\ Goto(c, to)
    /\ copy' = [copy EXCEPT ![c] = draft]
    /\ Unspent /\ UNCHANGED <<mail, told>>

-----------------------------------------------------------------------------
(* Which address a draft is written as.                                     *)

\* gmail::find_send_as: the first on the list.
Named(k, address) == Aliases[k].address = address /\ \A j \in 1 .. k - 1 : Aliases[j].address # address

\* SendAs::usable, of an address on the list.
Usable(address) == \E k \in DOMAIN Aliases : Named(k, address) /\ (Aliases[k].primary \/ Aliases[k].verified)

\* gmail::default_send_as: the default, or the primary, or the first, or none.
DefaultFrom ==
    LET own == [address |-> OwnAddress, default |-> FALSE, primary |-> TRUE, verified |-> TRUE]
    IN Head(SelectSeq(Aliases, LAMBDA a : a.default) \o SelectSeq(Aliases, LAMBDA a : a.primary)
            \o Aliases \o <<own>>).address

\* Gmcp::draft_from: the address named or the default, or the account's own
\* when Gmail does not report the list.
DraftFrom(wanted) == IF wanted # None THEN {wanted} ELSE {DefaultFrom, OwnAddress}

\* Gmcp::reply_from: the first usable address the message was delivered to, or
\* that its To names, or its Cc; without the list, as for any draft.
ReplyFrom(m, wanted) ==
    LET asked == m.delivered \o m.to \o m.cc
    IN DraftFrom(wanted)
       \cup {asked[k] : k \in {k \in DOMAIN asked : /\ wanted = None
                                                  /\ Usable(asked[k])
                                                  /\ \A j \in 1 .. k - 1 : ~Usable(asked[j])}}

\* `choose` refuses an address that is not on the list, or not verified.
MayWriteAs(wanted) == wanted = None \/ Usable(wanted)

\* Mutant of ReplyTo: a message the account sent is answered like any other.
ReplyToSender(m, from, all) ==
    LET others == Range(m.to) \cup Range(m.cc)
        to == {m.from}
    IN [to |-> {a \in to : a # from \/ Len(m.to) <= 1},
        cc |-> IF all THEN others \ ({from} \cup to) ELSE {}]

\* DraftContent::reply_to: whom a reply goes to.  A message the account sent is
\* answered to its own recipients.
ReplyTo(m, from, all) ==
    LET to == Range(m.to)
        cc == Range(m.cc)
    IN IF m.sent THEN [to |-> to, cc |-> IF all THEN cc ELSE {}]
       ELSE [to |-> {a \in {m.from} : a # from \/ Len(m.to) <= 1},
             cc |-> IF all THEN (to \cup cc) \ {from, m.from} ELSE {}]

-----------------------------------------------------------------------------
(* The draft tools, up to the write.                                        *)

GmailCreateDraft(c) ==
    LET o == op[c]
    IN /\ Under(c, "create", "called")
       /\ IF o.to = {} \/ ~MayWriteAs(o.from) THEN Decline(c)
          ELSE \/ Give(c)
               \/ \E from \in DraftFrom(o.from) :
                     Hold(c, "take", [Blank EXCEPT !.by = c, !.text = <<c>>, !.from = from, !.to = o.to])

GmailReplyDraft(c) ==
    LET o == op[c]
        m == o.message
    IN /\ Under(c, "reply", "called")
       /\ IF ~MayWriteAs(o.from) THEN Decline(c)
          ELSE \/ Give(c)
               \/ \E from \in ReplyFrom(m, o.from) :
                     LET whom == ReplyTo(m, from, o.all)
                     IN Hold(c, "take", [Blank EXCEPT !.by = c, !.text = <<c>>, !.from = from, !.to = whom.to,
                                                      !.cc = whom.cc, !.thread = m.thread])

\* Mutant of GmailUpdateDraft: the conversation is left out of the draft written anew.
UpdateOutOfThread(c) ==
    LET o == op[c]
    IN /\ Under(c, "rewrite", "called")
       /\ IF o.to = {} \/ ~MayWriteAs(o.from) THEN Decline(c)
          ELSE \/ Give(c)
               \/ /\ There(o.draft)
                  /\ \E from \in DraftFrom(o.from) :
                        Hold(c, "take", [Blank EXCEPT !.by = c, !.text = <<c>>, !.from = from, !.to = o.to])

\* The draft is read for the conversation it is in, and for nothing else.
GmailUpdateDraft(c) ==
    LET o == op[c]
    IN /\ Under(c, "rewrite", "called")
       /\ IF o.to = {} \/ ~MayWriteAs(o.from) THEN Decline(c)
          ELSE \/ Give(c)
               \/ /\ There(o.draft)
                  /\ \E from \in DraftFrom(o.from) :
                        Hold(c, "take", [Blank EXCEPT !.by = c, !.text = <<c>>, !.from = from, !.to = o.to,
                                                      !.thread = drafts[o.draft].thread])

\* Lines up to the last one that is not blank.
Trimmed(lines) == SubSeq(lines, 1, Max({0} \cup {k \in DOMAIN lines : lines[k] # ""}))
FirstBody(html) == IF html = <<>> THEN <<>> ELSE <<Head(html)>>

\* Mutant of Rebuilt: the plain bodies are left to be read from the HTML again.
RebuiltFromHtml(d) ==
    LET first == FirstBody(d.html)
    IN [d EXCEPT !.text = first, !.html = first, !.media = {}, !.more = {}]

\* parse_draft and build_mime: of a draft that is taken apart and put together
\* again there is left its text, or the reading of its HTML when it has none; its
\* first body in HTML; and the files that are no body.
Rebuilt(d) ==
    LET said == Trimmed(d.text)
        first == FirstBody(d.html)
    IN [d EXCEPT !.text = IF said = <<>> THEN first ELSE said, !.html = first, !.media = {}, !.more = {}]

\* The draft is read whole and put together again; one with pictures its HTML
\* names is refused.
GmailAttachToDraft(c) ==
    LET o == op[c]
    IN /\ Under(c, "attach", "called")
       /\ IF o.files = {} THEN Decline(c)
          ELSE \/ Give(c)
               \/ /\ There(o.draft)
                  /\ IF drafts[o.draft].inline THEN Decline(c) ELSE Hold(c, "weigh", Rebuilt(drafts[o.draft]))

\* Mutant of Weigh: a draft written as nobody stays so.
WeighAsNobody(c) ==
    /\ pc[c] = "weigh"
    /\ IF Waiting(op[c].files) /\ Weight(op[c].files) + Weight(copy[c].files) <= AttachmentMax
       THEN Hold(c, "take", copy[c])
       ELSE Decline(c)

\* Mutant of Weigh: what the draft carries already is not weighed.
WeighNewAlone(c) ==
    /\ pc[c] = "weigh"
    /\ IF Waiting(op[c].files) /\ Weight(op[c].files) <= AttachmentMax
       THEN Hold(c, "take", copy[c])
       ELSE Decline(c)

\* Weighed with what it carries before anything is taken.  A draft written as
\* nobody is written as the account.
Weigh(c) ==
    /\ pc[c] = "weigh"
    /\ IF Waiting(op[c].files) /\ Weight(op[c].files) + Weight(copy[c].files) <= AttachmentMax
       THEN \E from \in DraftFrom(copy[c].from) : Hold(c, "take", [copy[c] EXCEPT !.from = from])
       ELSE Decline(c)

\* Mutant of TakeFiles: the files stay staged, and may be attached again.
TakeCopies(c) ==
    LET files == op[c].files
    IN /\ pc[c] = "take"
       /\ IF Waiting(files) /\ Weight(files) <= AttachmentMax
          THEN Hold(c, "write", [copy[c] EXCEPT !.files = @ \cup files])
          ELSE Decline(c)

\* Gmcp::attachments: all of the files or none, and they are gone once this
\* answers, whatever becomes of the draft.
TakeFiles(c) ==
    LET files == op[c].files
    IN /\ pc[c] = "take"
       /\ IF Waiting(files) /\ Weight(files) <= AttachmentMax
          THEN /\ Goto(c, "write")
               /\ Spent(files)
               /\ copy' = [copy EXCEPT ![c].files = @ \cup files]
               /\ UNCHANGED <<mail, told>>
          ELSE Decline(c)

-----------------------------------------------------------------------------
(* The write.                                                              *)

\* build_mime: every address has to parse, and there has to be one.
Sendable(draft) == draft.to \cup draft.cc # {} /\ "not an address" \notin draft.to

NextId(d) == drafts[d] = None /\ \A e \in DraftIds : e < d => drafts[e] # None

\* Gmail took it; the reply may be lost.
Written(c, d, draft) ==
    /\ drafts' = [drafts EXCEPT ![d] = draft]
    /\ \E to \in {"done", "failed"} : Goto(c, to)
    /\ Unspent /\ UNCHANGED <<labels, copy, told>>

WriteDraft(c) ==
    /\ pc[c] = "write"
    /\ \/ Give(c)
       \/ /\ Sendable(copy[c])
          /\ IF op[c].tool \in {"create", "reply"}
             THEN \E d \in DraftIds : NextId(d) /\ Written(c, d, copy[c])
             ELSE There(op[c].draft) /\ Written(c, op[c].draft, copy[c])

GmailDeleteDraft(c) ==
    /\ Under(c, "discard", "called")
    /\ \/ Give(c)
       \/ There(op[c].draft) /\ Written(c, op[c].draft, [Blank EXCEPT !.there = FALSE])

-----------------------------------------------------------------------------
(* Labels.                                                                 *)

Added(o) ==
    o.add \cup (IF o.read = FALSE THEN {"UNREAD"} ELSE {}) \cup (IF o.star = TRUE THEN {"STARRED"} ELSE {})
Removed(o) ==
    o.remove \cup (IF o.archive THEN {"INBOX"} ELSE {}) \cup (IF o.read = TRUE THEN {"UNREAD"} ELSE {})
             \cup (IF o.star = FALSE THEN {"STARRED"} ELSE {})

GmailModifyLabels(c) ==
    LET o == op[c]
    IN /\ Under(c, "labels", "called")
       /\ IF \/ o.messages = <<>>
             \/ (o.add \cup o.remove) \cap {"TRASH", "SPAM"} # {}
             \/ Added(o) \cup Removed(o) = {}
          THEN Decline(c)
          ELSE \/ Give(c)
               \/ IF o.add \cup o.remove \subseteq KnownLabels THEN Hold(c, "labelling", copy[c])
                  ELSE Decline(c)

Unasked(c) == pc[c] = "labelling" /\ told[c].asked < Len(op[c].messages)

\* messages.modify, which Gmail refuses for a label both added and removed.
Relabel(m, o) ==
    /\ m \in DOMAIN labels
    /\ Added(o) \cap Removed(o) = {}
    /\ labels' = [labels EXCEPT ![m] = (@ \ Removed(o)) \cup Added(o)]

Tell(c, m, which) ==
    told' = [told EXCEPT ![c].asked = @ + 1, ![c][which] = @ \cup {m}]

\* Mutant of Label: the first failure is the call's.
LabelOrStop(c) ==
    LET m == op[c].messages[told[c].asked + 1]
    IN /\ Unasked(c)
       /\ \/ Relabel(m, op[c]) /\ Tell(c, m, "modified") /\ UNCHANGED calls
          \/ UNCHANGED <<labels, told>> /\ Goto(c, "failed")
       /\ Unspent /\ UNCHANGED <<drafts, copy>>

\* One request for each message: one that fails does not stop the others, and
\* one whose reply is lost counts as failed.
Label(c) ==
    LET m == op[c].messages[told[c].asked + 1]
    IN /\ Unasked(c)
       /\ \/ Relabel(m, op[c]) /\ \E which \in {"modified", "failed"} : Tell(c, m, which)
          \/ UNCHANGED labels /\ Tell(c, m, "failed")
       /\ Unspent /\ UNCHANGED <<calls, drafts, copy>>

\* Only a call where nothing at all worked is an error.
Labelled(c) ==
    /\ pc[c] = "labelling" /\ ~Unasked(c)
    /\ IF told[c].modified = {} THEN Give(c) ELSE Hold(c, "done", copy[c])

DraftCall(c) ==
    \/ GmailCreateDraft(c) \/ GmailReplyDraft(c) \/ GmailUpdateDraft(c) \/ GmailAttachToDraft(c)
    \/ Weigh(c) \/ TakeFiles(c) \/ WriteDraft(c) \/ GmailDeleteDraft(c)
    \/ GmailModifyLabels(c) \/ Label(c) \/ Labelled(c)

-----------------------------------------------------------------------------
(* The person, with the draft open in Gmail.                                *)

PersonEdits ==
    \E d \in DraftIds :
        /\ There(d)
        /\ drafts' = [drafts EXCEPT ![d].by = "person", ![d].text = <<"person">>]
        /\ UNCHANGED labels

PersonAttaches ==
    \E d \in DraftIds :
        /\ There(d)
        /\ drafts' = [drafts EXCEPT ![d].files = @ \cup {"theirs"}]
        /\ UNCHANGED labels

\* It is sent, and is a draft no more.
PersonSends ==
    \E d \in DraftIds :
        /\ There(d)
        /\ drafts' = [drafts EXCEPT ![d] = [Blank EXCEPT !.there = FALSE]]
        /\ UNCHANGED labels
=============================================================================
