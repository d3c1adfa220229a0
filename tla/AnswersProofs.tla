----------------------------- MODULE AnswersProofs -----------------------------
(***************************************************************************)
(* What the callers of the tools of src/mcp are told, whom their messages      *)
(* reach and what their writes change, for any calls, any mailbox, spreadsheet *)
(* or calendar and whatever people and other calls do meanwhile.              *)
(***************************************************************************)
EXTENDS FoldersProofs

(***************************************************************************)
(* Messages.                                                              *)

Composers == {"create", "reply", "rewrite"}

(* A call has written a message of its own, and is over.                     *)
Ended(e) == e \in Calls /\ Tool(e) \in Composers /\ pc[e] \in {"done", "failed"}

(* An upload went with a message that may have been written.                 *)
Gone(u) == \E e \in Calls : Took(u, e) /\ pc[e] \in {"done", "failed"}

(* Whom a message of a call's own is written as and to.                      *)
Addressed(c, r) ==
    /\ Usable(r.from) \/ r.from = OwnAddress
    /\ Tool(c) = "reply" =>
        LET m == op[c].message
            named == Range(m.to) \cup Range(m.cc)
        IN /\ m.sent => r.to = Range(m.to)
           /\ ~m.sent /\ Len(m.to) > 1 => r.from \notin r.to \cup r.cc
           /\ op[c].all => named \cup (IF m.sent THEN {} ELSE {m.from}) \subseteq r.to \cup r.cc \cup {r.from}
           /\ r.to \cap r.cc \subseteq Range(m.to) \cap Range(m.cc)

(* What a call that writes holds is its own, or the draft it is to add to.    *)
Holds(c) ==
    /\ copy[c].by \in Calls => copy[c].by = c \/ Ended(copy[c].by)
    /\ copy[c].by = c => Tool(c) \in Composers /\ pc[c] # "called" /\ Addressed(c, copy[c])
    /\ Tool(c) \in Composers /\ pc[c] \in {"take", "write"} => copy[c].by = c
    /\ copy[c].files \subseteq Uploads \cup {"old", "theirs"}
    /\ \A u \in copy[c].files \cap Uploads : Took(u, c) \/ Gone(u)

(* gmail_attach_to_draft: the draft as it was read, put together again, with    *)
(* what is added to it.                                                     *)
ReadDraft(c) == Rebuilt(was[c][op[c].draft])
Adds(c) ==
    Tool(c) = "attach" /\ pc[c] \in Writing =>
        /\ IsDraft(was[c][op[c].draft]) /\ IsDraft(ReadDraft(c)) /\ op[c].files # {}
        /\ \A u \in ReadDraft(c).files \cap Uploads : Gone(u)
        /\ pc[c] = "weigh" => copy[c] = ReadDraft(c)
        /\ pc[c] = "take" => copy[c] = [ReadDraft(c) EXCEPT !.from = copy[c].from]
        /\ pc[c] = "write" =>
              /\ copy[c] = [ReadDraft(c) EXCEPT !.from = copy[c].from, !.files = @ \cup op[c].files]
              /\ op[c].files \subseteq Uploads /\ ReadDraft(c).files \cap op[c].files = {}
        /\ pc[c] # "weigh" =>
              /\ copy[c].from # None /\ (ReadDraft(c).from # None => copy[c].from = ReadDraft(c).from)
              /\ Weight(op[c].files) + Weight(ReadDraft(c).files) <= AttachmentMax

(* A draft that is a call's is of one that is over, and so are its files.     *)
Kept(d) ==
    drafts[d] # None =>
        /\ drafts[d].by \in Calls => Ended(drafts[d].by)
        /\ drafts[d].files \subseteq Uploads \cup {"old", "theirs"}
        /\ \A u \in drafts[d].files \cap Uploads : Gone(u)

MailInOrder ==
    /\ was = [c \in Calls |-> was[c]] /\ staged \subseteq Uploads
    /\ \A c \in Calls : Holds(c) /\ Adds(c)
    /\ \A d \in DraftIds : Kept(d)

(* A step of one call, which is not over.                                   *)
MovesOn(c) ==
    /\ op' = op /\ pc[c] \notin Answers
    /\ was' = [e \in Calls |-> was'[e]] /\ staged' \subseteq staged
    /\ \A e \in Calls \ {c} : pc'[e] = pc[e] /\ copy'[e] = copy[e] /\ was'[e] = was[e]

LEMMA EndedStay ==
    ASSUME NEW c \in Calls, MovesOn(c)
    PROVE  /\ \A e : Ended(e) => Ended(e)'
           /\ \A u : Gone(u) => Gone(u)'
           /\ \A u : \A e \in Calls \ {c} : Took(u, e) => Took(u, e)'
<1>1. \A u : \A e \in Calls \ {c} : Took(u, e) => Took(u, e)'
  BY DEF MovesOn, Took, FilesOf, Tool
<1>2. \A e : Ended(e) => Ended(e)'
  BY DEF MovesOn, Ended, Answers, Tool
<1>3. ASSUME NEW u, Gone(u)  PROVE Gone(u)'
  <2>1. PICK e \in Calls : Took(u, e) /\ pc[e] \in {"done", "failed"}
    BY <1>3 DEF Gone
  <2>2. e # c /\ pc'[e] = pc[e]
    BY <2>1 DEF MovesOn, Answers
  <2>. QED  BY <1>1, <2>1, <2>2 DEF Gone
<1>. QED  BY <1>1, <1>2, <1>3

(* The others go on holding what they hold.                                 *)
LEMMA OthersHold ==
    ASSUME MailInOrder, NEW c \in Calls, MovesOn(c), NEW e \in Calls \ {c}
    PROVE  Holds(e)' /\ Adds(e)'
<1>1. op' = op /\ pc'[e] = pc[e] /\ copy'[e] = copy[e] /\ was'[e] = was[e]
  BY DEF MovesOn
<1>2. Holds(e) /\ Adds(e)
  BY DEF MailInOrder
<1>3. Holds(e)'
  <2>1. Addressed(e, copy[e]) => Addressed(e, copy[e])'
    BY <1>1 DEF Addressed, Tool
  <2>. QED  BY <1>1, <1>2, <2>1, EndedStay DEF Holds, Tool
<1>4. Adds(e)'
  BY <1>1, <1>2, EndedStay DEF Adds, ReadDraft, Tool, IsDraft
<1>. QED  BY <1>3, <1>4

LEMMA DraftsKeep ==
    ASSUME MailInOrder, NEW c \in Calls, MovesOn(c), NEW d, Kept(d), drafts'[d] = drafts[d]
    PROVE  Kept(d)'
BY EndedStay DEF Kept

(* A call that writes no message and leaves the drafts.                      *)
LEMMA NoMailHolds ==
    ASSUME CallsInOrder, MailInOrder, NEW c \in Calls, Elsewhere(c), Recorded(c), copy' = copy,
           \A d \in DraftIds : Kept(d)'
    PROVE  MailInOrder'
<1>1. MovesOn(c)
  <2>1. \A e \in Calls \ {c} : was'[e] = was[e]
    BY DEF Recorded, MailInOrder
  <2>2. was' = [e \in Calls |-> was'[e]]
    BY DEF Recorded, MailInOrder
  <2>. QED  BY <2>1, <2>2 DEF MovesOn, Elsewhere, CallsInOrder, Answers
<1>2. Tool(c) \notin Writers /\ op' = op
  BY DEF Elsewhere
<1>3. Holds(c)'
  <2>1. Holds(c)
    BY DEF MailInOrder
  <2>2. \A u : ~Took(u, c)
    BY <1>2 DEF Took, FilesOf, Writers
  <2>3. copy[c].by # c
    BY <1>2, <2>1 DEF Holds, Writers, Composers
  <2>. QED  BY <1>1, <1>2, <2>1, <2>2, <2>3, EndedStay DEF Holds, Tool, Writers, Composers
<1>4. Adds(c)'
  BY <1>2 DEF Adds, Tool, Writers
<1>. QED  BY <1>1, <1>3, <1>4, OthersHold DEF MailInOrder, MovesOn

LEMMA NobodyNone == DefaultFrom # None /\ \A a : Usable(a) => a # None
BY AliasesAreAddresses DEF Usable, Named

LEMMA MailMoves ==
    ASSUME CallsInOrder, MailInOrder, NEW c \in Calls, DraftCall(c), Recorded(c)
    PROVE  MovesOn(c)
<1>. DEFINE Moved == /\ op' = op /\ pc[c] \notin Answers /\ staged' \subseteq staged
                     /\ \A e \in Calls \ {c} : pc'[e] = pc[e] /\ copy'[e] = copy[e]
<1>1. ASSUME NEW to, Goto(c, to) \/ UNCHANGED calls, pc[c] \notin Answers,
             copy' = copy \/ (\E r : copy' = [copy EXCEPT ![c] = r]),
             staged' = staged \/ \E files : staged' = staged \ files
      PROVE  Moved
  <2>1. op' = op /\ \A e \in Calls \ {c} : pc'[e] = pc[e]
    BY <1>1 DEF Goto, calls, CallsInOrder
  <2>2. \A e \in Calls \ {c} : copy'[e] = copy[e]
    BY <1>1 DEF CallsInOrder
  <2>. QED  BY <1>1, <2>1, <2>2
<1>2. Moved
  <2>. HIDE DEF Moved
  <2>. USE <1>1 DEF Decline, Give, Hold, Unspent, Spent, Under, Written, mailVars, mail, Answers
  <2>1. CASE GmailCreateDraft(c)  BY <2>1 DEF GmailCreateDraft
  <2>2. CASE GmailReplyDraft(c)  BY <2>2 DEF GmailReplyDraft
  <2>3. CASE GmailUpdateDraft(c)  BY <2>3 DEF GmailUpdateDraft
  <2>4. CASE GmailAttachToDraft(c)  BY <2>4 DEF GmailAttachToDraft
  <2>5. CASE Weigh(c)  BY <2>5 DEF Weigh
  <2>6. CASE TakeFiles(c)  BY <2>6 DEF TakeFiles
  <2>7. CASE WriteDraft(c)  BY <2>7 DEF WriteDraft
  <2>8. CASE GmailDeleteDraft(c)  BY <2>8 DEF GmailDeleteDraft
  <2>9. CASE GmailModifyLabels(c)  BY <2>9 DEF GmailModifyLabels
  <2>10. CASE Label(c)  BY <2>10 DEF Label, Unasked
  <2>11. CASE Labelled(c)  BY <2>11 DEF Labelled
  <2>. QED  BY <2>1, <2>2, <2>3, <2>4, <2>5, <2>6, <2>7, <2>8, <2>9, <2>10, <2>11 DEF DraftCall
<1>3. was' = [e \in Calls |-> was'[e]] /\ \A e \in Calls \ {c} : was'[e] = was[e]
  BY DEF Recorded, MailInOrder
<1>. QED  BY <1>2, <1>3 DEF MovesOn

(* What is left to show of a step: what the call itself holds.               *)
LEMMA OneHoldsMail ==
    ASSUME MailInOrder, NEW c \in Calls, MovesOn(c), Holds(c)', Adds(c)', drafts' = drafts
    PROVE  MailInOrder'
<1>1. \A d \in DraftIds : Kept(d)'
  BY DraftsKeep DEF MailInOrder
<1>2. was' = [e \in Calls |-> was'[e]] /\ staged' \subseteq Uploads
  BY DEF MovesOn, MailInOrder
<1>. QED  BY <1>1, <1>2, OthersHold DEF MailInOrder

LEMMA GivingUpHolds ==
    ASSUME CallsInOrder, MailInOrder, NEW c \in Calls, MovesOn(c), Decline(c) \/ Give(c),
           pc[c] = "write" => Give(c)
    PROVE  MailInOrder'
<1>1. /\ copy' = copy /\ drafts' = drafts /\ op' = op
      /\ pc'[c] \in {"refused", "failed"} /\ (pc[c] = "write" => pc'[c] = "failed")
  BY DEF Decline, Give, Goto, CallsInOrder, mailVars, mail
<1>2. Holds(c)'
  <2>1. Holds(c)
    BY DEF MailInOrder
  <2>2. \A u : Took(u, c) => Took(u, c)'
    BY <1>1 DEF Took, FilesOf, Tool, MovesOn, Answers
  <2>3. Addressed(c, copy[c]) => Addressed(c, copy[c])'
    BY <1>1 DEF Addressed, Tool
  <2>4. c \in Calls /\ copy'[c] = copy[c] /\ Tool(c)' = Tool(c)
    BY <1>1 DEF Tool
  <2>. QED  BY <1>1, <2>1, <2>2, <2>3, <2>4, EndedStay DEF Holds
<1>3. Adds(c)'
  BY <1>1 DEF Adds, Writing
<1>. QED  BY <1>1, <1>2, <1>3, OneHoldsMail

(* A message of one's own, with nothing attached yet.                        *)
LEMMA ComposingHolds ==
    ASSUME CallsInOrder, MailInOrder, NEW c \in Calls, MovesOn(c), Tool(c) \in Composers,
           NEW r, Hold(c, "take", r), r.by = c, r.files = {}, Addressed(c, r)
    PROVE  MailInOrder'
<1>1. copy'[c] = r /\ drafts' = drafts /\ op' = op /\ pc'[c] = "take"
  BY DEF Hold, Goto, CallsInOrder, mail
<1>2. Holds(c)'
  <2>1. Addressed(c, r)'
    BY <1>1 DEF Addressed, Tool
  <2>. QED  BY <1>1, <2>1 DEF Holds, Tool
<1>3. Adds(c)'
  BY <1>1 DEF Adds, Tool, Composers
<1>. QED  BY <1>1, <1>2, <1>3, OneHoldsMail

LEMMA CreatingHolds ==
    ASSUME CallsInOrder, MailInOrder, NEW c \in Calls, MovesOn(c), GmailCreateDraft(c) \/ GmailUpdateDraft(c)
    PROVE  MailInOrder'
<1>. DEFINE From == DraftFrom(op[c].from)
            R(from, to) == [Blank EXCEPT !.by = c, !.text = <<c>>, !.from = from, !.to = to]
            T(from, to, thread) == [Blank EXCEPT !.by = c, !.text = <<c>>, !.from = from, !.to = to, !.thread = thread]
            Begun(r) == r.by = c /\ r.files = {} /\ r.from \in From
<1>1. pc[c] = "called" /\ Tool(c) \in {"create", "rewrite"}
  BY DEF GmailCreateDraft, GmailUpdateDraft, Under, Tool
<1>2. \A from \in From : \A to, thread : Begun(R(from, to)) /\ Begun(T(from, to, thread))
  BY DEF Blank
<1>3. \/ Decline(c) \/ Give(c)
      \/ MayWriteAs(op[c].from) /\ \E from \in From : \E to : Hold(c, "take", R(from, to))
      \/ MayWriteAs(op[c].from) /\ \E from \in From : \E to, thread : Hold(c, "take", T(from, to, thread))
  <2>1. CASE GmailCreateDraft(c)
    BY <2>1, Zenon DEF GmailCreateDraft
  <2>2. CASE GmailUpdateDraft(c)
    BY <2>2, Zenon DEF GmailUpdateDraft
  <2>. QED  BY <2>1, <2>2
<1>4. ASSUME MayWriteAs(op[c].from), NEW r, Begun(r), Hold(c, "take", r)
      PROVE  MailInOrder'
  <2>1. Usable(r.from) \/ r.from = OwnAddress
    BY <1>4, AliasesAreAddresses DEF DraftFrom, MayWriteAs
  <2>2. Addressed(c, r)
    BY <1>1, <2>1 DEF Addressed
  <2>. QED  BY <1>1, <1>4, <2>2, ComposingHolds DEF Composers
<1>. HIDE DEF R, T, From, Begun
<1>. QED  BY <1>1, <1>2, <1>3, <1>4, GivingUpHolds

LEMMA ReplyingHolds ==
    ASSUME CallsInOrder, MailInOrder, NEW c \in Calls, MovesOn(c), GmailReplyDraft(c)
    PROVE  MailInOrder'
<1>. DEFINE m == op[c].message
            R(from, whom) == [Blank EXCEPT !.by = c, !.text = <<c>>, !.from = from, !.to = whom.to, !.cc = whom.cc, !.thread = m.thread]
<1>1. pc[c] = "called" /\ Tool(c) = "reply"
  BY DEF GmailReplyDraft, Under, Tool
<1>2. \/ Decline(c) \/ Give(c)
      \/ /\ MayWriteAs(op[c].from)
         /\ \E from \in ReplyFrom(m, op[c].from) : Hold(c, "take", R(from, ReplyTo(m, from, op[c].all)))
  BY Zenon DEF GmailReplyDraft
<1>3. ASSUME MayWriteAs(op[c].from), NEW from \in ReplyFrom(m, op[c].from),
             Hold(c, "take", R(from, ReplyTo(m, from, op[c].all)))
      PROVE  MailInOrder'
  <2>. DEFINE whom == ReplyTo(m, from, op[c].all)
              r == R(from, whom)
  <2>1. r.by = c /\ r.files = {} /\ r.from = from /\ r.to = whom.to /\ r.cc = whom.cc
    BY DEF Blank
  <2>2. Usable(from) \/ from = OwnAddress
    <3>1. from \in DraftFrom(op[c].from) \/ Usable(from)
      BY <1>3 DEF ReplyFrom
    <3>. QED  BY <1>3, <3>1, AliasesAreAddresses DEF DraftFrom, MayWriteAs
  <2>3. /\ m.sent => whom.to = Range(m.to) /\ whom.cc = IF op[c].all THEN Range(m.cc) ELSE {}
        /\ ~m.sent => /\ whom.to = {a \in {m.from} : a # from \/ Len(m.to) <= 1}
                      /\ whom.cc = IF op[c].all THEN (Range(m.to) \cup Range(m.cc)) \ {from, m.from} ELSE {}
    BY DEF ReplyTo
  <2>4. Len(m.to) \in Nat
    BY <1>1, CallsAskForThings DEF CallsInOrder, Tool
  <2>. HIDE DEF r, whom, m
  <2>5. Addressed(c, r)
    <3>1. m.sent => r.to = Range(m.to)
      BY <2>1, <2>3
    <3>2. ~m.sent /\ Len(m.to) > 1 => r.from \notin r.to \cup r.cc
      BY <2>1, <2>3, <2>4
    <3>3. op[c].all => Range(m.to) \cup Range(m.cc) \cup (IF m.sent THEN {} ELSE {m.from}) \subseteq r.to \cup r.cc \cup {r.from}
      <4>1. CASE m.sent
        BY <2>1, <2>3, <4>1
      <4>2. CASE ~m.sent /\ op[c].all
        <5>1. r.cc = (Range(m.to) \cup Range(m.cc)) \ {from, m.from}
          BY <2>1, <2>3, <4>2
        <5>2. m.from \in r.to \cup r.cc \cup {r.from}
          BY <2>1, <2>3, <4>2
        <5>. QED  BY <2>1, <4>2, <5>1, <5>2
      <4>. QED  BY <4>1, <4>2
    <3>4. r.to \cap r.cc \subseteq Range(m.to) \cap Range(m.cc)
      BY <2>1, <2>3
    <3>. QED  BY <2>1, <2>2, <3>1, <3>2, <3>3, <3>4 DEF Addressed, m
  <2>6. Hold(c, "take", r)
    BY <1>3 DEF r, whom
  <2>. HIDE DEF R
  <2>. QED  BY <1>1, <2>1, <2>5, <2>6, ComposingHolds DEF Composers
<1>. HIDE DEF R, m
<1>. QED  BY <1>1, <1>2, <1>3, GivingUpHolds

LEMMA AttachingHolds ==
    ASSUME CallsInOrder, DraftsInOrder, MailInOrder, NEW c \in Calls, MovesOn(c), Recorded(c), GmailAttachToDraft(c)
    PROVE  MailInOrder'
<1>. DEFINE d == op[c].draft
<1>1. pc[c] = "called" /\ Tool(c) = "attach" /\ d \in DraftIds
  BY CallsAskForThings DEF GmailAttachToDraft, Under, Tool, CallsInOrder
<1>2. \/ Decline(c) \/ Give(c)
      \/ op[c].files # {} /\ There(d) /\ Hold(c, "weigh", Rebuilt(drafts[d]))
  BY DEF GmailAttachToDraft
<1>3. ASSUME op[c].files # {}, There(d), Hold(c, "weigh", Rebuilt(drafts[d]))  PROVE MailInOrder'
  <2>1. copy'[c] = Rebuilt(drafts[d]) /\ drafts' = drafts /\ op' = op /\ pc'[c] = "weigh"
    BY <1>3 DEF Hold, Goto, CallsInOrder, mail
  <2>2. was'[c] = drafts
    BY <1>1 DEF Recorded, MailInOrder
  <2>0. Kept(d) /\ drafts[d] # None /\ IsDraft(drafts[d])
    BY <1>1, <1>3 DEF MailInOrder, There, DraftsInOrder
  <2>3. /\ Kept(d) /\ drafts[d] # None /\ IsDraft(drafts[d]) /\ IsDraft(Rebuilt(drafts[d]))
        /\ Rebuilt(drafts[d]).by = drafts[d].by /\ Rebuilt(drafts[d]).files = drafts[d].files
    BY <2>0, RebuiltKeeps
  <2>4. Holds(c)'
    <3>1. drafts[d].by # c
      BY <1>1, <2>3 DEF Kept, Ended, Composers
    <3>. QED  BY <1>1, <2>1, <2>3, <3>1, EndedStay DEF Holds, Kept, Tool, Composers
  <2>5. Adds(c)'
    <3>1. \A u \in drafts[d].files \cap Uploads : Gone(u)'
      BY <2>3, EndedStay DEF Kept
    <3>2. ReadDraft(c)' = Rebuilt(drafts[d]) /\ was'[c][op'[c].draft] = drafts[d]
      BY <2>1, <2>2 DEF ReadDraft
    <3>. QED  BY <1>3, <2>1, <2>3, <3>1, <3>2 DEF Adds, Tool, IsDraft
  <2>. QED  BY <2>1, <2>4, <2>5, OneHoldsMail
<1>. QED  BY <1>1, <1>2, <1>3, GivingUpHolds

LEMMA WeighingHolds ==
    ASSUME CallsInOrder, ThreadsInOrder, MailInOrder, NEW c \in Calls, MovesOn(c), Recorded(c), Weigh(c)
    PROVE  MailInOrder'
<1>1. pc[c] = "weigh" /\ Tool(c) = "attach"
  BY DEF Weigh, ThreadsInOrder, InThread
<1>2. \/ Decline(c)
      \/ /\ Weight(op[c].files) + Weight(copy[c].files) <= AttachmentMax
         /\ \E from \in DraftFrom(copy[c].from) : Hold(c, "take", [copy[c] EXCEPT !.from = from])
  BY DEF Weigh
<1>3. ASSUME Weight(op[c].files) + Weight(copy[c].files) <= AttachmentMax,
             NEW from \in DraftFrom(copy[c].from), Hold(c, "take", [copy[c] EXCEPT !.from = from])
      PROVE  MailInOrder'
  <2>1. copy'[c] = [copy[c] EXCEPT !.from = from] /\ drafts' = drafts /\ op' = op /\ pc'[c] = "take" /\ was'[c] = was[c]
    BY <1>1, <1>3 DEF Hold, Goto, CallsInOrder, mail, Recorded
  <2>2. Holds(c) /\ Adds(c) /\ copy[c] = ReadDraft(c)
    BY <1>1 DEF MailInOrder, Adds, Writing
  <2>3. copy'[c].by = copy[c].by /\ copy'[c].files = copy[c].files /\ copy'[c].from = from
    BY <2>1 DEF CallsInOrder, IsDraft, Blank
  <2>4. from # None /\ (copy[c].from # None => from = copy[c].from)
    BY <1>3, NobodyNone, AliasesAreAddresses DEF DraftFrom
  <2>5. Holds(c)'
    <3>1. copy[c].by # c /\ \A u : ~Took(u, c)
      BY <1>1, <2>2 DEF Holds, Composers, Took
    <3>. QED  BY <1>1, <2>1, <2>2, <2>3, <3>1, EndedStay DEF Holds, Tool, Composers
  <2>6. Adds(c)'
    <3>1. ReadDraft(c)' = ReadDraft(c)
      BY <2>1 DEF ReadDraft
    <3>2. copy'[c] = [ReadDraft(c) EXCEPT !.from = copy'[c].from]
      BY <2>1, <2>2, <2>3
    <3>. QED  BY <1>1, <1>3, <2>1, <2>2, <2>3, <2>4, <3>1, <3>2, EndedStay DEF Adds, Tool, IsDraft, Writing
  <2>. QED  BY <2>1, <2>5, <2>6, OneHoldsMail
<1>. QED  BY <1>1, <1>2, <1>3, GivingUpHolds

LEMMA TakingHolds ==
    ASSUME CallsInOrder, Accounted, MailInOrder, NEW c \in Calls, MovesOn(c), Recorded(c), TakeFiles(c)
    PROVE  MailInOrder'
<1>. DEFINE files == op[c].files
<1>1. pc[c] = "take" /\ Tool(c) \in Writers
  BY DEF TakeFiles, CallsInOrder, AtStation, Writing
<1>2. \/ Decline(c)
      \/ /\ files \subseteq staged /\ Goto(c, "write") /\ drafts' = drafts
         /\ copy' = [copy EXCEPT ![c].files = @ \cup files]
  BY DEF TakeFiles, Waiting, mail
<1>3. ASSUME files \subseteq staged, Goto(c, "write"), drafts' = drafts, copy' = [copy EXCEPT ![c].files = @ \cup files]
      PROVE  MailInOrder'
  <2>1. copy'[c] = [copy[c] EXCEPT !.files = @ \cup files] /\ op' = op /\ pc'[c] = "write" /\ was'[c] = was[c]
    BY <1>1, <1>3 DEF Goto, CallsInOrder, Recorded
  <2>2. Holds(c) /\ Adds(c) /\ files \subseteq Uploads
    BY <1>3 DEF MailInOrder
  <2>3. copy'[c].by = copy[c].by /\ copy'[c].files = copy[c].files \cup files /\ copy'[c].from = copy[c].from
        /\ copy'[c].to = copy[c].to /\ copy'[c].cc = copy[c].cc
    BY <2>1 DEF CallsInOrder, IsDraft, Blank
  <2>4. Holds(c)'
    <3>1. \A u : ~Took(u, c)
      BY <1>1 DEF Took
    <3>2. \A u \in files : Took(u, c)'
      BY <1>1, <2>1, <2>3 DEF Took, FilesOf, Tool, Writers
    <3>3. \A u \in copy[c].files \cap Uploads : Gone(u)'
      BY <2>2, <3>1, EndedStay DEF Holds
    <3>4. Addressed(c, copy[c]) => Addressed(c, copy[c])'
      BY <2>1, <2>3 DEF Addressed, Tool
    <3>5. Tool(c)' = Tool(c)
      BY <2>1 DEF Tool
    <3>. QED  BY <1>1, <2>1, <2>2, <2>3, <3>2, <3>3, <3>4, <3>5, EndedStay DEF Holds
  <2>5. Adds(c)'
    <3>1. CASE Tool(c) # "attach"
      BY <2>1, <3>1 DEF Adds, Tool
    <3>2. CASE Tool(c) = "attach"
      <4>1. ReadDraft(c)' = ReadDraft(c)
        BY <2>1 DEF ReadDraft
      <4>2. /\ copy[c] = [ReadDraft(c) EXCEPT !.from = copy[c].from] /\ IsDraft(ReadDraft(c))
            /\ \A u \in ReadDraft(c).files \cap Uploads : Gone(u)
        BY <1>1, <2>2, <3>2 DEF Adds, Writing
      <4>3. copy[c].files = ReadDraft(c).files
        BY <4>2 DEF IsDraft, Blank
      <4>4. copy'[c] = [ReadDraft(c) EXCEPT !.from = copy'[c].from, !.files = @ \cup files]
        BY <2>1, <2>3, <4>2, <4>3
      <4>5. ReadDraft(c).files \cap files = {}
        <5>1. \A u \in files : ~Gone(u)
          BY <1>3, <2>2 DEF Accounted, Untaken, Gone
        <5>. QED  BY <2>2, <4>2, <5>1
      <4>. QED  BY <1>1, <2>1, <2>2, <2>3, <3>2, <4>1, <4>2, <4>4, <4>5, EndedStay DEF Adds, Tool, IsDraft, Writing
    <3>. QED  BY <3>1, <3>2
  <2>. QED  BY <1>3, <2>4, <2>5, OneHoldsMail
<1>. QED  BY <1>1, <1>2, <1>3, GivingUpHolds

(* One draft is another now, which is in order.                             *)
LEMMA WrittenHolds ==
    ASSUME CallsInOrder, DraftsInOrder, MailInOrder, NEW c \in Calls, MovesOn(c), Holds(c)', Adds(c)',
           NEW d, NEW r, drafts' = [drafts EXCEPT ![d] = r],
           r.by \in Calls => Ended(r.by)', r.files \subseteq Uploads \cup {"old", "theirs"},
           \A u \in r.files \cap Uploads : Gone(u)'
    PROVE  MailInOrder'
<1>1. ASSUME NEW e \in DraftIds  PROVE Kept(e)'
  <2>1. CASE e = d
    <3>1. drafts'[e] = r
      BY <2>1 DEF DraftsInOrder
    <3>. QED  BY <3>1 DEF Kept
  <2>2. CASE e # d
    <3>1. drafts'[e] = drafts[e]
      BY <2>2 DEF DraftsInOrder
    <3>. QED  BY <3>1, DraftsKeep DEF MailInOrder
  <2>. QED  BY <2>1, <2>2
<1>2. was' = [e \in Calls |-> was'[e]] /\ staged' \subseteq Uploads
  BY DEF MovesOn, MailInOrder
<1>. QED  BY <1>1, <1>2, OthersHold DEF MailInOrder

LEMMA WritingHoldsMail ==
    ASSUME CallsInOrder, DraftsInOrder, MailInOrder, NEW c \in Calls, MovesOn(c), WriteDraft(c)
    PROVE  MailInOrder'
<1>1. /\ pc[c] = "write" /\ Tool(c) \in Writers
      /\ \/ Give(c)
         \/ \E d : Written(c, d, copy[c])
  BY DEF WriteDraft, CallsInOrder, AtStation, Writing
<1>2. ASSUME NEW d, Written(c, d, copy[c])  PROVE MailInOrder'
  <2>1. drafts' = [drafts EXCEPT ![d] = copy[c]] /\ copy' = copy /\ op' = op /\ pc'[c] \in {"done", "failed"}
    BY <1>2 DEF Written, Goto, CallsInOrder
  <2>2. Holds(c)
    BY DEF MailInOrder
  <2>3. \A u : Took(u, c) => Took(u, c)' /\ Gone(u)'
    BY <2>1 DEF Took, FilesOf, Tool, Gone
  <2>4. Holds(c)'
    <3>1. Addressed(c, copy[c]) => Addressed(c, copy[c])'
      BY <2>1 DEF Addressed, Tool
    <3>2. copy'[c] = copy[c] /\ Tool(c)' = Tool(c)
      BY <2>1 DEF Tool
    <3>. QED  BY <1>1, <2>1, <2>2, <2>3, <3>1, <3>2, EndedStay DEF Holds
  <2>5. Adds(c)'
    BY <2>1 DEF Adds, Writing
  <2>0. PICK r : r = copy[c]
    OBVIOUS
  <2>6. r.by \in Calls => Ended(r.by)'
    <3>1. CASE r.by = c
      BY <2>0, <2>1, <2>2, <3>1 DEF Holds, Ended, Tool
    <3>2. CASE r.by # c
      BY <2>0, <2>2, <3>2, EndedStay DEF Holds
    <3>. QED  BY <3>1, <3>2
  <2>7. \A u \in r.files \cap Uploads : Gone(u)'
    BY <2>0, <2>2, <2>3, EndedStay DEF Holds
  <2>8. r.files \subseteq Uploads \cup {"old", "theirs"} /\ drafts' = [drafts EXCEPT ![d] = r]
    BY <2>0, <2>1, <2>2 DEF Holds
  <2>. QED  BY <2>4, <2>5, <2>6, <2>7, <2>8, WrittenHolds
<1>. QED  BY <1>1, <1>2, GivingUpHolds

LEMMA NoneLeft ==
    LET r == [Blank EXCEPT !.there = FALSE]
    IN r.by = None /\ r.files = {}
BY DEF Blank

LEMMA DiscardingHolds ==
    ASSUME CallsInOrder, DraftsInOrder, MailInOrder, NEW c \in Calls, MovesOn(c), Recorded(c), GmailDeleteDraft(c)
    PROVE  MailInOrder'
<1>1. Elsewhere(c) /\ copy' = copy
  BY OtherMailElsewhere
<1>2. drafts' = drafts \/ \E d : drafts' = [drafts EXCEPT ![d] = [Blank EXCEPT !.there = FALSE]]
  BY DEF GmailDeleteDraft, Give, Written, mailVars, mail
<1>3. \A d \in DraftIds : Kept(d)'
  <2>1. CASE drafts' = drafts
    BY <2>1, DraftsKeep DEF MailInOrder
  <2>2. ASSUME NEW d, drafts' = [drafts EXCEPT ![d] = [Blank EXCEPT !.there = FALSE]], NEW e \in DraftIds
        PROVE  Kept(e)'
    <3>. DEFINE r == [Blank EXCEPT !.there = FALSE]
    <3>0. r.by \notin Calls /\ r.files = {}
      BY NoneLeft, CallsAskForThings
    <3>. HIDE DEF r
    <3>1. CASE e = d
      <4>1. drafts'[e] = r
        BY <2>2, <3>1 DEF DraftsInOrder, r
      <4>. QED  BY <3>0, <4>1 DEF Kept
    <3>2. CASE e # d
      <4>1. drafts'[e] = drafts[e]
        BY <2>2, <3>2 DEF DraftsInOrder
      <4>. QED  BY <4>1, DraftsKeep DEF MailInOrder
    <3>. QED  BY <3>1, <3>2
  <2>. QED  BY <1>2, <2>1, <2>2
<1>. QED  BY <1>1, <1>3, NoMailHolds

(* People write in drafts of theirs, send them, or attach what is no upload.  *)
LEMMA PeopleHoldMail ==
    ASSUME UploadsInOrder, MailInOrder, Others \/ Sweep \/ UNCHANGED vars
    PROVE  MailInOrder'
<1>1. pc' = pc /\ op' = op /\ copy' = copy /\ was' = was /\ staged' \subseteq staged
  BY DEF Others, Sweep, Expire, vars, calls, mailVars
<1>2. /\ \A e : Ended(e)' <=> Ended(e)
      /\ \A u, e : Took(u, e)' <=> Took(u, e)
      /\ \A u : Gone(u)' <=> Gone(u)
  BY <1>1 DEF Ended, Took, Gone, FilesOf, Tool
<1>3. \A c \in Calls : Holds(c)' /\ Adds(c)'
  <2>1. SUFFICES ASSUME NEW c \in Calls  PROVE Holds(c)' /\ Adds(c)'
    OBVIOUS
  <2>2. Holds(c) /\ Adds(c)
    BY DEF MailInOrder
  <2>3. Addressed(c, copy[c]) => Addressed(c, copy[c])'
    BY <1>1 DEF Addressed, Tool
  <2>4. Holds(c)'
    BY <1>1, <1>2, <2>2, <2>3 DEF Holds, Tool
  <2>5. Adds(c)'
    BY <1>1, <1>2, <2>2 DEF Adds, ReadDraft, Tool, IsDraft
  <2>. QED  BY <2>4, <2>5
<1>4. ASSUME NEW d, NEW r, Kept(d), There(d), d \in DraftIds, drafts' = [drafts EXCEPT ![d] = r],
             r.by \notin Calls, r.files \subseteq drafts[d].files \cup {"theirs"}
      PROVE  \A e \in DraftIds : Kept(e)'
  <2>1. SUFFICES ASSUME NEW e \in DraftIds  PROVE Kept(e)'
    OBVIOUS
  <2>2. CASE e = d
    <3>1. drafts'[e] = r
      BY <1>4, <2>2 DEF UploadsInOrder, DraftsInOrder
    <3>2. "theirs" \notin Uploads
      BY MailboxHoldsDrafts
    <3>. QED  BY <1>2, <1>4, <3>1, <3>2 DEF Kept, There
  <2>3. CASE e # d
    <3>1. drafts'[e] = drafts[e] /\ Kept(e)
      BY <1>4, <2>3 DEF UploadsInOrder, DraftsInOrder, MailInOrder
    <3>. QED  BY <1>2, <3>1 DEF Kept
  <2>. QED  BY <2>2, <2>3
<1>5. \A d \in DraftIds : Kept(d)'
  <2>1. CASE drafts' = drafts
    BY <1>2, <2>1 DEF MailInOrder, Kept
  <2>2. CASE PersonEdits
    <3>1. PICK d \in DraftIds : There(d) /\ drafts' = [drafts EXCEPT ![d].by = "person", ![d].text = <<"person">>]
      BY <2>2 DEF PersonEdits
    <3>2. PICK r : r = [drafts[d] EXCEPT !.by = "person", !.text = <<"person">>]
      OBVIOUS
    <3>3. IsDraft(drafts[d]) /\ Kept(d)
      BY <3>1 DEF UploadsInOrder, DraftsInOrder, There, MailInOrder
    <3>4. r.by = "person" /\ r.files = drafts[d].files
      BY <3>2, <3>3 DEF IsDraft, Blank
    <3>5. drafts' = [drafts EXCEPT ![d] = r]
      BY <3>1, <3>2
    <3>. QED  BY <1>4, <3>1, <3>3, <3>4, <3>5, MailboxHoldsDrafts
  <2>3. CASE PersonAttaches
    <3>1. PICK d \in DraftIds : There(d) /\ drafts' = [drafts EXCEPT ![d].files = @ \cup {"theirs"}]
      BY <2>3 DEF PersonAttaches
    <3>2. PICK r : r = [drafts[d] EXCEPT !.files = @ \cup {"theirs"}]
      OBVIOUS
    <3>3. IsDraft(drafts[d]) /\ Kept(d)
      BY <3>1 DEF UploadsInOrder, DraftsInOrder, There, MailInOrder
    <3>4. r.by = drafts[d].by /\ r.files = drafts[d].files \cup {"theirs"}
      BY <3>2, <3>3 DEF IsDraft, Blank
    <3>5. ASSUME NEW e \in DraftIds  PROVE Kept(e)'
      <4>1. CASE e = d
        <5>1. drafts'[e] = r
          BY <3>1, <3>2, <4>1 DEF UploadsInOrder, DraftsInOrder
        <5>. QED  BY <1>2, <3>1, <3>3, <3>4, <4>1, <5>1, MailboxHoldsDrafts DEF Kept, There
      <4>2. CASE e # d
        <5>1. drafts'[e] = drafts[e] /\ Kept(e)
          BY <3>1, <4>2 DEF UploadsInOrder, DraftsInOrder, MailInOrder
        <5>. QED  BY <1>2, <5>1 DEF Kept
      <4>. QED  BY <4>1, <4>2
    <3>. QED  BY <3>5
  <2>4. CASE PersonSends
    <3>1. PICK d \in DraftIds : There(d) /\ drafts' = [drafts EXCEPT ![d] = [Blank EXCEPT !.there = FALSE]]
      BY <2>4 DEF PersonSends
    <3>2. PICK r : r = [Blank EXCEPT !.there = FALSE]
      OBVIOUS
    <3>3. r.by \notin Calls /\ r.files = {} /\ Kept(d)
      BY <3>2, NoneLeft, CallsAskForThings DEF MailInOrder
    <3>. QED  BY <1>4, <3>1, <3>2, <3>3
  <2>. QED  BY <2>1, <2>2, <2>3, <2>4 DEF Others, Sweep, vars, mail, mailVars
<1>. QED  BY <1>1, <1>3, <1>5 DEF MailInOrder

LEMMA MailInit == Init => MailInOrder
<1>1. SUFFICES ASSUME Init  PROVE MailInOrder
  OBVIOUS
<1>2. \A c \in Calls : copy[c] = Blank /\ pc[c] = "called"
  BY <1>1 DEF Init, DraftsInit
<1>3. Blank.by = None /\ Blank.files = {} /\ None \notin Calls
  BY CallsAskForThings DEF Blank
<1>4. \A c \in Calls : Holds(c) /\ Adds(c)
  <2>1. SUFFICES ASSUME NEW c \in Calls  PROVE Holds(c) /\ Adds(c)
    OBVIOUS
  <2>2. Holds(c)
    BY <1>2, <1>3 DEF Holds
  <2>3. Adds(c)
    BY <1>2 DEF Adds, Writing
  <2>. QED  BY <2>2, <2>3
<1>5. \A d \in DraftIds : Kept(d)
  BY <1>1, MailboxHoldsDrafts DEF Init, DraftsInit, Kept
<1>. QED  BY <1>1, <1>4, <1>5 DEF Init, MailInOrder

LEMMA MailStep == UploadsInOrder /\ ThreadsInOrder /\ MailInOrder /\ [Next]_vars => MailInOrder'
<1>1. SUFFICES ASSUME UploadsInOrder, ThreadsInOrder, MailInOrder, [Next]_vars  PROVE MailInOrder'
  OBVIOUS
<1>. USE DEF UploadsInOrder
<1>2. ASSUME NEW c \in Calls, Elsewhere(c), Recorded(c), copy' = copy, drafts' = drafts
      PROVE  MailInOrder'
  <2>1. MovesOn(c)
    BY <1>1, <1>2 DEF Recorded, MailInOrder, MovesOn, Elsewhere, CallsInOrder, Answers
  <2>2. \A d \in DraftIds : Kept(d)'
    BY <1>1, <1>2, <2>1, DraftsKeep DEF MailInOrder
  <2>. QED  BY <1>1, <1>2, <2>2, NoMailHolds
<1>3. ASSUME NEW c \in Calls, Drive(c) \/ SheetsOf(c) \/ CalendarOf(c)  PROVE MailInOrder'
  BY <1>1, <1>2, <1>3, DriveElsewhere, SheetsElsewhere, EventsElsewhere DEF Drive, SheetsOf, CalendarOf, mailVars, mail
<1>4. ASSUME NEW c \in Calls, Gmail(c)  PROVE MailInOrder'
  <2>1. DraftCall(c) /\ Recorded(c) /\ MovesOn(c)
    BY <1>1, <1>4, MailMoves DEF Gmail
  <2>2. CASE GmailModifyLabels(c) \/ Label(c) \/ Labelled(c)
    <3>1. drafts' = drafts
      BY <2>2 DEF GmailModifyLabels, Label, Labelled, Give, Decline, Hold, mailVars, mail
    <3>. QED  BY <1>1, <1>2, <2>1, <2>2, <3>1, OtherMailElsewhere
  <2>. QED  BY <1>1, <2>1, <2>2, CreatingHolds, ReplyingHolds, AttachingHolds, WeighingHolds, TakingHolds,
               WritingHoldsMail, DiscardingHolds DEF DraftCall
<1>. QED  BY <1>1, <1>3, <1>4, PeopleHoldMail DEF Next

(* A reply goes to the people of the conversation and not back to its writer, *)
(* and every message is written as an address that may be written as          *)
(* (gmail.rs, DraftContent::reply_to; mcp/gmail.rs, reply_from).              *)
THEOREM RepliesFindPeople == ASSUME NoneIsNoDraft PROVE Spec => []RepliesReach
<1>1. Init => UploadsInOrder /\ ThreadsInOrder /\ MailInOrder
  BY UploadsInit, MailInit DEF Init, ThreadsInOrder, InThread, Writing
<1>2. UploadsInOrder /\ ThreadsInOrder /\ MailInOrder /\ [Next]_vars => UploadsInOrder' /\ ThreadsInOrder' /\ MailInOrder'
  BY UploadsStep, ThreadsStep, MailStep
<1>3. MailInOrder => RepliesReach
  BY DEF MailInOrder, Holds, Addressed, RepliesReach
<1>. QED  BY <1>1, <1>2, <1>3, PTL DEF Spec

(***************************************************************************)
(* Spreadsheets.                                                          *)

(* Rows as the requests make them.                                          *)
LEMMA RowIs ==
    ASSUME NEW cells \in [1 .. Columns -> STRING], NEW look \in STRING
    PROVE  Row(cells, look) \in Rows
BY DEF Rows, Row

LEMMA Filling ==
    ASSUME NEW cells \in Seq(STRING)
    PROVE  Row(Filled(cells), "plain") \in Rows
<1>1. \A k \in DOMAIN cells : cells[k] \in STRING
  OBVIOUS
<1>2. Filled(cells) \in [1 .. Columns -> STRING]
  BY <1>1, LiteralsAreStrings DEF Filled
<1>. QED  BY <1>2, RowIs, LiteralsAreStrings

LEMMA EmptyRow ==
    ASSUME NEW look \in STRING
    PROVE  Row(EmptyCells, look) \in Rows
<1>1. EmptyCells \in [1 .. Columns -> STRING]
  BY LiteralsAreStrings DEF EmptyCells
<1>. QED  BY <1>1, RowIs

LEMMA LastUsedIsThere ==
    ASSUME NEW rows \in Seq(Rows)
    PROVE  /\ LastUsed(rows) \in 0 .. Len(rows)
           /\ \A r \in DOMAIN rows : r > LastUsed(rows) => rows[r].cells = EmptyCells
<1>1. CASE Used(rows) = {}
  BY <1>1 DEF LastUsed, Used
<1>2. CASE Used(rows) # {}
  <2>. DEFINE T == {Len(rows) - r : r \in Used(rows)}
  <2>1. Used(rows) \subseteq 1 .. Len(rows) /\ Len(rows) \in Nat
    BY DEF Used
  <2>2. T \subseteq Nat /\ T # {}
    BY <1>2, <2>1
  <2>3. PICK n \in T : \A m \in T : n <= m
    BY <2>2, First
  <2>4. PICK r \in Used(rows) : n = Len(rows) - r
    OBVIOUS
  <2>5. \A q \in Used(rows) : q <= r
    <3>1. SUFFICES ASSUME NEW q \in Used(rows)  PROVE q <= r
      OBVIOUS
    <3>2. n <= Len(rows) - q
      BY <2>3
    <3>. QED  BY <2>1, <2>4, <3>2
  <2>6. LastUsed(rows) \in Used(rows) /\ \A q \in Used(rows) : q <= LastUsed(rows)
    BY <1>2, <2>5 DEF LastUsed
  <2>7. ASSUME NEW q \in DOMAIN rows, q > LastUsed(rows)  PROVE q \notin Used(rows)
    <3>1. q \in Nat /\ LastUsed(rows) \in Nat
      BY <2>1, <2>6
    <3>. QED  BY <2>6, <2>7, <3>1
  <2>. QED  BY <2>1, <2>6, <2>7 DEF Used
<1>. QED  BY <1>1, <1>2

LEMMA Joined ==
    ASSUME NEW S, NEW a \in Seq(S), NEW b \in Seq(S), NEW d \in Seq(S)
    PROVE  a \o b \o d \in Seq(S) /\ Len(a \o b \o d) = Len(a) + Len(b) + Len(d)
<1>1. a \o b \in Seq(S) /\ Len(a \o b) = Len(a) + Len(b)
  BY ConcatProperties
<1>2. (a \o b) \o d \in Seq(S) /\ Len((a \o b) \o d) = Len(a \o b) + Len(d)
  BY <1>1, ConcatProperties
<1>. QED  BY <1>1, <1>2

LEMMA AppendedIs ==
    ASSUME NEW rows \in Seq(Rows), NEW new \in Seq(Seq(STRING))
    PROVE  Appended(rows, new) \in Seq(Rows) /\ Len(Appended(rows, new)) = Len(rows) + Len(new)
<1>. DEFINE n == LastUsed(rows)
            a == SubSeq(rows, 1, n)
            b == [k \in DOMAIN new |-> Row(Filled(new[k]), "plain")]
            d == SubSeq(rows, n + 1, Len(rows))
<1>1. n \in 0 .. Len(rows) /\ Len(rows) \in Nat
  BY LastUsedIsThere
<1>. HIDE DEF n
<1>2. a \in Seq(Rows) /\ Len(a) = n /\ d \in Seq(Rows) /\ Len(d) = Len(rows) - n
  BY <1>1
<1>3. b \in Seq(Rows) /\ Len(b) = Len(new)
  <2>1. \A k \in DOMAIN new : Row(Filled(new[k]), "plain") \in Rows
    BY Filling
  <2>2. DOMAIN new = 1 .. Len(new) /\ Len(new) \in Nat
    OBVIOUS
  <2>. QED  BY <2>1, <2>2
<1>. HIDE DEF a, b, d
<1>4. Appended(rows, new) = a \o b \o d
  BY DEF Appended, a, b, d, n
<1>5. Len(new) \in Nat
  OBVIOUS
<1>6. a \o b \o d \in Seq(Rows) /\ Len(a \o b \o d) = Len(a) + Len(b) + Len(d)
  <2>1. a \in Seq(Rows) /\ b \in Seq(Rows) /\ d \in Seq(Rows)
    BY <1>2, <1>3
  <2>. QED  BY ONLY <2>1, Joined
<1>. QED  BY <1>1, <1>2, <1>3, <1>4, <1>5, <1>6

LEMMA OverwrittenIs ==
    ASSUME NEW rows \in Seq(Rows), NEW cells \in Seq(Seq(STRING)), NEW top \in Nat \ {0}, NEW left \in Nat \ {0}
    PROVE  Overwritten(rows, top, left, cells) \in Seq(Rows)
<1>. DEFINE over(r) ==
         IF r - top \in 0 .. Len(cells) - 1
         THEN LET new == cells[r - top + 1]
              IN [rows[r] EXCEPT !.cells = [k \in DOMAIN @ |->
                     IF k - left \in 0 .. Len(new) - 1 THEN new[k - left + 1] ELSE @[k]]]
         ELSE rows[r]
<1>1. ASSUME NEW r \in DOMAIN rows  PROVE over(r) \in Rows
  <2>0. rows[r] \in Rows /\ r \in Nat
    OBVIOUS
  <2>1. CASE r - top \in 0 .. Len(cells) - 1
    <3>. DEFINE new == cells[r - top + 1]
                made == [k \in 1 .. Columns |-> IF k - left \in 0 .. Len(new) - 1 THEN new[k - left + 1] ELSE rows[r].cells[k]]
    <3>1. new \in Seq(STRING)
      <4>1. r - top + 1 \in 1 .. Len(cells)
        BY <2>0, <2>1
      <4>. QED  BY <4>1
    <3>. HIDE DEF new
    <3>2. made \in [1 .. Columns -> STRING]
      BY <2>0, <3>1 DEF Rows, Columns
    <3>3. DOMAIN rows[r].cells = 1 .. Columns
      BY <2>0 DEF Rows
    <3>4. over(r) = [rows[r] EXCEPT !.cells = made]
      BY <2>1, <3>3 DEF new
    <3>. HIDE DEF made, over
    <3>. QED  BY <2>0, <3>2, <3>4 DEF Rows
  <2>2. CASE r - top \notin 0 .. Len(cells) - 1
    BY <2>0, <2>2
  <2>. QED  BY <2>1, <2>2
<1>2. Overwritten(rows, top, left, cells) = [r \in DOMAIN rows |-> over(r)]
  BY Zenon DEF Overwritten
<1>. HIDE DEF over
<1>3. DOMAIN rows = 1 .. Len(rows) /\ Len(rows) \in Nat
  OBVIOUS
<1>. QED  BY <1>1, <1>2, <1>3

(* Rows a batch may name: counted by unsigned numbers, of which there are some. *)
Countable(o) ==
    /\ o.tool \in Structural /\ o.at \in 0 .. Word - 1 /\ o.count \in 0 .. Word - 1
    /\ o.tool = "copyFormat" => o.from \in 0 .. Word - 1

LEMMA RangesAreNumbers ==
    ASSUME NEW at \in 0 .. Word - 1, NEW count \in Nat
    PROVE  /\ RowRange(at, count).start \in Nat /\ RowRange(at, count).end \in Nat
           /\ at > 1 => RowRange(at, count).start > 0
<1>1. Word \in Nat \ {0} /\ at \in Nat
  BY SheetsHoldTabs
<1>. DEFINE start == IF at = 0 THEN 0 ELSE at - 1
<1>2. start \in Nat /\ (at > 1 => start > 0)
  BY <1>1
<1>. HIDE DEF start
<1>3. Wrap(start + count) \in Nat
  BY <1>1, <1>2 DEF Wrap
<1>4. RowRange(at, count) = [start |-> start, end |-> Wrap(start + count)]
  BY DEF RowRange, start
<1>. QED  BY <1>2, <1>3, <1>4

LEMMA DimensionedIs ==
    ASSUME NEW rows \in Seq(Rows), NEW o, Countable(o), Carried(rows, Request(o))
    PROVE  /\ Dimensioned(rows, Request(o)) \in Seq(Rows)
           /\ o.tool \in {"insertRows", "deleteRows"} => Len(Dimensioned(rows, Request(o))) # Len(rows)
<1>. DEFINE q == Request(o)
            s == q.range.start
            e == q.range.end
            before == SubSeq(rows, 1, s)
<1>1. Len(rows) \in Nat /\ o.count \in Nat /\ o.at \in Nat
  BY SheetsHoldTabs DEF Countable
<1>2. q.range = RowRange(o.at, o.count)
  BY DEF Countable, Structural, Request, InsertRows, DeleteRows, CopyRowFormat
<1>3. /\ s \in Nat /\ e \in Nat /\ s < e /\ s <= Len(rows)
      /\ o.at > 1 => s > 0
  <2>1. s \in Nat /\ e \in Nat /\ (o.at > 1 => s > 0)
    BY <1>1, <1>2, RangesAreNumbers DEF Countable
  <2>. QED  BY <2>1 DEF Carried, InGrid
<1>4. CASE o.tool = "insertRows"
  <2>1. q.kind = "insert" /\ q.inherit = (o.at > 1)
    BY <1>4 DEF Request, InsertRows
  <2>. DEFINE look == IF q.inherit THEN rows[s].look ELSE "plain"
              new == [k \in 1 .. e - s |-> Row(EmptyCells, look)]
              after == SubSeq(rows, s + 1, Len(rows))
  <2>2. Dimensioned(rows, q) = before \o new \o after
    BY <2>1 DEF Dimensioned
  <2>. HIDE DEF q
  <2>3. look \in STRING
    <3>1. CASE q.inherit
      <4>1. o.at > 1
        BY <2>1, <3>1
      <4>2. s \in 1 .. Len(rows)
        BY <1>1, <1>3, <4>1
      <4>. HIDE DEF s, q
      <4>3. rows[s] \in Rows
        BY <4>2
      <4>4. look = rows[s].look
        BY <3>1
      <4>. HIDE DEF look
      <4>. QED  BY <4>3, <4>4 DEF Rows
    <3>2. CASE ~q.inherit
      BY <3>2, LiteralsAreStrings
    <3>. QED  BY <3>1, <3>2
  <2>. HIDE DEF look
  <2>4. before \in Seq(Rows) /\ Len(before) = s /\ after \in Seq(Rows) /\ Len(after) = Len(rows) - s
    BY <1>1, <1>3
  <2>5. new \in Seq(Rows) /\ Len(new) = e - s
    <3>1. Row(EmptyCells, look) \in Rows /\ e - s \in Nat
      BY <1>3, <2>3, EmptyRow
    <3>. QED  BY <3>1
  <2>. HIDE DEF before, new, after, s, e
  <2>6. before \o new \o after \in Seq(Rows) /\ Len(before \o new \o after) = Len(before) + Len(new) + Len(after)
    <3>1. before \in Seq(Rows) /\ new \in Seq(Rows) /\ after \in Seq(Rows)
      BY <2>4, <2>5
    <3>. QED  BY ONLY <3>1, Joined
  <2>. QED  BY <1>1, <1>3, <1>4, <2>2, <2>4, <2>5, <2>6 DEF q
<1>5. CASE o.tool = "deleteRows"
  <2>. DEFINE after == SubSeq(rows, e + 1, Len(rows))
  <2>1. q.kind = "delete"
    BY <1>5 DEF Request, DeleteRows
  <2>2. Dimensioned(rows, q) = before \o after
    BY <2>1 DEF Dimensioned
  <2>3. e <= Len(rows)
    BY <2>1 DEF Carried
  <2>. HIDE DEF q
  <2>4. before \in Seq(Rows) /\ Len(before) = s /\ after \in Seq(Rows) /\ Len(after) = Len(rows) - e
    BY <1>1, <1>3, <2>3
  <2>. HIDE DEF before, after, s, e
  <2>5. before \o after \in Seq(Rows) /\ Len(before \o after) = Len(before) + Len(after)
    BY <2>4, ConcatProperties
  <2>. QED  BY <1>1, <1>3, <2>2, <2>3, <2>4, <2>5 DEF q
<1>6. CASE o.tool = "copyFormat"
  <2>. DEFINE look == rows[q.source.start + 1].look
              made == [k \in DOMAIN rows |-> IF k - 1 \in s .. e - 1 THEN [rows[k] EXCEPT !.look = look] ELSE rows[k]]
  <2>1. q.kind = "paste" /\ q.source = RowRange(o.from, 1)
    BY <1>6 DEF Request, CopyRowFormat
  <2>2. Dimensioned(rows, q) = made
    BY <2>1 DEF Dimensioned
  <2>3. look \in STRING
    <3>1. q.source.start \in Nat /\ q.source.start < Len(rows)
      BY <1>6, <2>1, RangesAreNumbers DEF Carried, Countable
    <3>2. PICK k : k = q.source.start + 1
      OBVIOUS
    <3>3. rows[k] \in Rows /\ look = rows[k].look
      BY <1>1, <3>1, <3>2
    <3>. HIDE DEF look
    <3>. QED  BY <3>3 DEF Rows
  <2>. HIDE DEF look, q, s, e
  <2>4. ASSUME NEW k \in DOMAIN rows  PROVE made[k] \in Rows
    <3>1. rows[k] \in Rows
      OBVIOUS
    <3>2. [rows[k] EXCEPT !.look = look] \in Rows
      BY <2>3, <3>1 DEF Rows
    <3>. QED  BY <3>1, <3>2
  <2>5. DOMAIN rows = 1 .. Len(rows) /\ Len(rows) \in Nat
    OBVIOUS
  <2>6. made \in Seq(Rows)
    BY <2>4, <2>5
  <2>. QED  BY <1>6, <2>2, <2>6 DEF q
<1>. QED  BY <1>4, <1>5, <1>6 DEF Countable, Structural

(* One tab gets other rows; or one is added.                                 *)
LEMMA OneTab ==
    ASSUME NEW tabs \in Seq(Tabs), NEW k \in DOMAIN tabs, NEW rows \in Seq(Rows), NEW new,
           new = [tabs EXCEPT ![k].rows = rows]
    PROVE  /\ new \in Seq(Tabs) /\ DOMAIN new = DOMAIN tabs
           /\ new[k].rows = rows /\ \A j \in DOMAIN tabs : new[j].title = tabs[j].title
<1>1. tabs[k] \in Tabs /\ DOMAIN tabs = 1 .. Len(tabs) /\ Len(tabs) \in Nat
  OBVIOUS
<1>. DEFINE tab == [tabs[k] EXCEPT !.rows = rows]
<1>2. tab \in Tabs /\ tab.title = tabs[k].title /\ tab.rows = rows
  BY <1>1 DEF Tabs
<1>3. new = [tabs EXCEPT ![k] = tab]
  OBVIOUS
<1>. HIDE DEF tab
<1>4. DOMAIN new = DOMAIN tabs /\ new[k] = tab /\ \A j \in DOMAIN tabs \ {k} : new[j] = tabs[j]
  BY <1>3
<1>5. \A j \in DOMAIN tabs : new[j] \in Tabs
  BY <1>2, <1>4
<1>6. new \in Seq(Tabs)
  BY <1>1, <1>3, <1>5
<1>. QED  BY <1>2, <1>4, <1>6

LEMMA TabAddedIs ==
    ASSUME NEW tabs \in Seq(Tabs), NEW title \in STRING
    PROVE  /\ TabAdded(tabs, title) \in Seq(Tabs)
           /\ DOMAIN tabs \subseteq DOMAIN TabAdded(tabs, title)
           /\ Len(TabAdded(tabs, title)) # Len(tabs)
           /\ \A k \in DOMAIN tabs : TabAdded(tabs, title)[k] = tabs[k]
           /\ Titled(TabAdded(tabs, title), title) # {}
<1>. DEFINE tab == Tab(Len(tabs) + 1, title, <<Row(EmptyCells, "plain")>>)
            new == Append(tabs, tab)
<1>1. Row(EmptyCells, "plain") \in Rows /\ Len(tabs) \in Nat
  <2>1. "plain" \in STRING
    BY LiteralsAreStrings
  <2>. QED  BY <2>1, EmptyRow
<1>2. <<Row(EmptyCells, "plain")>> \in Seq(Rows)
  BY <1>1
<1>3. tab \in Tabs /\ tab.title = title
  BY <1>1, <1>2 DEF Tab, Tabs
<1>. HIDE DEF tab
<1>4. /\ new \in Seq(Tabs) /\ Len(new) = Len(tabs) + 1
      /\ \A k \in 1 .. Len(tabs) : new[k] = tabs[k]
      /\ new[Len(tabs) + 1] = tab
  BY <1>3, AppendProperties
<1>5. Len(tabs) + 1 \in DOMAIN new
  BY <1>1, <1>4
<1>6. Titled(new, title) # {}
  BY <1>3, <1>4, <1>5 DEF Titled
<1>7. TabAdded(tabs, title) = new
  BY DEF TabAdded, tab
<1>. HIDE DEF new
<1>. QED  BY <1>1, <1>4, <1>6, <1>7

(* One more of the names that are not blank.                                 *)
NextName(names, f, n) ==
    IF n = 0 THEN <<>> ELSE IF names[n] = "" THEN f[n - 1] ELSE Append(f[n - 1], names[n])

IsUpTo(names, f, m) ==
    f = [n \in 0 .. m |->
            IF n = 0 THEN <<>> ELSE IF names[n] = "" THEN f[n - 1] ELSE Append(f[n - 1], names[n])]

LEMMA UpToIs ==
    ASSUME NEW names, NEW f, NEW m \in Nat
    PROVE  IsUpTo(names, f, m) <=> f = [n \in 0 .. m |-> NextName(names, f, n)]
BY Zenon DEF IsUpTo, NextName

LEMMA NamesUpTo ==
    ASSUME NEW names, NEW l \in Nat
    PROVE  \E f : IsUpTo(names, f, l)
<1>. DEFINE T == {m \in 0 .. l : ~\E f : IsUpTo(names, f, m)}
<1>1. SUFFICES ASSUME T # {}  PROVE FALSE
  BY l \in 0 .. l
<1>2. PICK m \in T : \A n \in T : m <= n
  <2>1. T \subseteq Nat
    OBVIOUS
  <2>. HIDE DEF T
  <2>. QED  BY <1>1, <2>1, First
<1>3. m \in Nat /\ m # 0
  <2>1. IsUpTo(names, [n \in 0 .. 0 |-> <<>>], 0)
    <3>. DEFINE f == [n \in 0 .. 0 |-> <<>>]
    <3>1. f = [n \in 0 .. 0 |-> NextName(names, f, n)]
      <4>1. NextName(names, f, 0) = <<>>
        BY DEF NextName
      <4>2. \A n \in 0 .. 0 : n = 0
        OBVIOUS
      <4>. HIDE DEF f
      <4>. QED  BY <4>1, <4>2 DEF f
    <3>. HIDE DEF f
    <3>2. 0 \in Nat
      OBVIOUS
    <3>3. IsUpTo(names, f, 0) <=> f = [n \in 0 .. 0 |-> NextName(names, f, n)]
      BY ONLY <3>2, UpToIs
    <3>. QED  BY <3>1, <3>3
  <2>. QED  BY <2>1
<1>4. PICK f : IsUpTo(names, f, m - 1)
  <2>1. m - 1 \in 0 .. l /\ ~(m <= m - 1)
    BY <1>3
  <2>2. m - 1 \notin T
    <3>. HIDE DEF T
    <3>. QED  BY <1>2, <2>1
  <2>. QED  BY <2>1, <2>2
<1>. DEFINE last == NextName(names, f, m)
            g == [n \in 0 .. m |-> IF n = m THEN last ELSE f[n]]
<1>5. DOMAIN g = 0 .. m /\ g[m] = last /\ \A n \in 0 .. m - 1 : g[n] = f[n]
  BY <1>3
<1>6. \A n \in 0 .. m - 1 : f[n] = NextName(names, f, n)
  BY <1>3, <1>4, UpToIs
<1>7. g = [n \in 0 .. m |-> g[n]]
  OBVIOUS
<1>. HIDE DEF g
<1>8. ASSUME NEW n \in 0 .. m  PROVE g[n] = NextName(names, g, n)
  <2>1. NextName(names, g, n) = NextName(names, f, n)
    <3>1. CASE n = 0
      BY <3>1 DEF NextName
    <3>2. CASE n # 0
      <4>1. g[n - 1] = f[n - 1]
        BY <1>3, <1>5, <3>2
      <4>. QED  BY <4>1 DEF NextName
    <3>. QED  BY <3>1, <3>2
  <2>2. CASE n = m
    BY <1>5, <2>1, <2>2
  <2>3. CASE n # m
    <3>1. n \in 0 .. m - 1
      BY <1>3, <2>3
    <3>. QED  BY <1>5, <1>6, <2>1, <3>1
  <2>. QED  BY <2>2, <2>3
<1>9. IsUpTo(names, g, m)
  BY <1>3, <1>7, <1>8, UpToIs
<1>. QED  BY <1>2, <1>9

LEMMA Appends ==
    ASSUME NEW S, NEW s \in Seq(S), NEW e \in S
    PROVE  Append(s, e) \in Seq(S) /\ Range(Append(s, e)) = Range(s) \cup {e}
<1>. DEFINE t == Append(s, e)
<1>1. t \in Seq(S) /\ Len(t) = Len(s) + 1 /\ (\A k \in 1 .. Len(s) : t[k] = s[k]) /\ t[Len(s) + 1] = e
  BY AppendProperties
<1>2. DOMAIN t = 1 .. Len(s) + 1 /\ DOMAIN s = 1 .. Len(s) /\ Len(s) \in Nat
  BY <1>1
<1>. HIDE DEF t
<1>. QED  BY <1>1, <1>2 DEF Range, t

(* The names that are not blank are those that are not blank.                *)
LEMMA NonBlankIs ==
    ASSUME NEW names \in Seq(STRING)
    PROVE  NonBlank(names) \in Seq(STRING) /\ Range(names) \ {""} \subseteq Range(NonBlank(names))
<1>1. Len(names) \in Nat /\ DOMAIN names = 1 .. Len(names)
  OBVIOUS
<1>. DEFINE first[n \in 0 .. Len(names)] ==
         IF n = 0 THEN <<>> ELSE IF names[n] = "" THEN first[n - 1] ELSE Append(first[n - 1], names[n])
<1>2. \E f : IsUpTo(names, f, Len(names))
  BY <1>1, NamesUpTo
<1>3. NonBlank(names) = first[Len(names)]
  BY Zenon DEF NonBlank
<1>4. first = [n \in 0 .. Len(names) |->
                  IF n = 0 THEN <<>> ELSE IF names[n] = "" THEN first[n - 1] ELSE Append(first[n - 1], names[n])]
  BY <1>2, Zenon DEF IsUpTo
<1>. HIDE DEF first
<1>5. \A n \in 0 .. Len(names) : first[n] = NextName(names, first, n)
  BY <1>4, Zenon DEF NextName
<1>. DEFINE Right(n) == first[n] \in Seq(STRING) /\ \A k \in 1 .. n : names[k] # "" => names[k] \in Range(first[n])
            T == {m \in 0 .. Len(names) : ~Right(m)}
<1>6. ASSUME NEW m \in T, \A n \in T : m <= n  PROVE FALSE
  <2>. HIDE DEF Right
  <2>1. m \in 0 .. Len(names) /\ ~Right(m)
    OBVIOUS
  <2>2. m # 0
    <3>1. first[0] = <<>>
      <4>1. 0 \in 0 .. Len(names)
        BY <1>1
      <4>2. NextName(names, first, 0) = <<>>
        BY DEF NextName
      <4>. QED  BY <1>5, <4>1, <4>2
    <3>2. Right(0)
      <4>1. <<>> \in Seq(STRING) /\ \A k \in 1 .. 0 : FALSE
        OBVIOUS
      <4>. QED  BY <3>1, <4>1 DEF Right
    <3>. QED  BY <2>1, <3>2
  <2>3. m \in 1 .. Len(names) /\ m \in Nat
    BY <1>1, <2>1, <2>2
  <2>4. Right(m - 1)
    <3>1. m - 1 \in 0 .. Len(names) /\ ~(m <= m - 1)
      BY <1>1, <2>3
    <3>2. m - 1 \notin T
      <4>. HIDE DEF T
      <4>. QED  BY <1>6, <3>1
    <3>. QED  BY <3>1, <3>2
  <2>5. first[m] = IF names[m] = "" THEN first[m - 1] ELSE Append(first[m - 1], names[m])
    <3>1. first[m] = NextName(names, first, m)
      BY <1>5, <2>1
    <3>2. m > 0 /\ m # 0
      BY <2>3
    <3>. QED  BY ONLY <3>1, <3>2 DEF NextName
  <2>6. names[m] \in STRING
    BY <1>1, <2>3
  <2>7. \A k \in 1 .. m : k \in 1 .. m - 1 \/ k = m
    BY <2>3
  <2>8. first[m - 1] \in Seq(STRING) /\ \A k \in 1 .. m - 1 : names[k] # "" => names[k] \in Range(first[m - 1])
    BY <2>4 DEF Right
  <2>9. Right(m)
    <3>1. CASE names[m] = ""
      BY <2>5, <2>7, <2>8, <3>1 DEF Right
    <3>2. CASE names[m] # ""
      <4>1. PICK s \in Seq(STRING) : s = first[m - 1]
        BY <2>8
      <4>2. first[m] = Append(s, names[m])
        BY <2>5, <3>2, <4>1
      <4>3. first[m] \in Seq(STRING) /\ Range(first[m]) = Range(s) \cup {names[m]}
        BY <2>6, <4>2, Appends
      <4>. QED  BY <2>7, <2>8, <4>1, <4>3 DEF Right
    <3>. QED  BY <3>1, <3>2
  <2>. QED  BY <2>1, <2>9
<1>7. T = {}
  <2>. HIDE DEF Right
  <2>1. T \subseteq Nat
    BY <1>1
  <2>. HIDE DEF T
  <2>. QED  BY <1>6, <2>1, First
<1>8. Right(Len(names))
  <2>. HIDE DEF Right
  <2>1. Len(names) \in 0 .. Len(names)
    BY ONLY <1>1
  <2>. QED  BY <1>7, <2>1
<1>. QED  BY <1>1, <1>3, <1>8 DEF Range

(* What is in Drive stays what it is.                                       *)
ItemsStay == \A i \in Drawn : i \in Drawn' /\ items'[i] = items[i]

LEMMA ItemsLast ==
    ASSUME VersionsInOrder, [Next]_vars
    PROVE  ItemsStay
<1>. DEFINE One == \E i, r : Fresh(i) /\ items' = [items EXCEPT ![i] = r]
<1>1. items' = items \/ One
  <2>1. ASSUME NEW c \in Calls, DriveCall(c)  PROVE items' = items \/ One
    <3>. USE DEF Refuse, Fail, Read, Put, driveVars, drive
    <3>1. CASE DriveUpload(c)  BY <3>1 DEF DriveUpload
    <3>2. CASE DriveCreateFolder(c)  BY <3>2 DEF DriveCreateFolder
    <3>3. CASE Destination(c)  BY <3>3 DEF Destination
    <3>4. CASE LookUp(c)  BY <3>4 DEF LookUp, Inside
    <3>5. CASE Preview(c)  BY <3>5 DEF Preview
    <3>6. CASE MakeFolder(c)  BY <3>6 DEF MakeFolder
    <3>7. CASE Store(c)  BY <3>7 DEF Store
    <3>8. CASE Spend(c)  BY <3>8 DEF Spend
    <3>9. CASE DocsCreate(c)  BY <3>9 DEF DocsCreate
    <3>10. CASE DriveUpdateFile(c)  BY <3>10 DEF DriveUpdateFile
    <3>11. CASE ReadFile(c)  BY <3>11 DEF ReadFile
    <3>12. CASE ReadHistory(c)  BY <3>12 DEF ReadHistory
    <3>13. CASE PreviewUpdate(c)  BY <3>13 DEF PreviewUpdate
    <3>14. CASE Pin(c)  BY <3>14 DEF Pin
    <3>15. CASE Replace(c)  BY <3>15 DEF Replace
    <3>. QED  BY <2>1, <3>1, <3>2, <3>3, <3>4, <3>5, <3>6, <3>7, <3>8, <3>9, <3>10, <3>11, <3>12, <3>13, <3>14, <3>15
                 DEF DriveCall
  <2>2. ASSUME NEW c \in Calls, SheetCall(c)  PROVE items' = items \/ One
    <3>. USE DEF Deny, Break, Refuse, Fail, Read, Put, Proceed, ChangeBook, Show, driveVars, drive
    <3>1. CASE SheetsAppendRows(c)  BY <3>1 DEF SheetsAppendRows
    <3>2. CASE SheetsUpdateRange(c)  BY <3>2 DEF SheetsUpdateRange
    <3>3. CASE SheetsInsertRows(c) \/ SheetsDeleteRows(c) \/ SheetsCopyFormat(c)
      BY <3>3 DEF SheetsInsertRows, SheetsDeleteRows, SheetsCopyFormat, SheetsStructural
    <3>4. CASE FindTab(c)  BY <3>4 DEF FindTab
    <3>5. CASE PreviewRows(c)  BY <3>5 DEF PreviewRows
    <3>6. CASE Change(c)  BY <3>6 DEF Change
    <3>7. CASE SheetsAddTab(c)  BY <3>7 DEF SheetsAddTab
    <3>8. CASE SheetsCreate(c)  BY <3>8 DEF SheetsCreate
    <3>9. CASE AddNextTab(c)  BY <3>9 DEF AddNextTab
    <3>10. CASE Created(c)  BY <3>10 DEF Created
    <3>. QED  BY <2>2, <3>1, <3>2, <3>3, <3>4, <3>5, <3>6, <3>7, <3>8, <3>9, <3>10 DEF SheetCall
  <2>3. CASE Others \/ Sweep \/ UNCHANGED vars
    BY <2>3 DEF Others, Sweep, vars, driveVars, drive, PersonMakes, PersonBins, PersonWrites, PersonDeletes, Purge
  <2>4. CASE \E c \in Calls : Gmail(c) \/ CalendarOf(c)
    BY <2>4 DEF Gmail, CalendarOf, driveVars, drive
  <2>. QED  BY <2>1, <2>2, <2>3, <2>4 DEF Next, Drive, SheetsOf
<1>2. CASE items' = items
  BY <1>2 DEF ItemsStay, Drawn
<1>3. ASSUME NEW i, NEW r, Fresh(i), items' = [items EXCEPT ![i] = r]  PROVE ItemsStay
  <2>1. \A j \in Drawn : j \in Ids /\ j # i /\ items[j] # None
    BY <1>3 DEF Fresh, Drawn
  <2>2. \A j \in Drawn : items'[j] = items[j]
    BY <1>3, <2>1 DEF VersionsInOrder
  <2>. QED  BY <2>1, <2>2 DEF ItemsStay, Drawn
<1>. QED  BY <1>1, <1>2, <1>3

(* Every spreadsheet holds tabs and is a file of Drive, where everything is   *)
(* still what it was to begin with.                                         *)
BooksInOrder ==
    /\ books \in [Ids -> Seq(Tabs)]
    /\ \A i \in Ids : books[i] # <<>> => i \in Drawn /\ items[i].type = "sheet"
    /\ \A i \in Ids : InDrive[i] # None => items[i] = InDrive[i]
    /\ missing = [c \in Calls |-> missing[c]] /\ target = [c \in Calls |-> target[c]]

(* In a spreadsheet that no person works in, a title that is there stays.     *)
TitlesStay ==
    \A i \in Ids : InBooks[i] = <<>> => \A t : Titled(books[i], t) # {} => Titled(books'[i], t) # {}

BooksStay ==
    /\ books' \in [Ids -> Seq(Tabs)]
    /\ \A i \in Ids : books'[i] # <<>> => i \in Drawn' /\ items'[i].type = "sheet"
    /\ TitlesStay

LEMMA SameBooks ==
    ASSUME BooksInOrder, ItemsStay, books' = books
    PROVE  BooksStay
BY DEF BooksInOrder, ItemsStay, BooksStay, TitlesStay

LEMMA OneBook ==
    ASSUME BooksInOrder, ItemsStay, NEW i \in Ids, NEW new \in Seq(Tabs), books' = [books EXCEPT ![i] = new],
           i \in Drawn' /\ items'[i].type = "sheet",
           InBooks[i] = <<>> => \A k \in DOMAIN books[i] : k \in DOMAIN new /\ new[k].title = books[i][k].title
    PROVE  BooksStay
<1>1. books'[i] = new /\ \A j \in Ids \ {i} : books'[j] = books[j]
  BY DEF BooksInOrder
<1>2. books' \in [Ids -> Seq(Tabs)]
  BY DEF BooksInOrder
<1>3. \A j \in Ids : books'[j] # <<>> => j \in Drawn' /\ items'[j].type = "sheet"
  BY <1>1 DEF BooksInOrder, ItemsStay
<1>4. TitlesStay
  <2>1. SUFFICES ASSUME NEW j \in Ids, InBooks[j] = <<>>, NEW t, Titled(books[j], t) # {}
                 PROVE  Titled(books'[j], t) # {}
    BY DEF TitlesStay
  <2>2. PICK k \in DOMAIN books[j] : Lower[books[j][k].title] = Lower[t]
    BY <2>1 DEF Titled
  <2>3. k \in DOMAIN books'[j] /\ books'[j][k].title = books[j][k].title
    BY <1>1, <2>1
  <2>4. k \in Titled(books'[j], t)
    BY <2>2, <2>3 DEF Titled
  <2>. QED  BY <2>4
<1>. QED  BY <1>2, <1>3, <1>4 DEF BooksStay

(* A spreadsheet there is, changed by a call.                                *)
LEMMA ExistingBook ==
    ASSUME BooksInOrder, ItemsStay, NEW i \in Ids, NEW new \in Seq(Tabs), books' = [books EXCEPT ![i] = new],
           books[i] # <<>>, \A k \in DOMAIN books[i] : k \in DOMAIN new /\ new[k].title = books[i][k].title
    PROVE  BooksStay
<1>1. i \in Drawn' /\ items'[i].type = "sheet"
  BY DEF BooksInOrder, ItemsStay
<1>. QED  BY <1>1, OneBook

LEMMA TabChanged ==
    ASSUME CallsInOrder, BooksInOrder, ItemsStay, NEW c \in Calls, op[c].book \in Ids,
           NEW k \in DOMAIN books[op[c].book], NEW rows \in Seq(Rows), NEW new,
           new = [books[op[c].book] EXCEPT ![k].rows = rows], ChangeBook(c, new)
    PROVE  /\ BooksStay /\ missing' = missing /\ target' = target /\ pc'[c] \in {"done", "failed"}
           /\ Len(rows) # Len(books[op[c].book][k].rows) => books' # books
<1>. DEFINE i == op[c].book
            tabs == books[i]
<1>1. tabs \in Seq(Tabs)
  BY DEF BooksInOrder
<1>2. /\ new \in Seq(Tabs) /\ DOMAIN new = DOMAIN tabs
      /\ new[k].rows = rows /\ \A j \in DOMAIN tabs : new[j].title = tabs[j].title
  <2>1. PICK t \in Seq(Tabs) : t = tabs
    BY <1>1
  <2>2. k \in DOMAIN t /\ new = [t EXCEPT ![k].rows = rows]
    BY <2>1
  <2>3. /\ new \in Seq(Tabs) /\ DOMAIN new = DOMAIN t
        /\ new[k].rows = rows /\ \A j \in DOMAIN t : new[j].title = t[j].title
    BY ONLY <2>2, t \in Seq(Tabs), rows \in Seq(Rows), OneTab, Z3
  <2>. QED  BY <2>1, <2>3
<1>3. books' = [books EXCEPT ![i] = new] /\ missing' = missing /\ target' = target /\ pc'[c] \in {"done", "failed"}
  BY DEF ChangeBook, Proceed, Goto, CallsInOrder
<1>4. tabs # <<>>
  OBVIOUS
<1>5. BooksStay
  BY <1>2, <1>3, <1>4, ExistingBook
<1>6. books'[i] = new
  BY <1>3 DEF BooksInOrder
<1>. QED  BY <1>2, <1>3, <1>5, <1>6

LEMMA TabIs ==
    ASSUME BooksInOrder, NEW i \in Ids, NEW k \in DOMAIN books[i]
    PROVE  books[i] \in Seq(Tabs) /\ books[i][k].rows \in Seq(Rows) /\ books[i][k].id # 0
<1>1. books[i] \in Seq(Tabs)
  BY DEF BooksInOrder
<1>2. books[i][k] \in Tabs
  BY <1>1
<1>. QED  BY <1>1, <1>2 DEF Tabs

(* What a call may ask of a spreadsheet.                                     *)
LEMMA SheetsAsked ==
    ASSUME CallsInOrder, NEW c \in Calls
    PROVE  LET o == op[c]
           IN /\ Tool(c) \in SheetTools => o.book \in Ids
              /\ Tool(c) \in Structural => Countable(o)
              /\ Tool(c) \in {"appendRows", "updateRange", "newBook"} => o.rows \in Seq(Seq(STRING))
              /\ Tool(c) = "updateRange" => o.top \in Nat \ {0} /\ o.left \in Nat \ {0}
              /\ Tool(c) = "newBook" => o.tabs \in Seq(STRING)
              /\ Tool(c) = "addTab" => o.title \in STRING
<1>1. op \in Ops /\ Tool(c) = op[c].tool
  BY DEF CallsInOrder, Tool
<1>2. PICK o : o = op[c]
  OBVIOUS
<1>3. /\ o.tool \in Structural \cup {"appendRows", "updateRange", "addTab"} => o.book \in Ids
      /\ o.tool \in Structural => o.at \in 0 .. Word - 1 /\ o.count \in 0 .. Word - 1
      /\ o.tool = "copyFormat" => o.from \in 0 .. Word - 1
      /\ o.tool \in {"appendRows", "updateRange", "newBook"} => o.rows \in Seq(Seq(STRING))
      /\ o.tool = "updateRange" => o.top \in Nat \ {0} /\ o.left \in Nat \ {0}
      /\ o.tool = "newBook" => o.tabs \in Seq(STRING)
      /\ o.tool = "addTab" => o.title \in STRING
  BY <1>1, <1>2, CallsAskForThings
<1>. QED  BY <1>1, <1>2, <1>3 DEF SheetTools, Countable

(* The tools that add to a spreadsheet or take from it.                      *)
Lengthening == {"appendRows", "insertRows", "deleteRows", "addTab"}

(* A call that is to change a tab has found one.                             *)
Tabbed(c) == pc[c] = "change" => target[c] # 0

LEMMA SheetWrites ==
    ASSUME CallsInOrder, StationsInOrder, BooksInOrder, ItemsStay, NEW c \in Calls, SheetCall(c), Tool(c) # "newBook"
    PROVE  /\ BooksStay /\ missing' = missing
           /\ target' = [e \in Calls |-> target'[e]] /\ \A e \in Calls \ {c} : target'[e] = target[e]
           /\ Tabbed(c)'
           /\ Tool(c) \in Lengthening /\ pc'[c] = "done" => books' # books
<1>. DEFINE Conclusion == /\ BooksStay /\ missing' = missing
                          /\ target' = [e \in Calls |-> target'[e]] /\ \A e \in Calls \ {c} : target'[e] = target[e]
                          /\ Tabbed(c)'
                          /\ Tool(c) \in Lengthening /\ pc'[c] = "done" => books' # books
            o == op[c]
            tabs == books[o.book]
<1>0. SUFFICES Conclusion
  OBVIOUS
<1>1. ASSUME books' = books, missing' = missing, target' = target, pc'[c] \in {"called", "tab", "refused", "failed"}
      PROVE  Conclusion
  BY <1>1, SameBooks DEF BooksInOrder, Tabbed
<1>2. ASSUME NEW k \in DOMAIN tabs, NEW rows \in Seq(Rows), o.book \in Ids,
             ChangeBook(c, [tabs EXCEPT ![k].rows = rows]),
             Tool(c) \in Lengthening => Len(rows) # Len(tabs[k].rows)
      PROVE  Conclusion
  <2>1. PICK new : new = [tabs EXCEPT ![k].rows = rows]
    OBVIOUS
  <2>2. /\ BooksStay /\ missing' = missing /\ target' = target /\ pc'[c] \in {"done", "failed"}
        /\ Len(rows) # Len(tabs[k].rows) => books' # books
    BY <1>2, <2>1, TabChanged
  <2>. QED  BY <1>2, <2>2 DEF BooksInOrder, Tabbed
<1>3. /\ \A to : Goto(c, to) => pc'[c] = to
      /\ Stationed(c)
  BY DEF Goto, CallsInOrder, StationsInOrder
<1>. HIDE DEF Conclusion
<1>4. CASE SheetsAppendRows(c)
  <2>1. Tool(c) = "appendRows"
    BY <1>4 DEF SheetsAppendRows, Under, Tool
  <2>2. CASE Deny(c) \/ Break(c)
    BY <1>1, <1>3, <2>2 DEF Deny, Break, Refuse, Fail, sheetVars
  <2>3. ASSUME o.rows # <<>>, NEW k \in Titled(tabs, o.tab), ChangeBook(c, [tabs EXCEPT ![k].rows = Appended(@, o.rows)])
        PROVE  Conclusion
    <3>1. k \in DOMAIN tabs /\ o.book \in Ids /\ o.rows \in Seq(Seq(STRING))
      BY <2>1, SheetsAsked DEF Titled, SheetTools
    <3>2. tabs[k].rows \in Seq(Rows)
      BY <3>1, TabIs
    <3>3. PICK rows : rows = Appended(tabs[k].rows, o.rows)
      OBVIOUS
    <3>4. rows \in Seq(Rows) /\ Len(rows) = Len(tabs[k].rows) + Len(o.rows)
      BY <3>1, <3>2, <3>3, AppendedIs
    <3>5. Len(o.rows) # 0 /\ Len(o.rows) \in Nat /\ Len(tabs[k].rows) \in Nat
      BY <2>3, <3>1, <3>2, EmptySeq
    <3>6. ChangeBook(c, [tabs EXCEPT ![k].rows = rows])
      BY <2>3, <3>3
    <3>7. \A n, m \in Nat : m # 0 => n + m # n
      OBVIOUS
    <3>8. Len(rows) # Len(tabs[k].rows)
      BY ONLY <3>4, <3>5, <3>7, Zenon
    <3>. QED  BY <1>2, <3>1, <3>4, <3>6, <3>8
  <2>. QED  BY <1>4, <2>2, <2>3 DEF SheetsAppendRows
<1>5. CASE SheetsUpdateRange(c)
  <2>1. Tool(c) = "updateRange"
    BY <1>5 DEF SheetsUpdateRange, Under, Tool
  <2>2. CASE Deny(c) \/ Break(c) \/ \E what : Show(c, what)
    BY <1>1, <1>3, <2>2 DEF Deny, Break, Refuse, Fail, Show, Proceed, sheetVars
  <2>3. ASSUME NEW k \in Titled(tabs, o.tab), ChangeBook(c, [tabs EXCEPT ![k].rows = Overwritten(@, o.top, o.left, o.rows)])
        PROVE  Conclusion
    <3>1. k \in DOMAIN tabs /\ o.book \in Ids /\ o.rows \in Seq(Seq(STRING)) /\ o.top \in Nat \ {0} /\ o.left \in Nat \ {0}
      BY <2>1, SheetsAsked DEF Titled, SheetTools
    <3>2. tabs[k].rows \in Seq(Rows)
      BY <3>1, TabIs
    <3>3. PICK rows : rows = Overwritten(tabs[k].rows, o.top, o.left, o.rows)
      OBVIOUS
    <3>4. rows \in Seq(Rows)
      BY <3>1, <3>2, <3>3, OverwrittenIs
    <3>5. ChangeBook(c, [tabs EXCEPT ![k].rows = rows])
      BY <2>3, <3>3
    <3>. QED  BY <1>2, <2>1, <3>1, <3>4, <3>5 DEF Lengthening
  <2>. QED  BY <1>5, <2>2, <2>3 DEF SheetsUpdateRange
<1>6. CASE SheetsInsertRows(c) \/ SheetsDeleteRows(c) \/ SheetsCopyFormat(c)
  BY <1>1, <1>3, <1>6 DEF SheetsInsertRows, SheetsDeleteRows, SheetsCopyFormat, SheetsStructural, Deny, Refuse, Proceed, sheetVars
<1>7. CASE FindTab(c)
  <2>1. Tool(c) \in Structural /\ o.book \in Ids
    <3>1. Tool(c) \in Structural
      BY <1>3, <1>7, WhoIsThere DEF FindTab
    <3>. QED  BY <3>1, SheetsAsked DEF SheetTools
  <2>2. CASE Deny(c) \/ Break(c)
    BY <1>1, <1>3, <2>2 DEF Deny, Break, Refuse, Fail, sheetVars
  <2>3. ASSUME NEW k \in DOMAIN tabs, target' = [target EXCEPT ![c] = tabs[k].id], Proceed(c, "change"),
               books' = books, missing' = missing
        PROVE  Conclusion
    <3>1. target'[c] # 0 /\ target' = [e \in Calls |-> target'[e]] /\ \A e \in Calls \ {c} : target'[e] = target[e]
      BY <2>1, <2>3, TabIs DEF BooksInOrder
    <3>2. pc'[c] = "change" /\ BooksStay
      BY <1>3, <2>3, SameBooks DEF Proceed
    <3>. QED  BY <2>3, <3>1, <3>2 DEF Conclusion, Tabbed
  <2>. QED  BY <1>7, <2>2, <2>3 DEF FindTab, Titled
<1>8. CASE PreviewRows(c)
  BY <1>1, <1>3, <1>8 DEF PreviewRows, Break, Fail, Show, Proceed, sheetVars
<1>9. CASE Change(c)
  <2>1. Tool(c) \in Structural /\ o.book \in Ids /\ Countable(o)
    <3>1. Tool(c) \in Structural
      BY <1>3, <1>9, WhoIsThere DEF Change
    <3>. QED  BY <3>1, SheetsAsked DEF SheetTools
  <2>2. CASE Break(c)
    BY <1>1, <1>3, <2>2 DEF Break, Fail, sheetVars
  <2>3. ASSUME NEW k \in WithId(tabs, target[c]), Carried(tabs[k].rows, Request(o)),
               ChangeBook(c, [tabs EXCEPT ![k].rows = Dimensioned(@, Request(o))])
        PROVE  Conclusion
    <3>1. k \in DOMAIN tabs
      BY DEF WithId
    <3>2. tabs[k].rows \in Seq(Rows)
      BY <2>1, <3>1, TabIs
    <3>3. PICK rows : rows = Dimensioned(tabs[k].rows, Request(o))
      OBVIOUS
    <3>4. rows \in Seq(Rows) /\ (Tool(c) \in {"insertRows", "deleteRows"} => Len(rows) # Len(tabs[k].rows))
      BY <2>1, <2>3, <3>2, <3>3, DimensionedIs DEF Tool
    <3>5. ChangeBook(c, [tabs EXCEPT ![k].rows = rows])
      BY <2>3, <3>3
    <3>6. Tool(c) \in Lengthening => Tool(c) \in {"insertRows", "deleteRows"}
      BY <2>1 DEF Lengthening, Structural
    <3>. QED  BY <1>2, <2>1, <3>1, <3>4, <3>5, <3>6
  <2>. QED  BY <1>9, <2>2, <2>3 DEF Change
<1>10. CASE SheetsAddTab(c)
  <2>1. Tool(c) = "addTab"
    BY <1>10 DEF SheetsAddTab, Under, Tool
  <2>2. CASE Deny(c) \/ Break(c)
    BY <1>1, <1>3, <2>2 DEF Deny, Break, Refuse, Fail, sheetVars
  <2>3. ASSUME tabs # <<>>, ChangeBook(c, TabAdded(tabs, o.title))
        PROVE  Conclusion
    <3>1. o.book \in Ids /\ o.title \in STRING
      BY <2>1, SheetsAsked DEF SheetTools
    <3>2. tabs \in Seq(Tabs)
      BY <3>1 DEF BooksInOrder
    <3>3. PICK new : new = TabAdded(tabs, o.title)
      OBVIOUS
    <3>4. new \in Seq(Tabs) /\ Len(new) # Len(tabs) /\ \A k \in DOMAIN tabs : k \in DOMAIN new /\ new[k] = tabs[k]
      BY <3>1, <3>2, <3>3, TabAddedIs
    <3>5. books' = [books EXCEPT ![o.book] = new] /\ missing' = missing /\ target' = target /\ pc'[c] \in {"done", "failed"}
      BY <2>3, <3>3 DEF ChangeBook, Proceed, Goto, CallsInOrder
    <3>6. BooksStay
      BY <2>3, <3>1, <3>4, <3>5, ExistingBook
    <3>7. books'[o.book] = new
      BY <3>1, <3>5 DEF BooksInOrder
    <3>. QED  BY <3>4, <3>5, <3>6, <3>7 DEF Conclusion, BooksInOrder, Tabbed
  <2>. QED  BY <1>10, <2>2, <2>3 DEF SheetsAddTab
<1>11. ~SheetsCreate(c) /\ ~AddNextTab(c) /\ ~Created(c)
  BY <1>3, WhoIsThere DEF SheetsCreate, AddNextTab, Created, Under, Tool
<1>. QED  BY <1>4, <1>5, <1>6, <1>7, <1>8, <1>9, <1>10, <1>11 DEF SheetCall

(* A spreadsheet that is being made: a tab that was asked for is there, or is  *)
(* told to be missing, or is still to be added.                              *)
Adding(c) ==
    Tool(c) = "newBook" =>
        /\ pc[c] \notin {"adding", "done"} => job[c].place = Root
        /\ pc[c] \in {"adding", "done"} =>
              /\ job[c].place \in PutBy(c) /\ items[job[c].place].type = "sheet"
              /\ job[c].missing \in Seq(STRING)
              /\ pc[c] = "done" => job[c].missing = <<>>
              /\ \A t \in Range(op[c].tabs) \ {""} :
                    Titled(books[job[c].place], t) # {} \/ t \in missing[c] \/ t \in Range(job[c].missing)

LEMMA HeadAndTail ==
    ASSUME NEW S, NEW s \in Seq(S), s # <<>>
    PROVE  Head(s) \in S /\ Tail(s) \in Seq(S) /\ Range(s) = Range(Tail(s)) \cup {Head(s)}
<1>. DEFINE left == Tail(s)
<1>1. Len(s) \in Nat /\ Len(s) # 0 /\ DOMAIN s = 1 .. Len(s)
  BY EmptySeq
<1>2. Head(s) = s[1] /\ left \in Seq(S) /\ Len(left) = Len(s) - 1 /\ \A k \in 1 .. Len(left) : left[k] = s[k + 1]
  BY HeadTailProperties
<1>3. DOMAIN left = 1 .. Len(s) - 1
  BY <1>2
<1>. HIDE DEF left
<1>4. Head(s) \in S /\ Head(s) \in Range(s)
  BY <1>1, <1>2 DEF Range
<1>5. ASSUME NEW k \in DOMAIN s  PROVE s[k] \in Range(left) \cup {Head(s)}
  <2>1. CASE k = 1
    BY <1>2, <2>1
  <2>2. CASE k # 1
    <3>1. k - 1 \in 1 .. Len(left) /\ k - 1 \in DOMAIN left /\ (k - 1) + 1 = k
      BY <1>1, <1>2, <1>3, <2>2
    <3>2. left[k - 1] = s[k]
      BY <1>2, <3>1
    <3>. QED  BY <3>1, <3>2 DEF Range
  <2>. QED  BY <2>1, <2>2
<1>6. ASSUME NEW k \in DOMAIN left  PROVE left[k] \in Range(s)
  <2>1. k \in 1 .. Len(left) /\ k + 1 \in DOMAIN s
    BY <1>1, <1>2, <1>3
  <2>. QED  BY <1>2, <2>1 DEF Range
<1>. QED  BY <1>2, <1>4, <1>5, <1>6 DEF Range, left

(* What a call has put into Drive is no spreadsheet that was there before.    *)
LEMMA NewBooksAreNew ==
    ASSUME BooksInOrder, NEW c \in Calls, NEW i \in PutBy(c)
    PROVE  i \in Ids /\ InBooks[i] = <<>>
<1>1. i \in Ids /\ items[i].by = c
  BY DEF PutBy, Drawn
<1>2. InDrive[i] # None => items[i] # InDrive[i]
  BY <1>1, DriveHoldsItems
<1>3. InDrive[i] = None
  BY <1>1, <1>2 DEF BooksInOrder
<1>. QED  BY <1>1, <1>3, SheetsHoldTabs

LEMMA PutStays ==
    ASSUME ItemsStay, NEW c
    PROVE  PutBy(c) \subseteq PutBy(c)'
BY DEF ItemsStay, PutBy

LEMMA AddingStays ==
    ASSUME BooksInOrder, ItemsStay, BooksStay, NEW c \in Calls, Adding(c),
           op' = op, pc'[c] = pc[c], job'[c] = job[c], missing'[c] = missing[c]
    PROVE  Adding(c)'
<1>1. CASE Tool(c) # "newBook"
  BY <1>1 DEF Adding, Tool
<1>2. CASE Tool(c) = "newBook" /\ pc[c] \notin {"adding", "done"}
  BY <1>2 DEF Adding, Tool
<1>3. CASE Tool(c) = "newBook" /\ pc[c] \in {"adding", "done"}
  <2>. DEFINE i == job[c].place
  <2>1. i \in PutBy(c) /\ i \in PutBy(c)' /\ i \in Ids /\ InBooks[i] = <<>>
    BY <1>3, PutStays, NewBooksAreNew DEF Adding
  <2>0. items'[i] = items[i]
    BY <2>1 DEF PutBy, ItemsStay
  <2>2. \A t : Titled(books[i], t) # {} => Titled(books'[i], t) # {}
    BY <2>1 DEF BooksStay, TitlesStay
  <2>3. \A t : Titled(books[i], t)' = Titled(books'[i], t)
    BY DEF Titled
  <2>4. job'[c].place = i /\ job'[c].missing = job[c].missing /\ Tool(c)' = Tool(c) /\ op'[c] = op[c]
    BY DEF Tool
  <2>. QED  BY <1>3, <2>0, <2>1, <2>2, <2>4 DEF Adding
<1>. QED  BY <1>1, <1>2, <1>3

LEMMA BookBegins ==
    ASSUME NoneIsNoItem, PlacesInOrder, BooksInOrder, ItemsStay, NEW c \in Calls, Adding(c), SheetsCreate(c)
    PROVE  BooksStay /\ missing' = missing /\ target' = target /\ Adding(c)' /\ pc'[c] # "change"
<1>. DEFINE o == op[c]
            at == Asked(o.folder)
            tabs == NonBlank(o.tabs)
            rows == [k \in DOMAIN o.rows |-> Row(Filled(o.rows[k]), "plain")]
            first == Tab(1, "Sheet1", rows)
            Noted(i) == [NoJob EXCEPT !.place = i, !.missing = tabs]
<1>1. /\ pc[c] = "called" /\ Tool(c) = "newBook" /\ missing' = missing /\ target' = target
      /\ job[c].place = Root /\ \A to : Goto(c, to) => pc'[c] = to
      /\ op' = op
  BY DEF SheetsCreate, Under, Tool, Adding, Goto, PlacesInOrder, CallsInOrder, Put, Refuse, Fail
<1>2. o.rows \in Seq(Seq(STRING)) /\ o.tabs \in Seq(STRING)
  BY <1>1, SheetsAsked DEF PlacesInOrder
<1>3. CASE (Refuse(c) \/ Fail(c)) /\ books' = books
  <2>1. job' = job /\ pc'[c] \in {"refused", "failed"}
    BY <1>1, <1>3 DEF Refuse, Fail, driveVars
  <2>. QED  BY <1>1, <1>3, <2>1, SameBooks DEF Adding, Tool
<1>4. ASSUME NEW i \in Ids, Put(c, i, Item("sheet", o.title, at, TRUE, c), "adding", Noted(i)), Open(at),
             books' = [books EXCEPT ![i] = <<first>>]
      PROVE  BooksStay /\ Adding(c)' /\ pc'[c] # "change"
  <2>1. PICK item, found, new : item = Item("sheet", o.title, at, TRUE, c) /\ found = Noted(i) /\ new = <<first>>
    OBVIOUS
  <2>2. item.type = "sheet" /\ item.by = c /\ IsItem(item) /\ item # None /\ item.parent = at
    BY <2>1 DEF Item, IsItem, NoneIsNoItem
  <2>3. found.place = i /\ found.missing = tabs
    BY <2>1 DEF NoJob
  <2>4. first \in Tabs
    <3>1. \A k \in DOMAIN o.rows : Row(Filled(o.rows[k]), "plain") \in Rows
      BY <1>2, Filling
    <3>2. DOMAIN o.rows = 1 .. Len(o.rows) /\ Len(o.rows) \in Nat
      BY ONLY <1>2
    <3>3. rows \in Seq(Rows)
      BY ONLY <3>1, <3>2
    <3>4. "Sheet1" \in STRING
      BY LiteralsAreStrings
    <3>5. 1 \in Nat \ {0}
      OBVIOUS
    <3>. HIDE DEF rows
    <3>. QED  BY <3>3, <3>4, <3>5 DEF Tab, Tabs
  <2>5. new \in Seq(Tabs)
    BY <2>1, <2>4
  <2>6. tabs \in Seq(STRING) /\ Range(o.tabs) \ {""} \subseteq Range(tabs)
    BY <1>2, NonBlankIs
  <2>. HIDE DEF first, Noted, tabs, at
  <2>7. Put(c, i, item, "adding", found) /\ books' = [books EXCEPT ![i] = new]
    BY <1>4, <2>1
  <2>8. HasPut(c, i, item, "adding", found)
    BY <1>4, <2>2, <2>7, PutIsThere
  <2>9. items'[i] = item /\ i \in Drawn' /\ i \notin Drawn
    BY <2>2, <2>8 DEF HasPut, PlacesInOrder, PinsInOrder, VersionsInOrder, Drawn, Fresh
  <2>10. books[i] = <<>>
    BY <2>9 DEF BooksInOrder
  <2>11. \A k \in DOMAIN books[i] : k \in DOMAIN new /\ new[k].title = books[i][k].title
    BY <2>10
  <2>12. BooksStay
    BY <2>2, <2>5, <2>7, <2>9, <2>11, OneBook
  <2>13. /\ i \in PutBy(c)'
         /\ \/ pc'[c] = "adding" /\ job'[c] = found
            \/ pc'[c] = "failed" /\ job'[c] = job[c]
    BY <2>2, <2>8, <2>9 DEF PutBy, HasPut
  <2>14. Adding(c)'
    BY <1>1, <2>2, <2>3, <2>6, <2>9, <2>13 DEF Adding, Tool
  <2>. QED  BY <2>12, <2>13, <2>14
<1>. QED  BY <1>1, <1>3, <1>4 DEF SheetsCreate, Asked

LEMMA NextTabAdds ==
    ASSUME PlacesInOrder, BooksInOrder, ItemsStay, NEW c \in Calls, Adding(c), AddNextTab(c)
    PROVE  /\ BooksStay /\ Adding(c)' /\ pc'[c] # "change" /\ target' = target
           /\ missing' = [e \in Calls |-> missing'[e]] /\ \A e \in Calls \ {c} : missing'[e] = missing[e]
<1>. DEFINE title == Head(job[c].missing)
            i == job[c].place
            left == Tail(job[c].missing)
            found == [job[c] EXCEPT !.missing = Tail(@)]
<1>1. Stationed(c) /\ IsJob(job[c])
  BY DEF PlacesInOrder, StationsInOrder, PinsInOrder, JobsInOrder
<1>2. pc[c] = "adding" /\ job[c].missing # <<>> /\ Tool(c) = "newBook"
  BY <1>1, WhoIsThere DEF AddNextTab
<1>3. /\ i \in PutBy(c) /\ items[i].type = "sheet" /\ job[c].missing \in Seq(STRING)
      /\ \A t \in Range(op[c].tabs) \ {""} : Titled(books[i], t) # {} \/ t \in missing[c] \/ t \in Range(job[c].missing)
  BY <1>2 DEF Adding
<1>4. i \in Ids /\ InBooks[i] = <<>> /\ i \in PutBy(c)' /\ books[i] \in Seq(Tabs)
  BY <1>3, NewBooksAreNew, PutStays DEF BooksInOrder
<1>5. title \in STRING /\ left \in Seq(STRING) /\ Range(job[c].missing) = Range(left) \cup {title}
  BY <1>2, <1>3, HeadAndTail
<1>6. /\ op' = op /\ pc'[c] = "adding" /\ job'[c] = found /\ target' = target /\ items' = items
      /\ Tool(c)' = Tool(c)
  BY <1>2 DEF AddNextTab, Read, Goto, drive, PlacesInOrder, CallsInOrder, PinsInOrder, JobsInOrder, Tool
<1>7. found.place = i /\ found.missing = left
  BY <1>1 DEF IsJob, NoJob
<1>. HIDE DEF found, left, title, i
<1>8. ASSUME BooksStay, missing' = [e \in Calls |-> missing'[e]], \A e \in Calls \ {c} : missing'[e] = missing[e],
             missing[c] \subseteq missing'[c], title \in missing'[c] \/ Titled(books'[i], title) # {}
      PROVE  /\ BooksStay /\ Adding(c)' /\ pc'[c] # "change" /\ target' = target
             /\ missing' = [e \in Calls |-> missing'[e]] /\ \A e \in Calls \ {c} : missing'[e] = missing[e]
  <2>1. \A t : Titled(books[i], t) # {} => Titled(books'[i], t) # {}
    BY <1>4, <1>8 DEF BooksStay, TitlesStay
  <2>2. \A t \in Range(op[c].tabs) \ {""} : Titled(books'[i], t) # {} \/ t \in missing'[c] \/ t \in Range(left)
    BY <1>3, <1>5, <1>8, <2>1
  <2>3. Adding(c)'
    <3>1. /\ pc'[c] = "adding" /\ op'[c] = op[c] /\ Tool(c)' = "newBook" /\ job'[c].place = i /\ job'[c].missing = left
          /\ i \in PutBy(c)' /\ items'[i].type = "sheet"
      BY <1>2, <1>3, <1>4, <1>6, <1>7 DEF i
    <3>. QED  BY <1>5, <2>2, <3>1 DEF Adding
  <2>. QED  BY <1>6, <1>8, <2>3
<1>9. CASE missing' = [missing EXCEPT ![c] = @ \cup {title}] /\ books' = books
  <2>1. missing' = [e \in Calls |-> missing'[e]] /\ (\A e \in Calls \ {c} : missing'[e] = missing[e])
        /\ missing'[c] = missing[c] \cup {title}
    BY <1>9 DEF BooksInOrder
  <2>. QED  BY <1>8, <1>9, <2>1, SameBooks
<1>10. ASSUME NEW untold \in {{}, {title}}, missing' = [missing EXCEPT ![c] = @ \cup untold],
              books' = [books EXCEPT ![i] = TabAdded(@, title)]
       PROVE  /\ BooksStay /\ Adding(c)' /\ pc'[c] # "change" /\ target' = target
              /\ missing' = [e \in Calls |-> missing'[e]] /\ \A e \in Calls \ {c} : missing'[e] = missing[e]
  <2>1. missing' = [e \in Calls |-> missing'[e]] /\ (\A e \in Calls \ {c} : missing'[e] = missing[e])
        /\ missing[c] \subseteq missing'[c]
    BY <1>10 DEF BooksInOrder
  <2>2. PICK new : new = TabAdded(books[i], title)
    OBVIOUS
  <2>3. /\ new \in Seq(Tabs) /\ Titled(new, title) # {}
        /\ \A k \in DOMAIN books[i] : k \in DOMAIN new /\ new[k] = books[i][k]
    BY <1>4, <1>5, <2>2, TabAddedIs
  <2>4. books' = [books EXCEPT ![i] = new]
    BY <1>10, <2>2
  <2>5. books'[i] = new
    BY <1>4, <2>4 DEF BooksInOrder
  <2>6. items'[i].type = "sheet" /\ i \in Drawn'
    BY <1>3, <1>4, <1>6 DEF PutBy
  <2>7. BooksStay
    BY <1>4, <2>3, <2>4, <2>6, OneBook
  <2>. QED  BY <1>8, <2>1, <2>3, <2>5, <2>7
<1>. QED  BY <1>9, <1>10 DEF AddNextTab, title, i

(* Whose steps are whose.                                                   *)
LEMMA WhoseStep ==
    ASSUME NEW c, Stationed(c)
    PROVE  /\ DriveCall(c) => Tool(c) \in DriveTools \ {"newBook"}
           /\ SheetCall(c) => Tool(c) \in SheetTools \cup {"newBook"}
           /\ DraftCall(c) => Tool(c) \in MailTools
           /\ EventCall(c) => Tool(c) \in EventTools
<1>. USE WhoIsThere DEF Under, Tool, DriveTools, MailTools, SheetTools, EventTools, Structural
<1>1. ASSUME DriveCall(c)  PROVE Tool(c) \in DriveTools \ {"newBook"}
  <2>1. CASE DriveUpload(c)  BY <2>1 DEF DriveUpload
  <2>2. CASE DriveCreateFolder(c)  BY <2>2 DEF DriveCreateFolder
  <2>3. CASE Destination(c) \/ LookUp(c) \/ Preview(c) \/ MakeFolder(c) \/ Store(c) \/ Spend(c)
    BY <2>3 DEF Destination, LookUp, Preview, MakeFolder, Store, Spend
  <2>4. CASE DocsCreate(c)  BY <2>4 DEF DocsCreate
  <2>5. CASE DriveUpdateFile(c)  BY <2>5 DEF DriveUpdateFile
  <2>6. CASE ReadFile(c) \/ ReadHistory(c) \/ PreviewUpdate(c) \/ Pin(c) \/ Replace(c)
    BY <2>6 DEF ReadFile, ReadHistory, PreviewUpdate, Pin, Replace
  <2>. QED  BY <1>1, <2>1, <2>2, <2>3, <2>4, <2>5, <2>6 DEF DriveCall
<1>2. ASSUME SheetCall(c)  PROVE Tool(c) \in SheetTools \cup {"newBook"}
  <2>1. CASE SheetsAppendRows(c) \/ SheetsUpdateRange(c)
    BY <2>1 DEF SheetsAppendRows, SheetsUpdateRange
  <2>2. CASE SheetsInsertRows(c) \/ SheetsDeleteRows(c) \/ SheetsCopyFormat(c)
    BY <2>2 DEF SheetsInsertRows, SheetsDeleteRows, SheetsCopyFormat
  <2>3. CASE FindTab(c) \/ PreviewRows(c) \/ Change(c)
    BY <2>3 DEF FindTab, PreviewRows, Change
  <2>4. CASE SheetsAddTab(c) \/ SheetsCreate(c) \/ AddNextTab(c) \/ Created(c)
    BY <2>4 DEF SheetsAddTab, SheetsCreate, AddNextTab, Created
  <2>. QED  BY <1>2, <2>1, <2>2, <2>3, <2>4 DEF SheetCall
<1>3. ASSUME DraftCall(c)  PROVE Tool(c) \in MailTools
  <2>1. CASE GmailCreateDraft(c) \/ GmailReplyDraft(c) \/ GmailUpdateDraft(c) \/ GmailAttachToDraft(c)
    BY <2>1 DEF GmailCreateDraft, GmailReplyDraft, GmailUpdateDraft, GmailAttachToDraft
  <2>2. CASE Weigh(c) \/ TakeFiles(c) \/ WriteDraft(c)
    BY <2>2 DEF Weigh, TakeFiles, WriteDraft
  <2>3. CASE GmailDeleteDraft(c) \/ GmailModifyLabels(c)
    BY <2>3 DEF GmailDeleteDraft, GmailModifyLabels
  <2>4. CASE Label(c) \/ Labelled(c)
    BY <2>4 DEF Label, Labelled, Unasked
  <2>. QED  BY <1>3, <2>1, <2>2, <2>3, <2>4 DEF DraftCall
<1>4. ASSUME EventCall(c)  PROVE Tool(c) \in EventTools
  BY <1>4 DEF EventCall, CalendarCreateEvent, CalendarUpdateEvent, CalendarDeleteEvent, DraftEvent, PreviewEvent, PatchEvent,
              DeleteEvent
<1>. QED  BY <1>1, <1>2, <1>3, <1>4

(* What a call notes, it notes for itself.                                   *)
LEMMA JobsOwn ==
    ASSUME NEW c, DriveCall(c) \/ SheetCall(c)
    PROVE  job' = job \/ \E r : job' = [job EXCEPT ![c] = r]
<1>1. CASE DriveCall(c)
  <2>. USE DEF Refuse, Fail, Read, Put, driveVars
  <2>1. CASE DriveUpload(c)  BY <2>1 DEF DriveUpload
  <2>2. CASE DriveCreateFolder(c)  BY <2>2 DEF DriveCreateFolder
  <2>3. CASE Destination(c)  BY <2>3 DEF Destination
  <2>4. CASE LookUp(c)  BY <2>4 DEF LookUp, Inside
  <2>5. CASE Preview(c)  BY <2>5 DEF Preview
  <2>6. CASE MakeFolder(c)  BY <2>6 DEF MakeFolder
  <2>7. CASE Store(c)  BY <2>7 DEF Store
  <2>8. CASE Spend(c)  BY <2>8 DEF Spend
  <2>9. CASE DocsCreate(c)  BY <2>9 DEF DocsCreate
  <2>10. CASE DriveUpdateFile(c)  BY <2>10 DEF DriveUpdateFile
  <2>11. CASE ReadFile(c)  BY <2>11 DEF ReadFile
  <2>12. CASE ReadHistory(c)  BY <2>12 DEF ReadHistory
  <2>13. CASE PreviewUpdate(c)  BY <2>13 DEF PreviewUpdate
  <2>14. CASE Pin(c)  BY <2>14 DEF Pin
  <2>15. CASE Replace(c)  BY <2>15 DEF Replace
  <2>. QED  BY <1>1, <2>1, <2>2, <2>3, <2>4, <2>5, <2>6, <2>7, <2>8, <2>9, <2>10, <2>11, <2>12, <2>13, <2>14, <2>15
               DEF DriveCall
<1>2. CASE SheetCall(c)
  <2>. USE DEF Deny, Break, Refuse, Fail, Read, Put, Proceed, ChangeBook, Show, driveVars
  <2>1. CASE SheetsAppendRows(c)  BY <2>1 DEF SheetsAppendRows
  <2>2. CASE SheetsUpdateRange(c)  BY <2>2 DEF SheetsUpdateRange
  <2>3. CASE SheetsInsertRows(c) \/ SheetsDeleteRows(c) \/ SheetsCopyFormat(c)
    BY <2>3 DEF SheetsInsertRows, SheetsDeleteRows, SheetsCopyFormat, SheetsStructural
  <2>4. CASE FindTab(c)  BY <2>4 DEF FindTab
  <2>5. CASE PreviewRows(c)  BY <2>5 DEF PreviewRows
  <2>6. CASE Change(c)  BY <2>6 DEF Change
  <2>7. CASE SheetsAddTab(c)  BY <2>7 DEF SheetsAddTab
  <2>8. CASE SheetsCreate(c)  BY <2>8 DEF SheetsCreate
  <2>9. CASE AddNextTab(c)  BY <2>9 DEF AddNextTab
  <2>10. CASE Created(c)  BY <2>10 DEF Created
  <2>. QED  BY <1>2, <2>1, <2>2, <2>3, <2>4, <2>5, <2>6, <2>7, <2>8, <2>9, <2>10 DEF SheetCall
<1>. QED  BY <1>1, <1>2

(* The spreadsheets, and what the calls about them have found and made.       *)
BooksKept == BooksInOrder /\ \A c \in Calls : Tabbed(c) /\ Adding(c)

LEMMA BooksInit == Init => BooksKept
<1>1. SUFFICES ASSUME Init  PROVE BooksKept
  OBVIOUS
<1>2. books = InBooks /\ items = InDrive /\ missing = [c \in Calls |-> missing[c]] /\ target = [c \in Calls |-> target[c]]
      /\ \A c \in Calls : pc[c] = "called" /\ job[c] = NoJob
  BY <1>1 DEF Init, SheetsInit, DriveInit
<1>3. BooksInOrder
  BY <1>2, SheetsHoldTabs DEF BooksInOrder, Drawn
<1>4. \A c \in Calls : Tabbed(c) /\ Adding(c)
  <2>1. NoJob.place = Root
    BY DEF NoJob
  <2>2. \A c \in Calls : job[c].place = Root /\ pc[c] = "called"
    BY <1>2, <2>1
  <2>. QED  BY <2>2 DEF Tabbed, Adding
<1>. QED  BY <1>3, <1>4 DEF BooksKept

(* A person types, inserts a row, gives a tab a title or moves it.           *)
LEMMA PeopleInBooks ==
    ASSUME BooksInOrder, ItemsStay, PersonInSheet
    PROVE  BooksStay
<1>0. PICK i \in Ids :
         /\ books[i] # <<>> /\ InBooks[i] # <<>>
         /\ \E k \in DOMAIN books[i] :
               PersonTypes(i, k) \/ PersonInsertsRow(i, k) \/ PersonRetitles(i, k) \/ PersonMovesTab(i, k)
  BY DEF PersonInSheet
<1>1. PICK k \in DOMAIN books[i] :
         /\ books[i] # <<>> /\ InBooks[i] # <<>>
         /\ PersonTypes(i, k) \/ PersonInsertsRow(i, k) \/ PersonRetitles(i, k) \/ PersonMovesTab(i, k)
  BY <1>0
<1>. DEFINE tabs == books[i]
            tab == tabs[k]
<1>2. tabs \in Seq(Tabs) /\ DOMAIN tabs = 1 .. Len(tabs) /\ Len(tabs) \in Nat
  BY DEF BooksInOrder
<1>3. tab \in Tabs
  BY <1>1, <1>2
<1>4. i \in Drawn' /\ items'[i].type = "sheet"
  BY <1>1 DEF BooksInOrder, ItemsStay
<1>5. ASSUME NEW new \in Seq(Tabs), books' = [books EXCEPT ![i] = new]  PROVE BooksStay
  BY <1>1, <1>4, <1>5, OneBook
<1>6. ASSUME NEW one \in Tabs, books' = [books EXCEPT ![i] = [tabs EXCEPT ![k] = one]]  PROVE BooksStay
  <2>1. PICK new : new = [tabs EXCEPT ![k] = one]
    OBVIOUS
  <2>2. new \in Seq(Tabs)
    BY <1>1, <1>2, <1>6, <2>1
  <2>. QED  BY <1>5, <1>6, <2>1, <2>2
<1>7. CASE PersonTypes(i, k)
  <2>1. PICK r \in DOMAIN tab.rows : books' = [books EXCEPT ![i][k].rows[r].cells[1] = "=sum"]
    BY <1>7 DEF PersonTypes
  <2>2. tab.rows \in Seq(Rows)
    BY <1>3 DEF Tabs
  <2>3. tab.rows[r] \in Rows
    BY <2>2
  <2>. DEFINE cells == [tab.rows[r].cells EXCEPT ![1] = "=sum"]
              row == [tab.rows[r] EXCEPT !.cells = cells]
              rows == [tab.rows EXCEPT ![r] = row]
              one == [tab EXCEPT !.rows = rows]
  <2>4. cells \in [1 .. Columns -> STRING]
    <3>1. "=sum" \in STRING
      BY LiteralsAreStrings
    <3>2. tab.rows[r].cells \in [1 .. Columns -> STRING]
      BY <2>3 DEF Rows
    <3>. QED  BY <3>1, <3>2
  <2>5. row \in Rows
    <3>. HIDE DEF cells
    <3>. QED  BY <2>3, <2>4 DEF Rows
  <2>6. rows \in Seq(Rows)
    <3>. HIDE DEF row
    <3>. QED  BY <2>2, <2>5
  <2>7. one \in Tabs
    <3>. HIDE DEF rows
    <3>. QED  BY <1>3, <2>6 DEF Tabs
  <2>8. books' = [books EXCEPT ![i] = [tabs EXCEPT ![k] = one]]
    BY <2>1
  <2>. HIDE DEF one, rows
  <2>. QED  BY <1>6, <2>7, <2>8
<1>8. CASE PersonInsertsRow(i, k)
  <2>. DEFINE rows == <<Row(EmptyCells, "plain")>> \o tab.rows
              one == [tab EXCEPT !.rows = rows]
  <2>1. <<Row(EmptyCells, "plain")>> \in Seq(Rows) /\ tab.rows \in Seq(Rows)
    <3>1. "plain" \in STRING
      BY LiteralsAreStrings
    <3>. QED  BY <1>3, <3>1, EmptyRow DEF Tabs
  <2>2. rows \in Seq(Rows)
    BY <2>1
  <2>3. books' = [books EXCEPT ![i] = [tabs EXCEPT ![k] = one]]
    BY <1>8 DEF PersonInsertsRow
  <2>. HIDE DEF rows
  <2>4. one \in Tabs
    BY <1>3, <2>2 DEF Tabs
  <2>. HIDE DEF one
  <2>. QED  BY <1>6, <2>3, <2>4
<1>9. CASE PersonRetitles(i, k)
  <2>1. CASE books' = [books EXCEPT ![i][k].title = "New"]
    <3>. DEFINE one == [tab EXCEPT !.title = "New"]
    <3>1. one \in Tabs
      <4>1. "New" \in STRING
        BY LiteralsAreStrings
      <4>. QED  BY <1>3, <4>1 DEF Tabs
    <3>2. books' = [books EXCEPT ![i] = [tabs EXCEPT ![k] = one]]
      BY <2>1
    <3>. HIDE DEF one
    <3>. QED  BY <1>6, <3>1, <3>2
  <2>2. ASSUME NEW j \in DOMAIN tabs \ {k},
               books' = [books EXCEPT ![i][k].title = books[i][j].title, ![i][j].title = books[i][k].title]
        PROVE  BooksStay
    <3>1. tabs[j] \in Tabs
      BY <1>2, <2>2
    <3>2. tab.title \in STRING /\ tabs[j].title \in STRING
      BY <1>3, <3>1 DEF Tabs
    <3>. DEFINE one == [tab EXCEPT !.title = tabs[j].title]
                other == [tabs[j] EXCEPT !.title = tab.title]
                new == [tabs EXCEPT ![k] = one, ![j] = other]
    <3>3. one \in Tabs /\ other \in Tabs
      BY <1>3, <3>1, <3>2 DEF Tabs
    <3>4. books' = [books EXCEPT ![i] = new]
      BY <2>2 DEF BooksInOrder
    <3>. HIDE DEF one, other
    <3>5. new \in Seq(Tabs)
      BY <1>1, <1>2, <2>2, <3>3
    <3>. HIDE DEF new
    <3>. QED  BY <1>5, <3>4, <3>5
  <2>. QED  BY <1>9, <2>1, <2>2 DEF PersonRetitles
<1>10. CASE PersonMovesTab(i, k)
  <2>1. k < Len(tabs) /\ books' = [books EXCEPT ![i][k] = books[i][k + 1], ![i][k + 1] = books[i][k]]
    BY <1>10 DEF PersonMovesTab
  <2>2. k + 1 \in DOMAIN tabs
    BY <1>1, <1>2, <2>1
  <2>3. tabs[k + 1] \in Tabs
    BY <1>2, <2>2
  <2>. DEFINE new == [tabs EXCEPT ![k] = tabs[k + 1], ![k + 1] = tabs[k]]
  <2>4. new \in Seq(Tabs)
    BY <1>1, <1>2, <1>3, <2>2, <2>3
  <2>5. books' = [books EXCEPT ![i] = new]
    BY <2>1 DEF BooksInOrder
  <2>. HIDE DEF new
  <2>. QED  BY <1>5, <2>4, <2>5
<1>. QED  BY <1>1, <1>7, <1>8, <1>9, <1>10

(* What each call keeps of it.                                              *)
LEMMA OthersKeepBooks ==
    ASSUME BooksKept, ItemsStay, BooksStay, NEW who, op' = op,
           \A e \in Calls \ {who} : pc'[e] = pc[e] /\ job'[e] = job[e] /\ missing'[e] = missing[e] /\ target'[e] = target[e],
           who \in Calls => Tabbed(who)' /\ Adding(who)',
           missing' = [e \in Calls |-> missing'[e]], target' = [e \in Calls |-> target'[e]]
    PROVE  BooksKept'
<1>1. ASSUME NEW e \in Calls  PROVE Tabbed(e)' /\ Adding(e)'
  <2>1. CASE e = who
    BY <2>1
  <2>2. CASE e # who
    BY <2>2, AddingStays DEF BooksKept, Tabbed
  <2>. QED  BY <2>1, <2>2
<1>2. \A i \in Ids : InDrive[i] # None => items'[i] = InDrive[i]
  BY DEF BooksKept, BooksInOrder, ItemsStay, Drawn
<1>. QED  BY <1>1, <1>2 DEF BooksKept, BooksInOrder, BooksStay

(* A step of one call leaves where the others are.                           *)
LEMMA OneCallAlone ==
    ASSUME CallsInOrder, StationsInOrder, NEW c \in Calls, Drive(c) \/ SheetsOf(c) \/ Gmail(c) \/ CalendarOf(c)
    PROVE  /\ op' = op /\ \A e \in Calls \ {c} : pc'[e] = pc[e]
           /\ \A e : Tool(e)' = Tool(e)
<1>1. Stationed(c) /\ pc = [d \in Calls |-> pc[d]]
  BY DEF StationsInOrder
<1>2. Onwards(c)
  BY <1>1, DriveCallsMove, SheetCallsMove, MailCallsMove, EventCallsMove DEF Drive, SheetsOf, Gmail, CalendarOf
<1>3. op' = op /\ \A e \in Calls \ {c} : pc'[e] = pc[e]
  BY <1>1, <1>2 DEF Onwards, Goto
<1>. QED  BY <1>3 DEF Tool

LEMMA OthersJobs ==
    ASSUME JobsInOrder, NEW c \in Calls, Drive(c) \/ SheetsOf(c) \/ Gmail(c) \/ CalendarOf(c)
    PROVE  \A e \in Calls \ {c} : job'[e] = job[e]
<1>1. job' = job \/ \E r : job' = [job EXCEPT ![c] = r]
  BY JobsOwn DEF Drive, SheetsOf, Gmail, CalendarOf, driveVars
<1>. QED  BY <1>1 DEF JobsInOrder

LEMMA BooksStep ==
    ASSUME NoneIsNoItem, CallsKept, BooksKept, [Next]_vars
    PROVE  BooksKept'
<1>1. PlacesInOrder /\ CallsInOrder /\ StationsInOrder /\ BooksInOrder /\ JobsInOrder /\ VersionsInOrder /\ PinsInOrder
  BY DEF CallsKept, BooksKept, PlacesInOrder, UploadsInOrder, PinsInOrder
<1>2. ItemsStay
  BY <1>1, ItemsLast
<1>3. missing = [e \in Calls |-> missing[e]] /\ target = [e \in Calls |-> target[e]]
  BY <1>1 DEF BooksInOrder
<1>4. ASSUME NEW c \in Calls, Drive(c) \/ SheetsOf(c) \/ Gmail(c) \/ CalendarOf(c),
             BooksStay, Tabbed(c)', Adding(c)',
             \A e \in Calls \ {c} : missing'[e] = missing[e] /\ target'[e] = target[e],
             missing' = [e \in Calls |-> missing'[e]], target' = [e \in Calls |-> target'[e]]
      PROVE  BooksKept'
  <2>1. op' = op /\ \A e \in Calls \ {c} : pc'[e] = pc[e] /\ job'[e] = job[e]
    BY <1>1, <1>4, OneCallAlone, OthersJobs
  <2>. QED  BY <1>2, <1>4, <2>1, OthersKeepBooks
<1>5. ASSUME NEW c \in Calls, Drive(c) \/ Gmail(c) \/ CalendarOf(c)  PROVE BooksKept'
  <2>1. Stationed(c) /\ Onwards(c)
    BY <1>1, <1>5, DriveCallsMove, MailCallsMove, EventCallsMove DEF StationsInOrder, Drive, Gmail, CalendarOf
  <2>2. Tool(c) \notin SheetTools \cup {"newBook"}
    BY <1>5, <2>1, WhoseStep DEF Drive, Gmail, CalendarOf, DriveTools, MailTools, EventTools, SheetTools, Structural
  <2>3. UNCHANGED sheetVars
    BY <1>5 DEF Drive, Gmail, CalendarOf
  <2>4. BooksStay /\ missing' = missing /\ target' = target
    BY <1>1, <1>2, <2>3, SameBooks DEF sheetVars
  <2>5. Tool(c)' = Tool(c) /\ StationsInOrder'
    BY <1>1, <1>5, OneCallAlone, StationsStep
  <2>6. pc'[c] # "change"
    <3>1. Stationed(c)'
      BY <2>5 DEF StationsInOrder
    <3>2. pc'[c] \in Stations(Tool(c))
      BY <2>5, <3>1 DEF Stationed
    <3>. QED  BY <2>2, <3>2 DEF Stations, SheetTools, Structural, Answers
  <2>7. Tabbed(c)' /\ Adding(c)'
    BY <2>2, <2>5, <2>6 DEF Tabbed, Adding
  <2>. QED  BY <1>3, <1>4, <1>5, <2>4, <2>7
<1>6. ASSUME NEW c \in Calls, SheetsOf(c)  PROVE BooksKept'
  <2>1. Stationed(c) /\ SheetCall(c) /\ Tool(c) \in SheetTools \cup {"newBook"} /\ Tool(c)' = Tool(c)
    BY <1>1, <1>6, WhoseStep, OneCallAlone DEF StationsInOrder, SheetsOf
  <2>2. Adding(c)
    BY DEF BooksKept
  <2>3. CASE Tool(c) # "newBook"
    <3>1. /\ BooksStay /\ missing' = missing
          /\ target' = [e \in Calls |-> target'[e]] /\ \A e \in Calls \ {c} : target'[e] = target[e]
          /\ Tabbed(c)'
      BY <1>1, <1>2, <2>1, <2>3, SheetWrites
    <3>2. Adding(c)'
      BY <2>1, <2>3 DEF Adding
    <3>. QED  BY <1>3, <1>4, <1>6, <3>1, <3>2
  <2>4. CASE SheetsCreate(c)
    <3>1. BooksStay /\ missing' = missing /\ target' = target /\ Adding(c)' /\ pc'[c] # "change"
      BY <1>1, <1>2, <2>2, <2>4, BookBegins
    <3>. QED  BY <1>3, <1>4, <1>6, <3>1 DEF Tabbed
  <2>5. CASE AddNextTab(c)
    <3>1. /\ BooksStay /\ Adding(c)' /\ pc'[c] # "change" /\ target' = target
          /\ missing' = [e \in Calls |-> missing'[e]] /\ \A e \in Calls \ {c} : missing'[e] = missing[e]
      BY <1>1, <1>2, <2>2, <2>5, NextTabAdds
    <3>. QED  BY <1>3, <1>4, <1>6, <3>1 DEF Tabbed
  <2>6. CASE Created(c)
    <3>1. /\ pc[c] = "adding" /\ job[c].missing = <<>> /\ pc'[c] = "done" /\ UNCHANGED driveVars /\ UNCHANGED sheetVars
          /\ op' = op
      BY <1>1, <2>6 DEF Created, Proceed, Goto, CallsInOrder
    <3>2. BooksStay /\ missing' = missing /\ target' = target /\ books' = books /\ items' = items /\ job' = job
      BY <1>1, <1>2, <3>1, SameBooks DEF sheetVars, driveVars, drive
    <3>3. PutBy(c)' = PutBy(c)
      BY <3>2 DEF PutBy, Drawn
    <3>4. Adding(c)'
      BY <2>1, <2>2, <3>1, <3>2, <3>3 DEF Adding, Titled
    <3>. QED  BY <1>3, <1>4, <1>6, <3>1, <3>2, <3>4 DEF Tabbed
  <2>7. CASE Tool(c) = "newBook" /\ ~SheetsCreate(c) /\ ~AddNextTab(c) /\ ~Created(c)
    BY <2>1, <2>7, WhoIsThere DEF SheetCall, SheetsAppendRows, SheetsUpdateRange, SheetsInsertRows, SheetsDeleteRows,
       SheetsCopyFormat, FindTab, PreviewRows, Change, SheetsAddTab, Under, Tool, Structural
  <2>. QED  BY <2>3, <2>4, <2>5, <2>6, <2>7
<1>7. CASE Others \/ Sweep \/ UNCHANGED vars
  <2>1. op' = op /\ pc' = pc /\ job' = job /\ missing' = missing /\ target' = target
    BY <1>7 DEF Others, Sweep, Expire, vars, calls, driveVars, drive, sheetVars
  <2>2. books' = books \/ PersonInSheet
    BY <1>7 DEF Others, Sweep, vars, sheetVars
  <2>3. BooksStay
    BY <1>1, <1>2, <2>2, SameBooks, PeopleInBooks
  <2>4. None \notin Calls
    BY CallsAskForThings
  <2>. QED  BY <1>2, <1>3, <2>1, <2>3, <2>4, OthersKeepBooks
<1>. QED  BY <1>5, <1>6, <1>7 DEF Next

(***************************************************************************)
(* What becomes of the files and their versions.                            *)

WritersStay ==
    \A i \in Drawn : \A v \in DOMAIN versions[i] :
        v \in DOMAIN versions'[i] /\ versions'[i][v].by = versions[i][v].by

(* A version is known for every file and for nothing else.                  *)
FilesKnown == \A i \in Ids : versions[i] # <<>> <=> i \in Drawn /\ items[i].type \notin Google

(* One more version of a file, or one that is marked.                        *)
Lengthens(file) == \E by \in Calls \cup {None} : versions' = [versions EXCEPT ![file] = Append(@, Version(by))]
Marks(file) ==
    \E v \in DOMAIN versions[file] :
        \/ versions' = [versions EXCEPT ![file][v].kept = TRUE]
        \/ versions' = [versions EXCEPT ![file][v].gone = TRUE]
        \/ versions' = [versions EXCEPT ![file][v].deleted = TRUE]
OneFile == items' = items /\ \E file \in Drawn : versions[file] # <<>> /\ (Lengthens(file) \/ Marks(file))

(* Something that was not there before.                                     *)
OneMore ==
    \E i, item : /\ Fresh(i) /\ i \in Ids /\ IsItem(item)
                 /\ items' = [items EXCEPT ![i] = item]
                 /\ \/ versions' = [versions EXCEPT ![i] = History(item)]
                    \/ item.type \in Google /\ versions' = versions

LEMMA PutsOneMore ==
    ASSUME NEW c \in Calls, NEW i \in Ids, NEW type, NEW name, NEW parent, NEW to, NEW found,
           Put(c, i, Item(type, name, parent, TRUE, c), to, found)
    PROVE  OneMore
<1>1. IsItem(Item(type, name, parent, TRUE, c))
  BY DEF IsItem, Item
<1>. QED  BY <1>1 DEF Put, OneMore

LEMMA Histories ==
    ASSUME VersionsInOrder, NEW c \in Calls, PinInOrder(c), Pin(c) \/ Replace(c), Tool(c) = "update"
    PROVE  items' = items /\ (versions' = versions \/ OneFile)
<1>. DEFINE file == op[c].file
            v == job[c].head
<1>1. pc[c] \in {"pin", "replace"}
  BY DEF Pin, Replace
<1>2. file \in Drawn /\ v \in DOMAIN versions[file]
  BY <1>1 DEF PinInOrder
<1>3. versions[file] # <<>>
  BY <1>2
<1>4. items' = items
  BY DEF Pin, Replace, Fail, driveVars, drive
<1>5. CASE Pin(c)
  <2>1. versions' = versions \/ versions' = [versions EXCEPT ![file][v].kept = TRUE]
    BY <1>5 DEF Pin, Mark
  <2>. HIDE DEF v, file
  <2>2. versions' = versions \/ Marks(file)
    BY <1>2, <2>1 DEF Marks
  <2>. QED  BY <1>2, <1>3, <1>4, <2>2 DEF OneFile
<1>6. CASE Replace(c)
  <2>1. versions' = versions \/ versions' = [versions EXCEPT ![file] = Append(@, Version(c))]
    BY <1>6 DEF Replace, Fail, driveVars, drive
  <2>. HIDE DEF v, file
  <2>2. versions' = versions \/ Lengthens(file)
    BY <2>1 DEF Lengthens
  <2>. QED  BY <1>2, <1>3, <1>4, <2>2 DEF OneFile
<1>. QED  BY <1>5, <1>6

LEMMA DriveChanges ==
    ASSUME CallsInOrder, StationsInOrder, PinsInOrder, [Next]_vars
    PROVE  (items' = items /\ versions' = versions) \/ OneFile \/ OneMore
<1>. DEFINE Same == items' = items /\ versions' = versions
            Classified == Same \/ OneFile \/ OneMore
<1>0. SUFFICES Classified
  OBVIOUS
<1>1. ASSUME NEW c \in Calls, DriveCall(c)  PROVE Classified
  <2>. USE DEF Refuse, Fail, Read, driveVars, drive
  <2>1. CASE DriveUpload(c)  BY <2>1 DEF DriveUpload
  <2>2. CASE DriveCreateFolder(c)  BY <2>2 DEF DriveCreateFolder
  <2>3. CASE Destination(c)  BY <2>3 DEF Destination
  <2>4. CASE LookUp(c)  BY <2>4 DEF LookUp, Inside
  <2>5. CASE Preview(c)  BY <2>5 DEF Preview
  <2>6. CASE MakeFolder(c)  BY <2>6, PutsOneMore DEF MakeFolder
  <2>7. CASE Store(c)  BY <2>7, PutsOneMore DEF Store
  <2>8. CASE Spend(c)  BY <2>8 DEF Spend
  <2>9. CASE DocsCreate(c)  BY <2>9, PutsOneMore DEF DocsCreate
  <2>10. CASE DriveUpdateFile(c)  BY <2>10 DEF DriveUpdateFile
  <2>11. CASE ReadFile(c)  BY <2>11 DEF ReadFile
  <2>12. CASE ReadHistory(c)  BY <2>12 DEF ReadHistory
  <2>13. CASE PreviewUpdate(c)  BY <2>13 DEF PreviewUpdate
  <2>14. CASE Pin(c) \/ Replace(c)
    <3>1. Stationed(c) /\ PinInOrder(c) /\ VersionsInOrder
      BY DEF StationsInOrder, PinsInOrder
    <3>2. Tool(c) = "update"
      BY <2>14, <3>1, WhoIsThere DEF Pin, Replace
    <3>. QED  BY <2>14, <3>1, <3>2, Histories
  <2>. QED  BY <1>1, <2>1, <2>2, <2>3, <2>4, <2>5, <2>6, <2>7, <2>8, <2>9, <2>10, <2>11, <2>12, <2>13, <2>14 DEF DriveCall
<1>2. ASSUME NEW c \in Calls, SheetCall(c)  PROVE Classified
  <2>. USE DEF Deny, Break, Refuse, Fail, Read, Proceed, ChangeBook, Show, driveVars, drive
  <2>1. CASE SheetsAppendRows(c)  BY <2>1 DEF SheetsAppendRows
  <2>2. CASE SheetsUpdateRange(c)  BY <2>2 DEF SheetsUpdateRange
  <2>3. CASE SheetsInsertRows(c) \/ SheetsDeleteRows(c) \/ SheetsCopyFormat(c)
    BY <2>3 DEF SheetsInsertRows, SheetsDeleteRows, SheetsCopyFormat, SheetsStructural
  <2>4. CASE FindTab(c)  BY <2>4 DEF FindTab
  <2>5. CASE PreviewRows(c)  BY <2>5 DEF PreviewRows
  <2>6. CASE Change(c)  BY <2>6 DEF Change
  <2>7. CASE SheetsAddTab(c)  BY <2>7 DEF SheetsAddTab
  <2>8. CASE SheetsCreate(c)  BY <2>8, PutsOneMore DEF SheetsCreate
  <2>9. CASE AddNextTab(c)  BY <2>9 DEF AddNextTab
  <2>10. CASE Created(c)  BY <2>10 DEF Created
  <2>. QED  BY <1>2, <2>1, <2>2, <2>3, <2>4, <2>5, <2>6, <2>7, <2>8, <2>9, <2>10 DEF SheetCall
<1>3. CASE PersonMakes
  <2>1. PICK i \in Ids, name \in Names, parent \in Drawn \cup {Root} :
           /\ Fresh(i)
           /\ items' = [items EXCEPT ![i] = Item("folder", name, parent, FALSE, None)]
           /\ UNCHANGED <<binned, versions>>
    BY <1>3 DEF PersonMakes
  <2>2. PICK item : item = Item("folder", name, parent, FALSE, None)
    OBVIOUS
  <2>3. IsItem(item) /\ item.type = "folder"
    BY <2>2 DEF IsItem, Item
  <2>4. item.type \in Google /\ items' = [items EXCEPT ![i] = item] /\ versions' = versions
    BY <2>1, <2>2, <2>3, DriveHoldsItems
  <2>. QED  BY <2>1, <2>3, <2>4 DEF OneMore
<1>4. CASE PersonWrites
  <2>1. PICK file \in Drawn : /\ versions[file] # <<>> /\ versions' = [versions EXCEPT ![file] = Append(@, Version(None))]
                              /\ items' = items
    BY <1>4 DEF PersonWrites
  <2>. QED  BY <2>1 DEF OneFile, Lengthens
<1>5. CASE PersonDeletes \/ Purge
  <2>1. PICK file \in Drawn : \E v \in 1 .. Len(versions[file]) - 1 :
           /\ items' = items
           /\ \/ versions' = [versions EXCEPT ![file][v].deleted = TRUE]
              \/ versions' = [versions EXCEPT ![file][v].gone = TRUE]
    BY <1>5 DEF PersonDeletes, Purge
  <2>2. PICK v \in 1 .. Len(versions[file]) - 1 :
           /\ items' = items
           /\ \/ versions' = [versions EXCEPT ![file][v].deleted = TRUE]
              \/ versions' = [versions EXCEPT ![file][v].gone = TRUE]
    BY <2>1
  <2>3. versions[file] \in Seq(Versions)
    BY DEF PinsInOrder, VersionsInOrder, Drawn
  <2>4. v \in DOMAIN versions[file]
    BY <2>2, <2>3
  <2>. QED  BY <2>2, <2>4 DEF OneFile, Marks
<1>6. CASE Others \/ Sweep \/ UNCHANGED vars
  <2>1. Others \/ Same
    BY <1>6 DEF Sweep, vars, driveVars, drive
  <2>2. PersonMakes \/ PersonWrites \/ PersonDeletes \/ Purge \/ Same
    BY <2>1 DEF Others, PersonBins, drive
  <2>. QED  BY <1>3, <1>4, <1>5, <2>2
<1>7. ASSUME NEW c \in Calls, Gmail(c) \/ CalendarOf(c)  PROVE Same
  BY <1>7 DEF Gmail, CalendarOf, driveVars, drive
<1>. QED  BY <1>1, <1>2, <1>6, <1>7 DEF Next, Drive, SheetsOf

LEMMA FilesStep ==
    ASSUME NoneIsNoItem, CallsInOrder, StationsInOrder, PinsInOrder, FilesKnown, [Next]_vars
    PROVE  FilesKnown' /\ WritersStay
<1>0. VersionsInOrder
  BY DEF PinsInOrder
<1>1. CASE items' = items /\ versions' = versions
  BY <1>1 DEF FilesKnown, WritersStay, Drawn
<1>2. CASE OneFile
  <2>1. PICK file \in Drawn : items' = items /\ versions[file] # <<>> /\ (Lengthens(file) \/ Marks(file))
    BY <1>2 DEF OneFile
  <2>2. file \in Ids /\ versions[file] \in Seq(Versions) /\ \A i \in Ids \ {file} : versions'[i] = versions[i]
    BY <1>0, <2>1 DEF VersionsInOrder, Drawn, Lengthens, Marks
  <2>3. /\ versions'[file] # <<>>
        /\ \A v \in DOMAIN versions[file] : v \in DOMAIN versions'[file] /\ versions'[file][v].by = versions[file][v].by
    <3>1. CASE Lengthens(file)
      <4>1. PICK by : versions'[file] = Append(versions[file], Version(by))
        BY <1>0, <2>2, <3>1 DEF Lengthens, VersionsInOrder
      <4>2. PICK one : one = Version(by)
        OBVIOUS
      <4>. QED  BY <2>2, <4>1, <4>2, AppendProperties
    <3>2. CASE Marks(file)
      <4>1. PICK v \in DOMAIN versions[file] :
               \/ versions' = [versions EXCEPT ![file][v].kept = TRUE]
               \/ versions' = [versions EXCEPT ![file][v].gone = TRUE]
               \/ versions' = [versions EXCEPT ![file][v].deleted = TRUE]
        BY <3>2 DEF Marks
      <4>2. versions[file][v] \in Versions
        BY <2>2, <4>1
      <4>3. PICK one : versions' = [versions EXCEPT ![file][v] = one] /\ one.by = versions[file][v].by
        BY <4>1, <4>2 DEF Versions
      <4>4. versions'[file] = [versions[file] EXCEPT ![v] = one]
        BY <1>0, <2>2, <4>3 DEF VersionsInOrder
      <4>. QED  BY <2>1, <2>2, <4>3, <4>4
    <3>. QED  BY <2>1, <3>1, <3>2
  <2>4. Drawn' = Drawn
    BY <2>1 DEF Drawn
  <2>. QED  BY <2>1, <2>2, <2>3, <2>4 DEF FilesKnown, WritersStay, Drawn
<1>3. CASE OneMore
  <2>0. PICK i \in Ids : \E item : /\ Fresh(i) /\ IsItem(item) /\ items' = [items EXCEPT ![i] = item]
                                   /\ \/ versions' = [versions EXCEPT ![i] = History(item)]
                                      \/ item.type \in Google /\ versions' = versions
    BY <1>3 DEF OneMore
  <2>1. PICK item : /\ Fresh(i) /\ IsItem(item) /\ items' = [items EXCEPT ![i] = item]
                    /\ \/ versions' = [versions EXCEPT ![i] = History(item)]
                       \/ item.type \in Google /\ versions' = versions
    BY <2>0
  <2>2. i \notin Drawn /\ versions[i] = <<>> /\ item # None
    BY <2>1 DEF Fresh, FilesKnown, NoneIsNoItem
  <2>3. /\ items'[i] = item /\ \A j \in Ids \ {i} : items'[j] = items[j] /\ versions'[j] = versions[j]
        /\ versions'[i] = History(item)
    BY <1>0, <2>1, <2>2 DEF VersionsInOrder, History
  <2>4. Drawn' = Drawn \cup {i}
    BY <2>2, <2>3 DEF Drawn
  <2>5. History(item) # <<>> <=> item.type \notin Google
    BY <2>2 DEF History
  <2>6. FilesKnown'
    BY <2>2, <2>3, <2>4, <2>5 DEF FilesKnown, Drawn
  <2>7. WritersStay
    BY <2>2, <2>3 DEF WritersStay, Drawn
  <2>. QED  BY <2>6, <2>7
<1>. QED  BY <1>1, <1>2, <1>3, DriveChanges

(***************************************************************************)
(* What a call has changed, and how far it has come.                        *)

WrittenBy(c) == \E v \in DOMAIN versions[op[c].file] : versions[op[c].file][v].by = c

Reported(c) ==
    /\ did[c] \cap {"draft", "book", "event"} # {} => pc[c] \in {"adding", "done", "failed"}
    /\ "version" \in did[c] => pc[c] \in {"replace", "stored", "done", "failed"} \/ PutBy(c) # {}
    /\ pc[c] = "done" =>
          /\ Tool(c) \in Lengthening => "book" \in did[c]
          /\ Tool(c) \in {"newEvent", "deleteEvent"} => "event" \in did[c]
          /\ Tool(c) \in Composers \cup {"attach", "discard"} => "draft" \in did[c]
    /\ Tool(c) = "update" /\ pc[c] \in {"stored", "done"} => WrittenBy(c)

(* What a step of a call changes, and where it takes the call.               *)
Reports(c) ==
    /\ pc[c] \notin Answers
    /\ pc[c] = "adding" => pc'[c] \in {"adding", "done"}
    /\ pc[c] \in {"replace", "stored"} => pc'[c] \in {"stored", "done", "failed"}
    /\ books' # books \/ drafts' # drafts \/ events' # events => pc'[c] \in {"adding", "done", "failed"}
    /\ versions' # versions => pc'[c] \in {"replace", "stored", "done", "failed"} \/ PutBy(c)' # {}
    /\ pc'[c] = "done" =>
          /\ Tool(c) \in Lengthening => books' # books
          /\ Tool(c) \in {"newEvent", "deleteEvent"} => events' # events
          /\ Tool(c) \in Composers \cup {"attach", "discard"} => drafts' # drafts
    /\ Tool(c) = "update" /\ pc'[c] \in {"stored", "done"} => pc[c] = "stored" \/ WrittenBy(c)'

LEMMA ReportedStep ==
    ASSUME ItemsStay, WritersStay, PinsInOrder, NEW c \in Calls, op' = op, did = [e \in Calls |-> did[e]],
           Recorded(c), Reports(c), Reported(c)
    PROVE  Reported(c)'
<1>1. did'[c] = did[c] \cup Changed /\ Tool(c)' = Tool(c)
  BY DEF Recorded, Tool
<1>2. /\ "draft" \in Changed <=> drafts' # drafts
      /\ "book" \in Changed <=> books' # books
      /\ "event" \in Changed <=> events' # events
      /\ "version" \in Changed <=> versions' # versions
  BY DEF Changed
<1>3. PutBy(c) \subseteq PutBy(c)'
  BY PutStays
<1>4. Tool(c) = "update" /\ pc[c] = "stored" => WrittenBy(c)'
  <2>1. SUFFICES ASSUME Tool(c) = "update", pc[c] = "stored"  PROVE WrittenBy(c)'
    OBVIOUS
  <2>2. op[c].file \in Drawn
    BY <2>1 DEF PinsInOrder, PinInOrder
  <2>3. PICK v \in DOMAIN versions[op[c].file] : versions[op[c].file][v].by = c
    BY <2>1 DEF Reported, WrittenBy
  <2>. QED  BY <2>2, <2>3 DEF WritersStay, WrittenBy
<1>5. (did[c] \cap {"draft", "book", "event"} # {} => pc[c] \in {"adding", "done", "failed"})
      /\ (did'[c] \cap {"draft", "book", "event"} # {} => pc'[c] \in {"adding", "done", "failed"})
  BY <1>1, <1>2 DEF Reported, Reports, Answers
<1>6. "version" \in did'[c] => pc'[c] \in {"replace", "stored", "done", "failed"} \/ PutBy(c)' # {}
  BY <1>1, <1>2, <1>3 DEF Reported, Reports, Answers
<1>7. pc'[c] = "done" =>
          /\ Tool(c) \in Lengthening => "book" \in did'[c]
          /\ Tool(c) \in {"newEvent", "deleteEvent"} => "event" \in did'[c]
          /\ Tool(c) \in Composers \cup {"attach", "discard"} => "draft" \in did'[c]
  BY <1>1, <1>2 DEF Reports
<1>8. Tool(c) = "update" /\ pc'[c] \in {"stored", "done"} => WrittenBy(c)'
  BY <1>4 DEF Reports
<1>. QED  BY <1>1, <1>5, <1>6, <1>7, <1>8 DEF Reported

LEMMA ReportedStays ==
    ASSUME ItemsStay, WritersStay, PinsInOrder, NEW c \in Calls, op' = op, pc'[c] = pc[c], did'[c] = did[c], Reported(c)
    PROVE  Reported(c)'
<1>1. PutBy(c) \subseteq PutBy(c)' /\ Tool(c)' = Tool(c)
  BY PutStays DEF Tool
<1>2. Tool(c) = "update" /\ pc[c] \in {"stored", "done"} => WrittenBy(c)'
  <2>1. SUFFICES ASSUME Tool(c) = "update", pc[c] \in {"stored", "done"}  PROVE WrittenBy(c)'
    OBVIOUS
  <2>2. op[c].file \in Drawn
    BY <2>1 DEF PinsInOrder, PinInOrder
  <2>3. PICK v \in DOMAIN versions[op[c].file] : versions[op[c].file][v].by = c
    BY <2>1 DEF Reported, WrittenBy
  <2>. QED  BY <2>2, <2>3 DEF WritersStay, WrittenBy
<1>. QED  BY <1>1, <1>2 DEF Reported

(* Drive.                                                                  *)
LEMMA PutPuts ==
    ASSUME NoneIsNoItem, VersionsInOrder, NEW c \in Calls, NEW i \in Ids, NEW type, NEW name, NEW parent, NEW to, NEW found,
           Put(c, i, Item(type, name, parent, TRUE, c), to, found)
    PROVE  PutBy(c)' # {}
<1>1. PICK item : item = Item(type, name, parent, TRUE, c)
  OBVIOUS
<1>2. item # None /\ item.by = c
  BY <1>1 DEF NoneIsNoItem, IsItem, Item
<1>3. items' = [items EXCEPT ![i] = item]
  BY <1>1 DEF Put
<1>4. i \in PutBy(c)'
  BY <1>2, <1>3 DEF VersionsInOrder, PutBy, Drawn
<1>. QED  BY <1>4

LEMMA ReplacedBy ==
    ASSUME VersionsInOrder, NEW c \in Calls, op' = op, op[c].file \in Drawn,
           versions' = [versions EXCEPT ![op[c].file] = Append(@, Version(c))]
    PROVE  WrittenBy(c)'
<1>. DEFINE file == op[c].file
<1>1. versions[file] \in Seq(Versions) /\ versions'[file] = Append(versions[file], Version(c))
  BY DEF VersionsInOrder, Drawn
<1>2. PICK one : one = Version(c)
  OBVIOUS
<1>3. PICK n : n = Len(versions[file]) + 1
  OBVIOUS
<1>4. one.by = c
  BY <1>2 DEF Version
<1>. HIDE DEF file
<1>5. n \in DOMAIN versions'[file] /\ versions'[file][n] = one
  BY <1>1, <1>2, <1>3, AppendProperties
<1>. QED  BY <1>4, <1>5 DEF WrittenBy, file

LEMMA DriveReports ==
    ASSUME NoneIsNoItem, CallsInOrder, StationsInOrder, PinsInOrder, NEW c \in Calls, Drive(c)
    PROVE  Reports(c)
<1>1. DriveCall(c) /\ books' = books /\ drafts' = drafts /\ events' = events
  BY DEF Drive, sheetVars, mailVars, mail, eventVars
<1>2. Stationed(c) /\ PinInOrder(c) /\ VersionsInOrder /\ op' = op /\ Tool(c) \in DriveTools \ {"newBook"}
  BY <1>1, OneCallAlone, WhoseStep DEF StationsInOrder, PinsInOrder
<1>3. pc[c] \notin Answers \cup {"adding"}
  BY <1>1, <1>2, DriveElsewhere, WhoIsThere DEF Elsewhere
<1>4. \A to : Goto(c, to) => pc'[c] = to
  BY DEF Goto, CallsInOrder
<1>5. /\ Tool(c) \notin Lengthening /\ Tool(c) \notin {"newEvent", "deleteEvent"}
      /\ Tool(c) \notin Composers \cup {"attach", "discard"}
  BY <1>2 DEF DriveTools, Lengthening, Composers
<1>. DEFINE Ends == /\ pc[c] \in {"replace", "stored"} => pc'[c] \in {"stored", "done", "failed"}
                    /\ versions' # versions => pc'[c] \in {"replace", "stored", "done", "failed"} \/ PutBy(c)' # {}
                    /\ Tool(c) = "update" /\ pc'[c] \in {"stored", "done"} => pc[c] = "stored" \/ WrittenBy(c)'
<1>6. SUFFICES Ends
  BY <1>1, <1>3, <1>5 DEF Reports
<1>7. ASSUME pc[c] \notin {"replace", "stored"}, versions' = versions, pc'[c] \notin {"stored", "done"}
      PROVE  Ends
  BY <1>7
<1>8. ASSUME pc[c] \notin {"replace", "stored"}, Tool(c) # "update", NEW i \in Ids, NEW type, NEW name, NEW parent, NEW to, NEW found,
             Put(c, i, Item(type, name, parent, TRUE, c), to, found)
      PROVE  Ends
  BY <1>2, <1>8, PutPuts
<1>9. ASSUME pc[c] \notin {"replace", "stored"}, Refuse(c) \/ Fail(c)  PROVE Ends
  BY <1>4, <1>9 DEF Refuse, Fail, driveVars, drive
<1>10. ASSUME pc[c] \notin {"replace", "stored"}, NEW to, NEW found, to \notin {"stored", "done"}, Read(c, to, found)  PROVE Ends
  BY <1>4, <1>10 DEF Read, drive
<1>. USE DEF Under, Tool
<1>. HIDE DEF Ends
<1>11. CASE DriveUpload(c)
  BY <1>9, <1>10, <1>11 DEF DriveUpload
<1>12. CASE DriveCreateFolder(c)
  <2>1. pc[c] = "called" /\ (Refuse(c) \/ \E to \in {"destination", "planned"} : \E found : Read(c, to, found))
    BY <1>12 DEF DriveCreateFolder
  <2>. QED  BY <1>9, <1>10, <2>1
<1>13. CASE Destination(c)  BY <1>9, <1>10, <1>13 DEF Destination
<1>14. CASE LookUp(c)
  <2>1. pc[c] = "path" /\ (Refuse(c) \/ Fail(c) \/ \E to \in {"path", "planned"} : \E found : Read(c, to, found))
    BY <1>14 DEF LookUp, Inside
  <2>. QED  BY <1>9, <1>10, <2>1
<1>15. CASE Preview(c)  BY <1>9, <1>10, <1>15 DEF Preview
<1>16. CASE MakeFolder(c)
  <2>1. Tool(c) # "update" /\ pc[c] = "planned"
    BY <1>2, <1>16, WhoIsThere DEF MakeFolder
  <2>. QED  BY <1>8, <1>9, <1>16, <2>1 DEF MakeFolder
<1>17. CASE Store(c)  BY <1>8, <1>9, <1>17 DEF Store
<1>18. CASE DocsCreate(c)  BY <1>8, <1>9, <1>18 DEF DocsCreate
<1>19. CASE Spend(c)  BY <1>4, <1>19 DEF Spend, Ends, driveVars, drive
<1>20. CASE DriveUpdateFile(c)  BY <1>9, <1>10, <1>20 DEF DriveUpdateFile
<1>21. CASE ReadFile(c)  BY <1>9, <1>10, <1>21 DEF ReadFile
<1>22. CASE ReadHistory(c)
  <2>1. pc[c] = "history" /\ (Refuse(c) \/ Fail(c) \/ \E found : Read(c, "pin", found))
    BY <1>22 DEF ReadHistory
  <2>. QED  BY <1>9, <1>10, <2>1
<1>23. CASE PreviewUpdate(c)  BY <1>9, <1>10, <1>23 DEF PreviewUpdate
<1>24. CASE Pin(c)  BY <1>4, <1>24 DEF Pin, Ends
<1>25. CASE Replace(c)
  <2>1. op[c].file \in Drawn
    BY <1>2, <1>25, WhoIsThere DEF Replace, PinInOrder
  <2>2. CASE Fail(c)
    BY <1>4, <1>25, <2>2 DEF Replace, Fail, Ends, driveVars, drive
  <2>3. CASE ~Fail(c)
    <3>1. pc'[c] \in {"failed", "stored"} /\ WrittenBy(c)'
      BY <1>2, <1>4, <1>25, <2>1, <2>3, ReplacedBy DEF Replace
    <3>. QED  BY <3>1 DEF Ends
  <2>. QED  BY <2>2, <2>3
<1>. QED  BY <1>1, <1>11, <1>12, <1>13, <1>14, <1>15, <1>16, <1>17, <1>18, <1>19, <1>20, <1>21, <1>22, <1>23, <1>24, <1>25
             DEF DriveCall

(* Spreadsheets.                                                           *)
LEMMA SheetsReport ==
    ASSUME NoneIsNoItem, CallsKept, BooksKept, NEW c \in Calls, SheetsOf(c), ItemsStay
    PROVE  Reports(c)
<1>1. SheetCall(c) /\ drafts' = drafts /\ events' = events
  BY DEF SheetsOf, mailVars, mail, eventVars
<1>2. CallsInOrder /\ StationsInOrder /\ BooksInOrder /\ VersionsInOrder
  BY DEF CallsKept, BooksKept, UploadsInOrder, PinsInOrder
<1>3. Stationed(c) /\ Tool(c) \in SheetTools \cup {"newBook"}
  BY <1>1, <1>2, WhoseStep DEF StationsInOrder
<1>4. pc[c] \notin Answers \cup {"replace", "stored"}
  BY <1>1, <1>2, <1>3, SheetsElsewhere, WhoIsThere DEF Elsewhere, SheetTools, Structural
<1>5. \A to : Goto(c, to) => pc'[c] = to
  BY <1>2 DEF Goto, CallsInOrder
<1>6. /\ Tool(c) \notin {"newEvent", "deleteEvent", "update"} \cup Composers \cup {"attach", "discard"}
      /\ Tool(c) = "newBook" => Tool(c) \notin Lengthening
  BY <1>3 DEF SheetTools, Structural, Lengthening, Composers
<1>. DEFINE Ends == /\ pc[c] = "adding" => pc'[c] \in {"adding", "done"}
                    /\ books' # books => pc'[c] \in {"adding", "done", "failed"}
                    /\ versions' # versions => PutBy(c)' # {}
<1>7. SUFFICES Ends
  <2>1. pc'[c] = "done" /\ Tool(c) \in Lengthening => books' # books
    BY <1>1, <1>2, <1>6, SheetWrites
  <2>. QED  BY <1>1, <1>4, <1>6, <2>1 DEF Reports
<1>8. pc[c] = "adding" => Tool(c) = "newBook"
  BY <1>3, WhoIsThere
<1>. USE DEF Under, Tool
<1>9. ASSUME pc[c] # "adding", books' = books, versions' = versions  PROVE Ends
  BY <1>9
<1>10. ASSUME pc[c] # "adding", Deny(c) \/ Break(c) \/ \E what : Show(c, what)  PROVE Ends
  BY <1>9, <1>10 DEF Deny, Break, Show, Refuse, Fail, Proceed, driveVars, drive, sheetVars
<1>11. ASSUME pc[c] # "adding", NEW new, ChangeBook(c, new)  PROVE Ends
  BY <1>5, <1>11 DEF ChangeBook, Proceed, driveVars, drive
<1>12. ASSUME NEW i \in Ids, pc[c] # "adding", NEW type, NEW name, NEW parent, NEW found,
              Put(c, i, Item(type, name, parent, TRUE, c), "adding", found)
       PROVE  Ends
  BY <1>2, <1>5, <1>12, PutPuts DEF Put
<1>. HIDE DEF Ends
<1>13. CASE SheetsAppendRows(c)  BY <1>10, <1>11, <1>13 DEF SheetsAppendRows
<1>14. CASE SheetsUpdateRange(c)  BY <1>10, <1>11, <1>14 DEF SheetsUpdateRange
<1>15. CASE SheetsInsertRows(c) \/ SheetsDeleteRows(c) \/ SheetsCopyFormat(c)
  BY <1>9, <1>10, <1>15 DEF SheetsInsertRows, SheetsDeleteRows, SheetsCopyFormat, SheetsStructural, Proceed, driveVars, drive, sheetVars
<1>16. CASE FindTab(c)  BY <1>9, <1>10, <1>16 DEF FindTab, Proceed, driveVars, drive
<1>17. CASE PreviewRows(c)  BY <1>10, <1>17 DEF PreviewRows
<1>18. CASE Change(c)  BY <1>10, <1>11, <1>18 DEF Change
<1>19. CASE SheetsAddTab(c)  BY <1>10, <1>11, <1>19 DEF SheetsAddTab
<1>20. CASE SheetsCreate(c)
  <2>1. CASE (Refuse(c) \/ Fail(c)) /\ UNCHANGED books
    BY <1>9, <1>20, <2>1 DEF SheetsCreate, Refuse, Fail, driveVars, drive
  <2>2. CASE ~((Refuse(c) \/ Fail(c)) /\ UNCHANGED books)
    BY <1>12, <1>20, <2>2 DEF SheetsCreate
  <2>. QED  BY <2>1, <2>2
<1>21. CASE AddNextTab(c)  BY <1>5, <1>21 DEF AddNextTab, Read, drive, Ends
<1>22. CASE Created(c)  BY <1>5, <1>22 DEF Created, Proceed, driveVars, drive, sheetVars, Ends
<1>. QED  BY <1>1, <1>13, <1>14, <1>15, <1>16, <1>17, <1>18, <1>19, <1>20, <1>21, <1>22 DEF SheetCall

(* Events.                                                                 *)
NoneIsNoEvent == \A r : IsEvent(r) => r # None

EventsInOrder ==
    /\ events = [i \in EventIds |-> events[i]]
    /\ \A i \in EventIds : events[i] # None => IsEvent(events[i])
    /\ existing = [c \in Calls |-> existing[c]]
    /\ \A c \in Calls : pc[c] \in {"drafting", "patching", "deleting"} => existing[c] # None

LEMMA EventAsked ==
    ASSUME op \in Ops, NEW c \in Calls, Tool(c) \in {"changeEvent", "deleteEvent"}
    PROVE  op[c].event \in EventIds
BY CallsAskForThings DEF Tool

LEMMA EventShapes ==
    /\ \A r : IsEvent(r) => /\ IsEvent([r EXCEPT !.there = FALSE]) /\ IsEvent([r EXCEPT !.place = "elsewhere"])
                            /\ IsEvent([r EXCEPT !.guests = {"ann"}])
                            /\ r.there => [r EXCEPT !.there = FALSE] # r
    /\ \A r, g : IsEvent(r) => IsEvent([f \in DOMAIN r |-> g[f]])
    /\ \A title, start, end, place, guests : IsEvent(Event(title, start, end, place, guests))
<1>1. ASSUME NEW r, IsEvent(r)
      PROVE  /\ IsEvent([r EXCEPT !.there = FALSE]) /\ IsEvent([r EXCEPT !.place = "elsewhere"])
             /\ IsEvent([r EXCEPT !.guests = {"ann"}])
             /\ r.there => [r EXCEPT !.there = FALSE] # r
  <2>1. "there" \in DOMAIN r
    BY <1>1 DEF IsEvent, Event
  <2>. QED  BY <1>1, <2>1 DEF IsEvent
<1>2. ASSUME NEW r, NEW g, IsEvent(r)  PROVE IsEvent([f \in DOMAIN r |-> g[f]])
  BY <1>2 DEF IsEvent
<1>3. ASSUME NEW title, NEW start, NEW end, NEW place, NEW guests  PROVE IsEvent(Event(title, start, end, place, guests))
  BY DEF IsEvent, Event
<1>. QED  BY <1>1, <1>2, <1>3

LEMMA EventWritten ==
    ASSUME EventsInOrder, NEW i \in EventIds, NEW r, IsEvent(r), events' = [events EXCEPT ![i] = r]
    PROVE  events' = [j \in EventIds |-> events'[j]] /\ \A j \in EventIds : events'[j] # None => IsEvent(events'[j])
BY DEF EventsInOrder

LEMMA PatchIs ==
    ASSUME NEW c, PatchEvent(c), ~Lose(c)
    PROVE  LET i == op[c].event
           IN pc[c] = "patching" /\ Existing(i) /\ \E r : r = [f \in DOMAIN events[i] |-> r[f]] /\ Done(c, i, r)
BY DEF PatchEvent, Done

LEMMA DeletionIs ==
    ASSUME NEW c, DeleteEvent(c), ~Lose(c)
    PROVE  LET i == op[c].event
           IN pc[c] = "deleting" /\ Existing(i) /\ \E r : r = [events[i] EXCEPT !.there = FALSE] /\ Done(c, i, r)
BY DEF DeleteEvent, Done

(* What a step of a call does to the events.                                *)
LEMMA EventChanges ==
    ASSUME NoneIsNoEvent, CallsInOrder, StationsInOrder, EventsInOrder, NEW c \in Calls, CalendarOf(c)
    PROVE  EventsInOrder' /\ Reports(c)
<1>1. EventCall(c) /\ drafts' = drafts /\ books' = books /\ versions' = versions
  BY DEF CalendarOf, mailVars, mail, sheetVars, driveVars, drive
<1>2. Stationed(c) /\ Tool(c) \in EventTools /\ \A e \in Calls \ {c} : pc'[e] = pc[e]
  BY <1>1, WhoseStep, OneCallAlone DEF StationsInOrder
<1>3. pc[c] \notin Answers \cup {"adding", "replace", "stored"}
  BY <1>1, <1>2, EventsElsewhere, WhoIsThere DEF Elsewhere, EventTools
<1>4. \A to : Goto(c, to) => pc'[c] = to
  BY DEF Goto, CallsInOrder
<1>5. Tool(c) \notin Lengthening \cup {"update"} \cup Composers \cup {"attach", "discard"}
  BY <1>2 DEF EventTools, Structural, Lengthening, Composers
<1>. DEFINE Typed == events' = [j \in EventIds |-> events'[j]] /\ \A j \in EventIds : events'[j] # None => IsEvent(events'[j])
            Looked == existing' = existing \/ \E r : existing' = [existing EXCEPT ![c] = r]
            Seen == pc'[c] \in {"drafting", "patching", "deleting"} => existing'[c] # None
            Told == /\ events' # events => pc'[c] \in {"done", "failed"}
                    /\ pc'[c] = "done" /\ Tool(c) \in {"newEvent", "deleteEvent"} => events' # events
            Fits == Typed /\ Looked /\ Seen /\ Told
<1>6. SUFFICES Fits
  BY <1>1, <1>2, <1>3, <1>5 DEF Reports, EventsInOrder
<1>7. ASSUME NEW i \in EventIds, NEW r, IsEvent(r), Done(c, i, r),
             Tool(c) \in {"newEvent", "deleteEvent"} => events[i] # r
      PROVE  Fits
  <2>1. events' = [events EXCEPT ![i] = r] /\ pc'[c] \in {"done", "failed"} /\ existing' = existing
    BY <1>4, <1>7 DEF Done
  <2>2. Typed
    BY <1>7, <2>1, EventWritten
  <2>3. events'[i] = r
    BY <1>7, <2>1 DEF EventsInOrder
  <2>. QED  BY <1>7, <2>1, <2>2, <2>3
<1>8. ASSUME Reject(c) \/ Lose(c)  PROVE Fits
  BY <1>4, <1>8 DEF Reject, Lose, eventVars, EventsInOrder
<1>9. Tool(c) \in {"changeEvent", "deleteEvent"} => op[c].event \in EventIds
  BY EventAsked DEF CallsInOrder
<1>10. /\ pc[c] \in {"drafting", "patching"} => Tool(c) = "changeEvent"
       /\ pc[c] = "deleting" => Tool(c) = "deleteEvent"
  BY <1>2, WhoIsThere
<1>11. ASSUME NEW to, Tool(c) \in {"changeEvent", "deleteEvent"}, to # "done", ReadEvent(c, to)  PROVE Fits
  <2>. DEFINE i == op[c].event
  <2>1. CASE Existing(i) /\ Goto(c, to) /\ existing' = [existing EXCEPT ![c] = events[i]] /\ events' = events
    BY <1>4, <1>9, <1>11, <2>1 DEF Existing, EventsInOrder
  <2>. HIDE DEF Fits
  <2>. QED  BY <1>8, <1>11, <2>1 DEF ReadEvent
<1>. USE DEF Under, Tool
<1>12. CASE CalendarCreateEvent(c)
  <2>1. CASE Reject(c) \/ Lose(c)
    BY <1>8, <2>1
  <2>2. CASE ~(Reject(c) \/ Lose(c))
    <3>0. \E title, start, end, place, guests : \E i \in EventIds : NewEventId(i) /\ Done(c, i, Event(title, start, end, place, guests))
      BY <1>12, <2>2 DEF CalendarCreateEvent
    <3>3. PICK i \in EventIds : \E r : NewEventId(i) /\ Done(c, i, r) /\ IsEvent(r)
      BY <3>0, EventShapes
    <3>1. PICK r : NewEventId(i) /\ Done(c, i, r) /\ IsEvent(r)
      BY <3>3
    <3>2. events[i] # r
      BY <3>1 DEF NewEventId, NoneIsNoEvent
    <3>. HIDE DEF Fits
    <3>. QED  BY <1>7, <3>1, <3>2
  <2>. QED  BY <2>1, <2>2
<1>13. CASE CalendarUpdateEvent(c) \/ CalendarDeleteEvent(c)
  <2>. HIDE DEF Fits
  <2>. QED  BY <1>11, <1>13 DEF CalendarUpdateEvent, CalendarDeleteEvent
<1>14. CASE DraftEvent(c)
  <2>1. CASE Reject(c)
    BY <1>8, <2>1
  <2>2. CASE ~Reject(c)
    <3>1. pc[c] = "drafting" /\ Goto(c, "patching") /\ events' = events /\ existing' = existing
      BY <1>14, <2>2 DEF DraftEvent
    <3>. QED  BY <1>4, <3>1 DEF EventsInOrder
  <2>. QED  BY <2>1, <2>2
<1>15. CASE PreviewEvent(c)
  BY <1>4, <1>15 DEF PreviewEvent, EventsInOrder
<1>16. CASE PatchEvent(c)
  <2>. DEFINE i == op[c].event
  <2>1. CASE Lose(c)
    BY <1>8, <2>1
  <2>2. CASE ~Lose(c)
    <3>1. PICK r : pc[c] = "patching" /\ Existing(i) /\ r = [f \in DOMAIN events[i] |-> r[f]] /\ Done(c, i, r)
      BY <1>16, <2>2, PatchIs
    <3>2. Tool(c) = "changeEvent" /\ i \in EventIds
      BY <1>9, <1>10, <3>1
    <3>3. IsEvent(r)
      BY <3>1, <3>2, EventShapes DEF Existing, EventsInOrder
    <3>. HIDE DEF Fits, i
    <3>. QED  BY <1>7, <3>1, <3>2, <3>3
  <2>. QED  BY <2>1, <2>2
<1>17. CASE DeleteEvent(c)
  <2>. DEFINE i == op[c].event
  <2>1. CASE Lose(c)
    BY <1>8, <2>1
  <2>2. CASE ~Lose(c)
    <3>1. PICK r : pc[c] = "deleting" /\ Existing(i) /\ r = [events[i] EXCEPT !.there = FALSE] /\ Done(c, i, r)
      BY <1>17, <2>2, DeletionIs
    <3>2. i \in EventIds
      BY <1>9, <1>10, <3>1
    <3>3. IsEvent(r) /\ events[i] # r
      BY <3>1, <3>2, EventShapes DEF Existing, EventsInOrder
    <3>. HIDE DEF Fits, i
    <3>. QED  BY <1>7, <3>1, <3>2, <3>3
  <2>. QED  BY <2>1, <2>2
<1>. QED  BY <1>1, <1>12, <1>13, <1>14, <1>15, <1>16, <1>17 DEF EventCall

LEMMA PeopleInEvents ==
    ASSUME EventsInOrder, PersonInCalendar, pc' = pc, existing' = existing
    PROVE  EventsInOrder'
<1>1. PICK i \in EventIds :
         /\ Existing(i)
         /\ \/ events' = [events EXCEPT ![i].guests = {"ann"}]
            \/ events' = [events EXCEPT ![i].place = "elsewhere"]
            \/ events' = [events EXCEPT ![i].there = FALSE]
  BY DEF PersonInCalendar
<1>2. IsEvent(events[i])
  BY <1>1 DEF Existing, EventsInOrder
<1>3. PICK r : IsEvent(r) /\ events' = [events EXCEPT ![i] = r]
  BY <1>1, <1>2, EventShapes
<1>4. events' = [j \in EventIds |-> events'[j]] /\ \A j \in EventIds : events'[j] # None => IsEvent(events'[j])
  BY <1>3, EventWritten
<1>. QED  BY <1>4 DEF EventsInOrder

LEMMA EventsStep ==
    ASSUME NoneIsNoEvent, CallsInOrder, StationsInOrder, EventsInOrder, [Next]_vars
    PROVE  EventsInOrder'
<1>1. ASSUME NEW c \in Calls, Drive(c) \/ SheetsOf(c) \/ Gmail(c)  PROVE EventsInOrder'
  <2>1. Stationed(c) /\ Tool(c) \notin EventTools
    BY <1>1, WhoseStep DEF StationsInOrder, Drive, SheetsOf, Gmail, DriveTools, SheetTools, Structural, MailTools, EventTools
  <2>2. Stationed(c)' /\ Tool(c)' = Tool(c) /\ \A e \in Calls \ {c} : pc'[e] = pc[e]
    BY <1>1, StationsStep, OneCallAlone DEF StationsInOrder
  <2>3. pc'[c] \notin {"drafting", "patching", "deleting"}
    <3>1. pc'[c] \in Stations(Tool(c))
      BY <2>2 DEF Stationed
    <3>. QED  BY <2>1, <3>1, ToolsThere DEF EventTools
  <2>4. events' = events /\ existing' = existing
    BY <1>1 DEF Drive, SheetsOf, Gmail, eventVars
  <2>. QED  BY <2>2, <2>3, <2>4 DEF EventsInOrder
<1>2. ASSUME NEW c \in Calls, CalendarOf(c)  PROVE EventsInOrder'
  BY <1>2, EventChanges
<1>3. CASE Others \/ Sweep \/ UNCHANGED vars
  <2>1. pc' = pc /\ existing' = existing /\ (events' = events \/ PersonInCalendar)
    BY <1>3 DEF Others, Sweep, Expire, vars, calls, eventVars
  <2>. QED  BY <2>1, PeopleInEvents DEF EventsInOrder
<1>. QED  BY <1>1, <1>2, <1>3 DEF Next

(* Drafts.                                                                 *)
LEMMA DraftAsked ==
    ASSUME op \in Ops, NEW c \in Calls
    PROVE  /\ Tool(c) \in {"rewrite", "attach", "discard"} => op[c].draft \in DraftIds
           /\ Tool(c) = "labels" => op[c].messages \in Seq(STRING)
BY CallsAskForThings DEF Tool

(* No draft there is as a call is about to write it.                         *)
LEMMA NothingAsWritten ==
    ASSUME UploadsInOrder, MailInOrder, NEW c \in Calls, pc[c] = "write", Tool(c) \in Composers \cup {"attach"},
           NEW d \in DraftIds, There(d)
    PROVE  drafts[d] # copy[c]
<1>1. SUFFICES ASSUME drafts[d] = copy[c]  PROVE FALSE
  OBVIOUS
<1>2. Kept(d) /\ drafts[d] # None /\ Holds(c) /\ Adds(c)
  BY DEF MailInOrder, There
<1>3. CASE Tool(c) \in Composers
  <2>1. copy[c].by = c
    BY <1>2, <1>3 DEF Holds
  <2>2. Ended(c)
    BY <1>1, <1>2, <2>1 DEF Kept
  <2>. QED  BY <2>2 DEF Ended
<1>4. CASE Tool(c) = "attach"
  <2>1. /\ op[c].files # {} /\ op[c].files \subseteq Uploads
        /\ copy[c] = [ReadDraft(c) EXCEPT !.from = copy[c].from, !.files = @ \cup op[c].files] /\ IsDraft(ReadDraft(c))
    BY <1>2, <1>4 DEF Adds, Writing
  <2>2. op[c].files \subseteq copy[c].files
    <3>1. "files" \in DOMAIN ReadDraft(c)
      BY <2>1 DEF IsDraft, Blank
    <3>. QED  BY <2>1, <3>1
  <2>3. PICK u \in Uploads : u \in op[c].files /\ u \in drafts[d].files /\ u \in copy[c].files
    BY <1>1, <2>1, <2>2
  <2>4. PICK e \in Calls : Took(u, e) /\ pc[e] \in {"done", "failed"}
    BY <1>2, <2>3 DEF Kept, Gone
  <2>5. Took(u, c)
    BY <1>4, <2>3 DEF Took, FilesOf
  <2>6. e = c
    BY <2>3, <2>4, <2>5 DEF UploadsInOrder, Accounted, TakenOnce
  <2>. QED  BY <2>4, <2>6
<1>. QED  BY <1>3, <1>4

LEMMA DiscardIs ==
    ASSUME NEW c, GmailDeleteDraft(c)
    PROVE  /\ Tool(c) = "discard"
           /\ Give(c) \/ There(op[c].draft)
           /\ Give(c) \/ \E r : r = [Blank EXCEPT !.there = FALSE] /\ Written(c, op[c].draft, r)
<1>1. Tool(c) = "discard"
  BY DEF GmailDeleteDraft, Under, Tool
<1>2. Give(c) \/ There(op[c].draft)
  BY DEF GmailDeleteDraft
<1>3. Give(c) \/ \E r : r = [Blank EXCEPT !.there = FALSE] /\ Written(c, op[c].draft, r)
  BY DEF GmailDeleteDraft
<1>. QED  BY <1>1, <1>2, <1>3

LEMMA MailReports ==
    ASSUME NoneIsNoDraft, UploadsInOrder, StationsInOrder, MailInOrder, NEW c \in Calls, Gmail(c)
    PROVE  Reports(c)
<1>1. DraftCall(c) /\ Recorded(c) /\ books' = books /\ events' = events /\ versions' = versions
  BY DEF Gmail, sheetVars, eventVars, driveVars, drive
<1>2. CallsInOrder /\ DraftsInOrder /\ Stationed(c)
  BY DEF UploadsInOrder, StationsInOrder
<1>3. Tool(c) \in MailTools /\ pc[c] \notin Answers
  BY <1>1, <1>2, WhoseStep, MailMoves DEF MovesOn
<1>4. pc[c] \notin {"adding", "replace", "stored"}
  BY <1>2, <1>3, WhoIsThere DEF MailTools
<1>5. \A to : Goto(c, to) => pc'[c] = to
  BY <1>2 DEF Goto, CallsInOrder
<1>6. Tool(c) \notin Lengthening \cup {"newEvent", "deleteEvent", "update"}
  BY <1>3 DEF MailTools, Structural, Lengthening
<1>. DEFINE Fits == /\ drafts' # drafts => pc'[c] \in {"done", "failed"}
                    /\ pc'[c] = "done" /\ Tool(c) # "labels" => drafts' # drafts
<1>7. SUFFICES Fits
  BY <1>1, <1>3, <1>4, <1>6 DEF Reports, Composers
<1>8. ASSUME NEW to, Goto(c, to), to # "done", drafts' = drafts  PROVE Fits
  BY <1>5, <1>8
<1>9. ASSUME Decline(c) \/ Give(c)  PROVE Fits
  BY <1>8, <1>9 DEF Decline, Give, mailVars, mail
<1>10. ASSUME NEW to, NEW r, Hold(c, to, r), to # "done"  PROVE Fits
  BY <1>8, <1>10 DEF Hold, mail
<1>11. ASSUME NEW d \in DraftIds, NEW r, Written(c, d, r), drafts[d] # r  PROVE Fits
  <2>1. drafts' = [drafts EXCEPT ![d] = r] /\ pc'[c] \in {"done", "failed"}
    BY <1>5, <1>11 DEF Written
  <2>2. drafts'[d] # drafts[d]
    BY <1>2, <1>11, <2>1 DEF DraftsInOrder
  <2>. QED  BY <2>1, <2>2
<1>. USE DEF Under, Tool
<1>. HIDE DEF Fits
<1>13. CASE GmailCreateDraft(c) \/ GmailReplyDraft(c) \/ GmailUpdateDraft(c)
  <2>1. Decline(c) \/ Give(c) \/ \E r : Hold(c, "take", r)
    BY <1>13 DEF GmailCreateDraft, GmailReplyDraft, GmailUpdateDraft
  <2>. QED  BY <1>9, <1>10, <2>1
<1>14. CASE GmailAttachToDraft(c) \/ Weigh(c)
  <2>1. Decline(c) \/ Give(c) \/ \E to \in {"weigh", "take"} : \E r : Hold(c, to, r)
    BY <1>14 DEF GmailAttachToDraft, Weigh
  <2>. QED  BY <1>9, <1>10, <2>1
<1>15. CASE TakeFiles(c)
  BY <1>8, <1>9, <1>15 DEF TakeFiles, mail
<1>16. CASE WriteDraft(c)
  <2>1. pc[c] = "write" /\ Tool(c) \in Composers \cup {"attach"}
    BY <1>2, <1>16, WhoIsThere DEF WriteDraft, Composers
  <2>2. CASE Give(c)
    BY <1>9, <2>2
  <2>3. ASSUME NEW d \in DraftIds, NextId(d), Written(c, d, copy[c])  PROVE Fits
    <3>1. drafts[d] # copy[c]
      BY <1>2, <2>3 DEF NextId, NoneIsNoDraft, CallsInOrder
    <3>. QED  BY <1>11, <2>3, <3>1
  <2>4. ASSUME Tool(c) \notin {"create", "reply"}, There(op[c].draft), Written(c, op[c].draft, copy[c])  PROVE Fits
    <3>1. op[c].draft \in DraftIds
      BY <1>2, <2>1, <2>4, DraftAsked DEF Composers, CallsInOrder
    <3>. QED  BY <1>11, <2>1, <2>4, <3>1, NothingAsWritten
  <2>. QED  BY <1>16, <2>2, <2>3, <2>4 DEF WriteDraft
<1>17. CASE GmailDeleteDraft(c)
  <2>1. CASE Give(c)
    BY <1>9, <2>1
  <2>2. CASE ~Give(c)
    <3>1. PICK r : r = [Blank EXCEPT !.there = FALSE] /\ Written(c, op[c].draft, r)
      BY <1>17, <2>2, DiscardIs
    <3>2. r.there = FALSE
      BY <3>1 DEF Blank
    <3>3. Tool(c) = "discard" /\ There(op[c].draft)
      BY <1>17, <2>2, DiscardIs
    <3>4. op[c].draft \in DraftIds
      BY <1>2, <3>3, DraftAsked DEF CallsInOrder
    <3>. QED  BY <1>11, <3>1, <3>2, <3>3, <3>4 DEF There
  <2>. QED  BY <2>1, <2>2
<1>18. CASE GmailModifyLabels(c)
  BY <1>9, <1>10, <1>18 DEF GmailModifyLabels
<1>19. CASE Label(c)
  BY <1>19 DEF Label, Unasked, calls, Fits
<1>20. CASE Labelled(c)
  <2>1. Tool(c) = "labels"
    BY <1>2, <1>20, WhoIsThere DEF Labelled
  <2>. QED  BY <1>5, <1>9, <1>20, <2>1 DEF Labelled, Hold, mail, Fits
<1>. QED  BY <1>1, <1>13, <1>14, <1>15, <1>16, <1>17, <1>18, <1>19, <1>20 DEF DraftCall

(* Labels: a message is told of once it has been asked for, and not before.   *)
IsTold(r) == r = [f \in DOMAIN Untold |-> r[f]]

Counted(c) ==
    LET m == op[c].messages
        t == told[c]
    IN Tool(c) = "labels" =>
          /\ IsTold(t) /\ t.asked \in 0 .. Len(m)
          /\ t.modified \cup t.failed = {m[k] : k \in 1 .. t.asked}
          /\ pc[c] \in {"called", "refused", "failed"} => t.modified = {}
          /\ pc[c] = "done" => t.asked = Len(m) /\ t.modified # {}

ToldInOrder == told = [c \in Calls |-> told[c]] /\ \A c \in Calls : Counted(c)

LEMMA ToldOneMore ==
    ASSUME NEW m, NEW n \in Nat, NEW r, NEW one, one = m[n + 1], r = {m[k] : k \in 1 .. n}
    PROVE  r \cup {one} = {m[k] : k \in 1 .. n + 1}
<1>1. 1 .. n + 1 = (1 .. n) \cup {n + 1}
  OBVIOUS
<1>. QED  BY <1>1

LEMMA Telling ==
    ASSUME ToldInOrder, op \in Ops, NEW c \in Calls, Tool(c) = "labels", Unasked(c), op' = op, pc' = pc,
           NEW which \in {"modified", "failed"}, Tell(c, op[c].messages[told[c].asked + 1], which)
    PROVE  ToldInOrder'
<1>. DEFINE m == op[c].messages
            t == told[c]
            one == m[t.asked + 1]
            new == told'[c]
<1>1. /\ IsTold(t) /\ t.asked \in 0 .. Len(m) /\ t.asked < Len(m) /\ pc[c] = "labelling"
      /\ t.modified \cup t.failed = {m[k] : k \in 1 .. t.asked}
  BY DEF ToldInOrder, Counted, Unasked
<1>2. Len(m) \in Nat
  BY DraftAsked
<1>3. /\ told' = [e \in Calls |-> told'[e]] /\ \A e \in Calls \ {c} : told'[e] = told[e]
      /\ new = [[t EXCEPT !.asked = @ + 1] EXCEPT ![which] = @ \cup {one}]
  BY DEF ToldInOrder, Tell
<1>4. IsTold(new) /\ new.asked = t.asked + 1 /\ new.modified \cup new.failed = (t.modified \cup t.failed) \cup {one}
  <2>. HIDE DEF new, one, t
  <2>. QED  BY <1>1, <1>3 DEF IsTold, Untold
<1>5. t.asked \in Nat /\ t.asked + 1 \in 0 .. Len(m)
  BY <1>1, <1>2
<1>6. (t.modified \cup t.failed) \cup {one} = {m[k] : k \in 1 .. t.asked + 1}
  BY <1>1, <1>5, ToldOneMore
<1>7. Counted(c)'
  <2>. HIDE DEF new, t, one, m
  <2>1. op'[c].messages = m /\ told'[c] = new /\ pc'[c] = "labelling"
    BY <1>1 DEF m, new
  <2>. QED  BY <1>4, <1>5, <1>6, <2>1 DEF Counted
<1>8. \A e \in Calls \ {c} : Counted(e)'
  BY <1>3 DEF ToldInOrder, Counted, Tool
<1>. QED  BY <1>3, <1>7, <1>8 DEF ToldInOrder

LEMMA OneTold ==
    ASSUME ToldInOrder, told' = told, NEW c, op' = op, \A e \in Calls \ {c} : pc'[e] = pc[e],
           c \in Calls => Counted(c)'
    PROVE  ToldInOrder'
BY DEF ToldInOrder, Counted, Tool

LEMMA ToldStep ==
    ASSUME CallsInOrder, StationsInOrder, ToldInOrder, [Next]_vars
    PROVE  ToldInOrder'
<1>1. ASSUME NEW c \in Calls, Drive(c) \/ SheetsOf(c) \/ Gmail(c) \/ CalendarOf(c), Tool(c) # "labels", told' = told
      PROVE  ToldInOrder'
  <2>1. op' = op /\ (\A e \in Calls \ {c} : pc'[e] = pc[e]) /\ Tool(c)' = Tool(c)
    BY <1>1, OneCallAlone
  <2>. QED  BY <1>1, <2>1, OneTold DEF Counted
<1>2. ASSUME NEW c \in Calls, Drive(c) \/ SheetsOf(c) \/ CalendarOf(c)  PROVE ToldInOrder'
  <2>1. Stationed(c) /\ told' = told
    BY <1>2 DEF StationsInOrder, Drive, SheetsOf, CalendarOf, mailVars
  <2>2. Tool(c) # "labels"
    BY <1>2, <2>1, WhoseStep DEF Drive, SheetsOf, CalendarOf, DriveTools, SheetTools, Structural, EventTools
  <2>. QED  BY <1>1, <1>2, <2>1, <2>2
<1>3. ASSUME NEW c \in Calls, Gmail(c)  PROVE ToldInOrder'
  <2>1. DraftCall(c) /\ Stationed(c) /\ op' = op /\ (\A e \in Calls \ {c} : pc'[e] = pc[e]) /\ Tool(c)' = Tool(c)
    BY <1>3, OneCallAlone DEF StationsInOrder, Gmail
  <2>2. \A to : Goto(c, to) => pc'[c] = to
    BY DEF Goto, CallsInOrder
  <2>3. CASE GmailCreateDraft(c) \/ GmailReplyDraft(c) \/ GmailUpdateDraft(c) \/ GmailAttachToDraft(c)
    <3>1. Tool(c) # "labels" /\ told' = told
      BY <2>3 DEF GmailCreateDraft, GmailReplyDraft, GmailUpdateDraft, GmailAttachToDraft, Under, Tool, Decline, Give, Hold, mailVars
    <3>. QED  BY <1>1, <1>3, <3>1
  <2>4. CASE Weigh(c) \/ TakeFiles(c) \/ WriteDraft(c)
    <3>1. pc[c] \in {"weigh", "take", "write"} /\ told' = told
      BY <2>4 DEF Weigh, TakeFiles, WriteDraft, Decline, Give, Hold, Written, mailVars
    <3>2. Tool(c) # "labels"
      BY <2>1, <3>1, WhoIsThere
    <3>. QED  BY <1>1, <1>3, <3>1, <3>2
  <2>5. CASE GmailDeleteDraft(c)
    <3>1. Tool(c) # "labels" /\ told' = told
      BY <2>5 DEF GmailDeleteDraft, Under, Tool, Give, Written, mailVars
    <3>. QED  BY <1>1, <1>3, <3>1
  <2>6. CASE GmailModifyLabels(c)
    <3>1. pc[c] = "called" /\ told' = told /\ pc'[c] \in {"refused", "failed", "labelling"}
      BY <2>2, <2>6 DEF GmailModifyLabels, Under, Decline, Give, Hold, mailVars
    <3>2. Counted(c)'
      BY <2>1, <3>1 DEF ToldInOrder, Counted
    <3>. QED  BY <2>1, <3>1, <3>2, OneTold
  <2>7. CASE Label(c)
    <3>1. Tool(c) = "labels" /\ Unasked(c) /\ pc' = pc /\ op' = op
      BY <2>1, <2>7, WhoIsThere DEF Label, Unasked, calls
    <3>2. PICK which \in {"modified", "failed"} : Tell(c, op[c].messages[told[c].asked + 1], which)
      BY <2>7 DEF Label
    <3>. QED  BY <3>1, <3>2, Telling DEF CallsInOrder
  <2>8. CASE Labelled(c)
    <3>1. pc[c] = "labelling" /\ ~Unasked(c) /\ told' = told /\ Tool(c) = "labels"
          /\ pc'[c] = IF told[c].modified = {} THEN "failed" ELSE "done"
      BY <2>1, <2>2, <2>8, WhoIsThere DEF Labelled, Give, Hold, mailVars
    <3>2. Len(op[c].messages) \in Nat
      BY <3>1, DraftAsked DEF CallsInOrder
    <3>3. /\ IsTold(told[c]) /\ told[c].asked \in 0 .. Len(op[c].messages)
          /\ told[c].modified \cup told[c].failed = {op[c].messages[k] : k \in 1 .. told[c].asked}
      BY <3>1 DEF ToldInOrder, Counted
    <3>4. told[c].asked = Len(op[c].messages)
      BY <3>1, <3>2, <3>3 DEF Unasked
    <3>5. Counted(c)'
      BY <2>1, <3>1, <3>3, <3>4 DEF Counted
    <3>. QED  BY <2>1, <3>1, <3>5, OneTold
  <2>. QED  BY <2>1, <2>3, <2>4, <2>5, <2>6, <2>7, <2>8 DEF DraftCall
<1>4. CASE Others \/ Sweep \/ UNCHANGED vars
  <2>1. op' = op /\ pc' = pc /\ told' = told
    BY <1>4 DEF Others, Sweep, Expire, vars, calls, mailVars
  <2>. QED  BY <2>1 DEF ToldInOrder, Counted, Tool
<1>. QED  BY <1>2, <1>3, <1>4 DEF Next

LEMMA ToldInit == Init => ToldInOrder
<1>1. SUFFICES ASSUME Init  PROVE ToldInOrder
  OBVIOUS
<1>2. op \in Ops /\ told = [c \in Calls |-> Untold] /\ \A c \in Calls : pc[c] = "called"
  BY <1>1 DEF Init, DraftsInit
<1>3. IsTold(Untold) /\ Untold.asked = 0 /\ Untold.modified = {} /\ Untold.failed = {}
  BY DEF IsTold, Untold
<1>4. ASSUME NEW c \in Calls, Tool(c) = "labels"  PROVE Counted(c)
  <2>1. Len(op[c].messages) \in Nat
    BY <1>2, <1>4, DraftAsked
  <2>2. {op[c].messages[k] : k \in 1 .. 0} = {}
    OBVIOUS
  <2>3. told[c] = Untold
    BY <1>2
  <2>. QED  BY <1>2, <1>3, <2>1, <2>2, <2>3 DEF Counted
<1>. QED  BY <1>2, <1>4 DEF ToldInOrder, Counted

(***************************************************************************)
(* What is kept of every answer.                                            *)
AnswersKept ==
    /\ CallsKept /\ ThreadsInOrder /\ MailInOrder /\ BooksKept /\ FilesKnown /\ EventsInOrder /\ ToldInOrder
    /\ did = [c \in Calls |-> did[c]]
    /\ \A c \in Calls : Reported(c)

LEMMA AnswersInit == Init => AnswersKept
<1>1. SUFFICES ASSUME Init  PROVE AnswersKept
  OBVIOUS
<1>2. CallsKept /\ ThreadsInOrder /\ MailInOrder /\ BooksKept /\ ToldInOrder
  BY <1>1, CallsKeptInit, MailInit, BooksInit, ToldInit DEF Init, ThreadsInOrder, InThread, Writing
<1>3. FilesKnown
  BY <1>1, FilesHaveVersions DEF Init, DriveInit, FilesKnown, Drawn
<1>4. EventsInOrder
  BY <1>1, CalendarHoldsEvents DEF Init, CalendarInit, EventsInOrder
<1>5. \A c \in Calls : pc[c] = "called" /\ did[c] = {}
  BY <1>1 DEF Init
<1>. QED  BY <1>1, <1>2, <1>3, <1>4, <1>5 DEF AnswersKept, Reported, Init

LEMMA AnswersStep ==
    ASSUME NoneIsNoItem, NoneIsNoDraft, NoneIsNoEvent, AnswersKept, [Next]_vars
    PROVE  AnswersKept'
<1>1. /\ CallsKept /\ ThreadsInOrder /\ MailInOrder /\ BooksKept /\ FilesKnown /\ EventsInOrder /\ ToldInOrder
      /\ UploadsInOrder /\ CallsInOrder /\ StationsInOrder /\ PinsInOrder /\ VersionsInOrder
  BY DEF AnswersKept, CallsKept, UploadsInOrder, PinsInOrder
<1>2. /\ CallsKept' /\ ThreadsInOrder' /\ MailInOrder' /\ BooksKept' /\ FilesKnown' /\ EventsInOrder' /\ ToldInOrder'
      /\ WritersStay /\ ItemsStay
  BY <1>1, CallsKeptStep, ThreadsStep, MailStep, BooksStep, FilesStep, EventsStep, ToldStep, ItemsLast
<1>3. ASSUME NEW c \in Calls, Drive(c) \/ SheetsOf(c) \/ Gmail(c) \/ CalendarOf(c)
      PROVE  did' = [e \in Calls |-> did'[e]] /\ \A e \in Calls : Reported(e)'
  <2>1. Recorded(c) /\ op' = op /\ \A e \in Calls \ {c} : pc'[e] = pc[e]
    BY <1>1, <1>3, OneCallAlone DEF Drive, SheetsOf, Gmail, CalendarOf
  <2>2. did' = [e \in Calls |-> did'[e]] /\ \A e \in Calls \ {c} : did'[e] = did[e]
    BY <2>1 DEF Recorded, AnswersKept
  <2>3. Reports(c)
    BY <1>1, <1>2, <1>3, DriveReports, SheetsReport, MailReports, EventChanges
  <2>4. Reported(c)'
    BY <1>1, <1>2, <2>1, <2>3, ReportedStep DEF AnswersKept
  <2>5. \A e \in Calls \ {c} : Reported(e)'
    BY <1>1, <1>2, <2>1, <2>2, ReportedStays DEF AnswersKept
  <2>. QED  BY <2>2, <2>4, <2>5
<1>4. CASE Others \/ Sweep \/ UNCHANGED vars
  <2>1. did' = did /\ op' = op /\ pc' = pc
    BY <1>4 DEF Others, Sweep, Expire, vars, calls
  <2>2. \A e \in Calls : Reported(e)'
    BY <1>1, <1>2, <2>1, ReportedStays DEF AnswersKept
  <2>. QED  BY <1>2, <2>1, <2>2 DEF AnswersKept
<1>5. did' = [e \in Calls |-> did'[e]] /\ \A e \in Calls : Reported(e)'
  BY <1>3, <1>4 DEF Next, AnswersKept
<1>. QED  BY <1>2, <1>5 DEF AnswersKept

LEMMA AnswersStayKept ==
    ASSUME NoneIsNoItem, NoneIsNoDraft, NoneIsNoEvent
    PROVE  Spec => []AnswersKept
<1>1. Init => AnswersKept
  BY AnswersInit
<1>2. AnswersKept /\ [Next]_vars => AnswersKept'
  BY AnswersStep
<1>. QED  BY <1>1, <1>2, PTL DEF Spec

(* What a call is answered is so, whatever people and other calls did         *)
(* meanwhile: a refusal left what it says it left, a call that is done did    *)
(* the whole of what was asked, and labels are told of message by message     *)
(* (mcp/drive.rs, mcp/gmail.rs, mcp/sheets.rs, mcp/calendar.rs).              *)
THEOREM AnswersStayTrue ==
    ASSUME NoneIsNoItem, NoneIsNoDraft, NoneIsNoEvent
    PROVE  Spec => []AnswersAreTrue
<1>1. ASSUME AnswersKept  PROVE AnswersAreTrue
  <2>. DEFINE Refused(c) ==
                /\ PutBy(c) = Range(job[c].made)
                /\ did[c] \cap {"draft", "book", "event"} = {} /\ ("version" \in did[c] => PutBy(c) # {})
                /\ \A u \in Uploads : c \notin Takers(u)
              Did(c) ==
                /\ Tool(c) \in {"upload", "newDoc", "newBook"} => Cardinality(PutBy(c) \ Range(job[c].made)) = 1
                /\ Tool(c) = "folder" => PutBy(c) = Range(job[c].made)
                /\ Tool(c) = "newBook" => \A t \in Range(op[c].tabs) \ {""} : Titled(books[job[c].place], t) # {} \/ t \in missing[c]
                /\ Tool(c) \in {"appendRows", "insertRows", "deleteRows", "addTab"} => "book" \in did[c]
                /\ Tool(c) \in {"newEvent", "deleteEvent"} => "event" \in did[c]
                /\ Tool(c) = "update" => \E v \in DOMAIN versions[op[c].file] : versions[op[c].file][v].by = c
                /\ Tool(c) \in {"create", "reply", "rewrite", "attach", "discard"} => "draft" \in did[c]
                /\ Tool(c) = "labels" => told[c].modified \cup told[c].failed = Range(op[c].messages)
  <2>1. SUFFICES ASSUME NEW c \in Calls
                 PROVE  /\ pc[c] = "refused" => Refused(c)
                        /\ pc[c] = "done" => Did(c)
                        /\ Tool(c) = "newBook" /\ pc[c] = "failed" => job[c].place = Root
                        /\ Tool(c) = "labels" /\ pc[c] \in Answers => (told[c].modified # {} <=> pc[c] = "done")
    BY DEF AnswersAreTrue
  <2>2. Reported(c) /\ Tells(c) /\ Adding(c) /\ Counted(c) /\ op \in Ops
    BY <1>1 DEF AnswersKept, CallsKept, FoldersInOrder, CallPlaces, BooksKept, ToldInOrder, UploadsInOrder, CallsInOrder
  <2>3. Extra(c) = PutBy(c) \ Range(job[c].made) /\ Range(job[c].made) \subseteq PutBy(c)
    BY <2>2 DEF Extra, Tells, MadeBy
  <2>4. ASSUME pc[c] = "refused"  PROVE Refused(c)
    <3>1. Extra(c) = {}
      BY <2>2, <2>4 DEF Tells
    <3>2. PutBy(c) = Range(job[c].made)
      BY <2>3, <3>1
    <3>3. \A u \in Uploads : c \notin Takers(u)
      BY <2>4 DEF Takers
    <3>4. did[c] \cap {"draft", "book", "event"} = {} /\ ("version" \in did[c] => PutBy(c) # {})
      BY <2>2, <2>4 DEF Reported
    <3>. QED  BY <3>2, <3>3, <3>4
  <2>5. ASSUME pc[c] = "done"  PROVE Did(c)
    <3>1. ASSUME Tool(c) \in {"upload", "newDoc", "newBook"}  PROVE Cardinality(PutBy(c) \ Range(job[c].made)) = 1
      <4>1. Extra(c) # {} /\ \A i, j \in Extra(c) : i = j
        BY <2>2, <2>5, <3>1 DEF Tells, Placers
      <4>2. PICK i : Extra(c) = {i}
        BY <4>1
      <4>. QED  BY <2>3, <4>2, FS_Singleton
    <3>2. Tool(c) = "folder" => PutBy(c) = Range(job[c].made)
      <4>1. Tool(c) = "folder" => Extra(c) = {}
        BY <2>2, <2>5 DEF Tells
      <4>. QED  BY <2>3, <4>1
    <3>3. Tool(c) = "newBook" => \A t \in Range(op[c].tabs) \ {""} : Titled(books[job[c].place], t) # {} \/ t \in missing[c]
      <4>1. Range(<<>>) = {}
        BY DEF Range
      <4>. QED  BY <2>2, <2>5, <4>1 DEF Adding
    <3>4. Tool(c) = "labels" => told[c].modified \cup told[c].failed = Range(op[c].messages)
      <4>1. SUFFICES ASSUME Tool(c) = "labels"  PROVE told[c].modified \cup told[c].failed = Range(op[c].messages)
        OBVIOUS
      <4>2. op[c].messages \in Seq(STRING)
        BY <2>2, <4>1, DraftAsked
      <4>3. told[c].modified \cup told[c].failed = {op[c].messages[k] : k \in 1 .. Len(op[c].messages)}
        BY <2>2, <2>5, <4>1 DEF Counted
      <4>. QED  BY <4>2, <4>3 DEF Range
    <3>5. /\ Tool(c) \in {"appendRows", "insertRows", "deleteRows", "addTab"} => "book" \in did[c]
          /\ Tool(c) \in {"newEvent", "deleteEvent"} => "event" \in did[c]
          /\ Tool(c) = "update" => \E v \in DOMAIN versions[op[c].file] : versions[op[c].file][v].by = c
          /\ Tool(c) \in {"create", "reply", "rewrite", "attach", "discard"} => "draft" \in did[c]
      BY <2>2, <2>5 DEF Reported, Lengthening, Composers, WrittenBy
    <3>. QED  BY <3>1, <3>2, <3>3, <3>4, <3>5
  <2>6. Tool(c) = "newBook" /\ pc[c] = "failed" => job[c].place = Root
    BY <2>2 DEF Adding
  <2>7. Tool(c) = "labels" /\ pc[c] \in Answers => (told[c].modified # {} <=> pc[c] = "done")
    BY <2>2 DEF Counted, Answers
  <2>. QED  BY <2>4, <2>5, <2>6, <2>7
<1>2. Spec => []AnswersKept
  BY AnswersStayKept
<1>. QED  BY <1>1, <1>2, PTL

(***************************************************************************)
(* What is left of the shape of the variables.                              *)
LabelsThere == DOMAIN labels = DOMAIN LabelsOf
RestInOrder ==
    /\ expired \subseteq Uploads /\ staged \cap expired = {}
    /\ LabelsThere /\ others \in 0 .. MaxOthers

LEMMA RestInit == Init => RestInOrder
BY OthersAreCounted DEF Init, DraftsInit, RestInOrder, LabelsThere

(* A call spends uploads, and no call lets one expire.                       *)
LEMMA UploadsSpent ==
    ASSUME CallsInOrder, DraftsInOrder, NEW c \in Calls, Drive(c) \/ SheetsOf(c) \/ Gmail(c) \/ CalendarOf(c)
    PROVE  staged' \subseteq staged /\ expired' = expired
<1>1. Elsewhere(c) => staged' \subseteq staged /\ expired' = expired
  BY DEF Elsewhere
<1>2. CASE Drive(c) \/ SheetsOf(c) \/ CalendarOf(c)
  BY <1>1, <1>2, DriveElsewhere, SheetsElsewhere, EventsElsewhere DEF Drive, SheetsOf, CalendarOf
<1>3. CASE Gmail(c)
  <2>. USE DEF Decline, Give, Hold, Unspent, Spent, Written
  <2>0. DraftCall(c)
    BY <1>3 DEF Gmail
  <2>1. CASE GmailCreateDraft(c)  BY <2>1 DEF GmailCreateDraft
  <2>2. CASE GmailReplyDraft(c)  BY <2>2 DEF GmailReplyDraft
  <2>3. CASE GmailUpdateDraft(c)  BY <2>3 DEF GmailUpdateDraft
  <2>4. CASE GmailAttachToDraft(c)  BY <2>4 DEF GmailAttachToDraft
  <2>5. CASE Weigh(c)  BY <2>5 DEF Weigh
  <2>6. CASE TakeFiles(c)  BY <2>6 DEF TakeFiles
  <2>7. CASE WriteDraft(c)  BY <2>7 DEF WriteDraft
  <2>8. CASE GmailDeleteDraft(c)  BY <2>8 DEF GmailDeleteDraft
  <2>9. CASE GmailModifyLabels(c)  BY <2>9 DEF GmailModifyLabels
  <2>10. CASE Label(c)  BY <2>10 DEF Label
  <2>11. CASE Labelled(c)  BY <2>11 DEF Labelled
  <2>. QED  BY <2>0, <2>1, <2>2, <2>3, <2>4, <2>5, <2>6, <2>7, <2>8, <2>9, <2>10, <2>11 DEF DraftCall
<1>. QED  BY <1>2, <1>3

(* Messages are labelled anew, and no other than before have labels.         *)
LEMMA LabelsStay ==
    ASSUME LabelsThere, [Next]_vars
    PROVE  LabelsThere'
<1>1. ASSUME NEW c \in Calls, DraftCall(c)  PROVE LabelsThere'
  <2>1. ASSUME labels' = labels  PROVE LabelsThere'
    BY <2>1 DEF LabelsThere
  <2>. USE <2>1 DEF Decline, Give, Hold, Written, mailVars, mail
  <2>2. CASE GmailCreateDraft(c)  BY <2>2 DEF GmailCreateDraft
  <2>3. CASE GmailReplyDraft(c)  BY <2>3 DEF GmailReplyDraft
  <2>4. CASE GmailUpdateDraft(c)  BY <2>4 DEF GmailUpdateDraft
  <2>5. CASE GmailAttachToDraft(c)  BY <2>5 DEF GmailAttachToDraft
  <2>6. CASE Weigh(c)  BY <2>6 DEF Weigh
  <2>7. CASE TakeFiles(c)  BY <2>7 DEF TakeFiles
  <2>8. CASE WriteDraft(c)  BY <2>8 DEF WriteDraft
  <2>9. CASE GmailDeleteDraft(c)  BY <2>9 DEF GmailDeleteDraft
  <2>10. CASE GmailModifyLabels(c)  BY <2>10 DEF GmailModifyLabels
  <2>11. CASE Label(c)
    <3>1. ASSUME NEW m, Relabel(m, op[c])  PROVE LabelsThere'
      BY <3>1 DEF Relabel, LabelsThere
    <3>. QED  BY <2>11, <3>1 DEF Label
  <2>12. CASE Labelled(c)  BY <2>12 DEF Labelled
  <2>. QED  BY <1>1, <2>2, <2>3, <2>4, <2>5, <2>6, <2>7, <2>8, <2>9, <2>10, <2>11, <2>12 DEF DraftCall
<1>2. (\E c \in Calls : DraftCall(c)) \/ labels' = labels
  <2>1. ASSUME NEW c \in Calls, Drive(c) \/ SheetsOf(c) \/ CalendarOf(c)  PROVE labels' = labels
    BY <2>1 DEF Drive, SheetsOf, CalendarOf, mailVars, mail
  <2>2. Others => labels' = labels
    BY DEF Others, mail, PersonEdits, PersonAttaches, PersonSends
  <2>3. Sweep \/ UNCHANGED vars => labels' = labels
    BY DEF Sweep, vars, mailVars, mail
  <2>. QED  BY <2>1, <2>2, <2>3 DEF Next, Gmail
<1>. QED  BY <1>1, <1>2 DEF LabelsThere

LEMMA RestStep ==
    ASSUME AnswersKept, RestInOrder, [Next]_vars
    PROVE  RestInOrder'
<1>1. CallsInOrder /\ DraftsInOrder /\ staged \subseteq Uploads
  BY DEF AnswersKept, CallsKept, UploadsInOrder, MailInOrder
<1>2. LabelsThere'
  BY LabelsStay DEF RestInOrder
<1>3. others' \in 0 .. MaxOthers
  <2>1. others' = others \/ (others < MaxOthers /\ others' = others + 1)
    <3>1. ASSUME NEW c \in Calls, Drive(c) \/ SheetsOf(c) \/ Gmail(c) \/ CalendarOf(c)  PROVE others' = others
      BY <3>1 DEF Drive, SheetsOf, Gmail, CalendarOf, Recorded
    <3>2. Others => others < MaxOthers /\ others' = others + 1
      BY DEF Others
    <3>3. Sweep \/ UNCHANGED vars => others' = others
      BY DEF Sweep, vars
    <3>. QED  BY <3>1, <3>2, <3>3 DEF Next
  <2>. QED  BY <2>1, OthersAreCounted DEF RestInOrder
<1>4. expired' \subseteq Uploads /\ staged' \cap expired' = {}
  <2>1. CASE \E c \in Calls : Drive(c) \/ SheetsOf(c) \/ Gmail(c) \/ CalendarOf(c)
    BY <1>1, <2>1, UploadsSpent DEF RestInOrder
  <2>2. CASE Others \/ UNCHANGED vars
    BY <2>2 DEF Others, vars, RestInOrder
  <2>3. CASE Sweep
    BY <1>1, <2>3 DEF Sweep, Expire, RestInOrder
  <2>. QED  BY <2>1, <2>2, <2>3 DEF Next
<1>. QED  BY <1>2, <1>3, <1>4 DEF RestInOrder

LEMMA AllStations ==
    ASSUME NEW tool
    PROVE  Stations(tool) \subseteq
             Answers \cup {"called", "destination", "path", "planned", "stored", "revisable",
                           "history", "pin", "replace", "weigh", "take", "write", "labelling",
                           "tab", "change", "adding", "drafting", "patching", "deleting"}
BY DEF Stations, Answers

(* Whatever a call writes, it writes as somebody.                            *)
LEMMA SomebodyWrites ==
    ASSUME CallsInOrder, StationsInOrder, MailInOrder, NEW c \in Calls, pc[c] = "write"
    PROVE  copy[c].from # None
<1>1. Tool(c) \in Composers \cup {"attach"}
  BY WhoIsThere DEF StationsInOrder, Composers
<1>2. CASE Tool(c) = "attach"
  BY <1>2 DEF MailInOrder, Adds, Writing
<1>3. CASE Tool(c) \in Composers
  <2>1. Addressed(c, copy[c])
    BY <1>3 DEF MailInOrder, Holds
  <2>. QED  BY <2>1, NobodyNone, AliasesAreAddresses DEF Addressed
<1>. QED  BY <1>1, <1>2, <1>3

(* Every variable keeps its shape; a version is known for every file and for *)
(* nothing else, what is in Drive has its place in what was there before it, *)
(* a spreadsheet's tabs are a spreadsheet's, and a call that changes a tab or *)
(* an event has found it (mcp/drive.rs, mcp/gmail.rs, mcp/sheets.rs,          *)
(* mcp/calendar.rs).                                                         *)
THEOREM ToolsTyped ==
    ASSUME NoneIsNoItem, NoneIsNoDraft, NoneIsNoEvent
    PROVE  Spec => []TypeOK
<1>1. ASSUME AnswersKept, RestInOrder  PROVE TypeOK
  <2>1. /\ CallsInOrder /\ StationsInOrder /\ VersionsInOrder /\ Forest /\ MailInOrder /\ DraftsInOrder
        /\ BooksInOrder /\ FilesKnown /\ EventsInOrder
        /\ \A c \in Calls : Underway(c) /\ Tabbed(c)
    BY <1>1 DEF AnswersKept, CallsKept, UploadsInOrder, PlacesInOrder, FoldersInOrder, CallPlaces, PinsInOrder, BooksKept
  <2>2. pc \in [Calls -> Answers \cup {"called", "destination", "path", "planned", "stored", "revisable",
                                      "history", "pin", "replace", "weigh", "take", "write", "labelling",
                                      "tab", "change", "adding", "drafting", "patching", "deleting"}]
    BY <2>1, AllStations DEF StationsInOrder, Stationed
  <2>3. op \in Ops /\ staged \subseteq Uploads /\ expired \subseteq Uploads /\ staged \cap expired = {}
    BY <1>1, <2>1 DEF CallsInOrder, MailInOrder, RestInOrder
  <2>4. \A i \in Ids : /\ versions[i] \in Seq(Versions)
                       /\ versions[i] # <<>> <=> i \in Drawn /\ items[i].type \notin Google
    BY <2>1 DEF VersionsInOrder, FilesKnown
  <2>5. binned \subseteq Drawn /\ \A i \in Drawn : items[i].parent \in Drawn \cup {Root} /\ items[i].parent < i
    BY <2>1 DEF Forest, ForestOf
  <2>6. \A c \in Calls : job[c].place \in Drawn \cup {Root} /\ Range(job[c].made) \subseteq Drawn
    <3>1. SUFFICES ASSUME NEW c \in Calls  PROVE job[c].place \in Drawn \cup {Root} /\ Range(job[c].made) \subseteq Drawn
      OBVIOUS
    <3>2. job[c].place \in Drawn \cup {Root} /\ job[c].made \in Seq(Drawn)
      BY <2>1 DEF Underway
    <3>3. \A k \in DOMAIN job[c].made : job[c].made[k] \in Drawn
      BY <3>2
    <3>. QED  BY <3>2, <3>3 DEF Range
  <2>7. \A c \in Calls : pc[c] = "write" => copy[c].from # None
    BY <2>1, SomebodyWrites
  <2>8. \A d \in DraftIds : drafts[d] # None => drafts[d].files \subseteq Uploads \cup {"theirs", "old"}
    BY <2>1 DEF MailInOrder, Kept
  <2>9. DOMAIN labels = DOMAIN LabelsOf /\ others \in 0 .. MaxOthers
    BY <1>1 DEF RestInOrder, LabelsThere
  <2>10. books \in [Ids -> Seq(Tabs)] /\ \A i \in Ids : books[i] # <<>> => i \in Drawn /\ items[i].type = "sheet"
    BY <2>1 DEF BooksInOrder
  <2>11. \A c \in Calls : pc[c] = "change" => target[c] # 0
    BY <2>1 DEF Tabbed
  <2>12. \A c \in Calls : pc[c] \in {"drafting", "patching", "deleting"} => existing[c] # None
    BY <2>1 DEF EventsInOrder
  <2>. QED  BY <2>2, <2>3, <2>4, <2>5, <2>6, <2>7, <2>8, <2>9, <2>10, <2>11, <2>12 DEF TypeOK
<1>2. Init => AnswersKept /\ RestInOrder
  BY AnswersInit, RestInit
<1>3. AnswersKept /\ RestInOrder /\ [Next]_vars => AnswersKept' /\ RestInOrder'
  BY AnswersStep, RestStep
<1>. QED  BY <1>1, <1>2, <1>3, PTL DEF Spec

(***************************************************************************)
(* What files weigh together.                                              *)
Sizes(S) == IsFiniteSet(S) /\ \A x \in S : SizeOf[x] \in Nat

(* The recursive function by which the files of S are weighed.               *)
Sum(f, S) ==
    f = [s \in SUBSET S |-> IF s = {} THEN 0 ELSE LET x == CHOOSE x \in s : TRUE IN SizeOf[x] + f[s \ {x}]]

LEMMA Smaller ==
    ASSUME NEW S, IsFiniteSet(S), NEW s \in SUBSET S
    PROVE  /\ IsFiniteSet(s) /\ Cardinality(s) \in Nat
           /\ Cardinality(s) = 0 <=> s = {}
           /\ \A r \in SUBSET s : r # s => Cardinality(r) \in Nat /\ Cardinality(r) < Cardinality(s)
<1>1. IsFiniteSet(s) /\ Cardinality(s) \in Nat /\ (Cardinality(s) = 0 <=> s = {})
  BY FS_Subset, FS_CardinalityType, FS_EmptySet
<1>2. ASSUME NEW r \in SUBSET s, r # s  PROVE Cardinality(r) \in Nat /\ Cardinality(r) < Cardinality(s)
  BY <1>1, <1>2, FS_Subset, FS_CardinalityType
<1>. QED  BY <1>1, <1>2

(* What holds of a set once it holds of all that is less, holds of all.      *)
LEMMA Subsets ==
    ASSUME NEW S, IsFiniteSet(S), NEW T,
           \A s \in SUBSET S : (\A r \in SUBSET s : r # s => r \in T) => s \in T
    PROVE  \A s \in SUBSET S : s \in T
<1>. DEFINE Out == {Cardinality(s) : s \in (SUBSET S) \ T}
<1>1. SUFFICES ASSUME NEW s \in SUBSET S, s \notin T  PROVE FALSE
  OBVIOUS
<1>2. Out \subseteq Nat /\ Out # {}
  BY <1>1, Smaller
<1>3. PICK n \in Out : \A m \in Out : n <= m
  BY <1>2, First
<1>4. PICK least \in (SUBSET S) \ T : n = Cardinality(least)
  BY <1>3
<1>5. ASSUME NEW r \in SUBSET least, r # least  PROVE r \in T
  <2>1. Cardinality(r) \in Nat /\ Cardinality(least) \in Nat /\ Cardinality(r) < Cardinality(least)
    BY <1>4, <1>5, Smaller
  <2>2. ~(n <= Cardinality(r))
    BY <1>4, <2>1
  <2>3. r \in SUBSET S
    BY <1>4, <1>5
  <2>. QED  BY <1>3, <2>2, <2>3
<1>. QED  BY <1>4, <1>5

LEMMA SumsThere ==
    ASSUME NEW S, Sizes(S)
    PROVE  \E f : Sum(f, S)
<1>. DEFINE One(s) == CHOOSE x \in s : TRUE
            After(f, s) == IF s = {} THEN 0 ELSE SizeOf[One(s)] + f[s \ {One(s)}]
            Upto(f, n) == \A s \in SUBSET S : Cardinality(s) <= n => f[s] = After(f, s)
            Out == {n \in Nat : ~\E f : Upto(f, n)}
<1>1. ASSUME NEW s \in SUBSET S
      PROVE  /\ Cardinality(s) \in Nat /\ (Cardinality(s) = 0 <=> s = {})
             /\ s # {} => /\ s \ {One(s)} \in SUBSET S
                          /\ Cardinality(s \ {One(s)}) \in Nat /\ Cardinality(s \ {One(s)}) < Cardinality(s)
  <2>1. s # {} => One(s) \in s /\ s \ {One(s)} \in SUBSET s /\ s \ {One(s)} # s
    OBVIOUS
  <2>. HIDE DEF One
  <2>. QED  BY <2>1, Smaller DEF Sizes
<1>. HIDE DEF One
<1>2. ASSUME Out # {}  PROVE FALSE
  <2>1. PICK n \in Out : \A m \in Out : n <= m
    BY <1>2, First
  <2>2. n \in Nat /\ ~\E f : Upto(f, n)
    BY <2>1
  <2>3. n # 0
    <3>1. ASSUME NEW s \in SUBSET S, Cardinality(s) <= 0  PROVE s = {}
      <4>1. Cardinality(s) \in Nat /\ (Cardinality(s) = 0 <=> s = {})
        BY <1>1
      <4>2. \A m \in Nat : m <= 0 => m = 0
        OBVIOUS
      <4>. QED  BY <3>1, <4>1, <4>2
    <3>2. \A s \in SUBSET S : Cardinality(s) <= 0 => [r \in SUBSET S |-> 0][s] = After([r \in SUBSET S |-> 0], s)
      BY <3>1
    <3>3. Upto([r \in SUBSET S |-> 0], 0)
      BY <3>2
    <3>. QED  BY <2>2, <3>3
  <2>4. n - 1 \in Nat /\ ~(n <= n - 1)
    BY <2>2, <2>3
  <2>5. PICK f : Upto(f, n - 1)
    BY <2>1, <2>4
  <2>. DEFINE g == [s \in SUBSET S |-> After(f, s)]
  <2>6. \A s \in SUBSET S : Cardinality(s) <= n - 1 => g[s] = f[s]
    BY <2>5
  <2>7. ASSUME NEW s \in SUBSET S, Cardinality(s) <= n  PROVE g[s] = After(g, s)
    <3>1. CASE s = {}
      BY <3>1
    <3>2. CASE s # {}
      <4>1. s \ {One(s)} \in SUBSET S /\ Cardinality(s \ {One(s)}) <= n - 1
        BY <1>1, <2>2, <2>7, <3>2
      <4>2. g[s \ {One(s)}] = f[s \ {One(s)}]
        BY <2>6, <4>1
      <4>3. g[s] = SizeOf[One(s)] + f[s \ {One(s)}]
        BY <3>2
      <4>. QED  BY <3>2, <4>2, <4>3
    <3>. QED  BY <3>1, <3>2
  <2>. HIDE DEF g, After
  <2>. QED  BY <2>2, <2>7
<1>3. PICK f : Upto(f, Cardinality(S))
  BY <1>1, <1>2
<1>. DEFINE g == [s \in SUBSET S |-> After(f, s)]
<1>4. \A s \in SUBSET S : g[s] = f[s]
  <2>1. \A s \in SUBSET S : Cardinality(s) <= Cardinality(S)
    BY FS_Subset DEF Sizes
  <2>. QED  BY <1>3, <2>1
<1>5. \A s \in SUBSET S : After(f, s) = After(g, s)
  BY <1>1, <1>4
<1>6. g = [s \in SUBSET S |-> After(g, s)]
  <2>. HIDE DEF After
  <2>. QED  BY <1>5
<1>7. Sum(g, S)
  BY ONLY <1>6 DEF Sum, After, One
<1>. QED  BY <1>7

(* Any file of them may be weighed first.                                   *)
LEMMA AnyFirst ==
    ASSUME NEW S, Sizes(S), NEW f, Sum(f, S), NEW s \in SUBSET S
    PROVE  f[s] \in Nat /\ (s = {} => f[s] = 0) /\ \A y \in s : f[s] = SizeOf[y] + f[s \ {y}]
<1>. DEFINE Fine(r) == f[r] \in Nat /\ \A y \in r : f[r] = SizeOf[y] + f[r \ {y}]
            T == {r \in SUBSET S : Fine(r)}
            One(r) == CHOOSE x \in r : TRUE
<1>1. \A r \in SUBSET S : f[r] = IF r = {} THEN 0 ELSE SizeOf[One(r)] + f[r \ {One(r)}]
  BY DEF Sum
<1>2. \A r \in SUBSET S : r # {} => One(r) \in r
  OBVIOUS
<1>. HIDE DEF One
<1>3. \A x \in S : SizeOf[x] \in Nat
  BY DEF Sizes
<1>4. ASSUME NEW r \in SUBSET S, \A q \in SUBSET r : q # r => Fine(q)  PROVE Fine(r)
  <2>1. CASE r = {}
    <3>1. f[r] = 0 /\ \A y : y \notin r
      BY <1>1, <2>1
    <3>. QED  BY <3>1
  <2>2. CASE r # {}
    <3>. DEFINE x == One(r)
    <3>1. x \in r /\ f[r] = SizeOf[x] + f[r \ {x}] /\ SizeOf[x] \in Nat
      BY <1>1, <1>2, <1>3, <2>2
    <3>. HIDE DEF x
    <3>2. Fine(r \ {x})
      BY <1>4, <3>1
    <3>3. f[r] \in Nat
      BY <3>1, <3>2
    <3>4. ASSUME NEW y \in r, y # x  PROVE f[r] = SizeOf[y] + f[r \ {y}]
      <4>1. Fine(r \ {y}) /\ Fine((r \ {x}) \ {y}) /\ (r \ {y}) \ {x} = (r \ {x}) \ {y}
        BY <1>4, <3>1, <3>4
      <4>2. f[r \ {x}] = SizeOf[y] + f[(r \ {x}) \ {y}]
        BY <3>2, <3>4
      <4>3. f[r \ {y}] = SizeOf[x] + f[(r \ {x}) \ {y}]
        BY <3>1, <3>4, <4>1
      <4>4. f[(r \ {x}) \ {y}] \in Nat /\ SizeOf[y] \in Nat
        BY <1>3, <4>1
      <4>. HIDE DEF Fine
      <4>. QED  BY <3>1, <4>2, <4>3, <4>4
    <3>. QED  BY <3>1, <3>3, <3>4
  <2>. QED  BY <2>1, <2>2
<1>5. \A r \in SUBSET S : (\A q \in SUBSET r : q # r => q \in T) => r \in T
  <2>. HIDE DEF Fine
  <2>. QED  BY <1>4
<1>6. s \in T
  <2>. HIDE DEF T
  <2>. QED  BY <1>5, Subsets DEF Sizes
<1>. QED  BY <1>1, <1>6

(* Weighed among more files or alone, it is the same.                        *)
LEMMA SumsAgree ==
    ASSUME NEW S, Sizes(S), NEW f, Sum(f, S), NEW A \in SUBSET S, NEW g, Sum(g, A)
    PROVE  g[A] = f[A]
<1>. DEFINE T == {s \in SUBSET A : g[s] = f[s]}
<1>1. Sizes(A)
  BY FS_Subset DEF Sizes
<1>2. ASSUME NEW s \in SUBSET A, \A r \in SUBSET s : r # s => g[r] = f[r]  PROVE g[s] = f[s]
  <2>1. CASE s = {}
    BY <1>1, <2>1, AnyFirst
  <2>2. CASE s # {}
    <3>1. PICK y \in s : TRUE
      BY <2>2
    <3>2. g[s] = SizeOf[y] + g[s \ {y}]
      BY <1>1, <3>1, AnyFirst
    <3>3. f[s] = SizeOf[y] + f[s \ {y}]
      BY <3>1, AnyFirst
    <3>. QED  BY <1>2, <3>1, <3>2, <3>3
  <2>. QED  BY <2>1, <2>2
<1>3. \A s \in SUBSET A : (\A r \in SUBSET s : r # s => r \in T) => s \in T
  BY <1>2
<1>4. A \in T
  <2>. HIDE DEF T
  <2>. QED  BY <1>1, <1>3, Subsets DEF Sizes
<1>. QED  BY <1>4

LEMMA SumsAdd ==
    ASSUME NEW S, Sizes(S), NEW f, Sum(f, S), NEW A \in SUBSET S, NEW B \in SUBSET S, A \cap B = {}
    PROVE  f[A \cup B] = f[A] + f[B]
<1>. DEFINE Both(C) == A \cap C = {} => f[A \cup C] = f[A] + f[C]
            T == {C \in SUBSET S : Both(C)}
<1>1. f[A] \in Nat
  BY AnyFirst
<1>2. ASSUME NEW C \in SUBSET S, A \cap C = {}, \A D \in SUBSET C : D # C => Both(D)  PROVE f[A \cup C] = f[A] + f[C]
  <2>1. CASE C = {}
    <3>1. f[C] = 0 /\ A \cup C = A
      BY <2>1, AnyFirst
    <3>2. \A n \in Nat : n = n + 0
      OBVIOUS
    <3>. QED  BY ONLY <1>1, <3>1, <3>2
  <2>2. CASE C # {}
    <3>1. PICK y \in C : TRUE
      BY <2>2
    <3>. DEFINE D == C \ {y}
    <3>2. f[A \cup D] = f[A] + f[D]
      BY <1>2, <3>1
    <3>3. D \in SUBSET S /\ (A \cup C) \ {y} = A \cup D /\ y \in A \cup C /\ A \cup C \in SUBSET S /\ SizeOf[y] \in Nat
      BY <1>2, <3>1 DEF Sizes
    <3>4. f[A \cup C] = SizeOf[y] + f[A \cup D]
      BY <3>3, AnyFirst
    <3>5. f[C] = SizeOf[y] + f[C \ {y}] /\ f[D] \in Nat
      <4>1. \A x \in C : f[C] = SizeOf[x] + f[C \ {x}]
        BY AnyFirst
      <4>. QED  BY <3>1, <3>3, <4>1, AnyFirst
    <3>6. f[C] = SizeOf[y] + f[D]
      BY <3>5
    <3>. HIDE DEF D
    <3>. QED  BY <1>1, <3>2, <3>3, <3>4, <3>5, <3>6
  <2>. QED  BY <2>1, <2>2
<1>3. \A C \in SUBSET S : (\A D \in SUBSET C : D # C => D \in T) => C \in T
  BY <1>2
<1>4. B \in T
  <2>. HIDE DEF T
  <2>. QED  BY <1>3, Subsets DEF Sizes
<1>. QED  BY <1>4

LEMMA WeightIs ==
    ASSUME NEW S, Sizes(S)
    PROVE  \E f : Sum(f, S) /\ Weight(S) = f[S]
<1>. DEFINE iter[s \in SUBSET S] == IF s = {} THEN 0 ELSE LET x == CHOOSE x \in s : TRUE IN SizeOf[x] + iter[s \ {x}]
<1>1. \E f : f = [s \in SUBSET S |-> IF s = {} THEN 0 ELSE LET x == CHOOSE x \in s : TRUE IN SizeOf[x] + f[s \ {x}]]
  BY SumsThere DEF Sum
<1>2. iter = [s \in SUBSET S |-> IF s = {} THEN 0 ELSE LET x == CHOOSE x \in s : TRUE IN SizeOf[x] + iter[s \ {x}]]
  BY <1>1, Zenon
<1>3. Weight(S) = iter[S]
  BY Zenon DEF Weight, MapThenSumSet, MapThenFoldSet
<1>. HIDE DEF iter
<1>. QED  BY <1>2, <1>3 DEF Sum

(* Two lots of files that share none weigh what both do.                     *)
LEMMA WeightsAdd ==
    ASSUME NEW A, NEW B, Sizes(A), Sizes(B), A \cap B = {}
    PROVE  Weight(A \cup B) = Weight(A) + Weight(B)
<1>1. Sizes(A \cup B)
  BY FS_Union DEF Sizes
<1>2. PICK f : Sum(f, A \cup B) /\ Weight(A \cup B) = f[A \cup B]
  BY <1>1, WeightIs
<1>3. PICK g : Sum(g, A) /\ Weight(A) = g[A]
  BY WeightIs
<1>4. PICK h : Sum(h, B) /\ Weight(B) = h[B]
  BY WeightIs
<1>5. g[A] = f[A]
  BY <1>1, <1>2, <1>3, SumsAgree
<1>6. h[B] = f[B]
  BY <1>1, <1>2, <1>4, SumsAgree
<1>7. f[A \cup B] = f[A] + f[B]
  BY <1>1, <1>2, SumsAdd
<1>. QED  BY <1>2, <1>3, <1>4, <1>5, <1>6, <1>7

LEMMA FilesHaveSizes ==
    ASSUME NEW files, files \subseteq Uploads \cup {"old", "theirs"}
    PROVE  Sizes(files)
<1>1. IsFiniteSet(Uploads \cup {"old", "theirs"})
  <2>1. IsFiniteSet({"old"}) /\ IsFiniteSet({"theirs"})
    BY FS_Singleton
  <2>2. IsFiniteSet(Uploads \cup {"old"} \cup {"theirs"})
    BY <2>1, FilesWeigh, FS_Union
  <2>3. Uploads \cup {"old", "theirs"} = Uploads \cup {"old"} \cup {"theirs"}
    OBVIOUS
  <2>. QED  BY <2>2, <2>3
<1>. QED  BY <1>1, FS_Subset, FilesWeigh DEF Sizes

LEMMA AttachingAdds ==
    ASSUME UploadsInOrder, ThreadsInOrder, MailInOrder, [Next]_vars,
           NEW c \in Calls, Tool(c) = "attach", pc[c] = "write", pc'[c] # pc[c]
    PROVE  OnlyAdds(c)
<1>. DEFINE d == op[c].draft
            files == op[c].files
<1>1. CallsInOrder /\ DraftsInOrder /\ Adds(c) /\ Holds(c)
  BY DEF UploadsInOrder, MailInOrder
<1>2. d \in DraftIds
  BY <1>1, CallsAskForThings DEF CallsInOrder, Tool
<1>3. drafts'[d] = drafts[d] \/ drafts'[d] = copy[c]
  <2>1. ASSUME NEW e \in Calls, Drive(e) \/ SheetsOf(e) \/ CalendarOf(e)  PROVE drafts' = drafts
    BY <2>1 DEF Drive, SheetsOf, CalendarOf, mailVars, mail
  <2>2. ASSUME NEW e \in Calls, Gmail(e)  PROVE drafts'[d] = drafts[d] \/ drafts'[d] = copy[c]
    <3>1. e = c
      BY <1>1, <2>2, MailMoves DEF Gmail, MovesOn
    <3>2. DraftCall(c)
      BY <2>2, <3>1 DEF Gmail
    <3>3. WriteDraft(c)
      BY <3>2 DEF DraftCall, GmailCreateDraft, GmailReplyDraft, GmailUpdateDraft, GmailAttachToDraft, Weigh, TakeFiles,
                  GmailDeleteDraft, GmailModifyLabels, Label, Unasked, Labelled, Under
    <3>. QED  BY <1>1, <1>2, <3>3 DEF WriteDraft, Give, mailVars, mail, Written, DraftsInOrder, Tool
  <2>3. pc' # pc
    OBVIOUS
  <2>4. ~(Others \/ Sweep \/ UNCHANGED vars)
    BY <2>3 DEF Others, Sweep, Expire, vars, calls
  <2>. QED  BY <2>1, <2>2, <2>4 DEF Next
<1>4. SUFFICES ASSUME drafts'[d] = copy[c]  PROVE OnlyAdds(c)
  BY <1>3 DEF OnlyAdds
<1>0. PICK read : read = was[c][d]
  OBVIOUS
<1>5. PICK r : r = Rebuilt(read) /\ IsDraft(r) /\ IsDraft(read)
  BY <1>0, <1>1 DEF Adds, Writing, ReadDraft
<1>6. /\ copy[c] = [r EXCEPT !.from = copy[c].from, !.files = @ \cup files]
      /\ files \subseteq Uploads /\ r.files \cap files = {}
      /\ r.from # None => copy[c].from = r.from
      /\ Weight(files) + Weight(r.files) <= AttachmentMax
  BY <1>0, <1>1, <1>5 DEF Adds, Writing, ReadDraft
<1>10. /\ \A f \in {"from", "to", "cc", "files", "thread"} : r[f] = read[f]
       /\ r.html = FirstBody(read.html)
       /\ Trimmed(read.text) # <<>> => r.text = Trimmed(read.text)
  BY <1>5, RebuiltKeeps
<1>. HIDE DEF files
<1>7. copy[c].files = r.files \cup files /\ \A f \in {"to", "cc", "thread", "text", "html"} : copy[c][f] = r[f]
  <2>1. PICK from : from = copy[c].from
    OBVIOUS
  <2>2. /\ [r EXCEPT !.from = from, !.files = @ \cup files].files = r.files \cup files
        /\ \A f \in {"to", "cc", "thread", "text", "html"} : [r EXCEPT !.from = from, !.files = @ \cup files][f] = r[f]
    BY <1>5 DEF IsDraft, Blank
  <2>. QED  BY <1>6, <2>1, <2>2
<1>8. Sizes(r.files) /\ Sizes(files)
  BY <1>1, <1>6, <1>7, FilesHaveSizes DEF Holds
<1>9. Weight(copy[c].files) = Weight(files) + Weight(r.files)
  <2>1. r.files \cup files = files \cup r.files /\ files \cap r.files = {}
    BY <1>6
  <2>. QED  BY <1>7, <1>8, <2>1, WeightsAdd
<1>11. read.html # <<>> => copy[c].html # <<>> /\ Head(copy[c].html) = Head(read.html)
  <2>1. SUFFICES ASSUME read.html # <<>>
                 PROVE  copy[c].html # <<>> /\ Head(copy[c].html) = Head(read.html)
    OBVIOUS
  <2>2. PICK first : first = Head(read.html)
    OBVIOUS
  <2>3. copy[c].html = <<first>>
    BY <1>7, <1>10, <2>1, <2>2 DEF FirstBody
  <2>. QED  BY <2>2, <2>3
<1>. QED  BY <1>0, <1>4, <1>6, <1>7, <1>9, <1>10, <1>11 DEF OnlyAdds, files

(* gmail_attach_to_draft writes the draft it read, put together again, and its *)
(* files: every file of both once, the same people, the same conversation, the *)
(* same sender, the text but for blank lines at its end, and the first body in *)
(* HTML; and what is written weighs no more than a message may.  Nothing is    *)
(* said of further bodies and headers, which are dropped, nor of what others   *)
(* have made of the draft since it was read, which is written over            *)
(* (mcp/gmail.rs; parse_draft and build_mime of google/gmail.rs).             *)
THEOREM AttachingOnlyAdds == ASSUME NoneIsNoDraft PROVE Spec => AttachOnlyAdds
<1>1. Init => UploadsInOrder /\ ThreadsInOrder /\ MailInOrder
  BY UploadsInit, MailInit DEF Init, ThreadsInOrder, InThread, Writing
<1>2. UploadsInOrder /\ ThreadsInOrder /\ MailInOrder /\ [Next]_vars => UploadsInOrder' /\ ThreadsInOrder' /\ MailInOrder'
  BY UploadsStep, ThreadsStep, MailStep
<1>3. UploadsInOrder /\ ThreadsInOrder /\ MailInOrder /\ [Next]_vars
      => [\A c \in Calls : Tool(c) = "attach" /\ pc[c] = "write" /\ pc'[c] # pc[c] => OnlyAdds(c)]_vars
  BY AttachingAdds
<1>. QED  BY <1>1, <1>2, <1>3, PTL DEF Spec, AttachOnlyAdds

(***************************************************************************)
(* What a request makes of rows, row by row.                                *)
LEMMA Pieces ==
    ASSUME NEW S, NEW s \in Seq(S), NEW n \in 0 .. Len(s)
    PROVE  /\ SubSeq(s, 1, n) \in Seq(S) /\ Len(SubSeq(s, 1, n)) = n
           /\ \A r \in 1 .. n : SubSeq(s, 1, n)[r] = s[r]
           /\ SubSeq(s, n + 1, Len(s)) \in Seq(S) /\ Len(SubSeq(s, n + 1, Len(s))) = Len(s) - n
           /\ \A r \in 1 .. Len(s) - n : SubSeq(s, n + 1, Len(s))[r] = s[n + r]
<1>1. Len(s) \in Nat /\ n \in Nat /\ n <= Len(s)
  OBVIOUS
<1>2. SubSeq(s, 1, n) \in Seq(S) /\ SubSeq(s, n + 1, Len(s)) \in Seq(S)
  BY <1>1
<1>3. Len(SubSeq(s, 1, n)) = n /\ \A r \in 1 .. n : SubSeq(s, 1, n)[r] = s[r]
  BY <1>1
<1>4. Len(SubSeq(s, n + 1, Len(s))) = Len(s) - n /\ \A r \in 1 .. Len(s) - n : SubSeq(s, n + 1, Len(s))[r] = s[n + r]
  BY <1>1
<1>. QED  BY <1>2, <1>3, <1>4

LEMMA Concatenated ==
    ASSUME NEW S, NEW a \in Seq(S), NEW b \in Seq(S)
    PROVE  /\ a \o b \in Seq(S) /\ Len(a \o b) = Len(a) + Len(b)
           /\ \A r \in 1 .. Len(a) : (a \o b)[r] = a[r]
           /\ \A r \in 1 .. Len(b) : (a \o b)[Len(a) + r] = b[r]
<1>1. Len(a) \in Nat /\ Len(b) \in Nat
  OBVIOUS
<1>2. \A r \in 1 .. Len(b) : Len(a) + r \in 1 .. Len(a) + Len(b) /\ ~(Len(a) + r <= Len(a)) /\ (Len(a) + r) - Len(a) = r
  BY <1>1
<1>. QED  BY <1>1, <1>2, ConcatProperties

(* Others between what there is.                                             *)
Between(s, n, b, new) == new = SubSeq(s, 1, n) \o b \o SubSeq(s, n + 1, Len(s))

(* Each of them is found where it was put.                                   *)
BothThere(s, n, b, new) ==
    /\ new \in Seq(Rows) /\ Len(new) = Len(s) + Len(b)
    /\ \A r \in 1 .. n : new[r] = s[r]
    /\ \A r \in 1 .. Len(b) : new[n + r] = b[r]
    /\ \A r \in n + 1 .. Len(s) : new[r + Len(b)] = s[r]

LEMMA Inserted ==
    ASSUME NEW s \in Seq(Rows), NEW n \in 0 .. Len(s), NEW b \in Seq(Rows), NEW new, Between(s, n, b, new)
    PROVE  BothThere(s, n, b, new)
<1>. DEFINE a == SubSeq(s, 1, n)
            d == SubSeq(s, n + 1, Len(s))
<1>1. /\ a \in Seq(Rows) /\ Len(a) = n /\ \A r \in 1 .. n : a[r] = s[r]
      /\ d \in Seq(Rows) /\ Len(d) = Len(s) - n /\ \A r \in 1 .. Len(s) - n : d[r] = s[n + r]
  BY Pieces
<1>2. Len(s) \in Nat /\ Len(b) \in Nat /\ n \in Nat /\ n <= Len(s)
  OBVIOUS
<1>. HIDE DEF a, d
<1>3. /\ a \o b \in Seq(Rows) /\ Len(a \o b) = Len(a) + Len(b)
      /\ \A r \in 1 .. Len(a) : (a \o b)[r] = a[r]
      /\ \A r \in 1 .. Len(b) : (a \o b)[Len(a) + r] = b[r]
  <2>1. a \in Seq(Rows) /\ b \in Seq(Rows)
    BY <1>1
  <2>. QED  BY ONLY <2>1, Concatenated
<1>4. PICK m : m = a \o b
  OBVIOUS
<1>5. /\ m \o d \in Seq(Rows) /\ Len(m \o d) = Len(m) + Len(d)
      /\ \A r \in 1 .. Len(m) : (m \o d)[r] = m[r]
      /\ \A r \in 1 .. Len(d) : (m \o d)[Len(m) + r] = d[r]
  <2>1. m \in Seq(Rows) /\ d \in Seq(Rows)
    BY <1>1, <1>3, <1>4
  <2>. QED  BY ONLY <2>1, Concatenated
<1>6. new = m \o d
  BY <1>4 DEF a, d, Between
<1>7. Len(m) = n + Len(b) /\ (\A r \in 1 .. n : m[r] = s[r]) /\ (\A r \in 1 .. Len(b) : m[n + r] = b[r])
  BY <1>1, <1>3, <1>4
<1>8. \A r \in 1 .. n : r \in 1 .. Len(m)
  BY <1>2, <1>7
<1>9. \A r \in 1 .. Len(b) : n + r \in 1 .. Len(m)
  BY <1>2, <1>7
<1>10. ASSUME NEW r \in n + 1 .. Len(s)  PROVE new[r + Len(b)] = s[r]
  <2>1. r - n \in 1 .. Len(d) /\ r - n \in 1 .. Len(s) - n /\ n + (r - n) = r /\ Len(m) + (r - n) = r + Len(b)
    BY <1>1, <1>2, <1>7
  <2>2. (m \o d)[Len(m) + (r - n)] = d[r - n] /\ d[r - n] = s[n + (r - n)]
    BY <1>1, <1>5, <2>1
  <2>. QED  BY <1>6, <2>1, <2>2
<1>11. Len(new) = Len(s) + Len(b)
  <2>1. Len(new) = Len(m) + Len(d)
    BY <1>5, <1>6
  <2>. QED  BY ONLY <1>1, <1>2, <1>7, <2>1
<1>12. \A r \in n + 1 .. Len(s) : new[r + Len(b)] = s[r]
  BY <1>10
<1>. QED  BY <1>5, <1>6, <1>7, <1>8, <1>9, <1>11, <1>12 DEF BothThere

(* Some taken out.                                                          *)
Without(s, n, e, new) == new = SubSeq(s, 1, n) \o SubSeq(s, e + 1, Len(s))

LEMMA Deleted ==
    ASSUME NEW s \in Seq(Rows), NEW n \in 0 .. Len(s), NEW e \in 0 .. Len(s), n <= e, NEW new, Without(s, n, e, new)
    PROVE  /\ new \in Seq(Rows) /\ Len(new) = Len(s) - (e - n)
           /\ \A r \in 1 .. n : new[r] = s[r]
           /\ \A r \in e + 1 .. Len(s) : new[r - (e - n)] = s[r]
<1>. DEFINE a == SubSeq(s, 1, n)
            d == SubSeq(s, e + 1, Len(s))
<1>1. Len(s) \in Nat /\ n \in Nat /\ e \in Nat /\ n <= e /\ e <= Len(s) /\ e \in 0 .. Len(s)
  OBVIOUS
<1>2. a \in Seq(Rows) /\ Len(a) = n /\ \A r \in 1 .. n : a[r] = s[r]
  BY Pieces
<1>3. d \in Seq(Rows) /\ Len(d) = Len(s) - e /\ \A r \in 1 .. Len(s) - e : d[r] = s[e + r]
  BY <1>1, Pieces
<1>. HIDE DEF a, d
<1>4. /\ a \o d \in Seq(Rows) /\ Len(a \o d) = Len(a) + Len(d)
      /\ \A r \in 1 .. Len(a) : (a \o d)[r] = a[r]
      /\ \A r \in 1 .. Len(d) : (a \o d)[Len(a) + r] = d[r]
  <2>1. a \in Seq(Rows) /\ d \in Seq(Rows)
    BY <1>2, <1>3
  <2>. QED  BY ONLY <2>1, Concatenated
<1>5. new = a \o d
  BY DEF a, d, Without
<1>6. ASSUME NEW r \in e + 1 .. Len(s)  PROVE new[r - (e - n)] = s[r]
  <2>1. r - e \in 1 .. Len(d) /\ r - e \in 1 .. Len(s) - e /\ e + (r - e) = r /\ n + (r - e) = r - (e - n)
    BY ONLY <1>1, <1>3, <1>6
  <2>2. (a \o d)[Len(a) + (r - e)] = d[r - e] /\ d[r - e] = s[e + (r - e)]
    BY <1>3, <1>4, <2>1
  <2>. QED  BY <1>2, <1>5, <2>1, <2>2
<1>7. Len(new) = Len(s) - (e - n)
  <2>1. Len(new) = Len(a) + Len(d)
    BY <1>4, <1>5
  <2>. QED  BY ONLY <1>1, <1>2, <1>3, <2>1
<1>8. new \in Seq(Rows) /\ \A r \in 1 .. n : new[r] = s[r]
  BY <1>2, <1>4, <1>5
<1>9. new \in Seq(Rows) /\ Len(new) = Len(s) - (e - n)
  BY <1>7, <1>8
<1>10. \A r \in e + 1 .. Len(s) : new[r - (e - n)] = s[r]
  BY <1>6
<1>. QED  BY <1>8, <1>9, <1>10

(* Numbers that do not wrap: a batch of rows that has an end after its start.  *)
LEMMA Wrapped ==
    ASSUME NEW n \in Nat, NEW w \in Nat \ {0}
    PROVE  /\ n < w => n % w = n
           /\ n >= w /\ n < w + w => n % w = n - w
OBVIOUS

LEMMA RangeIs ==
    ASSUME NEW at \in 1 .. Word - 1, NEW count, RowCount(count), RowRange(at, count).start < RowRange(at, count).end
    PROVE  RowRange(at, count).start = at - 1 /\ RowRange(at, count).end = at + count - 1
<1>1. Word \in Nat \ {0} /\ at \in Nat /\ at # 0 /\ at < Word /\ count \in Nat /\ count < Word /\ count # 0
  BY SheetsHoldTabs DEF RowCount
<1>2. PICK n \in Nat : n = at - 1 + count
  BY <1>1
<1>3. RowRange(at, count) = [start |-> at - 1, end |-> n % Word]
  BY <1>1, <1>2 DEF RowRange, Wrap
<1>4. at - 1 < n % Word
  BY <1>3
<1>5. n < Word + Word /\ (n >= Word => ~(at - 1 < n - Word))
  BY <1>1, <1>2
<1>6. (n < Word => n % Word = n) /\ (n >= Word => n % Word = n - Word)
  <2>1. Word \in Nat \ {0}
    BY <1>1
  <2>. QED  BY <1>5, <2>1, Wrapped
<1>7. n % Word = n
  <2>1. n < Word \/ n >= Word
    BY <1>1
  <2>. QED  BY <1>4, <1>5, <1>6, <2>1
<1>. QED  BY <1>1, <1>2, <1>3, <1>7

(* A row made where one is appended.                                         *)
LEMMA AppendsAsAsked ==
    ASSUME NEW rows \in Seq(Rows), NEW o, o.tool = "appendRows", o.rows \in Seq(Seq(STRING))
    PROVE  RowsAsAsked(o, rows, Appended(rows, o.rows))
<1>. DEFINE n == LastUsed(rows)
            more == o.rows
            b == [k \in DOMAIN more |-> Row(Filled(more[k]), "plain")]
            new == Appended(rows, more)
<1>1. n \in 0 .. Len(rows) /\ Len(rows) \in Nat
  BY LastUsedIsThere
<1>2. DOMAIN more = 1 .. Len(more) /\ Len(more) \in Nat
  OBVIOUS
<1>3. b \in Seq(Rows) /\ Len(b) = Len(more) /\ \A k \in 1 .. Len(more) : b[k] = Row(Filled(more[k]), "plain")
  <2>1. \A k \in DOMAIN more : Row(Filled(more[k]), "plain") \in Rows
    BY Filling
  <2>. QED  BY <1>2, <2>1
<1>4. Between(rows, n, b, new)
  BY DEF Appended, Between
<1>. HIDE DEF n, b, new
<1>5. /\ new \in Seq(Rows) /\ Len(new) = Len(rows) + Len(b)
      /\ \A r \in 1 .. n : new[r] = rows[r]
      /\ \A r \in 1 .. Len(b) : new[n + r] = b[r]
      /\ \A r \in n + 1 .. Len(rows) : new[r + Len(b)] = rows[r]
  <2>1. PICK m, l, w : m = n /\ l = b /\ w = new
    OBVIOUS
  <2>2. m \in 0 .. Len(rows) /\ l \in Seq(Rows) /\ Between(rows, m, l, w)
    BY <1>1, <1>3, <1>4, <2>1
  <2>3. BothThere(rows, m, l, w)
    BY <2>2, Inserted
  <2>. QED  BY <2>1, <2>3 DEF BothThere
<1>6. ASSUME NEW r \in DOMAIN new
      PROVE  /\ r <= n => new[r] = rows[r]
             /\ r - n \in 1 .. Len(more) => new[r] = Row(Filled(more[r - n]), "plain")
             /\ ~(r <= n) /\ r - n \notin 1 .. Len(more) => new[r] = rows[r - Len(more)]
  <2>1. r \in 1 .. Len(rows) + Len(more) /\ n \in Nat
    BY <1>1, <1>3, <1>5
  <2>2. r <= n => r \in 1 .. n
    BY <2>1
  <2>3. r - n \in 1 .. Len(more) => n + (r - n) = r
    BY <2>1
  <2>4. ASSUME ~(r <= n), r - n \notin 1 .. Len(more)
        PROVE  r - Len(more) \in n + 1 .. Len(rows) /\ (r - Len(more)) + Len(more) = r
    BY <1>1, <1>2, <2>1, <2>4
  <2>. QED  BY <1>3, <1>5, <2>2, <2>3, <2>4
<1>7. \A r \in DOMAIN new : r \in Int /\ n \in Int /\ (r <= n => r - n \notin 1 .. Len(more))
  BY <1>1, <1>2, <1>5
<1>8. \A r \in DOMAIN new :
         new[r] = CASE r <= n -> rows[r]
                    [] r - n \in 1 .. Len(more) -> Row(Filled(more[r - n]), "plain")
                    [] OTHER -> rows[r - Len(more)]
  BY <1>6, <1>7
<1>9. Len(new) = Len(rows) + Len(more)
  BY <1>3, <1>5
<1>. QED  BY <1>8, <1>9 DEF RowsAsAsked, n, new

(* A range written over.                                                    *)
LEMMA WritesAsAsked ==
    ASSUME NEW rows \in Seq(Rows), NEW o, o.tool = "updateRange", o.rows \in Seq(Seq(STRING)),
           o.top \in Nat \ {0}, o.left \in Nat \ {0}
    PROVE  RowsAsAsked(o, rows, Overwritten(rows, o.top, o.left, o.rows))
<1>. DEFINE cells == o.rows
            new == Overwritten(rows, o.top, o.left, cells)
<1>1. new \in Seq(Rows) /\ DOMAIN new = DOMAIN rows
  BY OverwrittenIs DEF Overwritten
<1>2. Len(new) = Len(rows)
  <2>. HIDE DEF new
  <2>. QED  BY <1>1
<1>3. ASSUME NEW r \in DOMAIN rows, NEW k \in 1 .. Columns
      PROVE  new[r].cells[k] = IF WrittenOver(o, r, k) THEN o.rows[r - o.top + 1][k - o.left + 1] ELSE rows[r].cells[k]
  <2>1. rows[r] \in Rows
    OBVIOUS
  <2>2. PICK row : row = rows[r]
    OBVIOUS
  <2>3. row.cells \in [1 .. Columns -> STRING] /\ k \in DOMAIN row.cells /\ row = [cells |-> row.cells, look |-> row.look]
    BY <2>1, <2>2 DEF Rows
  <2>4. new[r] = IF r - o.top \in 0 .. Len(cells) - 1
                 THEN LET line == cells[r - o.top + 1]
                      IN [row EXCEPT !.cells = [j \in DOMAIN @ |->
                            IF j - o.left \in 0 .. Len(line) - 1 THEN line[j - o.left + 1] ELSE @[j]]]
                 ELSE row
    BY <2>2 DEF Overwritten
  <2>5. CASE r - o.top \in 0 .. Len(cells) - 1
    <3>1. PICK line : line = cells[r - o.top + 1]
      OBVIOUS
    <3>2. PICK over : over = [j \in DOMAIN row.cells |-> IF j - o.left \in 0 .. Len(line) - 1 THEN line[j - o.left + 1] ELSE row.cells[j]]
      OBVIOUS
    <3>3. new[r] = [row EXCEPT !.cells = over]
      BY <2>4, <2>5, <3>1, <3>2
    <3>. HIDE DEF new
    <3>4. new[r].cells = over
      BY <2>3, <3>3
    <3>. QED  BY <2>2, <2>3, <2>5, <3>1, <3>2, <3>4 DEF WrittenOver
  <2>6. CASE r - o.top \notin 0 .. Len(cells) - 1
    BY <2>2, <2>4, <2>6 DEF WrittenOver
  <2>. QED  BY <2>5, <2>6
<1>. QED  BY <1>2, <1>3 DEF RowsAsAsked

(* A batch of rows.                                                         *)
LEMMA DimensionsAsAsked ==
    ASSUME NEW rows \in Seq(Rows), NEW o, Countable(o), RowCount(o.count), RowNumber(o.at),
           o.tool = "copyFormat" => RowNumber(o.from), Carried(rows, Request(o))
    PROVE  RowsAsAsked(o, rows, Dimensioned(rows, Request(o)))
<1>. DEFINE q == Request(o)
            new == Dimensioned(rows, q)
<1>1. PICK at, count : at = o.at /\ count = o.count
  OBVIOUS
<1>2. at \in Nat \ {0} /\ count \in Nat \ {0} /\ at \in 1 .. Word - 1 /\ RowCount(count) /\ Len(rows) \in Nat
  BY <1>1, SheetsHoldTabs DEF Countable, RowCount, RowNumber
<1>3. q.range = RowRange(at, count)
  BY <1>1 DEF Countable, Structural, Request, InsertRows, DeleteRows, CopyRowFormat
<1>4. PICK s, e : s = q.range.start /\ e = q.range.end
  OBVIOUS
<1>5. s < e /\ s <= Len(rows)
  BY <1>4 DEF Carried, InGrid
<1>6. s = at - 1 /\ e = at + count - 1
  <2>1. RowRange(at, count).start < RowRange(at, count).end
    BY <1>3, <1>4, <1>5
  <2>. QED  BY <1>2, <1>3, <1>4, <2>1, RangeIs
<1>7. s \in 0 .. Len(rows) /\ s \in Nat /\ e \in Nat
  BY <1>2, <1>5, <1>6
<1>. HIDE DEF new
<1>8. CASE o.tool = "insertRows"
  <2>1. q.kind = "insert" /\ q.inherit = (at > 1)
    BY <1>1, <1>8 DEF Request, InsertRows
  <2>2. PICK look : look = IF at > 1 THEN rows[s].look ELSE "plain"
    OBVIOUS
  <2>3. PICK b : b = [k \in 1 .. e - s |-> Row(EmptyCells, look)]
    OBVIOUS
  <2>4. Between(rows, s, b, new)
    BY <1>4, <2>1, <2>2, <2>3 DEF Dimensioned, Between, new
  <2>. HIDE DEF q
  <2>5. look \in STRING /\ look = IF at = 1 THEN "plain" ELSE rows[at - 1].look
    <3>1. at > 1 => rows[s] \in Rows
      BY <1>2, <1>6, <1>7
    <3>2. at > 1 => rows[s].look \in STRING
      BY <3>1 DEF Rows
    <3>3. at > 1 <=> at # 1
      BY <1>2
    <3>. QED  BY <1>6, <2>2, <3>2, <3>3, LiteralsAreStrings
  <2>6. e - s = count
    BY <1>2, <1>6
  <2>7. b \in Seq(Rows) /\ Len(b) = count /\ \A k \in 1 .. count : b[k] = Row(EmptyCells, look)
    <3>1. Row(EmptyCells, look) \in Rows
      BY <2>5, EmptyRow
    <3>. QED  BY <1>2, <2>3, <2>6, <3>1
  <2>8. /\ new \in Seq(Rows) /\ Len(new) = Len(rows) + Len(b)
        /\ \A r \in 1 .. s : new[r] = rows[r]
        /\ \A r \in 1 .. Len(b) : new[s + r] = b[r]
        /\ \A r \in s + 1 .. Len(rows) : new[r + Len(b)] = rows[r]
    <3>1. b \in Seq(Rows) /\ s \in 0 .. Len(rows)
      BY <1>7, <2>7
    <3>2. BothThere(rows, s, b, new)
      BY <2>4, <3>1, Inserted
    <3>. QED  BY <3>2 DEF BothThere
  <2>9. ASSUME NEW r \in DOMAIN rows  PROVE new[IF r < at THEN r ELSE r + count] = rows[r]
    <3>1. r < at => r \in 1 .. s
      BY <1>2, <1>6
    <3>2. ~(r < at) => r \in s + 1 .. Len(rows)
      BY <1>2, <1>6
    <3>. QED  BY <2>7, <2>8, <3>1, <3>2
  <2>10. ASSUME NEW r \in at .. at + count - 1  PROVE new[r] = Row(EmptyCells, look)
    <3>1. r - s \in 1 .. count /\ s + (r - s) = r
      BY <1>2, <1>6
    <3>. QED  BY <2>7, <2>8, <3>1
  <2>11. Len(new) = Len(rows) + count
    BY <2>7, <2>8
  <2>. QED  BY <1>1, <1>8, <2>5, <2>9, <2>10, <2>11 DEF RowsAsAsked, new, q
<1>9. CASE o.tool = "deleteRows"
  <2>1. q.kind = "delete" /\ e <= Len(rows)
    BY <1>4, <1>9 DEF Request, DeleteRows, Carried
  <2>2. Without(rows, s, e, new)
    BY <1>4, <2>1 DEF Dimensioned, Without, new
  <2>. HIDE DEF q
  <2>3. e \in 0 .. Len(rows) /\ s <= e /\ e - s = count
    BY <1>2, <1>5, <1>6, <1>7, <2>1
  <2>4. /\ new \in Seq(Rows) /\ Len(new) = Len(rows) - (e - s)
        /\ \A r \in 1 .. s : new[r] = rows[r]
        /\ \A r \in e + 1 .. Len(rows) : new[r - (e - s)] = rows[r]
    BY ONLY <1>7, <2>2, <2>3, rows \in Seq(Rows), Deleted
  <2>5. ASSUME NEW r \in DOMAIN rows \ (at .. at + count - 1)
        PROVE  new[IF r < at THEN r ELSE r - count] = rows[r]
    <3>1. r < at => r \in 1 .. s
      BY <1>2, <1>6
    <3>2. ~(r < at) => r \in e + 1 .. Len(rows)
      BY <1>2, <1>6
    <3>. QED  BY <2>3, <2>4, <3>1, <3>2
  <2>6. at .. at + count - 1 \subseteq DOMAIN rows
    BY <1>2, <1>6, <2>1
  <2>7. Len(new) = Len(rows) - count
    BY <2>3, <2>4
  <2>. QED  BY <1>1, <1>9, <2>5, <2>6, <2>7 DEF RowsAsAsked, new, q
<1>10. CASE o.tool = "copyFormat"
  <2>1. PICK from : from = o.from
    OBVIOUS
  <2>2. q.kind = "paste" /\ q.source = RowRange(from, 1)
    BY <1>10, <2>1 DEF Request, CopyRowFormat
  <2>3. from \in Nat \ {0} /\ q.source.start = from - 1
    BY <1>10, <2>1, <2>2, SheetsHoldTabs DEF Countable, RowNumber, RowRange
  <2>4. e <= Len(rows) /\ from - 1 < Len(rows)
    BY <1>4, <2>2, <2>3 DEF Carried
  <2>5. new = [k \in DOMAIN rows |->
                 IF k - 1 \in s .. e - 1 THEN [rows[k] EXCEPT !.look = rows[q.source.start + 1].look] ELSE rows[k]]
    BY <1>4, <2>2 DEF Dimensioned, new
  <2>. HIDE DEF q
  <2>6. q.source.start + 1 = from /\ from \in DOMAIN rows
    BY <2>3, <2>4
  <2>7. ASSUME NEW r \in DOMAIN rows
        PROVE  new[r] = [rows[r] EXCEPT !.look = rows[IF r \in at .. at + count - 1 THEN from ELSE r].look]
    <3>1. r - 1 \in s .. e - 1 <=> r \in at .. at + count - 1
      BY <1>2, <1>6
    <3>2. rows[r] = [rows[r] EXCEPT !.look = rows[r].look]
      <4>1. rows[r] \in Rows
        OBVIOUS
      <4>. QED  BY <4>1 DEF Rows
    <3>. QED  BY <2>5, <2>6, <3>1, <3>2
  <2>8. Len(new) = Len(rows)
    <3>1. DOMAIN new = 1 .. Len(rows)
      BY <2>5
    <3>2. \A r \in 1 .. Len(rows) : new[r] \in Rows
      <4>1. ASSUME NEW r \in 1 .. Len(rows)  PROVE new[r] \in Rows
        <5>1. r \in DOMAIN rows /\ rows[r] \in Rows /\ rows[IF r \in at .. at + count - 1 THEN from ELSE r] \in Rows
          BY <2>6
        <5>2. PICK a, b : a = rows[r] /\ b = rows[IF r \in at .. at + count - 1 THEN from ELSE r]
          OBVIOUS
        <5>3. new[r] = [a EXCEPT !.look = b.look]
          BY <2>7, <5>1, <5>2
        <5>. QED  BY <5>1, <5>2, <5>3 DEF Rows
      <4>. QED  BY <4>1
    <3>3. new = [r \in 1 .. Len(rows) |-> new[r]]
      BY <2>5, <3>1
    <3>4. new \in Seq(Rows)
      BY <1>2, <3>1, <3>2, <3>3
    <3>. QED  BY <1>2, <3>1, <3>4
  <2>. QED  BY <1>1, <1>10, <2>1, <2>7, <2>8 DEF RowsAsAsked, new, q
<1>. QED  BY <1>8, <1>9, <1>10 DEF Countable, Structural

(* No two tabs of a spreadsheet have one title.                              *)
TitlesApart == \A i \in Ids : Distinct(books[i])

\* One tab has other rows.
Rewritten(tabs, k, rows, new) == new = [tabs EXCEPT ![k].rows = rows]

LEMMA RowsOnly ==
    ASSUME NEW tabs \in Seq(Tabs), NEW k \in DOMAIN tabs, NEW rows, NEW new, Rewritten(tabs, k, rows, new)
    PROVE  /\ DOMAIN new = DOMAIN tabs /\ new[k].rows = rows
           /\ \A j \in DOMAIN tabs : new[j].title = tabs[j].title
           /\ Distinct(tabs) => Distinct(new)
<1>1. tabs[k] \in Tabs
  OBVIOUS
<1>2. PICK tab, one : tab = tabs[k] /\ one = [tab EXCEPT !.rows = rows]
  OBVIOUS
<1>3. one.title = tab.title /\ one.rows = rows
  BY <1>1, <1>2 DEF Tabs
<1>4. new = [tabs EXCEPT ![k] = one]
  BY <1>2 DEF Rewritten
<1>5. DOMAIN new = DOMAIN tabs /\ new[k].rows = rows /\ \A j \in DOMAIN tabs : new[j].title = tabs[j].title
  BY <1>2, <1>3, <1>4
<1>. QED  BY <1>5 DEF Distinct

LEMMA OneMoreTab ==
    ASSUME NEW tabs \in Seq(Tabs), NEW title \in STRING, Addable(tabs, title), Distinct(tabs)
    PROVE  Distinct(TabAdded(tabs, title)) /\ Len(TabAdded(tabs, title)) = Len(tabs) + 1
           /\ \A k \in DOMAIN tabs : TabAdded(tabs, title)[k] = tabs[k]
<1>1. PICK tab : tab = Tab(Len(tabs) + 1, title, <<Row(EmptyCells, "plain")>>)
  OBVIOUS
<1>2. tab.title = title /\ tab \in Tabs
  <2>1. <<Row(EmptyCells, "plain")>> \in Seq(Rows)
    <3>1. "plain" \in STRING
      BY LiteralsAreStrings
    <3>2. Row(EmptyCells, "plain") \in Rows
      BY <3>1, EmptyRow
    <3>. QED  BY <3>2
  <2>2. Len(tabs) + 1 \in Nat \ {0}
    OBVIOUS
  <2>. QED  BY <1>1, <2>1, <2>2 DEF Tab, Tabs
<1>3. PICK new : new = Append(tabs, tab)
  OBVIOUS
<1>4. TabAdded(tabs, title) = new
  BY <1>1, <1>3 DEF TabAdded
<1>5. Len(tabs) \in Nat /\ DOMAIN tabs = 1 .. Len(tabs)
  OBVIOUS
<1>7. /\ Len(new) = Len(tabs) + 1 /\ new \in Seq(Tabs) /\ new[Len(tabs) + 1] = tab
      /\ \A k \in 1 .. Len(tabs) : new[k] = tabs[k]
  BY <1>2, <1>3, AppendProperties
<1>8. (\A k \in DOMAIN tabs : new[k] = tabs[k]) /\ new[Len(tabs) + 1] = tab /\ DOMAIN new = DOMAIN tabs \cup {Len(tabs) + 1}
  BY <1>5, <1>7
<1>9. \A k \in DOMAIN tabs : Lower[tabs[k].title] # Lower[title]
  BY DEF Addable, Titled
<1>10. Distinct(new)
  BY <1>2, <1>8, <1>9 DEF Distinct
<1>. QED  BY <1>4, <1>7, <1>8, <1>10

LEMMA BookApart ==
    ASSUME BooksInOrder, TitlesApart, NEW i \in Ids, NEW new, Distinct(new), books' = [books EXCEPT ![i] = new]
    PROVE  TitlesApart'
<1>1. \A j \in Ids : books'[j] = IF j = i THEN new ELSE books[j]
  BY DEF BooksInOrder
<1>2. \A j \in Ids : Distinct(books'[j])
  BY <1>1 DEF TitlesApart
<1>3. TitlesApart' <=> \A j \in Ids : Distinct(books'[j])
  BY DEF TitlesApart, Distinct
<1>. QED  BY <1>2, <1>3

LEMMA TitlesSame ==
    ASSUME TitlesApart, books' = books
    PROVE  TitlesApart'
BY DEF TitlesApart, Distinct

LEMMA PeopleKeepApart ==
    ASSUME BooksInOrder, TitlesApart, PersonInSheet
    PROVE  TitlesApart'
<1>1. PICK i \in Ids : \E k \in DOMAIN books[i] :
         PersonTypes(i, k) \/ PersonInsertsRow(i, k) \/ PersonRetitles(i, k) \/ PersonMovesTab(i, k)
  BY DEF PersonInSheet
<1>2. PICK tabs : tabs = books[i]
  OBVIOUS
<1>3. PICK k \in DOMAIN tabs : PersonTypes(i, k) \/ PersonInsertsRow(i, k) \/ PersonRetitles(i, k) \/ PersonMovesTab(i, k)
  BY <1>1, <1>2
<1>4. tabs \in Seq(Tabs) /\ Distinct(tabs) /\ DOMAIN tabs = 1 .. Len(tabs) /\ Len(tabs) \in Nat
  BY <1>2 DEF BooksInOrder, TitlesApart
<1>5. ASSUME NEW new, Distinct(new), books' = [books EXCEPT ![i] = new]  PROVE TitlesApart'
  BY <1>5, BookApart
<1>6. ASSUME NEW rows, books' = [books EXCEPT ![i] = [tabs EXCEPT ![k].rows = rows]]  PROVE TitlesApart'
  <2>1. PICK new : new = [tabs EXCEPT ![k].rows = rows]
    OBVIOUS
  <2>2. Rewritten(tabs, k, rows, new)
    BY <2>1 DEF Rewritten
  <2>3. Distinct(new)
    BY <1>4, <2>2, RowsOnly
  <2>. QED  BY <1>5, <1>6, <2>1, <2>3
<1>7. CASE PersonTypes(i, k) \/ PersonInsertsRow(i, k)
  BY <1>2, <1>6, <1>7 DEF PersonTypes, PersonInsertsRow
<1>8. ASSUME Titled(tabs, "New") = {}, books' = [books EXCEPT ![i] = [tabs EXCEPT ![k].title = "New"]]
      PROVE  TitlesApart'
  <2>1. PICK new : new = [tabs EXCEPT ![k].title = "New"]
    OBVIOUS
  <2>2. tabs[k] \in Tabs
    BY <1>4
  <2>3. [tabs[k] EXCEPT !.title = "New"].title = "New"
    BY <2>2 DEF Tabs
  <2>4. DOMAIN new = DOMAIN tabs /\ new[k].title = "New" /\ \A j \in DOMAIN tabs \ {k} : new[j] = tabs[j]
    BY <2>1, <2>3
  <2>5. \A j \in DOMAIN tabs : Lower[tabs[j].title] # Lower["New"]
    BY <1>8 DEF Titled
  <2>6. Distinct(new)
    BY <1>4, <2>4, <2>5 DEF Distinct
  <2>. QED  BY <1>5, <1>8, <2>1, <2>6
<1>9. ASSUME NEW j \in DOMAIN tabs \ {k},
             books' = [books EXCEPT ![i] = [tabs EXCEPT ![k].title = tabs[j].title, ![j].title = tabs[k].title]]
      PROVE  TitlesApart'
  <2>1. PICK a, b : a = tabs[k].title /\ b = tabs[j].title
    OBVIOUS
  <2>2. PICK new : new = [tabs EXCEPT ![k].title = b, ![j].title = a]
    OBVIOUS
  <2>3. tabs[k] \in Tabs /\ tabs[j] \in Tabs
    BY <1>4
  <2>4. [tabs[k] EXCEPT !.title = b].title = b /\ [tabs[j] EXCEPT !.title = a].title = a
    BY <2>3 DEF Tabs
  <2>5. /\ DOMAIN new = DOMAIN tabs /\ new[k].title = b /\ new[j].title = a
        /\ \A l \in DOMAIN tabs \ {j, k} : new[l] = tabs[l]
    BY <1>9, <2>2, <2>4
  <2>6. Distinct(new)
    BY <1>4, <1>9, <2>1, <2>5 DEF Distinct
  <2>. QED  BY <1>5, <1>9, <2>1, <2>2, <2>6
<1>10. CASE PersonRetitles(i, k)
  BY <1>2, <1>8, <1>9, <1>10 DEF PersonRetitles
<1>11. CASE PersonMovesTab(i, k)
  <2>1. k < Len(tabs) /\ books' = [books EXCEPT ![i][k] = books[i][k + 1], ![i][k + 1] = books[i][k]]
    BY <1>2, <1>11 DEF PersonMovesTab
  <2>2. k \in Nat /\ k + 1 \in DOMAIN tabs /\ k + 1 # k
    BY <1>3, <1>4, <2>1
  <2>3. PICK l : l = k + 1
    OBVIOUS
  <2>4. PICK new : new = [tabs EXCEPT ![k] = tabs[l], ![l] = tabs[k]]
    OBVIOUS
  <2>5. books' = [books EXCEPT ![i] = new]
    BY <1>2, <2>1, <2>3, <2>4 DEF BooksInOrder
  <2>6. /\ DOMAIN new = DOMAIN tabs /\ new[k] = tabs[l] /\ new[l] = tabs[k]
        /\ \A j \in DOMAIN tabs \ {k, l} : new[j] = tabs[j]
    BY <2>2, <2>3, <2>4
  <2>7. Distinct(new)
    BY <1>3, <1>4, <2>2, <2>3, <2>6 DEF Distinct
  <2>. QED  BY <1>5, <2>5, <2>7
<1>. QED  BY <1>3, <1>7, <1>10, <1>11

(* No spreadsheet is none.                                                   *)
NoneIsNoBook == None \notin Seq(Tabs)

(* What a preview shows is of these rows.                                    *)
SawOf(saw, rows, o) ==
    /\ o.tool = "deleteRows" => saw = RowsShown(saw.book, Doomed(rows, o))
    /\ o.tool = "updateRange" =>
        LET found == FormulasOverwritten(rows, o)
        IN \E named \in FirstFormulas(found) : saw = FormulasShown(saw.book, found, named)

(* What a caller was shown is of the tab it named.                           *)
Saw(c) ==
    shown[c].book # None =>
        \E k \in Titled(shown[c].book, op[c].tab) : SawOf(shown[c], shown[c].book[k].rows, op[c])

LEMMA SawThisTab ==
    ASSUME NoneIsNoBook, NEW c, Saw(c), NEW tabs \in Seq(Tabs), Distinct(tabs), shown[c].book = tabs,
           NEW k \in Titled(tabs, op[c].tab)
    PROVE  SawOf(shown[c], tabs[k].rows, op[c])
<1>1. tabs # None
  BY DEF NoneIsNoBook
<1>2. PICK j \in Titled(tabs, op[c].tab) : SawOf(shown[c], tabs[j].rows, op[c])
  BY <1>1 DEF Saw
<1>3. j = k
  BY DEF Titled, Distinct
<1>. QED  BY <1>2, <1>3

(* What a call was shown stays what it was while others go on.               *)
LEMMA ShownStays ==
    ASSUME NEW e, op' = op, shown'[e] = shown[e], Saw(e)
    PROVE  Saw(e)'
<1>1. CASE shown[e].book = None
  BY <1>1 DEF Saw
<1>2. CASE shown[e].book # None
  <2>1. PICK k \in Titled(shown[e].book, op[e].tab) : SawOf(shown[e], shown[e].book[k].rows, op[e])
    BY <1>2 DEF Saw
  <2>2. k \in Titled(shown'[e].book, op'[e].tab) /\ SawOf(shown'[e], shown'[e].book[k].rows, op'[e])
    BY <2>1
  <2>. QED  BY <2>2 DEF Saw
<1>. QED  BY <1>1, <1>2

LEMMA RowsOfTab ==
    ASSUME NEW tabs \in Seq(Tabs), NEW k \in DOMAIN tabs
    PROVE  tabs[k].rows \in Seq(Rows)
<1>1. tabs[k] \in Tabs
  OBVIOUS
<1>. QED  BY <1>1 DEF Tabs

(* These are rows of so many, as they are displayed, and the others are empty. *)
HoldRows(rows, at, count, d) ==
    \E n \in 0 .. count :
        /\ d = [i \in 1 .. n |-> Displayed(rows[at + i - 1].cells)]
        /\ \A i \in n + 1 .. count : rows[at + i - 1].cells = EmptyCells

(* The rows a delete reads are those it takes, up to the last that holds anything. *)
LEMMA DoomedIs ==
    ASSUME NEW rows \in Seq(Rows), NEW at \in Nat \ {0}, NEW count \in Nat \ {0}, at + count - 1 <= Len(rows),
           NEW o, o.at = at, o.count = count
    PROVE  HoldRows(rows, at, count, Doomed(rows, o))
<1>1. PICK last : last = at + count - 1
  OBVIOUS
<1>2. last \in Nat /\ at <= last /\ last - at + 1 = count /\ (IF last < Len(rows) THEN last ELSE Len(rows)) = last
  BY <1>1
<1>3. PICK asked : asked = SubSeq(rows, at, last)
  OBVIOUS
<1>4. asked \in Seq(Rows) /\ Len(asked) = count /\ \A i \in 1 .. count : asked[i] = rows[at + i - 1]
  <2>1. \A i \in at .. last : rows[i] \in Rows
    BY <1>1
  <2>. QED  BY <1>2, <1>3, <2>1, SubSeqProperties
<1>5. PICK n : n = LastUsed(asked)
  OBVIOUS
<1>6. n \in 0 .. count /\ \A r \in DOMAIN asked : r > n => asked[r].cells = EmptyCells
  BY <1>4, <1>5, LastUsedIsThere
<1>7. Doomed(rows, o) = [i \in 1 .. n |-> Displayed(asked[i].cells)]
  BY <1>1, <1>2, <1>3, <1>5 DEF Doomed
<1>8. Doomed(rows, o) = [i \in 1 .. n |-> Displayed(rows[at + i - 1].cells)]
  <2>1. \A i \in 1 .. n : asked[i] = rows[at + i - 1]
    BY <1>4, <1>6
  <2>. QED  BY <1>7, <2>1
<1>9. \A i \in n + 1 .. count : rows[at + i - 1].cells = EmptyCells
  <2>1. SUFFICES ASSUME NEW i \in n + 1 .. count  PROVE rows[at + i - 1].cells = EmptyCells
    OBVIOUS
  <2>2. i \in DOMAIN asked /\ i > n /\ asked[i] = rows[at + i - 1]
    BY <1>4, <1>6
  <2>3. asked[i].cells = EmptyCells
    BY <1>6, <2>2
  <2>. QED  BY <2>2, <2>3
<1>. QED  BY <1>6, <1>8, <1>9 DEF HoldRows

(* So many are printed, and the others counted.                              *)
LEMMA PrintedIs ==
    ASSUME NEW S, NEW d \in Seq(S), NEW tabs
    PROVE  LET saw == RowsShown(tabs, d)
           IN /\ Len(saw.rows) \in Nat /\ saw.more \in Nat /\ Len(saw.rows) + saw.more = Len(d)
              /\ \A i \in 1 .. Len(saw.rows) : saw.rows[i] = d[i]
              /\ saw.more # 0 => Len(saw.rows) = PreviewRowsMax
<1>1. PreviewRowsMax \in Nat /\ Len(d) \in Nat
  BY SheetsHoldTabs
<1>2. PICK printed : printed = IF Len(d) < PreviewRowsMax THEN Len(d) ELSE PreviewRowsMax
  OBVIOUS
<1>3. printed \in 0 .. Len(d) /\ (Len(d) - printed # 0 => printed = PreviewRowsMax)
  BY <1>1, <1>2
<1>4. PICK first : first = SubSeq(d, 1, printed)
  OBVIOUS
<1>5. Len(first) = printed /\ \A i \in 1 .. printed : first[i] = d[i]
  BY <1>3, <1>4, Pieces
<1>6. PICK saw : saw = RowsShown(tabs, d)
  OBVIOUS
<1>7. saw.rows = first /\ saw.more = Len(d) - printed
  BY <1>2, <1>4, <1>6 DEF RowsShown, NotShown
<1>8. /\ Len(saw.rows) \in Nat /\ saw.more \in Nat /\ Len(saw.rows) + saw.more = Len(d)
      /\ \A i \in 1 .. Len(saw.rows) : saw.rows[i] = d[i]
      /\ saw.more # 0 => Len(saw.rows) = PreviewRowsMax
  BY <1>1, <1>3, <1>5, <1>7
<1>. QED  BY <1>6, <1>8

(* The rows a delete takes are those it shows and counts.                    *)
LEMMA RowsLostAreShown ==
    ASSUME NoneIsNoBook, NEW c, Saw(c), NEW tabs \in Seq(Tabs), Distinct(tabs), NEW k \in DOMAIN tabs, NEW new,
           Tool(c) = "deleteRows", op[c].at \in 0 .. Word - 1, RowCount(op[c].count), RowNumber(op[c].at),
           Carried(tabs[k].rows, Request(op[c]))
    PROVE  LossShown(c, tabs, k, new)
<1>1. SUFFICES ASSUME shown[c].book = tabs, k \in Titled(tabs, op[c].tab)
               PROVE  RowsTold(shown[c], tabs[k].rows, op[c].at, op[c].count)
  BY DEF LossShown
<1>2. PICK saw : saw = shown[c]
  OBVIOUS
<1>3. PICK at, count, rows : at = op[c].at /\ count = op[c].count /\ rows = tabs[k].rows
  OBVIOUS
<1>4. at \in 1 .. Word - 1 /\ count \in Nat \ {0} /\ RowCount(count)
  BY <1>3, SheetsHoldTabs DEF RowNumber, RowCount
<1>5. Request(op[c]).range = RowRange(at, count) /\ Request(op[c]).kind = "delete"
  BY <1>3 DEF Request, DeleteRows, Tool
<1>6. RowRange(at, count).start < RowRange(at, count).end /\ RowRange(at, count).end <= Len(rows)
  BY <1>3, <1>5 DEF Carried, InGrid
<1>7. at + count - 1 <= Len(rows) /\ at \in Nat \ {0}
  BY <1>4, <1>6, RangeIs, SheetsHoldTabs
<1>8. rows \in Seq(Rows)
  BY <1>3, RowsOfTab
<1>9. PICK d : d = Doomed(rows, op[c])
  OBVIOUS
<1>10. PICK n \in 0 .. count :
          /\ d = [i \in 1 .. n |-> Displayed(rows[at + i - 1].cells)]
          /\ \A i \in n + 1 .. count : rows[at + i - 1].cells = EmptyCells
  <2>1. PICK o : o = op[c]
    OBVIOUS
  <2>2. o.at = at /\ o.count = count
    BY <1>3, <2>1
  <2>3. HoldRows(rows, at, count, Doomed(rows, o))
    BY <1>4, <1>7, <1>8, <2>2, DoomedIs
  <2>. QED  BY <1>9, <2>1, <2>3 DEF HoldRows
<1>11. PICK S : S = {d[i] : i \in 1 .. n}
  OBVIOUS
<1>12. d \in Seq(S) /\ Len(d) = n
  <2>1. n \in Nat /\ DOMAIN d = 1 .. n /\ d = [i \in 1 .. n |-> d[i]] /\ \A i \in 1 .. n : d[i] \in S
    BY <1>4, <1>10, <1>11
  <2>2. d \in Seq(S)
    BY <2>1
  <2>. QED  BY <2>1, <2>2
<1>13. saw = RowsShown(saw.book, d)
  BY <1>1, <1>2, <1>3, <1>9, SawThisTab DEF SawOf, Tool
<1>14. /\ Len(saw.rows) \in Nat /\ saw.more \in Nat /\ Len(saw.rows) + saw.more = n
       /\ \A i \in 1 .. Len(saw.rows) : saw.rows[i] = d[i]
       /\ saw.more # 0 => Len(saw.rows) = PreviewRowsMax
  <2>1. PICK book : book = saw.book
    OBVIOUS
  <2>2. PICK it : it = RowsShown(book, d)
    OBVIOUS
  <2>3. /\ Len(it.rows) \in Nat /\ it.more \in Nat /\ Len(it.rows) + it.more = Len(d)
        /\ \A i \in 1 .. Len(it.rows) : it.rows[i] = d[i]
        /\ it.more # 0 => Len(it.rows) = PreviewRowsMax
    BY <1>12, <2>2, PrintedIs
  <2>. QED  BY <1>12, <1>13, <2>1, <2>2, <2>3
<1>15. ASSUME NEW m \in 0 .. count - 1
       PROVE  IF m < Len(saw.rows) THEN saw.rows[m + 1] = Displayed(rows[at + m].cells)
              ELSE m < Len(saw.rows) + saw.more \/ rows[at + m].cells = EmptyCells
  <2>1. m \in Nat /\ m + 1 \in 1 .. count /\ at + (m + 1) - 1 = at + m
    BY <1>4, <1>7
  <2>2. CASE m < Len(saw.rows)
    <3>1. m + 1 \in 1 .. Len(saw.rows) /\ m + 1 \in 1 .. n
      BY <1>14, <2>1, <2>2
    <3>2. d[m + 1] = Displayed(rows[at + (m + 1) - 1].cells)
      BY <1>10, <3>1
    <3>. QED  BY <1>14, <2>1, <2>2, <3>1, <3>2
  <2>3. CASE ~(m < Len(saw.rows)) /\ ~(m < Len(saw.rows) + saw.more)
    <3>1. m + 1 \in n + 1 .. count
      BY <1>14, <2>1, <2>3
    <3>2. rows[at + (m + 1) - 1].cells = EmptyCells
      BY <1>10, <3>1
    <3>. QED  BY <2>1, <2>3, <3>2
  <2>. QED  BY <2>2, <2>3
<1>. QED  BY <1>2, <1>3, <1>14, <1>15 DEF RowsTold

(* Of the formulas a preview finds, it names all or the first, and counts the others. *)
LEMMA NamedOrCounted ==
    ASSUME NEW found, IsFiniteSet(found), NEW named \in FirstFormulas(found), NEW lost \in SUBSET found, NEW tabs
    PROVE  FormulasNamed(FormulasShown(tabs, found, named), lost)
<1>1. named \in SUBSET found
  BY DEF FirstFormulas
<1>2. Cardinality(named) = IF Cardinality(found) <= PreviewFormulas THEN Cardinality(found) ELSE PreviewFormulas
  BY DEF FirstFormulas
<1>3. PICK saw : saw = FormulasShown(tabs, found, named)
  OBVIOUS
<1>4. saw.cells = named /\ saw.more = Cardinality(found \ named)
  BY <1>3 DEF FormulasShown, NotShown
<1>5. CASE Cardinality(found) <= PreviewFormulas
  <2>1. named = found
    BY <1>1, <1>2, <1>5, FS_Subset
  <2>. QED  BY <1>3, <1>4, <2>1 DEF FormulasNamed
<1>6. CASE ~(Cardinality(found) <= PreviewFormulas)
  <2>1. Cardinality(lost) <= Cardinality(found) /\ IsFiniteSet(lost) /\ IsFiniteSet(named)
    BY <1>1, FS_Subset
  <2>2. found \cap named = named
    BY <1>1
  <2>3. Cardinality(found \ named) = Cardinality(found) - Cardinality(named)
    BY <2>2, FS_Difference
  <2>4. Cardinality(found) \in Nat /\ Cardinality(lost) \in Nat /\ Cardinality(named) \in Nat
    BY <2>1, FS_CardinalityType
  <2>5. PICK f, l, n, m : f = Cardinality(found) /\ l = Cardinality(lost) /\ n = Cardinality(named) /\ m = saw.more
    OBVIOUS
  <2>6. n = PreviewFormulas /\ l <= n + m
    BY <1>2, <1>4, <1>6, <2>1, <2>3, <2>4, <2>5
  <2>7. Cardinality(saw.cells) = PreviewFormulas /\ Cardinality(lost) <= PreviewFormulas + saw.more
    BY <1>4, <2>5, <2>6
  <2>. QED  BY <1>3, <2>7 DEF FormulasNamed
<1>. QED  BY <1>5, <1>6

LEMMA FewFormulas ==
    ASSUME NEW rows \in Seq(Rows), NEW o
    PROVE  IsFiniteSet(FormulasOverwritten(rows, o))
<1>1. IsFiniteSet(DOMAIN rows) /\ IsFiniteSet(1 .. Columns)
  <2>1. DOMAIN rows = 1 .. Len(rows) /\ Len(rows) \in Int /\ 1 \in Int /\ Columns \in Int
    BY DEF Columns
  <2>. QED  BY <2>1, FS_Interval
<1>2. IsFiniteSet((DOMAIN rows) \X (1 .. Columns))
  BY <1>1, FS_Product
<1>3. FormulasOverwritten(rows, o) \in SUBSET ((DOMAIN rows) \X (1 .. Columns))
  BY DEF FormulasOverwritten
<1>. QED  BY <1>2, <1>3, FS_Subset

(* The formulas of the range a write puts values over are those it shows and counts. *)
LEMMA CellsLostAreShown ==
    ASSUME NoneIsNoBook, NEW c, Saw(c), NEW tabs \in Seq(Tabs), Distinct(tabs), NEW k \in DOMAIN tabs, NEW new,
           Tool(c) = "updateRange", RowsAsAsked(op[c], tabs[k].rows, new)
    PROVE  LossShown(c, tabs, k, new)
<1>. DEFINE o == op[c]
            old == tabs[k].rows
            found == FormulasOverwritten(old, o)
            lost == {cell \in (DOMAIN old) \X (1 .. Columns) :
                      LET had == old[cell[1]].cells[cell[2]]
                      IN InRange(o, cell[1], cell[2]) /\ IsFormula(had) /\ new[cell[1]].cells[cell[2]] # had}
<1>1. ASSUME NEW r \in DOMAIN old, NEW m \in 1 .. Columns, new[r].cells[m] # old[r].cells[m]
      PROVE  WrittenOver(o, r, m)
  <2>1. new[r].cells[m] = IF WrittenOver(o, r, m) THEN o.rows[r - o.top + 1][m - o.left + 1] ELSE old[r].cells[m]
    BY DEF RowsAsAsked, Tool
  <2>. QED  BY <1>1, <2>1
<1>2. lost \in SUBSET found
  <2>1. SUFFICES ASSUME NEW cell \in lost  PROVE cell \in found
    OBVIOUS
  <2>2. PICK r \in DOMAIN old, m \in 1 .. Columns : cell = <<r, m>>
    OBVIOUS
  <2>3. cell[1] = r /\ cell[2] = m
    BY <2>2
  <2>4. InRange(o, cell[1], cell[2]) /\ IsFormula(old[cell[1]].cells[cell[2]])
        /\ new[cell[1]].cells[cell[2]] # old[cell[1]].cells[cell[2]]
    OBVIOUS
  <2>5. WrittenOver(o, cell[1], cell[2])
    BY <1>1, <2>3, <2>4
  <2>. QED  BY <2>4, <2>5 DEF FormulasOverwritten
<1>3. LossShown(c, tabs, k, new) <=>
        (shown[c].book = tabs /\ k \in Titled(tabs, o.tab) => FormulasNamed(shown[c], lost))
  <2>. HIDE DEF lost
  <2>. QED  BY DEF LossShown, lost, Tool
<1>4. ASSUME shown[c].book = tabs, k \in Titled(tabs, o.tab)  PROVE FormulasNamed(shown[c], lost)
  <2>1. SawOf(shown[c], old, o) /\ o.tool = "updateRange"
    BY <1>4, SawThisTab DEF Tool
  <2>2. old \in Seq(Rows)
    BY RowsOfTab
  <2>3. IsFiniteSet(found)
    BY <2>2, FewFormulas
  <2>. HIDE DEF lost
  <2>4. PICK named \in FirstFormulas(found) : shown[c] = FormulasShown(shown[c].book, found, named)
    BY <2>1 DEF SawOf
  <2>. HIDE DEF found
  <2>5. PICK book : book = shown[c].book
    OBVIOUS
  <2>6. FormulasNamed(FormulasShown(book, found, named), lost)
    BY <1>2, <2>3, NamedOrCounted
  <2>. QED  BY <2>4, <2>5, <2>6
<1>. QED  BY <1>3, <1>4

(* Rows a call has named are rows, and so many as a call may name.           *)
Checked(c) ==
    Tool(c) \in Structural /\ pc[c] \in {"tab", "change"} =>
        RowCount(op[c].count) /\ RowNumber(op[c].at) /\ (Tool(c) = "copyFormat" => RowNumber(op[c].from))

LEMMA TabRewritten ==
    ASSUME CallsInOrder, BooksInOrder, TitlesApart, NEW c \in Calls, op[c].book \in Ids,
           NEW k \in DOMAIN books[op[c].book], NEW rows, NEW new,
           Rewritten(books[op[c].book], k, rows, new), ChangeBook(c, new),
           Tool(c) \in Structural => books[op[c].book][k].id = target[c],
           Tool(c) # "addTab", RowsAsAsked(op[c], books[op[c].book][k].rows, rows),
           LossShown(c, books[op[c].book], k, rows)
    PROVE  TitlesApart' /\ SheetsAsAsked(c) /\ shown' = shown /\ pc'[c] \in {"done", "failed"}
<1>. DEFINE i == op[c].book
<1>1. PICK tabs \in Seq(Tabs) : tabs = books[i]
  BY DEF BooksInOrder
<1>2. Distinct(tabs) /\ k \in DOMAIN tabs /\ Rewritten(tabs, k, rows, new)
  BY <1>1 DEF TitlesApart
<1>3. new[k].rows = rows /\ Distinct(new)
  BY <1>2, RowsOnly
<1>4. books' = [books EXCEPT ![i] = new] /\ shown' = shown /\ pc'[c] \in {"done", "failed"}
  BY DEF ChangeBook, Proceed, Goto, CallsInOrder
<1>5. TitlesApart'
  BY <1>3, <1>4, BookApart
<1>6. books'[i] = new /\ \A j \in Ids \ {i} : books'[j] = books[j]
  BY <1>4 DEF BooksInOrder
<1>7. SheetsAsAsked(c)
  <2>1. new = [tabs EXCEPT ![k].rows = new[k].rows]
    BY <1>2, <1>3 DEF Rewritten
  <2>. QED  BY <1>1, <1>2, <1>3, <1>6, <2>1 DEF SheetsAsAsked
<1>. QED  BY <1>4, <1>5, <1>7

LEMMA TabAppended ==
    ASSUME CallsInOrder, BooksInOrder, TitlesApart, NEW c \in Calls, op[c].book \in Ids, Tool(c) = "addTab",
           NEW title \in STRING, Addable(books[op[c].book], title), ChangeBook(c, TabAdded(books[op[c].book], title))
    PROVE  TitlesApart' /\ SheetsAsAsked(c) /\ shown' = shown /\ pc'[c] \in {"done", "failed"}
<1>. DEFINE i == op[c].book
<1>1. PICK tabs \in Seq(Tabs) : tabs = books[i]
  BY DEF BooksInOrder
<1>2. PICK new : new = TabAdded(tabs, title)
  OBVIOUS
<1>3. Distinct(tabs) /\ Addable(tabs, title)
  BY <1>1 DEF TitlesApart
<1>4. Distinct(new) /\ Len(new) = Len(tabs) + 1 /\ \A k \in DOMAIN tabs : new[k] = tabs[k]
  BY <1>2, <1>3, OneMoreTab
<1>5. books' = [books EXCEPT ![i] = new] /\ shown' = shown /\ pc'[c] \in {"done", "failed"}
  BY <1>1, <1>2 DEF ChangeBook, Proceed, Goto, CallsInOrder
<1>6. TitlesApart'
  BY <1>4, <1>5, BookApart
<1>7. books'[i] = new /\ \A j \in Ids \ {i} : books'[j] = books[j]
  BY <1>5 DEF BooksInOrder
<1>8. SubSeq(new, 1, Len(tabs)) = tabs
  <2>1. new \in Seq(Tabs)
    BY <1>2, TabAddedIs
  <2>2. Len(tabs) \in 0 .. Len(new) /\ DOMAIN tabs = 1 .. Len(tabs)
    BY <1>4, <2>1
  <2>3. SubSeq(new, 1, Len(tabs)) \in Seq(Tabs) /\ Len(SubSeq(new, 1, Len(tabs))) = Len(tabs)
        /\ \A r \in 1 .. Len(tabs) : SubSeq(new, 1, Len(tabs))[r] = new[r]
    BY <2>1, <2>2, Pieces
  <2>4. \A r \in 1 .. Len(tabs) : SubSeq(new, 1, Len(tabs))[r] = tabs[r]
    BY <1>4, <2>2, <2>3
  <2>. QED  BY <2>3, <2>4, SeqEqual
<1>9. SheetsAsAsked(c)
  BY <1>1, <1>4, <1>7, <1>8 DEF SheetsAsAsked
<1>. QED  BY <1>5, <1>6, <1>9

LEMMA SheetsKeepToWhatIsAsked ==
    ASSUME NoneIsNoBook, CallsInOrder, StationsInOrder, BooksInOrder, TitlesApart,
           NEW c \in Calls, SheetCall(c), Tool(c) # "newBook", Checked(c), Saw(c), shown = [e \in Calls |-> shown[e]]
    PROVE  /\ TitlesApart' /\ Checked(c)' /\ Saw(c)'
           /\ shown' = [e \in Calls |-> shown'[e]] /\ \A e \in Calls \ {c} : shown'[e] = shown[e]
           /\ books' # books => SheetsAsAsked(c)
<1>. DEFINE Conclusion == /\ TitlesApart' /\ Checked(c)' /\ Saw(c)'
                          /\ shown' = [e \in Calls |-> shown'[e]] /\ \A e \in Calls \ {c} : shown'[e] = shown[e]
                          /\ books' # books => SheetsAsAsked(c)
            o == op[c]
            tabs == books[o.book]
<1>0. SUFFICES Conclusion
  OBVIOUS
<1>1. /\ \A to : Goto(c, to) => pc'[c] = to /\ op' = op
      /\ Stationed(c)
  BY DEF Goto, CallsInOrder, StationsInOrder
<1>2. op' = op /\ Tool(c)' = Tool(c)
  <2>1. Onwards(c)
    BY <1>1, SheetCallsMove
  <2>. QED  BY <2>1 DEF Onwards, Goto, Tool
<1>3. ASSUME books' = books, shown' = shown, pc'[c] \notin {"tab", "change"}  PROVE Conclusion
  <2>1. TitlesApart'
    BY <1>3, TitlesSame
  <2>2. Saw(c)'
    BY <1>2, <1>3, ShownStays
  <2>. QED  BY <1>3, <2>1, <2>2 DEF Checked
<1>4. ASSUME TitlesApart', SheetsAsAsked(c), shown' = shown, pc'[c] \in {"done", "failed"}  PROVE Conclusion
  <2>1. Saw(c)'
    BY <1>2, <1>4, ShownStays
  <2>. QED  BY <1>4, <2>1 DEF Checked
<1>5. ASSUME NEW k \in Titled(tabs, o.tab), NEW what, Show(c, what), what.book = tabs, SawOf(what, tabs[k].rows, o)
      PROVE  Conclusion
  <2>1. books' = books /\ shown' = [shown EXCEPT ![c] = what] /\ pc'[c] = "called"
    BY <1>1, <1>5 DEF Show, Proceed
  <2>2. shown'[c] = what
    BY <2>1
  <2>3. Saw(c)'
    <3>1. k \in Titled(shown'[c].book, op'[c].tab) /\ SawOf(shown'[c], shown'[c].book[k].rows, op'[c])
      BY <1>2, <1>5, <2>2
    <3>. QED  BY <3>1 DEF Saw
  <2>4. TitlesApart'
    BY <2>1, TitlesSame
  <2>5. shown' = [e \in Calls |-> shown'[e]] /\ \A e \in Calls \ {c} : shown'[e] = shown[e]
    BY <2>1
  <2>. QED  BY <2>1, <2>3, <2>4, <2>5 DEF Checked
<1>. HIDE DEF Conclusion
<1>6. CASE Deny(c) \/ Break(c)
  BY <1>1, <1>3, <1>6 DEF Deny, Break, Refuse, Fail, sheetVars
<1>7. CASE SheetsAppendRows(c)
  <2>1. Tool(c) = "appendRows" /\ o.tool = "appendRows"
    BY <1>7 DEF SheetsAppendRows, Under, Tool
  <2>2. ASSUME NEW k \in Titled(tabs, o.tab), ChangeBook(c, [tabs EXCEPT ![k].rows = Appended(@, o.rows)])
        PROVE  Conclusion
    <3>1. k \in DOMAIN tabs /\ o.book \in Ids /\ o.rows \in Seq(Seq(STRING))
      BY <2>1, SheetsAsked DEF Titled, SheetTools
    <3>2. tabs[k].rows \in Seq(Rows)
      BY <3>1, TabIs
    <3>3. PICK rows, new : rows = Appended(tabs[k].rows, o.rows) /\ new = [tabs EXCEPT ![k].rows = rows]
      OBVIOUS
    <3>4. RowsAsAsked(o, tabs[k].rows, rows)
      BY <2>1, <3>1, <3>2, <3>3, AppendsAsAsked
    <3>5. LossShown(c, tabs, k, rows) /\ Tool(c) \notin Structural /\ Tool(c) # "addTab"
      BY <2>1 DEF LossShown, Structural
    <3>6. ChangeBook(c, new) /\ Rewritten(tabs, k, rows, new)
      BY <2>2, <3>3 DEF Rewritten
    <3>. QED  BY <1>4, <3>1, <3>4, <3>5, <3>6, TabRewritten
  <2>. QED  BY <1>6, <1>7, <2>2 DEF SheetsAppendRows
<1>8. CASE SheetsUpdateRange(c)
  <2>1. Tool(c) = "updateRange" /\ o.tool = "updateRange"
    BY <1>8 DEF SheetsUpdateRange, Under, Tool
  <2>2. ASSUME NEW k \in Titled(tabs, o.tab),
               ChangeBook(c, [tabs EXCEPT ![k].rows = Overwritten(@, o.top, o.left, o.rows)])
        PROVE  Conclusion
    <3>1. /\ k \in DOMAIN tabs /\ o.book \in Ids /\ o.rows \in Seq(Seq(STRING))
          /\ o.top \in Nat \ {0} /\ o.left \in Nat \ {0}
      BY <2>1, SheetsAsked DEF Titled, SheetTools
    <3>2. tabs \in Seq(Tabs) /\ tabs[k].rows \in Seq(Rows) /\ Distinct(tabs)
      BY <3>1, TabIs DEF TitlesApart
    <3>3. PICK rows, new : rows = Overwritten(tabs[k].rows, o.top, o.left, o.rows) /\ new = [tabs EXCEPT ![k].rows = rows]
      OBVIOUS
    <3>4. RowsAsAsked(o, tabs[k].rows, rows)
      BY <2>1, <3>1, <3>2, <3>3, WritesAsAsked
    <3>5. LossShown(c, tabs, k, rows)
      BY <2>1, <2>2, <3>1, <3>2, <3>4, CellsLostAreShown
    <3>6. ChangeBook(c, new) /\ Rewritten(tabs, k, rows, new) /\ Tool(c) \notin Structural /\ Tool(c) # "addTab"
      BY <2>1, <2>2, <3>3 DEF Rewritten, Structural
    <3>. QED  BY <1>4, <3>1, <3>4, <3>5, <3>6, TabRewritten
  <2>3. ASSUME NEW k \in Titled(tabs, o.tab), NEW found, found = FormulasOverwritten(tabs[k].rows, o),
               NEW named \in FirstFormulas(found), Show(c, FormulasShown(tabs, found, named))
        PROVE  Conclusion
    <3>1. PICK what : what = FormulasShown(tabs, found, named)
      OBVIOUS
    <3>2. what.book = tabs
      BY <3>1 DEF FormulasShown, NotShown
    <3>3. SawOf(what, tabs[k].rows, o)
      BY <2>1, <2>3, <3>1, <3>2 DEF SawOf
    <3>. QED  BY <1>5, <2>3, <3>1, <3>2, <3>3
  <2>. QED  BY <1>6, <1>8, <2>2, <2>3 DEF SheetsUpdateRange
<1>9. CASE SheetsInsertRows(c) \/ SheetsDeleteRows(c) \/ SheetsCopyFormat(c)
  <2>1. Tool(c) \in Structural /\ o.tool = Tool(c) /\ SheetsStructural(c)
    BY <1>9 DEF SheetsInsertRows, SheetsDeleteRows, SheetsCopyFormat, Under, Structural, Tool
  <2>2. CASE RowCount(o.count) /\ RowNumber(o.at) /\ (o.tool = "copyFormat" => RowNumber(o.from)) /\ Proceed(c, "tab") /\ UNCHANGED sheetVars
    <3>1. Checked(c)'
      BY <1>2, <2>1, <2>2 DEF Checked, RowCount, RowNumber
    <3>2. books' = books /\ shown' = shown
      BY <2>2 DEF sheetVars
    <3>3. Saw(c)'
      BY <1>2, <3>2, ShownStays
    <3>4. TitlesApart'
      BY <3>2, TitlesSame
    <3>. QED  BY <3>1, <3>2, <3>3, <3>4 DEF Conclusion
  <2>. QED  BY <1>6, <2>1, <2>2 DEF SheetsStructural
<1>10. CASE FindTab(c)
  <2>1. CASE books' = books /\ shown' = shown /\ pc[c] = "tab"
    <3>1. Checked(c)'
      BY <1>2, <2>1 DEF Checked, RowCount, RowNumber
    <3>2. Saw(c)'
      BY <1>2, <2>1, ShownStays
    <3>3. TitlesApart'
      BY <2>1, TitlesSame
    <3>. QED  BY <2>1, <3>1, <3>2, <3>3 DEF Conclusion
  <2>. QED  BY <1>6, <1>10, <2>1 DEF FindTab
<1>11. CASE PreviewRows(c)
  <2>1. o.tool = Tool(c)
    BY DEF Tool
  <2>2. ASSUME Tool(c) = "deleteRows", NEW k \in Titled(tabs, o.tab), Show(c, RowsShown(tabs, Doomed(tabs[k].rows, o)))
        PROVE  Conclusion
    <3>1. PICK what : what = RowsShown(tabs, Doomed(tabs[k].rows, o))
      OBVIOUS
    <3>2. what.book = tabs
      BY <3>1 DEF RowsShown, NotShown
    <3>3. SawOf(what, tabs[k].rows, o)
      BY <2>1, <2>2, <3>1, <3>2 DEF SawOf
    <3>. QED  BY <1>5, <2>2, <3>1, <3>2, <3>3
  <2>3. CASE Show(c, shown[c])
    <3>1. shown' = shown /\ books' = books /\ pc'[c] = "called"
      BY <1>1, <2>3 DEF Show, Proceed
    <3>. QED  BY <1>3, <3>1
  <2>. QED  BY <1>6, <1>11, <2>1, <2>2, <2>3 DEF PreviewRows
<1>12. CASE Change(c)
  <2>1. Tool(c) \in Structural /\ o.book \in Ids /\ Countable(o) /\ pc[c] = "change" /\ o.tool = Tool(c)
    <3>1. Tool(c) \in Structural
      BY <1>1, <1>12, WhoIsThere DEF Change
    <3>. QED  BY <1>12, <3>1, SheetsAsked DEF SheetTools, Change, Tool
  <2>2. RowCount(o.count) /\ RowNumber(o.at) /\ (o.tool = "copyFormat" => RowNumber(o.from))
    BY <2>1 DEF Checked
  <2>3. ASSUME NEW k \in WithId(tabs, target[c]), Carried(tabs[k].rows, Request(o)),
               ChangeBook(c, [tabs EXCEPT ![k].rows = Dimensioned(@, Request(o))])
        PROVE  Conclusion
    <3>1. k \in DOMAIN tabs /\ tabs[k].id = target[c]
      BY DEF WithId
    <3>2. tabs \in Seq(Tabs) /\ tabs[k].rows \in Seq(Rows) /\ Distinct(tabs)
      BY <2>1, <3>1, TabIs DEF TitlesApart
    <3>3. PICK rows, new : rows = Dimensioned(tabs[k].rows, Request(o)) /\ new = [tabs EXCEPT ![k].rows = rows]
      OBVIOUS
    <3>4. RowsAsAsked(o, tabs[k].rows, rows)
      BY <2>1, <2>2, <2>3, <3>2, <3>3, DimensionsAsAsked
    <3>5. LossShown(c, tabs, k, rows)
      <4>1. CASE Tool(c) = "deleteRows"
        BY <2>1, <2>2, <2>3, <3>1, <3>2, <4>1, RowsLostAreShown DEF Countable
      <4>2. CASE Tool(c) # "deleteRows"
        BY <2>1, <4>2 DEF LossShown, Structural
      <4>. QED  BY <4>1, <4>2
    <3>6. ChangeBook(c, new) /\ Rewritten(tabs, k, rows, new) /\ Tool(c) # "addTab"
      BY <2>1, <2>3, <3>3 DEF Rewritten, Structural
    <3>. QED  BY <1>4, <2>1, <3>1, <3>4, <3>5, <3>6, TabRewritten
  <2>. QED  BY <1>6, <1>12, <2>3 DEF Change
<1>13. CASE SheetsAddTab(c)
  <2>1. Tool(c) = "addTab"
    BY <1>13 DEF SheetsAddTab, Under, Tool
  <2>2. o.book \in Ids /\ o.title \in STRING
    BY <2>1, SheetsAsked DEF SheetTools
  <2>3. ASSUME Addable(tabs, o.title), ChangeBook(c, TabAdded(tabs, o.title))  PROVE Conclusion
    <3>1. PICK title \in STRING : title = o.title
      BY <2>2
    <3>. QED  BY <1>4, <2>1, <2>2, <2>3, <3>1, TabAppended
  <2>. QED  BY <1>6, <1>13, <2>3 DEF SheetsAddTab
<1>14. ~SheetsCreate(c) /\ ~AddNextTab(c) /\ ~Created(c)
  BY <1>1, WhoIsThere DEF SheetsCreate, AddNextTab, Created, Under, Tool
<1>. QED  BY <1>7, <1>8, <1>9, <1>10, <1>11, <1>12, <1>13, <1>14 DEF SheetCall

(* What callers were shown, and what is known of it.                         *)
ShownInOrder ==
    /\ shown = [c \in Calls |-> shown[c]]
    /\ TitlesApart
    /\ \A c \in Calls : Checked(c) /\ Saw(c)

LEMMA ShownInit == Init => ShownInOrder
<1>1. SUFFICES ASSUME Init  PROVE ShownInOrder
  OBVIOUS
<1>2. books = InBooks /\ shown = [c \in Calls |-> NotShown] /\ \A c \in Calls : pc[c] = "called"
  BY <1>1 DEF Init, SheetsInit
<1>3. TitlesApart
  BY <1>2, SheetsHoldTabs DEF TitlesApart
<1>4. \A c \in Calls : shown[c].book = None
  BY <1>2 DEF NotShown
<1>. QED  BY <1>2, <1>3, <1>4 DEF ShownInOrder, Checked, Saw

LEMMA NewBooksApart ==
    ASSUME CallsInOrder, BooksInOrder, TitlesApart, NEW c \in Calls, Adding(c), Tool(c) = "newBook",
           SheetsCreate(c) \/ AddNextTab(c) \/ Created(c)
    PROVE  TitlesApart' /\ shown' = shown
<1>1. CASE SheetsCreate(c)
  <2>1. shown' = shown
    BY <1>1 DEF SheetsCreate
  <2>2. CASE books' = books
    BY <2>1, <2>2, TitlesSame
  <2>3. ASSUME NEW i \in Ids, NEW first, books' = [books EXCEPT ![i] = <<first>>]  PROVE TitlesApart'
    <3>1. PICK new : new = <<first>>
      OBVIOUS
    <3>2. Distinct(new)
      BY <3>1 DEF Distinct
    <3>. QED  BY <2>3, <3>1, <3>2, BookApart
  <2>. QED  BY <1>1, <2>1, <2>2, <2>3 DEF SheetsCreate
<1>2. CASE AddNextTab(c)
  <2>1. shown' = shown /\ pc[c] = "adding" /\ job[c].missing # <<>>
    BY <1>2 DEF AddNextTab
  <2>2. CASE books' = books
    BY <2>1, <2>2, TitlesSame
  <2>3. PICK i, title : i = job[c].place /\ title = Head(job[c].missing)
    OBVIOUS
  <2>4. i \in Ids /\ title \in STRING
    <3>1. job[c].place \in PutBy(c) /\ job[c].missing \in Seq(STRING)
      BY <2>1 DEF Adding
    <3>. QED  BY <2>1, <2>3, <3>1, HeadAndTail, NewBooksAreNew
  <2>5. ASSUME Addable(books[i], title), books' = [books EXCEPT ![i] = TabAdded(@, title)]  PROVE TitlesApart'
    <3>1. PICK tabs \in Seq(Tabs) : tabs = books[i]
      BY <2>4 DEF BooksInOrder
    <3>2. PICK new : new = TabAdded(tabs, title)
      OBVIOUS
    <3>3. Distinct(new)
      BY <2>4, <2>5, <3>1, <3>2, OneMoreTab DEF TitlesApart
    <3>. QED  BY <2>4, <2>5, <3>1, <3>2, <3>3, BookApart
  <2>. QED  BY <1>2, <2>1, <2>2, <2>3, <2>5 DEF AddNextTab
<1>3. CASE Created(c)
  BY <1>3, TitlesSame DEF Created, sheetVars
<1>. QED  BY <1>1, <1>2, <1>3

LEMMA ShownStep ==
    ASSUME NoneIsNoItem, NoneIsNoBook, CallsKept, BooksKept, ShownInOrder, [Next]_vars
    PROVE  /\ ShownInOrder'
           /\ \A c \in Calls : Tool(c) \in SheetTools /\ pc'[c] # pc[c] /\ books' # books => SheetsAsAsked(c)
<1>1. PlacesInOrder /\ CallsInOrder /\ StationsInOrder /\ BooksInOrder /\ TitlesApart
  BY DEF CallsKept, BooksKept, PlacesInOrder, UploadsInOrder, ShownInOrder
<1>2. shown = [e \in Calls |-> shown[e]] /\ \A e \in Calls : Checked(e) /\ Saw(e) /\ Adding(e)
  BY DEF ShownInOrder, BooksKept
<1>3. ASSUME NEW c \in Calls, Drive(c) \/ SheetsOf(c) \/ Gmail(c) \/ CalendarOf(c),
             TitlesApart', Checked(c)', Saw(c)',
             shown' = [e \in Calls |-> shown'[e]], \A e \in Calls \ {c} : shown'[e] = shown[e],
             Tool(c) \in SheetTools /\ books' # books => SheetsAsAsked(c)
      PROVE  /\ ShownInOrder'
             /\ \A e \in Calls : Tool(e) \in SheetTools /\ pc'[e] # pc[e] /\ books' # books => SheetsAsAsked(e)
  <2>1. op' = op /\ \A e \in Calls \ {c} : pc'[e] = pc[e]
    BY <1>1, <1>3, OneCallAlone
  <2>2. \A e \in Calls \ {c} : Checked(e)'
    BY <1>2, <2>1 DEF Checked, RowCount, RowNumber, Tool
  <2>3. \A e \in Calls \ {c} : Saw(e)'
    BY <1>2, <1>3, <2>1, ShownStays
  <2>4. ShownInOrder'
    BY <1>3, <2>2, <2>3 DEF ShownInOrder
  <2>. QED  BY <1>3, <2>1, <2>4
<1>4. ASSUME NEW c \in Calls, Drive(c) \/ Gmail(c) \/ CalendarOf(c)
      PROVE  Tool(c) \notin SheetTools /\ Checked(c)' /\ Saw(c)' /\ TitlesApart' /\ shown' = shown
  <2>1. Stationed(c)
    BY <1>1 DEF StationsInOrder
  <2>2. Tool(c) \notin SheetTools
    BY <1>4, <2>1, WhoseStep DEF Drive, Gmail, CalendarOf, DriveTools, MailTools, EventTools, SheetTools, Structural
  <2>3. books' = books /\ shown' = shown
    BY <1>4 DEF Drive, Gmail, CalendarOf, sheetVars
  <2>4. op' = op /\ Tool(c)' = Tool(c)
    BY <1>1, <1>4, OneCallAlone
  <2>5. Checked(c)'
    BY <2>2, <2>4 DEF Checked, SheetTools
  <2>6. TitlesApart'
    BY <1>1, <2>3, TitlesSame
  <2>. QED  BY <1>2, <2>2, <2>3, <2>4, <2>5, <2>6, ShownStays
<1>5. ASSUME NEW c \in Calls, SheetsOf(c), Tool(c) = "newBook"
      PROVE  Checked(c)' /\ Saw(c)' /\ TitlesApart' /\ shown' = shown
  <2>1. Stationed(c) /\ SheetCall(c)
    BY <1>1, <1>5 DEF StationsInOrder, SheetsOf
  <2>2. SheetsCreate(c) \/ AddNextTab(c) \/ Created(c)
    BY <1>5, <2>1, WhoIsThere DEF SheetCall, SheetsAppendRows, SheetsUpdateRange, SheetsInsertRows, SheetsDeleteRows,
       SheetsCopyFormat, FindTab, PreviewRows, Change, SheetsAddTab, Under, Tool, Structural
  <2>3. op' = op /\ Tool(c)' = Tool(c)
    BY <1>1, <1>5, OneCallAlone
  <2>4. TitlesApart' /\ shown' = shown
    BY <1>1, <1>2, <1>5, <2>2, NewBooksApart
  <2>5. Checked(c)'
    BY <1>5, <2>3 DEF Checked, Structural
  <2>. QED  BY <1>2, <2>3, <2>4, <2>5, ShownStays
<1>6. ASSUME NEW c \in Calls, SheetsOf(c), Tool(c) # "newBook"
      PROVE  /\ ShownInOrder'
             /\ \A e \in Calls : Tool(e) \in SheetTools /\ pc'[e] # pc[e] /\ books' # books => SheetsAsAsked(e)
  <2>1. SheetCall(c)
    BY <1>6 DEF SheetsOf
  <2>2. /\ TitlesApart' /\ Checked(c)' /\ Saw(c)'
        /\ shown' = [e \in Calls |-> shown'[e]] /\ \A e \in Calls \ {c} : shown'[e] = shown[e]
        /\ books' # books => SheetsAsAsked(c)
    BY <1>1, <1>2, <1>6, <2>1, SheetsKeepToWhatIsAsked
  <2>. QED  BY <1>3, <1>6, <2>2
<1>7. CASE Others \/ Sweep \/ UNCHANGED vars
  <2>1. op' = op /\ pc' = pc /\ shown' = shown
    BY <1>7 DEF Others, Sweep, Expire, vars, calls, sheetVars
  <2>2. books' = books \/ PersonInSheet
    BY <1>7 DEF Others, Sweep, vars, sheetVars
  <2>3. TitlesApart'
    BY <1>1, <2>2, TitlesSame, PeopleKeepApart
  <2>4. \A e \in Calls : Checked(e)'
    BY <1>2, <2>1 DEF Checked, RowCount, RowNumber, Tool
  <2>5. \A e \in Calls : Saw(e)'
    BY <1>2, <2>1, ShownStays
  <2>. QED  BY <1>2, <2>1, <2>3, <2>4, <2>5 DEF ShownInOrder
<1>8. ASSUME NEW c \in Calls, Drive(c) \/ SheetsOf(c) \/ Gmail(c) \/ CalendarOf(c)
      PROVE  /\ ShownInOrder'
             /\ \A e \in Calls : Tool(e) \in SheetTools /\ pc'[e] # pc[e] /\ books' # books => SheetsAsAsked(e)
  <2>1. CASE Drive(c) \/ Gmail(c) \/ CalendarOf(c)
    BY <1>2, <1>3, <1>4, <1>8, <2>1
  <2>2. CASE SheetsOf(c) /\ Tool(c) = "newBook"
    <3>1. Tool(c) \notin SheetTools
      BY <2>2 DEF SheetTools, Structural
    <3>. QED  BY <1>2, <1>3, <1>5, <1>8, <2>2, <3>1
  <2>. QED  BY <1>6, <1>8, <2>1, <2>2
<1>. QED  BY <1>7, <1>8 DEF Next

(* No time is none.                                                          *)
NoneIsNoMoment == \A kind, at : When(kind, at) # None

(* The fields a call was given.                                              *)
GivenIn(o, fields) == \E allDay, event : fields = Draft(o, allDay, event)

(* A call goes on with an event nobody was invited to, and sends the fields   *)
(* it was given.                                                             *)
Uninvited(c) ==
    /\ pc[c] \in {"drafting", "patching", "deleting"} => existing[c].guests = {}
    /\ pc[c] = "patching" => GivenIn(op[c], patch[c])

PatchesInOrder == patch = [c \in Calls |-> patch[c]] /\ \A c \in Calls : Uninvited(c)

(* The fields of an event, and what a patch makes of them.                   *)
Patched(event, fields) == [f \in DOMAIN event |-> IF f \in Fields /\ fields[f] # None THEN fields[f] ELSE event[f]]

(* What was given is in the event, and the rest is as it was.                *)
AsGiven(event, o, after) ==
    /\ after.guests = event.guests
    /\ \A f \in {"title", "place"} : after[f] = IF o[f] \in {None, ""} THEN event[f] ELSE o[f]
    /\ \A f \in {"start", "end"} : IF o[f] = None THEN after[f] = event[f] ELSE after[f].at = o[f].at

LEMMA PatchGivesWhatWasGiven ==
    ASSUME NoneIsNoMoment, NEW event, IsEvent(event), NEW o, NEW fields, GivenIn(o, fields)
    PROVE  AsGiven(event, o, Patched(event, fields))
<1>. DEFINE after == Patched(event, fields)
<1>0. PICK allDay, had : fields = Draft(o, allDay, had)
  BY DEF GivenIn
<1>1. DOMAIN event = {"there", "title", "start", "end", "place", "guests"}
  BY DEF IsEvent, Event
<1>2. /\ fields["title"] = Clean(o.title) /\ fields["place"] = Clean(o.place)
      /\ fields["start"] = Moment(o.start, allDay) /\ fields["end"] = Moment(o.end, allDay)
  BY <1>0 DEF Draft
<1>3. /\ after.guests = event.guests
      /\ \A f \in Fields : after[f] = IF fields[f] # None THEN fields[f] ELSE event[f]
  BY <1>1 DEF Patched, Fields
<1>4. \A f \in {"title", "place"} : after[f] = IF o[f] \in {None, ""} THEN event[f] ELSE o[f]
  BY <1>2, <1>3 DEF Fields, Clean
<1>5. ASSUME NEW f \in {"start", "end"}  PROVE IF o[f] = None THEN after[f] = event[f] ELSE after[f].at = o[f].at
  <2>1. fields[f] = Moment(o[f], allDay) /\ f \in Fields
    BY <1>2 DEF Fields
  <2>2. CASE o[f] = None
    BY <1>3, <2>1, <2>2 DEF Moment
  <2>3. CASE o[f] # None
    <3>1. PICK kind : fields[f] = When(kind, o[f].at)
      BY <2>1, <2>3 DEF Moment
    <3>2. after[f] = When(kind, o[f].at)
      BY <1>3, <2>1, <3>1 DEF NoneIsNoMoment
    <3>. QED  BY <2>3, <3>2 DEF When
  <2>. QED  BY <2>2, <2>3
<1>. QED  BY <1>3, <1>4, <1>5 DEF AsGiven

(* One event is another, and no other is.                                    *)
LEMMA OneEvent ==
    ASSUME EventsInOrder, NEW c, NEW i \in EventIds, NEW r, Done(c, i, r)
    PROVE  events'[i] = r /\ \A j \in EventIds \ {i} : events'[j] = events[j]
BY DEF EventsInOrder, Done

LEMMA OneEventIsNew ==
    ASSUME NoneIsNoEvent, EventsInOrder, NEW c \in Calls, Tool(c) = "newEvent", NEW i \in EventIds, NEW r, Done(c, i, r),
           NewEventId(i), IsEvent(r), r.guests = {}
    PROVE  EventsAsAsked(c)
<1>1. events'[i] = r /\ (\A j \in EventIds \ {i} : events'[j] = events[j]) /\ events[i] = None
  BY OneEvent DEF NewEventId
<1>2. r # None
  BY DEF NoneIsNoEvent
<1>3. (CHOOSE j \in EventIds : events'[j] # events[j]) = i
  BY <1>1, <1>2
<1>. QED  BY <1>1, <1>3 DEF EventsAsAsked

LEMMA EventsKeepToWhatIsAsked ==
    ASSUME NoneIsNoEvent, NoneIsNoMoment, CallsInOrder, StationsInOrder, EventsInOrder, PatchesInOrder,
           NEW c \in Calls, CalendarOf(c)
    PROVE  /\ Uninvited(c)'
           /\ patch' = [e \in Calls |-> patch'[e]]
           /\ \A e \in Calls \ {c} : patch'[e] = patch[e] /\ existing'[e] = existing[e]
           /\ events' # events => EventsAsAsked(c)
<1>. DEFINE TheirsStay == /\ patch' = [e \in Calls |-> patch'[e]]
                       /\ \A e \in Calls \ {c} : patch'[e] = patch[e] /\ existing'[e] = existing[e]
            Fits == Uninvited(c)' /\ TheirsStay /\ (events' # events => EventsAsAsked(c))
            i == op[c].event
            away == {"done", "failed", "refused", "called"}
<1>1. SUFFICES Fits
  OBVIOUS
<1>2. EventCall(c) /\ Stationed(c) /\ op' = op /\ Tool(c)' = Tool(c) /\ Uninvited(c)
  BY OneCallAlone DEF CalendarOf, StationsInOrder, PatchesInOrder
<1>3. \A to : Goto(c, to) => pc'[c] = to
  BY DEF Goto, CallsInOrder
<1>4. patch = [e \in Calls |-> patch[e]] /\ existing = [e \in Calls |-> existing[e]]
  BY DEF PatchesInOrder, EventsInOrder
<1>5. ASSUME pc'[c] \in away, events' = events \/ EventsAsAsked(c), TheirsStay  PROVE Fits
  <2>1. Uninvited(c)'
    BY <1>5 DEF Uninvited
  <2>. QED  BY <1>5, <2>1
<1>6. ASSUME NEW j, NEW r, Done(c, j, r), EventsAsAsked(c)  PROVE Fits
  <2>1. pc'[c] \in away /\ TheirsStay
    BY <1>3, <1>4, <1>6 DEF Done
  <2>. QED  BY <1>5, <1>6, <2>1
<1>7. ASSUME Reject(c) \/ Lose(c)  PROVE Fits
  BY <1>3, <1>4, <1>5, <1>7 DEF Reject, Lose, eventVars
<1>8. Tool(c) \in {"changeEvent", "deleteEvent"} => i \in EventIds
  BY EventAsked DEF CallsInOrder
<1>9. /\ pc[c] \in {"drafting", "patching"} => Tool(c) = "changeEvent"
      /\ pc[c] = "deleting" => Tool(c) = "deleteEvent"
  BY <1>2, WhoIsThere
<1>10. ASSUME NEW to \in {"drafting", "deleting"}, ReadEvent(c, to)  PROVE Fits
  <2>1. CASE events[i].guests = {} /\ Goto(c, to) /\ existing' = [existing EXCEPT ![c] = events[i]] /\ events' = events /\ patch' = patch
    <3>1. pc'[c] = to /\ existing'[c] = events[i] /\ TheirsStay
      BY <1>3, <1>4, <2>1
    <3>2. Uninvited(c)'
      BY <1>10, <2>1, <3>1 DEF Uninvited
    <3>. QED  BY <2>1, <3>1, <3>2
  <2>. HIDE DEF Fits
  <2>. QED  BY <1>7, <1>10, <2>1 DEF ReadEvent
<1>. HIDE DEF Fits
<1>11. CASE CalendarCreateEvent(c)
  <2>1. CASE ~(Reject(c) \/ Lose(c))
    <3>1. Tool(c) = "newEvent"
      BY <1>11 DEF CalendarCreateEvent, Under, Tool
    <3>2. \E title, start, end, place : \E j \in EventIds : NewEventId(j) /\ Done(c, j, Event(title, start, end, place, {}))
      BY <1>11, <2>1 DEF CalendarCreateEvent
    <3>3. PICK j \in EventIds : \E title, start, end, place : NewEventId(j) /\ Done(c, j, Event(title, start, end, place, {}))
      BY <3>2
    <3>4. PICK r : NewEventId(j) /\ Done(c, j, r) /\ IsEvent(r) /\ r.guests = {}
      <4>1. \A title, start, end, place : Event(title, start, end, place, {}).guests = {}
        BY DEF Event
      <4>. QED  BY <3>3, <4>1, EventShapes
    <3>5. EventsAsAsked(c)
      BY <3>1, <3>4, OneEventIsNew
    <3>. QED  BY <1>6, <3>4, <3>5
  <2>. QED  BY <1>7, <2>1
<1>12. CASE CalendarUpdateEvent(c) \/ CalendarDeleteEvent(c)
  BY <1>10, <1>12 DEF CalendarUpdateEvent, CalendarDeleteEvent
<1>13. CASE DraftEvent(c)
  <2>1. CASE ~Reject(c)
    <3>1. PICK allDay : /\ pc[c] = "drafting" /\ Goto(c, "patching") /\ events' = events /\ existing' = existing
                        /\ patch' = [patch EXCEPT ![c] = Draft(op[c], allDay, existing[c])]
      BY <1>13, <2>1 DEF DraftEvent
    <3>2. pc'[c] = "patching" /\ patch'[c] = Draft(op[c], allDay, existing[c]) /\ existing'[c] = existing[c] /\ TheirsStay
      BY <1>3, <1>4, <3>1
    <3>3. existing[c].guests = {}
      BY <1>2, <3>1 DEF Uninvited
    <3>4. Uninvited(c)'
      <4>1. GivenIn(op'[c], patch'[c])
        BY <1>2, <3>2 DEF GivenIn
      <4>. QED  BY <3>2, <3>3, <4>1 DEF Uninvited
    <3>. QED  BY <3>1, <3>2, <3>4 DEF Fits
  <2>. QED  BY <1>7, <2>1
<1>14. CASE PreviewEvent(c)
  <2>1. pc'[c] = "called" /\ events' = events /\ TheirsStay
    BY <1>3, <1>4, <1>14 DEF PreviewEvent
  <2>. QED  BY <1>5, <2>1
<1>15. CASE PatchEvent(c)
  <2>1. CASE ~Lose(c)
    <3>1. PICK after : /\ pc[c] = "patching" /\ Existing(i) /\ after = Patched(events[i], patch[c])
                       /\ Sound(after) /\ Done(c, i, after)
      BY <1>15, <2>1 DEF PatchEvent, Patched
    <3>2. Tool(c) = "changeEvent" /\ i \in EventIds
      BY <1>8, <1>9, <3>1
    <3>3. GivenIn(op[c], patch[c])
      BY <1>2, <3>1 DEF Uninvited
    <3>4. existing[c].guests = {}
      BY <1>2, <3>1 DEF Uninvited
    <3>5. IsEvent(events[i])
      BY <3>1, <3>2 DEF Existing, EventsInOrder
    <3>6. AsGiven(events[i], op[c], after)
      <4>1. PICK event, o, fields : event = events[i] /\ o = op[c] /\ fields = patch[c]
        OBVIOUS
      <4>2. IsEvent(event) /\ GivenIn(o, fields)
        BY <3>3, <3>5, <4>1
      <4>3. AsGiven(event, o, Patched(event, fields))
        BY <4>2, PatchGivesWhatWasGiven
      <4>. QED  BY <3>1, <4>1, <4>3
    <3>7. events'[i] = after /\ \A j \in EventIds \ {i} : events'[j] = events[j]
      BY <3>1, <3>2, OneEvent
    <3>8. EventsAsAsked(c)
      BY <3>1, <3>2, <3>4, <3>6, <3>7 DEF EventsAsAsked, AsGiven, Sound
    <3>. QED  BY <1>6, <3>1, <3>8
  <2>. QED  BY <1>7, <2>1
<1>16. CASE DeleteEvent(c)
  <2>1. CASE ~Lose(c)
    <3>1. PICK after : pc[c] = "deleting" /\ Existing(i) /\ after = [events[i] EXCEPT !.there = FALSE] /\ Done(c, i, after)
      BY <1>16, <2>1, DeletionIs
    <3>2. Tool(c) = "deleteEvent" /\ i \in EventIds
      BY <1>8, <1>9, <3>1
    <3>3. after.guests = events[i].guests
      BY <3>1
    <3>4. existing[c].guests = {}
      BY <1>2, <3>1 DEF Uninvited
    <3>5. events'[i] = after /\ \A j \in EventIds \ {i} : events'[j] = events[j]
      BY <3>1, <3>2, OneEvent
    <3>6. EventsAsAsked(c)
      BY <3>2, <3>3, <3>4, <3>5 DEF EventsAsAsked
    <3>. QED  BY <1>6, <3>1, <3>6
  <2>. QED  BY <1>7, <2>1
<1>. QED  BY <1>2, <1>11, <1>12, <1>13, <1>14, <1>15, <1>16 DEF EventCall

LEMMA PatchesInit == Init => PatchesInOrder
BY DEF Init, CalendarInit, PatchesInOrder, Uninvited

LEMMA UninvitedStays ==
    ASSUME NEW e, op' = op, pc'[e] = pc[e], patch'[e] = patch[e], existing'[e] = existing[e], Uninvited(e)
    PROVE  Uninvited(e)'
<1>1. pc[e] = "patching" => GivenIn(op'[e], patch'[e])
  BY DEF Uninvited
<1>. QED  BY <1>1 DEF Uninvited

LEMMA PatchesStep ==
    ASSUME NoneIsNoEvent, NoneIsNoMoment, CallsInOrder, StationsInOrder, EventsInOrder, PatchesInOrder, [Next]_vars
    PROVE  /\ PatchesInOrder'
           /\ \A c \in Calls : Tool(c) \in EventTools /\ pc'[c] # pc[c] /\ events' # events => EventsAsAsked(c)
<1>1. patch = [e \in Calls |-> patch[e]] /\ \A e \in Calls : Uninvited(e)
  BY DEF PatchesInOrder
<1>2. ASSUME NEW c \in Calls, Drive(c) \/ SheetsOf(c) \/ Gmail(c) \/ CalendarOf(c),
             Uninvited(c)', patch' = [e \in Calls |-> patch'[e]],
             \A e \in Calls \ {c} : patch'[e] = patch[e] /\ existing'[e] = existing[e],
             events' # events => EventsAsAsked(c)
      PROVE  /\ PatchesInOrder'
             /\ \A e \in Calls : Tool(e) \in EventTools /\ pc'[e] # pc[e] /\ events' # events => EventsAsAsked(e)
  <2>1. op' = op /\ \A e \in Calls \ {c} : pc'[e] = pc[e]
    BY <1>2, OneCallAlone
  <2>2. \A e \in Calls \ {c} : Uninvited(e)'
    BY <1>1, <1>2, <2>1, UninvitedStays
  <2>3. PatchesInOrder'
    BY <1>2, <2>2 DEF PatchesInOrder
  <2>. QED  BY <1>2, <2>1, <2>3
<1>3. ASSUME NEW c \in Calls, Drive(c) \/ SheetsOf(c) \/ Gmail(c)
      PROVE  events' = events /\ existing' = existing /\ patch' = patch /\ Uninvited(c)'
  <2>1. Stationed(c) /\ Tool(c) \notin EventTools
    BY <1>3, WhoseStep DEF StationsInOrder, Drive, SheetsOf, Gmail, DriveTools, SheetTools, Structural, MailTools, EventTools
  <2>2. Stationed(c)' /\ Tool(c)' = Tool(c)
    BY <1>3, StationsStep, OneCallAlone DEF StationsInOrder
  <2>3. pc'[c] \notin {"drafting", "patching", "deleting"}
    <3>1. pc'[c] \in Stations(Tool(c))
      BY <2>2 DEF Stationed
    <3>. QED  BY <2>1, <3>1, ToolsThere DEF EventTools
  <2>4. events' = events /\ existing' = existing /\ patch' = patch
    BY <1>3 DEF Drive, SheetsOf, Gmail, eventVars
  <2>. QED  BY <2>3, <2>4 DEF Uninvited
<1>4. ASSUME NEW c \in Calls, Drive(c) \/ SheetsOf(c) \/ Gmail(c) \/ CalendarOf(c)
      PROVE  /\ PatchesInOrder'
             /\ \A e \in Calls : Tool(e) \in EventTools /\ pc'[e] # pc[e] /\ events' # events => EventsAsAsked(e)
  <2>1. CASE Drive(c) \/ SheetsOf(c) \/ Gmail(c)
    BY <1>1, <1>2, <1>3, <2>1
  <2>2. CASE CalendarOf(c)
    <3>1. /\ Uninvited(c)'
          /\ patch' = [e \in Calls |-> patch'[e]]
          /\ \A e \in Calls \ {c} : patch'[e] = patch[e] /\ existing'[e] = existing[e]
          /\ events' # events => EventsAsAsked(c)
      BY <2>2, EventsKeepToWhatIsAsked
    <3>. QED  BY <1>2, <2>2, <3>1
  <2>. QED  BY <1>4, <2>1, <2>2
<1>5. CASE Others \/ Sweep \/ UNCHANGED vars
  <2>1. op' = op /\ pc' = pc /\ existing' = existing /\ patch' = patch
    BY <1>5 DEF Others, Sweep, Expire, vars, calls, eventVars
  <2>2. \A e \in Calls : Uninvited(e)'
    BY <1>1, <2>1, UninvitedStays
  <2>. QED  BY <1>1, <2>1, <2>2 DEF PatchesInOrder
<1>. QED  BY <1>4, <1>5 DEF Next

(* A write to a spreadsheet changes the rows it names, counted from 1, of the  *)
(* tab it names.  Of what that takes away of a spreadsheet its caller was     *)
(* shown as it is, the caller was shown the first PREVIEW_ROWS rows and told   *)
(* how many more hold anything; inside the range given, it was told all the   *)
(* formulas, or the first PREVIEW_FORMULAS and how many more.  A write to a     *)
(* calendar changes the fields it was given of one event nobody was invited   *)
(* to when it was read, and invites nobody (mcp/sheets.rs, mcp/calendar.rs).   *)
THEOREM ChangesStayAsked ==
    ASSUME NoneIsNoItem, NoneIsNoDraft, NoneIsNoEvent, NoneIsNoBook, NoneIsNoMoment
    PROVE  Spec => ChangesAreAsked
<1>. DEFINE Inv == AnswersKept /\ ShownInOrder /\ PatchesInOrder
            AsDirected == \A c \in Calls :
                            /\ Tool(c) \in SheetTools /\ pc'[c] # pc[c] /\ books' # books => SheetsAsAsked(c)
                            /\ Tool(c) \in EventTools /\ pc'[c] # pc[c] /\ events' # events => EventsAsAsked(c)
<1>1. Init => Inv
  BY AnswersInit, ShownInit, PatchesInit
<1>2. Inv /\ [Next]_vars => Inv' /\ AsDirected
  <2>1. SUFFICES ASSUME Inv, [Next]_vars  PROVE Inv' /\ AsDirected
    OBVIOUS
  <2>2. CallsKept /\ BooksKept /\ CallsInOrder /\ StationsInOrder /\ EventsInOrder
    BY <2>1 DEF AnswersKept, CallsKept, UploadsInOrder
  <2>3. /\ ShownInOrder'
        /\ \A c \in Calls : Tool(c) \in SheetTools /\ pc'[c] # pc[c] /\ books' # books => SheetsAsAsked(c)
    BY <2>1, <2>2, ShownStep
  <2>4. /\ PatchesInOrder'
        /\ \A c \in Calls : Tool(c) \in EventTools /\ pc'[c] # pc[c] /\ events' # events => EventsAsAsked(c)
    BY <2>1, <2>2, PatchesStep
  <2>5. AnswersKept'
    BY <2>1, AnswersStep
  <2>. QED  BY <2>3, <2>4, <2>5
<1>. HIDE DEF Inv
<1>3. Inv /\ [Next]_vars => [AsDirected]_vars
  BY <1>2
<1>4. Init /\ [][Next]_vars => [][AsDirected]_vars
  BY <1>1, <1>2, <1>3, PTL
<1>5. [][AsDirected]_vars <=> ChangesAreAsked
  BY PTL DEF ChangesAreAsked
<1>. QED  BY <1>4, <1>5, PTL DEF Spec
=============================================================================
