------------------------------ MODULE DocsProofs ------------------------------
(***************************************************************************)
(* What holds of DocsEdit for every document, every write asked for and any   *)
(* number of edits by others: that what a call is answered is true, that     *)
(* what it writes is the plan its caller was shown, that the document stays   *)
(* one through every batch that Docs takes, and that Docs takes the plans     *)
(* which write and style text.                                              *)
(***************************************************************************)
EXTENDS DocsEdit, FiniteSetTheorems, SequenceTheorems, NaturalsInduction, WellFoundedInduction, TLAPS

(* How many batches a call has sent, by how far it has come, and that the    *)
(* second one is never an empty one.                                        *)
BatchesInOrder ==
    /\ rev \in Nat /\ mine \subseteq 1 .. rev
    /\ pc \in {"idle", "asked", "checked", "planned", "refused", "stale", "rejected"} => mine = {}
    /\ pc \in {"made", "filling"} => TwoBatches /\ \E r \in mine : mine = {r}
    /\ pc = "filling" => plan # <<>>
    /\ pc = "half" => TwoBatches /\ mine # {}
    /\ pc = "done" =>
         /\ mine # {}
         /\ plan # <<>> /\ TwoBatches => \E r, s \in mine : r # s /\ mine = {r, s}

(* An upload is held once the plan stands, which no refusal follows.         *)
UploadInOrder == pc \in {"idle", "asked", "checked", "refused"} => upload # "held"

CallInOrder == BatchesInOrder /\ UploadInOrder

(* At the revision the call names, the document is the one it was planned    *)
(* for and shown for.                                                       *)
PlanOfRevision ==
    /\ rev \in Nat /\ named \in Nat /\ named <= rev
    /\ pc = "idle" => seen = None
    /\ Guarded /\ named = rev =>
         /\ pc \in {"asked", "checked", "planned"} /\ seen # None => seen = Planned(doc, Outline(doc), op)
         /\ pc \in {"checked", "planned"} => plan = Planned(doc, Outline(doc), op)

-----------------------------------------------------------------------------

(* Every tool of src/mcp/docs.rs begins with one of the same three steps.    *)
LEMMA ToolSteps ==
    ASSUME \/ DocsInsertText \/ DocsEditParagraph \/ DocsStyleParagraph \/ DocsInsertCode
           \/ DocsInsertTable \/ InsertRowOrColumn \/ DeleteRowOrColumn
           \/ DocsDeleteParagraphs \/ DocsDeleteTable \/ DocsAppend \/ DocsReplaceText \/ DocsInsertImage
    PROVE  Preview \/ Plan \/ Refuse
BY DEF DocsInsertText, DocsEditParagraph, DocsStyleParagraph, DocsInsertCode, DocsInsertTable,
       InsertRowOrColumn, DeleteRowOrColumn, DocsDeleteParagraphs, DocsDeleteTable, DocsAppend,
       DocsReplaceText, DocsInsertImage, Handled

LEMMA Steps ==
    ASSUME Next
    PROVE  \/ Ask \/ Preview \/ Plan \/ Refuse \/ Hold \/ Expire \/ Write \/ WriteRefused
           \/ FindTable \/ FindLine \/ LeftEmpty \/ Fill \/ FillRefused \/ Others
BY ToolSteps DEF Next

(* A second batch is made ready, or found to have nothing to write.          *)
LEMMA FillingEither ==
    ASSUME NEW STATE requests, NEW STATE found, Filling(requests, found)
    PROVE  /\ (plan' = <<>> /\ pc' = "done") \/ (plan' # <<>> /\ pc' = "filling")
           /\ UNCHANGED <<doc, rev, op, seen, upload, mine>> /\ named' = rev
BY DEF Filling

LEMMA FindingFills ==
    ASSUME FindTable \/ FindLine
    PROVE  /\ pc = "made"
           /\ (plan' = <<>> /\ pc' = "done") \/ (plan' # <<>> /\ pc' = "filling")
           /\ UNCHANGED <<doc, rev, op, seen, upload, mine>> /\ named' = rev
<1>1. pc = "made"
  BY Zenon DEF FindTable, FindLine
<1>2. \E requests, found : Filling(requests, found)
  BY Zenon DEF FindTable, FindLine
<1>. QED  BY <1>1, <1>2, FillingEither

-----------------------------------------------------------------------------

LEMMA CallInit == Init => CallInOrder
BY DEF Init, CallInOrder, BatchesInOrder, UploadInOrder

LEMMA BatchesStep ==
    ASSUME CallInOrder, [Next]_vars
    PROVE  BatchesInOrder'
<1>. USE DEF CallInOrder, BatchesInOrder, TwoBatches
<1>1. CASE Ask
  BY <1>1 DEF Ask
<1>2. CASE Preview \/ Refuse
  BY <1>2 DEF Preview, Refuse
<1>3. CASE Plan
  BY <1>3 DEF Plan
<1>4. CASE Hold \/ Expire
  BY <1>4 DEF Hold, Expire
<1>5. CASE Write
  <2>1. /\ pc = "planned" /\ mine = {} /\ rev' = rev + 1 /\ mine' = {rev + 1}
        /\ pc' \in {"failed", IF TwoBatches THEN "made" ELSE "done"} /\ op' = op /\ plan' = plan
    BY <1>5 DEF Write, Applied
  <2>. QED  BY <2>1
<1>6. CASE WriteRefused
  BY <1>6 DEF WriteRefused, Answered
<1>7. CASE FindTable \/ FindLine
  BY <1>7, FindingFills
<1>8. CASE LeftEmpty \/ FillRefused
  <2>1. pc \in {"made", "filling"} /\ pc' = "half" /\ UNCHANGED <<rev, mine, op>>
    BY <1>8 DEF LeftEmpty, FillRefused, Answered
  <2>. QED  BY <2>1
<1>9. CASE Fill
  <2>1. /\ pc = "filling" /\ rev' = rev + 1 /\ mine' = mine \cup {rev + 1}
        /\ pc' \in {"done", "half"} /\ op' = op
    BY <1>9 DEF Fill, Applied
  <2>2. PICK r \in mine : mine = {r}
    BY <2>1
  <2>3. r # rev + 1 /\ mine' = {r, rev + 1} /\ mine' \subseteq 1 .. rev'
    BY <2>1, <2>2
  <2>. QED  BY <2>1, <2>3
<1>10. CASE Others
  <2>1. rev' = rev + 1 /\ UNCHANGED <<pc, op, plan, mine>>
    BY <1>10 DEF Others
  <2>. QED  BY <2>1
<1>11. CASE UNCHANGED vars
  BY <1>11 DEF vars
<1>. QED  BY <1>1, <1>2, <1>3, <1>4, <1>5, <1>6, <1>7, <1>8, <1>9, <1>10, <1>11, Steps

LEMMA UploadStep ==
    ASSUME CallInOrder, [Next]_vars
    PROVE  UploadInOrder'
<1>. USE DEF CallInOrder, UploadInOrder
<1>1. CASE Ask \/ Preview \/ Plan \/ Refuse
  BY <1>1 DEF Ask, Preview, Plan, Refuse
<1>2. CASE Hold \/ Expire
  BY <1>2 DEF Hold, Expire
<1>3. CASE Write \/ Fill
  BY <1>3 DEF Write, Fill, Applied
<1>4. CASE WriteRefused \/ LeftEmpty \/ FillRefused
  BY <1>4 DEF WriteRefused, LeftEmpty, FillRefused, Answered
<1>5. CASE FindTable \/ FindLine
  BY <1>5, FindingFills
<1>6. CASE Others \/ UNCHANGED vars
  BY <1>6 DEF Others, vars
<1>. QED  BY <1>1, <1>2, <1>3, <1>4, <1>5, <1>6, Steps

(* A call has sent no batch, one or two, as far as it has come.              *)
THEOREM BatchesAreCounted == Spec => []CallInOrder
<1>1. CallInOrder /\ [Next]_vars => CallInOrder'
  BY BatchesStep, UploadStep DEF CallInOrder
<1>. QED  BY CallInit, <1>1, PTL DEF Spec

LEMMA CallAnswers == CallInOrder => AnswersAreTrue
<1>. SUFFICES ASSUME CallInOrder PROVE AnswersAreTrue
  OBVIOUS
<1>1. ASSUME pc = "done", plan # <<>>, TwoBatches
      PROVE  Cardinality(mine) = 2
  <2>1. PICK r \in mine, s \in mine : r # s /\ mine = {r, s}
    BY <1>1 DEF CallInOrder, BatchesInOrder
  <2>2. IsFiniteSet({r}) /\ Cardinality({r}) = 1
    BY FS_Singleton
  <2>3. Cardinality({r} \cup {s}) = 2
    BY <2>1, <2>2, FS_AddElement
  <2>4. mine = {r} \cup {s}
    BY <2>1
  <2>. QED  BY <2>3, <2>4
<1>. QED  BY <1>1 DEF CallInOrder, BatchesInOrder, UploadInOrder, AnswersAreTrue

(* A refusal of src/mcp/docs.rs wrote nothing, "half" is a table or a line    *)
(* that was made, and "done" left nothing to do, whatever others write and   *)
(* whichever replies are lost.                                              *)
THEOREM AnswersHold == Spec => []AnswersAreTrue
BY BatchesAreCounted, CallAnswers, PTL

-----------------------------------------------------------------------------

LEMMA PlanInit == Init => PlanOfRevision
BY DEF Init, PlanOfRevision

LEMMA PlanStep ==
    ASSUME PlanOfRevision, [Next]_vars
    PROVE  PlanOfRevision'
<1>. USE DEF PlanOfRevision, Guarded
<1>1. CASE Ask
  BY <1>1 DEF Ask
<1>2. CASE Preview
  BY <1>2 DEF Preview
<1>3. CASE Plan
  BY <1>3 DEF Plan
<1>4. CASE Refuse \/ WriteRefused \/ LeftEmpty \/ FillRefused
  BY <1>4 DEF Refuse, WriteRefused, LeftEmpty, FillRefused, Answered
<1>5. CASE Hold \/ Expire
  BY <1>5 DEF Hold, Expire
<1>6. CASE Write \/ Fill
  <2>1. /\ rev' = rev + 1 /\ named' = named /\ pc' \in {"failed", "made", "done", "half"} /\ op' = op
    BY <1>6 DEF Write, Fill, Applied
  <2>. QED  BY <2>1
<1>7. CASE FindTable \/ FindLine
  BY <1>7, FindingFills
<1>8. CASE Others
  <2>1. rev' = rev + 1 /\ UNCHANGED <<pc, op, named, seen>>
    BY <1>8 DEF Others
  <2>. QED  BY <2>1
<1>9. CASE UNCHANGED vars
  BY <1>9 DEF vars
<1>. QED  BY <1>1, <1>2, <1>3, <1>4, <1>5, <1>6, <1>7, <1>8, <1>9, Steps

LEMMA WritesThePlanShown ==
    ASSUME PlanOfRevision, [Next]_vars, pc = "planned", pc' # "planned", doc' # doc, Guarded, seen # None
    PROVE  plan = seen
<1>1. Write
  <2>1. ~(FindTable \/ FindLine)
    BY FindingFills
  <2>. QED  BY <2>1, Steps DEF vars, Ask, Preview, Plan, Refuse, Hold, Expire, WriteRefused, Answered,
                               LeftEmpty, Fill, FillRefused, Others
<1>2. named = rev
  BY <1>1 DEF Write, Current
<1>. QED  BY <1>2 DEF PlanOfRevision

(* The plan that src/mcp/docs.rs sends is the plan it showed, made anew from  *)
(* the document at the same revision.                                       *)
THEOREM ShownIsWritten == Spec => WrittenAsShown
<1>1. PlanOfRevision /\ [Next]_vars => PlanOfRevision'
  BY PlanStep
<1>2. PlanOfRevision /\ [Next]_vars =>
        [pc = "planned" /\ pc' # "planned" /\ doc' # doc /\ Guarded /\ seen # None => plan = seen]_vars
  BY WritesThePlanShown
<1>. QED  BY PlanInit, <1>1, <1>2, PTL DEF Spec, WrittenAsShown

-----------------------------------------------------------------------------
(* The least of some numbers, and what is defined step by step: the lists of  *)
(* requests, ranges and units are walked that way. *)

LEMMA LeastOf ==
    ASSUME NEW T \in SUBSET Nat, T # {}
    PROVE  \E n \in T : \A m \in T : n <= m
<1>1. IsWellFoundedOn(OpToRel(<, Nat), Nat)
  BY NatLessThanWellFounded
<1>2. \E n \in T : \A m \in T : <<m, n>> \notin OpToRel(<, Nat)
  BY <1>1, WFMin
<1>3. \A m, n \in Nat : <<m, n>> \notin OpToRel(<, Nat) => n <= m
  BY DEF OpToRel
<1>. QED  BY <1>2, <1>3

LEMMA LeastIsOne ==
    ASSUME NEW T \in SUBSET Nat, T # {}
    PROVE  Least(T) \in T /\ \A x \in T : Least(T) <= x
BY LeastOf DEF Least

LEMMA GreatestIsMost ==
    ASSUME NEW n \in Nat, NEW T \in SUBSET (0 .. n), T # {}
    PROVE  Greatest(T) \in T /\ \A y \in T : Greatest(T) >= y
<1>. DEFINE U == {x \in 0 .. n : \A y \in T : x >= y}
<1>1. n \in U /\ U \in SUBSET Nat
  OBVIOUS
<1>2. PICK m \in U : \A x \in U : m <= x
  <2>. HIDE DEF U
  <2>. QED  BY <1>1, LeastOf
<1>3. m \in T
  <2>. SUFFICES ASSUME m \notin T PROVE FALSE
    OBVIOUS
  <2>1. \A y \in T : m > y
    BY <1>2
  <2>2. PICK y \in T : TRUE
    OBVIOUS
  <2>3. m - 1 \in U
    BY <1>2, <2>1, <2>2
  <2>. QED  BY <1>2, <2>3
<1>. QED  BY <1>2, <1>3 DEF Greatest

(* What holds at first and goes from each step to the next holds throughout.  *)
LEMMA Climb ==
    ASSUME NEW n \in Nat, NEW f, NEW S, f[0] \in S,
           \A k \in 1 .. n : f[k - 1] \in S => f[k] \in S
    PROVE  \A k \in 0 .. n : f[k] \in S
<1>. DEFINE T == {k \in 0 .. n : f[k] \notin S}
<1>. SUFFICES ASSUME T # {} PROVE FALSE
  OBVIOUS
<1>1. PICK k \in T : \A m \in T : k <= m
  <2>1. T \in SUBSET Nat
    OBVIOUS
  <2>. HIDE DEF T
  <2>. QED  BY <2>1, LeastOf
<1>2. k # 0 /\ k \in 1 .. n /\ k - 1 \in 0 .. n /\ f[k] \notin S
  BY <1>1
<1>3. k - 1 \notin T
  <2>. HIDE DEF T
  <2>1. k - 1 < k
    BY <1>2
  <2>2. T \subseteq Int
    BY DEF T
  <2>. QED  BY <1>1, <2>1, <2>2
<1>. QED  BY <1>2, <1>3

(* A function defined from each argument to the next is there.               *)
StepsOf(f, n, S, b, g) ==
    f \in [0 .. n -> S] /\ f[0] = b /\ \A k \in 1 .. n : f[k] = g[<<k, f[k - 1]>>]
StepsIn(g, n, S) == g \in [(1 .. n) \X S -> S]

LEMMA StepByStep ==
    ASSUME NEW n \in Nat, NEW S, NEW b \in S, NEW g, StepsIn(g, n, S)
    PROVE  \E f : StepsOf(f, n, S, b, g)
<1>0. g \in [(1 .. n) \X S -> S]
  BY DEF StepsIn
<1>. DEFINE Till(m, f) == f \in [0 .. m -> S] /\ f[0] = b /\ \A k \in 1 .. m : f[k] = g[<<k, f[k - 1]>>]
            T == {m \in 0 .. n : ~ \E f : Till(m, f)}
<1>. SUFFICES ASSUME T # {} PROVE FALSE
  <2>1. n \notin T
    OBVIOUS
  <2>2. \E f : Till(n, f)
    BY <2>1
  <2>. QED  BY <2>2 DEF StepsOf
<1>1. PICK m \in T : \A l \in T : m <= l
  <2>1. T \in SUBSET Nat
    OBVIOUS
  <2>. HIDE DEF T
  <2>. QED  BY <2>1, LeastOf
<1>2. Till(0, [k \in {0} |-> b])
  <2>1. 0 .. 0 = {0} /\ 1 .. 0 = {}
    OBVIOUS
  <2>. QED  BY <2>1
<1>3. m # 0
  BY <1>1, <1>2
<1>4. m \in 1 .. n /\ m - 1 \in 0 .. n /\ m - 1 < m
  BY <1>1, <1>3
<1>5. m - 1 \notin T
  <2>1. T \subseteq Int
    OBVIOUS
  <2>. HIDE DEF T
  <2>. QED  BY <1>1, <1>4, <2>1
<1>6. PICK f : Till(m - 1, f)
  BY <1>4, <1>5
<1>. DEFINE h == [k \in 0 .. m |-> IF k = m THEN g[<<m, f[m - 1]>>] ELSE f[k]]
<1>7. f[m - 1] \in S /\ g[<<m, f[m - 1]>>] \in S
  <2>1. m - 1 \in 0 .. m - 1
    BY <1>4
  <2>2. f[m - 1] \in S
    BY <1>6, <2>1
  <2>3. <<m, f[m - 1]>> \in (1 .. n) \X S
    BY <2>2, <1>4
  <2>. QED  BY <1>0, <2>2, <2>3
<1>8. h \in [0 .. m -> S]
  <2>. SUFFICES ASSUME NEW k \in 0 .. m PROVE (IF k = m THEN g[<<m, f[m - 1]>>] ELSE f[k]) \in S
    OBVIOUS
  <2>1. k # m => k \in 0 .. m - 1
    BY <1>4
  <2>. QED  BY <2>1, <1>6, <1>7
<1>9. h[0] = b
  BY <1>4, <1>6
<1>10. ASSUME NEW k \in 1 .. m PROVE h[k] = g[<<k, h[k - 1]>>]
  <2>1. k \in 0 .. m /\ k - 1 \in 0 .. m /\ k - 1 # m
    BY <1>4
  <2>2. h[k - 1] = f[k - 1]
    BY <2>1
  <2>3. CASE k = m
    BY <2>1, <2>2, <2>3
  <2>4. CASE k # m
    <3>1. k \in 1 .. m - 1
      BY <2>4, <1>4
    <3>2. h[k] = f[k] /\ f[k] = g[<<k, f[k - 1]>>]
      BY <2>1, <2>4, <3>1, <1>6
    <3>. QED  BY <3>2, <2>2
  <2>. QED  BY <2>3, <2>4
<1>11. Till(m, h)
  <2>. HIDE DEF h
  <2>. QED  BY <1>8, <1>9, <1>10
<1>. QED  BY <1>1, <1>11

-----------------------------------------------------------------------------
(* Units.  Putting units in, taking them out and restyling them leaves a whole *)
(* document: no step takes the newline a body ends in. *)

(* Sequences are put end to end from the first to the last.                  *)
FlatIs(f, n, seqs) ==
    /\ f[1] = seqs[1] /\ \A i \in 2 .. n : f[i] = f[i - 1] \o seqs[i]
    /\ FlattenSeq(seqs) = f[n]

LEMMA FlatSteps ==
    ASSUME NEW S, NEW seqs \in Seq(Seq(S)), NEW n, n = Len(seqs), n # 0
    PROVE  \E f : FlatIs(f, n, seqs)
<1>. DEFINE body(h) == [i \in 1 .. n |-> IF i = 1 THEN seqs[i] ELSE h[i - 1] \o seqs[i]]
            flatten == CHOOSE h : h = body(h)
            g == [p \in (1 .. n) \X Seq(S) |-> p[2] \o seqs[p[1]]]
<1>1. n \in Nat /\ n # 0
  OBVIOUS
<1>2. \A i \in 1 .. n : seqs[i] \in Seq(S)
  OBVIOUS
<1>3. <<>> \in Seq(S)
  OBVIOUS
<1>4. StepsIn(g, n, Seq(S))
  BY <1>2, ConcatProperties DEF StepsIn
<1>5. PICK f : StepsOf(f, n, Seq(S), <<>>, g)
  <2>. DEFINE e == <<>>
  <2>1. n \in Nat /\ e \in Seq(S)
    BY <1>1, <1>3
  <2>2. \E f : StepsOf(f, n, Seq(S), e, g)
    <3>. HIDE DEF g, e
    <3>. QED  BY <1>4, <2>1, StepByStep
  <2>. QED  BY <2>2
<1>6. \A k \in 1 .. n : f[k - 1] \in Seq(S) /\ f[k] = f[k - 1] \o seqs[k]
  <2>. SUFFICES ASSUME NEW k \in 1 .. n PROVE f[k - 1] \in Seq(S) /\ f[k] = f[k - 1] \o seqs[k]
    OBVIOUS
  <2>1. k - 1 \in 0 .. n
    BY <1>1
  <2>2. f[k - 1] \in Seq(S)
    BY <1>5, <2>1 DEF StepsOf
  <2>3. <<k, f[k - 1]>> \in (1 .. n) \X Seq(S)
    BY <2>2
  <2>. QED  BY <1>5, <2>2, <2>3 DEF StepsOf
<1>. DEFINE h == [i \in 1 .. n |-> f[i]]
<1>7. h = body(h)
  <2>. SUFFICES ASSUME NEW i \in 1 .. n
                PROVE  f[i] = IF i = 1 THEN seqs[i] ELSE h[i - 1] \o seqs[i]
    OBVIOUS
  <2>1. CASE i = 1
    <3>1. f[1] = f[0] \o seqs[1]
      <4>1. 1 \in 1 .. n /\ 1 - 1 = 0
        BY <1>1
      <4>. QED  BY <1>6, <4>1
    <3>2. <<>> \o seqs[1] = seqs[1]
      BY <1>2, <2>1
    <3>. QED  BY <2>1, <3>1, <3>2, <1>5 DEF StepsOf
  <2>2. CASE i # 1
    <3>1. i - 1 \in 1 .. n
      BY <1>1, <2>2
    <3>2. h[i - 1] = f[i - 1]
      BY <3>1
    <3>. QED  BY <1>6, <2>2, <3>2
  <2>. QED  BY <2>1, <2>2
<1>8. flatten = body(flatten)
  <2>. HIDE DEF body, h
  <2>. QED  BY <1>7
<1>9. flatten[1] = seqs[1] /\ \A i \in 2 .. n : flatten[i] = flatten[i - 1] \o seqs[i]
  <2>. HIDE DEF flatten
  <2>1. flatten = [i \in 1 .. n |-> IF i = 1 THEN seqs[i] ELSE flatten[i - 1] \o seqs[i]]
    BY <1>8
  <2>2. ASSUME NEW i \in 1 .. n
        PROVE  flatten[i] = IF i = 1 THEN seqs[i] ELSE flatten[i - 1] \o seqs[i]
    BY <2>1
  <2>3. 1 \in 1 .. n /\ \A i \in 2 .. n : i \in 1 .. n /\ i # 1
    BY <1>1
  <2>4. flatten[1] = seqs[1]
    BY <2>2, <2>3
  <2>5. ASSUME NEW i \in 2 .. n PROVE flatten[i] = flatten[i - 1] \o seqs[i]
    BY <2>2, <2>3
  <2>. QED  BY <2>4, <2>5
<1>10. FlattenSeq(seqs) = flatten[n]
  BY DEF FlattenSeq, flatten, body
<1>. HIDE DEF flatten
<1>. QED  BY <1>9, <1>10 DEF FlatIs

(* Sequences put end to end keep what every step of it keeps.                *)
LEMMA FlatClimbs ==
    ASSUME NEW S, NEW seqs \in Seq(Seq(S)), NEW n \in Nat, n = Len(seqs), n # 0, NEW Q, seqs[1] \in Q[1],
           \A i \in 2 .. n : \A x \in Seq(S) \cap Q[i - 1] : x \o seqs[i] \in Q[i]
    PROVE  FlattenSeq(seqs) \in Seq(S) \cap Q[n]
<1>1. PICK f : FlatIs(f, n, seqs)
  BY FlatSteps
<1>2. /\ f[1] = seqs[1] /\ \A i \in 2 .. n : f[i] = f[i - 1] \o seqs[i]
      /\ FlattenSeq(seqs) = f[n]
  BY <1>1 DEF FlatIs
<1>. DEFINE T == {i \in 1 .. n : f[i] \notin Seq(S) \cap Q[i]}
<1>3. ASSUME T # {} PROVE FALSE
  <2>1. PICK i \in T : \A m \in T : i <= m
    <3>1. T \in SUBSET Nat
      OBVIOUS
    <3>. HIDE DEF T
    <3>. QED  BY <1>3, <3>1, LeastOf
  <2>2. i # 1
    <3>1. seqs[1] \in Seq(S)
      OBVIOUS
    <3>. QED  BY <1>2, <3>1
  <2>3. i \in 2 .. n /\ i - 1 \in 1 .. n /\ i - 1 \notin T
    BY <2>1, <2>2
  <2>4. f[i - 1] \in Seq(S) \cap Q[i - 1]
    BY <2>3
  <2>5. seqs[i] \in Seq(S) /\ f[i] = f[i - 1] \o seqs[i]
    <3>1. i \in 1 .. Len(seqs)
      BY <2>3
    <3>2. seqs[i] \in Seq(S)
      BY <3>1
    <3>. QED  BY <1>2, <2>3, <3>2
  <2>6. \A x, y \in Seq(S) : x \o y \in Seq(S)
    OBVIOUS
  <2>7. f[i - 1] \o seqs[i] \in Seq(S)
    BY <2>4, <2>5, <2>6
  <2>8. f[i - 1] \o seqs[i] \in Q[i]
    BY <2>3, <2>4
  <2>. QED  BY <2>1, <2>5, <2>7, <2>8
<1>4. n \in 1 .. n
  OBVIOUS
<1>. HIDE DEF T
<1>5. n \notin T
  BY <1>3
<1>. QED  BY <1>2, <1>4, <1>5 DEF T

(* Sequences put end to end keep what putting two end to end keeps.          *)
LEMMA FlatKeeps ==
    ASSUME NEW S, NEW seqs \in Seq(Seq(S)), NEW Q, \A x, y \in Seq(S) : x \in Q /\ y \in Q => x \o y \in Q,
           Len(seqs) # 0, \A i \in 1 .. Len(seqs) : seqs[i] \in Q
    PROVE  FlattenSeq(seqs) \in Seq(S) \cap Q
<1>1. PICK n \in Nat : n = Len(seqs) /\ n # 0
  OBVIOUS
<1>. DEFINE P == [i \in 1 .. n |-> Q]
<1>2. seqs[1] \in P[1]
  BY <1>1
<1>3. \A i \in 2 .. n : \A x \in Seq(S) \cap P[i - 1] : x \o seqs[i] \in P[i]
  <2>. SUFFICES ASSUME NEW i \in 2 .. n, NEW x \in Seq(S) \cap P[i - 1] PROVE x \o seqs[i] \in P[i]
    OBVIOUS
  <2>1. i \in 1 .. n /\ i - 1 \in 1 .. n
    OBVIOUS
  <2>2. P[i] = Q /\ P[i - 1] = Q
    BY <2>1
  <2>. HIDE DEF P
  <2>3. seqs[i] \in Seq(S) /\ seqs[i] \in Q /\ x \in Seq(S) /\ x \in Q
    BY <1>1, <2>1, <2>2
  <2>. QED  BY <2>2, <2>3
<1>4. P[n] = Q
  BY <1>1
<1>5. FlattenSeq(seqs) \in Seq(S) \cap P[n]
  <2>. HIDE DEF P
  <2>. QED  BY <1>1, <1>2, <1>3, FlatClimbs
<1>. QED  BY <1>4, <1>5

LEMMA Flat ==
    ASSUME NEW S, NEW seqs \in Seq(Seq(S))
    PROVE  FlattenSeq(seqs) \in Seq(S)
<1>1. CASE Len(seqs) = 0
  <2>1. seqs = <<>>
    BY <1>1
  <2>2. FlattenSeq(seqs) = seqs
    BY <1>1, Zenon DEF FlattenSeq
  <2>3. <<>> \in Seq(S)
    OBVIOUS
  <2>. QED  BY <2>1, <2>2, <2>3
<1>2. CASE Len(seqs) # 0
  <2>. DEFINE Q == Seq(S)
  <2>1. /\ \A x, y \in Seq(S) : x \in Q /\ y \in Q => x \o y \in Q
        /\ \A i \in 1 .. Len(seqs) : seqs[i] \in Q
    OBVIOUS
  <2>2. FlattenSeq(seqs) \in Seq(S) \cap Q
    <3>. HIDE DEF Q
    <3>. QED  BY <1>2, <2>1, FlatKeeps
  <2>. QED  BY <2>2
<1>. QED  BY <1>1, <1>2

LEMMA FlatNotEmpty ==
    ASSUME NEW S, NEW seqs \in Seq(Seq(S)), Len(seqs) # 0, \A i \in 1 .. Len(seqs) : seqs[i] # <<>>
    PROVE  FlattenSeq(seqs) # <<>>
<1>. DEFINE Q == Seq(S) \ {<<>>}
<1>1. /\ \A x, y \in Seq(S) : x \in Q /\ y \in Q => x \o y \in Q
      /\ \A i \in 1 .. Len(seqs) : seqs[i] \in Q
  OBVIOUS
<1>2. FlattenSeq(seqs) \in Seq(S) \cap Q
  <2>. HIDE DEF Q
  <2>. QED  BY <1>1, FlatKeeps
<1>. QED  BY <1>2

LEMMA UnitsAreUnits ==
    ASSUME NEW text \in Text
    PROVE  Units(text) \in Seq(AnyUnit) /\ (text # <<>> => Units(text) # <<>>)
<1>. DEFINE seqs == [k \in 1 .. Len(text) |->
                IF text[k] = "W" THEN <<Unit("W", {}), Unit("w", {})>> ELSE <<Unit(text[k], {})>>]
<1>1. \A k \in 1 .. Len(text) : text[k] \in Strings
  BY DEF Text
<1>2. \A c \in Strings : Unit(c, {}) \in AnyUnit
  BY DEF Unit, AnyUnit, Strings, Structure
<1>3. "W" \in Strings /\ "w" \in Strings
  BY DEF Strings
<1>4. \A k \in 1 .. Len(text) : seqs[k] \in Seq(AnyUnit)
  <2>1. \A u, v \in AnyUnit : <<u>> \in Seq(AnyUnit) /\ <<u, v>> \in Seq(AnyUnit)
    OBVIOUS
  <2>2. ASSUME NEW k \in 1 .. Len(text) PROVE seqs[k] \in Seq(AnyUnit)
    <3>1. Unit(text[k], {}) \in AnyUnit /\ Unit("W", {}) \in AnyUnit /\ Unit("w", {}) \in AnyUnit
      BY <1>1, <1>2, <1>3
    <3>2. seqs[k] = IF text[k] = "W" THEN <<Unit("W", {}), Unit("w", {})>> ELSE <<Unit(text[k], {})>>
      OBVIOUS
    <3>. HIDE DEF seqs
    <3>. QED  BY <2>1, <3>1, <3>2
  <2>. QED  BY <2>2
<1>5. Len(text) \in Nat
  BY DEF Text
<1>6. seqs \in Seq(Seq(AnyUnit))
  BY <1>4, <1>5
<1>7. \A k \in 1 .. Len(text) : seqs[k] # <<>>
  OBVIOUS
<1>8. text # <<>> => Len(seqs) # 0 /\ Len(seqs) = Len(text)
  BY EmptySeq, <1>5 DEF Text
<1>9. text # <<>> => FlattenSeq(seqs) # <<>>
  <2>. HIDE DEF seqs
  <2>. QED  BY <1>6, <1>7, <1>8, FlatNotEmpty
<1>10. Units(text) = FlattenSeq(seqs)
  BY DEF Units
<1>. HIDE DEF seqs
<1>. QED  BY <1>6, <1>9, <1>10, Flat

LEMMA EmptyLineIsUnits ==
    ASSUME NEW columns \in Nat
    PROVE  EmptyLine(columns) \in Seq(AnyUnit)
<1>1. Unit("cell", {}) \in AnyUnit /\ Unit("nl", {"NORMAL_TEXT"}) \in AnyUnit
  BY DEF Unit, AnyUnit, Strings, Structure
<1>. DEFINE pair == <<Unit("cell", {}), Unit("nl", {"NORMAL_TEXT"})>>
<1>3. pair \in Seq(AnyUnit)
  BY <1>1
<1>2. [c \in 1 .. columns |-> pair] \in Seq(Seq(AnyUnit))
  <2>. HIDE DEF pair
  <2>. QED  BY <1>3
<1>. QED  BY <1>2, Flat DEF EmptyLine

LEMMA EmptyTableIsUnits ==
    ASSUME NEW rows \in Nat, NEW columns \in Nat
    PROVE  EmptyTable(rows, columns, "ours") \in Seq(AnyUnit)
<1>1. \A c \in Strings : Unit(c, {}) \in AnyUnit
  BY DEF Unit, AnyUnit, Strings, Structure
<1>2. <<Unit("table", {"ours"})>> \in Seq(AnyUnit) /\ <<Unit("end", {})>> \in Seq(AnyUnit)
      /\ <<Unit("row", {})>> \in Seq(AnyUnit)
  BY DEF Unit, AnyUnit, Strings, Structure
<1>. DEFINE line == <<Unit("row", {})>> \o EmptyLine(columns)
            seqs == [r \in 1 .. rows |-> line]
<1>3. line \in Seq(AnyUnit)
  BY <1>2, EmptyLineIsUnits, ConcatProperties
<1>4. seqs \in Seq(Seq(AnyUnit))
  <2>. HIDE DEF line
  <2>. QED  BY <1>3
<1>5. FlattenSeq(seqs) \in Seq(AnyUnit)
  BY <1>4, Flat
<1>6. (<<Unit("table", {"ours"})>> \o FlattenSeq(seqs)) \o <<Unit("end", {})>> \in Seq(AnyUnit)
  <2>. HIDE DEF seqs
  <2>. QED  BY <1>2, <1>5, ConcatProperties
<1>. QED  BY <1>6 DEF EmptyTable

-----------------------------------------------------------------------------

LEMMA WholeHas ==
    ASSUME NEW d \in Whole
    PROVE  /\ d \in Seq(AnyUnit) /\ Len(d) \in Nat /\ Len(d) >= 1 /\ DOMAIN d = 1 .. Len(d)
           /\ d[Len(d)].c = "nl" /\ d # Refused
           /\ \A i \in 1 .. Len(d) : d[i] \in AnyUnit
BY EmptySeq DEF Whole, Last, Refused

LEMMA WholeIs ==
    ASSUME NEW d \in Seq(AnyUnit), Len(d) >= 1, d[Len(d)].c = "nl"
    PROVE  d \in Whole
BY DEF Whole, Last

LEMMA PutWhole ==
    ASSUME NEW d \in Whole, NEW at \in 1 .. Len(d), NEW u \in Seq(AnyUnit)
    PROVE  Put(d, at, u) \in Whole /\ Len(Put(d, at, u)) = Len(d) + Len(u)
<1>. DEFINE a == SubSeq(d, 1, at - 1)
            b == SubSeq(d, at, Len(d))
<1>0. Len(d) \in Nat /\ d \in Seq(AnyUnit) /\ at \in Nat /\ Len(u) \in Nat
  BY WholeHas
<1>1. a \in Seq(AnyUnit) /\ Len(a) = at - 1
  BY <1>0, SubSeqProperties
<1>2. b \in Seq(AnyUnit) /\ Len(b) = Len(d) - at + 1 /\ b[Len(b)] = d[Len(d)]
  BY <1>0, SubSeqProperties
<1>. HIDE DEF a, b
<1>3. a \o u \in Seq(AnyUnit) /\ Len(a \o u) = Len(a) + Len(u)
  BY <1>0, <1>1, ConcatProperties
<1>4. /\ (a \o u) \o b \in Seq(AnyUnit) /\ Len((a \o u) \o b) = Len(a) + Len(u) + Len(b)
      /\ ((a \o u) \o b)[Len(a) + Len(u) + Len(b)] = b[Len(b)]
  <2>1. \A x, y \in Seq(AnyUnit) : Len(y) >= 1 => (x \o y)[Len(x) + Len(y)] = y[Len(y)]
    OBVIOUS
  <2>2. Len(b) >= 1
    BY <1>0, <1>2
  <2>. DEFINE x == a \o u
  <2>3. x \in Seq(AnyUnit) /\ Len(x) = Len(a) + Len(u)
    BY <1>3
  <2>4. x \o b \in Seq(AnyUnit) /\ Len(x \o b) = Len(x) + Len(b) /\ (x \o b)[Len(x) + Len(b)] = b[Len(b)]
    <3>. HIDE DEF x
    <3>1. \A y, z \in Seq(AnyUnit) : y \o z \in Seq(AnyUnit) /\ Len(y \o z) = Len(y) + Len(z)
      OBVIOUS
    <3>. QED  BY <1>2, <2>1, <2>2, <2>3, <3>1
  <2>. QED  BY <2>3, <2>4
<1>5. Put(d, at, u) = (a \o u) \o b
  BY DEF Put, a, b
<1>6. Len(a) + Len(u) + Len(b) = Len(d) + Len(u)
  BY <1>0, <1>1, <1>2
<1>7. d[Len(d)].c = "nl" /\ Len(d) >= 1
  BY WholeHas
<1>. DEFINE e == Put(d, at, u)
<1>8. e \in Seq(AnyUnit) /\ Len(e) = Len(d) + Len(u) /\ e[Len(e)] = d[Len(d)]
  BY <1>2, <1>4, <1>5, <1>6
<1>9. Len(e) >= 1 /\ e[Len(e)].c = "nl"
  BY <1>0, <1>7, <1>8
<1>. HIDE DEF e
<1>10. e \in Whole
  BY <1>8, <1>9, WholeIs
<1>. QED  BY <1>8, <1>10 DEF e

LEMMA CutWhole ==
    ASSUME NEW d \in Whole, NEW to \in 1 .. Len(d), NEW from \in 1 .. to
    PROVE  Cut(d, from, to) \in Whole /\ Len(Cut(d, from, to)) = Len(d) - (to - from)
<1>. DEFINE a == SubSeq(d, 1, from - 1)
            b == SubSeq(d, to, Len(d))
<1>0. Len(d) \in Nat /\ d \in Seq(AnyUnit) /\ to \in Nat /\ from \in Nat /\ from <= Len(d)
  BY WholeHas
<1>1. a \in Seq(AnyUnit) /\ Len(a) = from - 1
  BY <1>0, SubSeqProperties
<1>2. b \in Seq(AnyUnit) /\ Len(b) = Len(d) - to + 1 /\ b[Len(b)] = d[Len(d)]
  BY <1>0, SubSeqProperties
<1>. HIDE DEF a, b
<1>4. /\ a \o b \in Seq(AnyUnit) /\ Len(a \o b) = Len(a) + Len(b)
      /\ (a \o b)[Len(a) + Len(b)] = b[Len(b)]
  <2>1. \A x, y \in Seq(AnyUnit) : Len(y) >= 1 => (x \o y)[Len(x) + Len(y)] = y[Len(y)]
    OBVIOUS
  <2>2. Len(b) >= 1
    BY <1>0, <1>2
  <2>. QED  BY <1>1, <1>2, <2>1, <2>2, ConcatProperties
<1>5. Cut(d, from, to) = a \o b
  BY DEF Cut, a, b
<1>6. Len(a) + Len(b) = Len(d) - (to - from) /\ Len(a) + Len(b) >= 1
  BY <1>0, <1>1, <1>2
<1>7. d[Len(d)].c = "nl" /\ Len(d) >= 1
  BY WholeHas
<1>. QED  BY <1>0, <1>2, <1>4, <1>5, <1>6, <1>7, WholeIs

LEMMA TypedIsUnits ==
    ASSUME NEW d \in Whole, NEW at \in 1 .. Len(d), NEW text \in Text
    PROVE  Typed(d, at, text) \in Seq(AnyUnit)
<1>. DEFINE ends == {j \in at .. Len(d) : d[j].c = "nl"}
            close == d[Least(ends)]
<1>1. ends \in SUBSET Nat /\ Len(d) \in ends
  BY WholeHas
<1>2. Least(ends) \in ends
  <2>. HIDE DEF ends
  <2>. QED  BY <1>1, LeastIsOne
<1>3. close \in AnyUnit
  BY <1>2, WholeHas
<1>4. Units(text) \in Seq(AnyUnit)
  BY UnitsAreUnits
<1>5. Typed(d, at, text) = [k \in DOMAIN Units(text) |-> IF Units(text)[k].c = "nl" THEN close ELSE Units(text)[k]]
  BY DEF Typed
<1>. HIDE DEF close
<1>. QED  BY <1>3, <1>4, <1>5

LEMMA RestyledWhole ==
    ASSUME NEW d \in Whole, NEW from, NEW to, NEW s \in Strings, NEW paragraphs \in BOOLEAN
    PROVE  Restyled(d, from, to, s, paragraphs) \in Whole
<1>. DEFINE e == Restyled(d, from, to, s, paragraphs)
<1>1. Unit("nl", {s}) \in AnyUnit /\ Unit("nl", {s}).c = "nl"
  BY DEF Unit, AnyUnit, Strings, Structure
<1>2. \A i \in 1 .. Len(d) : Unit(d[i].c, d[i].s \cup {s}) \in AnyUnit
  BY WholeHas DEF Unit, AnyUnit
<1>3. \A i \in 1 .. Len(d) : e[i] \in AnyUnit /\ (d[i].c = "nl" => e[i].c = "nl")
  BY <1>1, <1>2, WholeHas DEF Restyled
<1>4. e \in Seq(AnyUnit) /\ Len(e) = Len(d)
  <2>1. Len(d) \in Nat
    BY WholeHas
  <2>2. e = [i \in 1 .. Len(d) |-> e[i]]
    BY DEF Restyled
  <2>. HIDE DEF e
  <2>. QED  BY <1>3, <2>1, <2>2
<1>. QED  BY <1>3, <1>4, WholeHas, WholeIs

-----------------------------------------------------------------------------
(* Rows and columns. *)

(* The ranges of a line lie in the body, from the last to the first.         *)
LEMMA RangesInBody ==
    ASSUME NEW d \in Whole, NEW axis, NEW t, NEW number, HasLine(d, axis, t, number),
           NEW ranges, ranges = LineRanges(d, axis, t, number), NEW n \in Nat, DOMAIN ranges = 1 .. n
    PROVE  \A k \in 1 .. n :
              /\ ranges[k][2] \in 1 .. Len(d) /\ ranges[k][1] \in 1 .. ranges[k][2]
              /\ ranges[k][2] <= IF k = 1 THEN Len(d) ELSE ranges[k - 1][1]
<1>1. \A k \in 1 .. n : /\ ranges[k][2] \in 1 .. (IF k = 1 THEN Len(d) ELSE ranges[k - 1][1])
                        /\ ranges[k][1] \in 1 .. ranges[k][2]
  BY DEF HasLine
<1>. DEFINE L == Len(d)
            f == [k \in 0 .. n |-> IF k = 0 THEN L ELSE ranges[k][1]]
            S == 1 .. L
<1>2. L \in Nat /\ L >= 1
  BY WholeHas
<1>3. f[0] \in S
  BY <1>2
<1>4. ASSUME NEW k \in 1 .. n, f[k - 1] \in S
      PROVE  ranges[k][2] \in S /\ ranges[k][1] \in 1 .. ranges[k][2] /\ ranges[k][2] <= f[k - 1] /\ f[k] \in S
  <2>1. k - 1 \in 0 .. n /\ k \in 0 .. n /\ k # 0 /\ (k - 1 = 0 <=> k = 1)
    OBVIOUS
  <2>2. f[k - 1] = IF k = 1 THEN L ELSE ranges[k - 1][1]
    BY <2>1
  <2>3. f[k] = ranges[k][1]
    BY <2>1
  <2>4. ranges[k][2] \in 1 .. f[k - 1] /\ ranges[k][1] \in 1 .. ranges[k][2]
    BY <1>1, <2>2
  <2>. HIDE DEF f
  <2>. QED  BY <1>2, <1>4, <2>3, <2>4
<1>5. \A k \in 0 .. n : f[k] \in S
  <2>. HIDE DEF f, S
  <2>1. \A k \in 1 .. n : f[k - 1] \in S => f[k] \in S
    BY <1>4
  <2>. QED  BY <1>3, <2>1, Climb
<1>6. ASSUME NEW k \in 1 .. n
      PROVE  /\ ranges[k][2] \in 1 .. L /\ ranges[k][1] \in 1 .. ranges[k][2]
             /\ ranges[k][2] <= IF k = 1 THEN L ELSE ranges[k - 1][1]
  <2>1. k - 1 \in 0 .. n /\ (k - 1 = 0 <=> k = 1)
    OBVIOUS
  <2>2. f[k - 1] = IF k = 1 THEN L ELSE ranges[k - 1][1]
    BY <2>1
  <2>3. f[k - 1] \in S
    BY <1>5, <2>1
  <2>. QED  BY <1>4, <2>2, <2>3
<1>. QED  BY <1>6

LEMMA LineRangesAreThere ==
    ASSUME NEW d \in Whole, NEW axis, NEW t, NEW number
    PROVE  \E n \in Nat : /\ Len(LineRanges(d, axis, t, number)) = n
                          /\ DOMAIN LineRanges(d, axis, t, number) = 1 .. n
<1>. DEFINE at == CellPlaces(d, t)
            row == InOrder(Within(d, t, TableEnd(d, t), "row"))[number]
<1>1. IsFiniteSet(Within(d, t, TableEnd(d, t), "row"))
  <2>1. IsFiniteSet(1 .. Len(d))
    BY WholeHas, FS_Interval
  <2>2. Within(d, t, TableEnd(d, t), "row") \subseteq 1 .. Len(d)
    BY DEF Within, Places
  <2>. QED  BY <2>1, <2>2, FS_Subset
<1>2. PICK m \in Nat : m = Cardinality(Within(d, t, TableEnd(d, t), "row"))
  BY <1>1, FS_CardinalityType
<1>3. DOMAIN at = 1 .. m
  <2>1. Len(InOrder(Within(d, t, TableEnd(d, t), "row"))) = m
    BY <1>2 DEF InOrder
  <2>. QED  BY <2>1 DEF CellPlaces
<1>4. CASE axis = "row"
  <2>1. LineRanges(d, axis, t, number) = <<<<row, NextAt(d, row, {"row", "end"})>>>>
    BY <1>4 DEF LineRanges
  <2>. HIDE DEF row
  <2>. QED  BY <2>1
<1>5. CASE axis # "row"
  <2>. DEFINE there == [r \in DOMAIN at |-> <<at[r][number], NextAt(d, at[r][number], {"cell", "row", "end"})>>]
  <2>1. LineRanges(d, axis, t, number) = Reverse(there)
    BY <1>5 DEF LineRanges
  <2>2. DOMAIN there = 1 .. m
    BY <1>3
  <2>3. Len(there) = m
    <3>. HIDE DEF at
    <3>. QED  BY <1>3
  <2>4. DOMAIN Reverse(there) = 1 .. m /\ Len(Reverse(there)) = m
    <3>. HIDE DEF there
    <3>. QED  BY <2>3 DEF Reverse
  <2>. QED  BY <2>1, <2>4
<1>. QED  BY <1>4, <1>5

LEMMA PutLineWhole ==
    ASSUME NEW d \in Whole, NEW units \in Seq(AnyUnit), NEW ranges, NEW n \in Nat, Len(ranges) = n,
           \A k \in 1 .. n : ranges[k][2] \in 1 .. Len(d)
    PROVE  PutLine(d, ranges, units) \in Whole
<1>. DEFINE S == {x \in Whole : Len(x) >= Len(d)}
            body(h) == [k \in 0 .. n |-> IF k = 0 THEN d ELSE Put(h[k - 1], ranges[k][2], units)]
            after == CHOOSE h : h = body(h)
            g == [p \in (1 .. n) \X S |-> Put(p[2], ranges[p[1]][2], units)]
<1>1. \A k \in 1 .. n, x \in S : Put(x, ranges[k][2], units) \in S
  <2>. SUFFICES ASSUME NEW k \in 1 .. n, NEW x \in S PROVE Put(x, ranges[k][2], units) \in S
    OBVIOUS
  <2>1. x \in Whole /\ Len(x) \in Nat /\ Len(x) >= Len(d) /\ Len(d) \in Nat /\ Len(units) \in Nat
    BY WholeHas
  <2>2. ranges[k][2] \in 1 .. Len(x)
    BY <2>1
  <2>3. Put(x, ranges[k][2], units) \in Whole /\ Len(Put(x, ranges[k][2], units)) = Len(x) + Len(units)
    BY <2>1, <2>2, PutWhole
  <2>. QED  BY <2>1, <2>3
<1>2. d \in S
  BY WholeHas
<1>3. StepsIn(g, n, S)
  <2>. HIDE DEF S
  <2>. QED  BY <1>1 DEF StepsIn
<1>4. PICK f : StepsOf(f, n, S, d, g)
  <2>. HIDE DEF S, g
  <2>. QED  BY <1>2, <1>3, StepByStep
<1>5. f = body(f)
  <2>1. ASSUME NEW k \in 1 .. n PROVE f[k] = Put(f[k - 1], ranges[k][2], units)
    <3>1. k - 1 \in 0 .. n
      OBVIOUS
    <3>2. f[k - 1] \in S
      <4>. HIDE DEF S
      <4>. QED  BY <1>4, <3>1 DEF StepsOf
    <3>3. <<k, f[k - 1]>> \in (1 .. n) \X S
      BY <3>2
    <3>4. f[k] = g[<<k, f[k - 1]>>]
      <4>. HIDE DEF g, S
      <4>. QED  BY <1>4 DEF StepsOf
    <3>. HIDE DEF S
    <3>. QED  BY <3>3, <3>4
  <2>2. f = [k \in 0 .. n |-> f[k]]
    BY <1>4 DEF StepsOf
  <2>4. f[0] = d
    BY <1>4 DEF StepsOf
  <2>3. ASSUME NEW k \in 0 .. n PROVE f[k] = IF k = 0 THEN d ELSE Put(f[k - 1], ranges[k][2], units)
    <3>1. k = 0 \/ (k \in 1 .. n /\ k # 0)
      OBVIOUS
    <3>. QED  BY <2>1, <2>4, <3>1
  <2>. QED  BY <2>2, <2>3
<1>6. after = body(after)
  <2>. HIDE DEF body
  <2>. QED  BY <1>5
<1>7. after[0] \in S /\ \A k \in 1 .. n : after[k - 1] \in S => after[k] \in S
  <2>. HIDE DEF after
  <2>1. after = [k \in 0 .. n |-> IF k = 0 THEN d ELSE Put(after[k - 1], ranges[k][2], units)]
    BY <1>6
  <2>2. ASSUME NEW k \in 0 .. n PROVE after[k] = IF k = 0 THEN d ELSE Put(after[k - 1], ranges[k][2], units)
    BY <2>1
  <2>. HIDE DEF S
  <2>. QED  BY <1>1, <1>2, <2>2
<1>8. after[n] \in S
  <2>. HIDE DEF after, S
  <2>1. \A k \in 0 .. n : after[k] \in S
    BY <1>7, Climb
  <2>. QED  BY <2>1
<1>9. PutLine(d, ranges, units) = after[n]
  BY DEF PutLine
<1>. QED  BY <1>8, <1>9

LEMMA CutLineWhole ==
    ASSUME NEW d \in Whole, NEW ranges, NEW n \in Nat, Len(ranges) = n,
           \A k \in 1 .. n :
              /\ ranges[k][2] \in 1 .. Len(d) /\ ranges[k][1] \in 1 .. ranges[k][2]
              /\ ranges[k][2] <= IF k = 1 THEN Len(d) ELSE ranges[k - 1][1]
    PROVE  CutLine(d, ranges) \in Whole
<1>. DEFINE fits(k, x) == x \in Whole /\ Len(x) >= IF k = 0 THEN Len(d) ELSE ranges[k][1]
            body(h) == [k \in 0 .. n |-> IF k = 0 THEN d ELSE Cut(h[k - 1], ranges[k][1], ranges[k][2])]
            after == CHOOSE h : h = body(h)
            g == [p \in (1 .. n) \X Whole |->
                     IF fits(p[1] - 1, p[2]) THEN Cut(p[2], ranges[p[1]][1], ranges[p[1]][2]) ELSE p[2]]
<1>1. ASSUME NEW k \in 1 .. n, NEW x, fits(k - 1, x)
      PROVE  fits(k, Cut(x, ranges[k][1], ranges[k][2]))
  <2>1. x \in Whole /\ Len(x) \in Nat /\ Len(d) \in Nat
    BY <1>1, WholeHas
  <2>2. k - 1 = 0 <=> k = 1
    OBVIOUS
  <2>3. ranges[k][2] <= Len(x)
    BY <1>1, <2>2
  <2>4. ranges[k][2] \in 1 .. Len(x) /\ ranges[k][1] \in 1 .. ranges[k][2]
    BY <2>1, <2>3
  <2>5. /\ Cut(x, ranges[k][1], ranges[k][2]) \in Whole
        /\ Len(Cut(x, ranges[k][1], ranges[k][2])) = Len(x) - (ranges[k][2] - ranges[k][1])
    BY <2>1, <2>4, CutWhole
  <2>6. Len(x) - (ranges[k][2] - ranges[k][1]) >= ranges[k][1] /\ k # 0
    BY <2>1, <2>4
  <2>. QED  BY <2>5, <2>6
<1>2. fits(0, d)
  BY WholeHas
<1>3. StepsIn(g, n, Whole)
  <2>1. ASSUME NEW k \in 1 .. n, NEW x \in Whole, fits(k - 1, x)
        PROVE  Cut(x, ranges[k][1], ranges[k][2]) \in Whole
    BY <1>1, <2>1
  <2>. HIDE DEF fits
  <2>. QED  BY <2>1 DEF StepsIn
<1>4. PICK f : StepsOf(f, n, Whole, d, g)
  <2>. HIDE DEF g
  <2>. QED  BY <1>3, StepByStep
<1>5. ASSUME NEW k \in 1 .. n, fits(k - 1, f[k - 1])
      PROVE  f[k] = Cut(f[k - 1], ranges[k][1], ranges[k][2]) /\ fits(k, f[k])
  <2>1. <<k, f[k - 1]>> \in (1 .. n) \X Whole
    BY <1>5
  <2>2. f[k] = g[<<k, f[k - 1]>>]
    BY <1>4 DEF StepsOf
  <2>3. f[k] = Cut(f[k - 1], ranges[k][1], ranges[k][2])
    <3>. HIDE DEF fits
    <3>. QED  BY <1>5, <2>1, <2>2
  <2>. HIDE DEF fits
  <2>. QED  BY <1>1, <1>5, <2>3
<1>6. ASSUME NEW h, h[0] = d, \A k \in 1 .. n : fits(k - 1, h[k - 1]) => fits(k, h[k])
      PROVE  \A k \in 0 .. n : fits(k, h[k])
  <2>. DEFINE P == [k \in 0 .. n |-> <<k, h[k]>>]
              S == {p \in (0 .. n) \X Whole : fits(p[1], p[2])}
  <2>1. P[0] \in S
    BY <1>2, <1>6
  <2>2. ASSUME NEW k \in 1 .. n, P[k - 1] \in S PROVE P[k] \in S
    <3>1. k - 1 \in 0 .. n /\ k \in 0 .. n
      OBVIOUS
    <3>2. P[k - 1] = <<k - 1, h[k - 1]>> /\ P[k] = <<k, h[k]>>
      BY <3>1
    <3>3. fits(k - 1, h[k - 1])
      <4>. HIDE DEF fits, P
      <4>. QED  BY <2>2, <3>2
    <3>4. fits(k, h[k])
      <4>. HIDE DEF fits
      <4>. QED  BY <1>6, <3>3
    <3>5. h[k] \in Whole
      BY <3>4
    <3>. HIDE DEF fits, P
    <3>. QED  BY <3>1, <3>2, <3>4, <3>5
  <2>3. \A k \in 0 .. n : P[k] \in S
    <3>. HIDE DEF P, S
    <3>. QED  BY <2>1, <2>2, Climb
  <2>4. ASSUME NEW k \in 0 .. n PROVE fits(k, h[k])
    <3>1. P[k] = <<k, h[k]>> /\ P[k] \in S
      BY <2>3
    <3>. HIDE DEF P, fits
    <3>. QED  BY <3>1
  <2>. QED  BY <2>4
<1>14. f[0] = d
  BY <1>4 DEF StepsOf
<1>13. \A k \in 0 .. n : fits(k, f[k])
  <2>. HIDE DEF fits
  <2>. QED  BY <1>5, <1>6, <1>14
<1>7. f = body(f)
  <2>1. ASSUME NEW k \in 1 .. n PROVE f[k] = Cut(f[k - 1], ranges[k][1], ranges[k][2])
    <3>1. k - 1 \in 0 .. n
      OBVIOUS
    <3>. HIDE DEF fits
    <3>. QED  BY <1>5, <1>13, <3>1
  <2>2. f = [k \in 0 .. n |-> f[k]]
    BY <1>4 DEF StepsOf
  <2>4. f[0] = d
    BY <1>4 DEF StepsOf
  <2>3. ASSUME NEW k \in 0 .. n PROVE f[k] = IF k = 0 THEN d ELSE Cut(f[k - 1], ranges[k][1], ranges[k][2])
    <3>1. k = 0 \/ (k \in 1 .. n /\ k # 0)
      OBVIOUS
    <3>. QED  BY <2>1, <2>4, <3>1
  <2>. QED  BY <2>2, <2>3
<1>8. after = body(after)
  <2>. HIDE DEF body
  <2>. QED  BY <1>7
<1>9. \A k \in 0 .. n : after[k] = IF k = 0 THEN d ELSE Cut(after[k - 1], ranges[k][1], ranges[k][2])
  <2>. HIDE DEF after
  <2>1. after = [k \in 0 .. n |-> IF k = 0 THEN d ELSE Cut(after[k - 1], ranges[k][1], ranges[k][2])]
    BY <1>8
  <2>2. ASSUME NEW k \in 0 .. n
        PROVE  after[k] = IF k = 0 THEN d ELSE Cut(after[k - 1], ranges[k][1], ranges[k][2])
    BY <2>1
  <2>. QED  BY <2>2
<1>10. \A k \in 0 .. n : fits(k, after[k])
  <2>1. ASSUME NEW k \in 1 .. n, fits(k - 1, after[k - 1]) PROVE fits(k, after[k])
    <3>1. after[k] = Cut(after[k - 1], ranges[k][1], ranges[k][2])
      <4>. HIDE DEF fits, after
      <4>1. k \in 0 .. n /\ k # 0
        OBVIOUS
      <4>. QED  BY <1>9, <4>1
    <3>. HIDE DEF fits, after
    <3>. QED  BY <1>1, <2>1, <3>1
  <2>2. after[0] = d
    <3>. HIDE DEF after
    <3>1. 0 \in 0 .. n
      OBVIOUS
    <3>. QED  BY <1>9, <3>1
  <2>. HIDE DEF fits, after
  <2>. QED  BY <1>6, <2>1, <2>2
<1>11. CutLine(d, ranges) = after[n]
  BY DEF CutLine
<1>12. after[n] \in Whole
  <2>1. n \in 0 .. n
    OBVIOUS
  <2>2. fits(n, after[n])
    <3>. HIDE DEF fits, after
    <3>. QED  BY <1>10, <2>1
  <2>. QED  BY <2>2
<1>. QED  BY <1>11, <1>12

-----------------------------------------------------------------------------
(* Every occurrence of one text, for another. *)

LEMMA JoinedWhole ==
    ASSUME NEW u \in Seq(AnyUnit), NEW d \in Whole
    PROVE  u \o d \in Whole
<1>1. d \in Seq(AnyUnit) /\ Len(d) \in Nat /\ Len(d) >= 1 /\ d[Len(d)].c = "nl" /\ Len(u) \in Nat
  BY WholeHas
<1>2. /\ u \o d \in Seq(AnyUnit) /\ Len(u \o d) = Len(u) + Len(d)
      /\ (u \o d)[Len(u) + Len(d)] = d[Len(d)]
  <2>1. \A x, y \in Seq(AnyUnit) : Len(y) >= 1 =>
            /\ x \o y \in Seq(AnyUnit) /\ Len(x \o y) = Len(x) + Len(y)
            /\ (x \o y)[Len(x) + Len(y)] = y[Len(y)]
    OBVIOUS
  <2>. QED  BY <1>1, <2>1
<1>. DEFINE e == u \o d
<1>3. e \in Seq(AnyUnit) /\ Len(e) >= 1 /\ e[Len(e)].c = "nl"
  BY <1>1, <1>2
<1>. HIDE DEF e
<1>4. e \in Whole
  BY <1>3, WholeIs
<1>. QED  BY <1>4 DEF e

LEMMA ReplacedAllWhole ==
    ASSUME NEW d \in Whole, NEW find \in Text, find # <<>>, NEW text \in Text
    PROVE  ReplacedAll(d, find, text) \in Whole
<1>. DEFINE n == Len(d)
            u == Units(find)
            t == Units(text)
            here(i) == i + Len(u) <= n + 1
                       /\ \A k \in DOMAIN u : d[i + k - 1].c = u[k].c /\ d[i + k - 1].c # "nl"
            body(h) == [i \in 1 .. n + 1 |->
                           IF i > n THEN <<>>
                           ELSE IF here(i) THEN t \o h[i + Len(u)] ELSE <<d[i]>> \o h[i + 1]]
            replaced == CHOOSE h : h = body(h)
            from(m) == n + 1 - m
            value(h, i) == IF i > n THEN <<>>
                           ELSE IF here(i) THEN t \o h[i + Len(u)] ELSE <<d[i]>> \o h[i + 1]
            Till(m, h) == h = [i \in from(m) .. n + 1 |-> value(h, i)]
            T == {m \in 0 .. n : ~ \E h : Till(m, h)}
<1>1. n \in Nat /\ n >= 1 /\ d[n].c = "nl" /\ d \in Seq(AnyUnit) /\ \A i \in 1 .. n : d[i] \in AnyUnit
  BY WholeHas
<1>2. u \in Seq(AnyUnit) /\ u # <<>> /\ Len(u) \in Nat /\ Len(u) >= 1 /\ t \in Seq(AnyUnit)
  <2>1. u \in Seq(AnyUnit) /\ u # <<>> /\ t \in Seq(AnyUnit)
    BY UnitsAreUnits
  <2>. HIDE DEF u
  <2>. QED  BY <2>1, EmptySeq
<1>3. ASSUME NEW i \in 1 .. n, here(i)
      PROVE  i + Len(u) \in i + 1 .. n
  <2>. HIDE DEF u, n
  <2>1. i + Len(u) <= n + 1 /\ i \in Nat /\ n \in Nat /\ Len(u) \in DOMAIN u
    BY <1>1, <1>2, <1>3
  <2>2. i + Len(u) # n + 1
    <3>. SUFFICES ASSUME i + Len(u) = n + 1 PROVE FALSE
      OBVIOUS
    <3>1. i + Len(u) - 1 = n
      BY <1>1, <1>2
    <3>2. d[i + Len(u) - 1].c # "nl"
      BY <1>3, <2>1
    <3>. QED  BY <1>1, <3>1, <3>2
  <2>. QED  BY <1>2, <2>1, <2>2
<1>. HIDE DEF here, u, t, n
<1>4. T = {}
  <2>. SUFFICES ASSUME T # {} PROVE FALSE
    OBVIOUS
  <2>1. PICK m \in T : \A l \in T : m <= l
    <3>1. T \in SUBSET Nat
      OBVIOUS
    <3>. HIDE DEF T
    <3>. QED  BY <3>1, LeastOf
  <2>2. m \in 0 .. n
    OBVIOUS
  <2>3. m # 0
    <3>1. from(0) = n + 1 /\ (n + 1) .. (n + 1) = {n + 1} /\ n + 1 > n
      BY <1>1
    <3>. DEFINE h == [i \in {n + 1} |-> <<>>]
    <3>2. value(h, n + 1) = <<>>
      BY <3>1
    <3>3. [i \in from(0) .. n + 1 |-> value(h, i)] = h
      BY <3>1, <3>2
    <3>4. Till(0, h)
      BY <3>3
    <3>5. 0 \notin T
      BY <3>4
    <3>. QED  BY <3>5
  <2>4. m - 1 \in 0 .. n /\ m - 1 < m /\ m \in Nat
    BY <1>1, <2>2, <2>3
  <2>5. PICK h : Till(m - 1, h)
    <3>1. m - 1 \notin T
      <4>1. T \subseteq Int
        OBVIOUS
      <4>. HIDE DEF T
      <4>. QED  BY <2>1, <2>4, <4>1
    <3>. QED  BY <2>4, <3>1
  <2>. DEFINE a == from(m)
              h2 == [i \in a .. n + 1 |-> IF i = a THEN value(h, a) ELSE h[i]]
  <2>6. a \in 1 .. n /\ from(m - 1) = a + 1
    BY <1>1, <2>2, <2>3
  <2>7. ASSUME NEW i \in a + 1 .. n + 1 PROVE h[i] = value(h, i)
    <3>. HIDE DEF value, a
    <3>1. h = [j \in a + 1 .. n + 1 |-> value(h, j)]
      BY <2>5, <2>6
    <3>. QED  BY <3>1
  <2>8. ASSUME NEW i \in a + 1 .. n + 1 PROVE h2[i] = h[i]
    <3>1. i \in a .. n + 1 /\ i # a
      BY <2>6
    <3>. HIDE DEF a, value
    <3>. QED  BY <3>1
  <2>9. ASSUME NEW i \in a .. n + 1 PROVE value(h2, i) = value(h, i)
    <3>1. i \in 1 .. n + 1
      BY <2>6
    <3>2. CASE i > n
      BY <3>2
    <3>3. CASE i \in 1 .. n
      <4>1. i + 1 \in a + 1 .. n + 1
        BY <1>1, <2>6, <3>3
      <4>2. here(i) => i + Len(u) \in a + 1 .. n + 1
        BY <1>1, <1>3, <2>6, <3>3
      <4>3. h2[i + 1] = h[i + 1] /\ (here(i) => h2[i + Len(u)] = h[i + Len(u)])
        <5>. HIDE DEF h2, a
        <5>. QED  BY <2>8, <4>1, <4>2
      <4>. HIDE DEF h2
      <4>. QED  BY <4>3
    <3>. QED  BY <1>1, <3>1, <3>2, <3>3
  <2>10. ASSUME NEW i \in a .. n + 1 PROVE h2[i] = value(h2, i)
    <3>1. CASE i = a
      <4>1. h2[i] = value(h, i)
        <5>. HIDE DEF value, a
        <5>. QED  BY <3>1
      <4>. HIDE DEF value, h2
      <4>. QED  BY <2>9, <4>1
    <3>2. CASE i # a
      <4>1. i \in a + 1 .. n + 1
        BY <1>1, <2>6, <3>2
      <4>. HIDE DEF value, h2, a
      <4>. QED  BY <2>7, <2>8, <2>9, <4>1
    <3>. QED  BY <3>1, <3>2
  <2>11. Till(m, h2)
    <3>1. h2 = [i \in a .. n + 1 |-> h2[i]]
      <4>. HIDE DEF value, a
      <4>. QED  OBVIOUS
    <3>2. [i \in a .. n + 1 |-> h2[i]] = [i \in a .. n + 1 |-> value(h2, i)]
      <4>. HIDE DEF value, h2, a
      <4>. QED  BY <2>10
    <3>. HIDE DEF value, h2
    <3>. QED  BY <3>1, <3>2
  <2>. HIDE DEF Till
  <2>. QED  BY <2>1, <2>11
<1>5. \E h : h = body(h)
  <2>1. n \in 0 .. n /\ from(n) = 1
    BY <1>1
  <2>2. n \notin T
    BY <1>4, Zenon
  <2>3. PICK h : Till(n, h)
    <3>. HIDE DEF Till
    <3>. QED  BY <2>1, <2>2
  <2>4. h = [i \in 1 .. n + 1 |-> value(h, i)]
    <3>. HIDE DEF value
    <3>. QED  BY <2>1, <2>3
  <2>. QED  BY <2>4
<1>6. replaced = body(replaced)
  <2>. HIDE DEF body
  <2>. QED  BY <1>5
<1>. HIDE DEF replaced
<1>7. ASSUME NEW i \in 1 .. n + 1 PROVE replaced[i] = value(replaced, i)
  <2>1. replaced = [j \in 1 .. n + 1 |-> value(replaced, j)]
    BY <1>6
  <2>. HIDE DEF value
  <2>. QED  BY <2>1
<1>. DEFINE B == {j \in 1 .. n : replaced[n + 1 - j] \notin Whole}
<1>8. B = {}
  <2>. SUFFICES ASSUME B # {} PROVE FALSE
    OBVIOUS
  <2>1. PICK j \in B : \A l \in B : j <= l
    <3>1. B \in SUBSET Nat
      OBVIOUS
    <3>. HIDE DEF B
    <3>. QED  BY <3>1, LeastOf
  <2>. DEFINE i == n + 1 - j
  <2>2. j \in 1 .. n /\ i \in 1 .. n /\ replaced[i] \notin Whole
    BY <1>1
  <2>3. ASSUME NEW k \in i + 1 .. n PROVE replaced[k] \in Whole
    <3>1. n + 1 - k \in 1 .. n /\ n + 1 - k < j /\ n + 1 - (n + 1 - k) = k
      BY <1>1, <2>2
    <3>2. n + 1 - k \notin B
      <4>1. B \subseteq Int
        OBVIOUS
      <4>. HIDE DEF B
      <4>. QED  BY <2>1, <2>2, <3>1, <4>1
    <3>3. replaced[n + 1 - (n + 1 - k)] \in Whole
      BY <3>1, <3>2
    <3>. QED  BY <3>1, <3>3
  <2>. HIDE DEF i
  <2>4. replaced[i] = IF here(i) THEN t \o replaced[i + Len(u)] ELSE <<d[i]>> \o replaced[i + 1]
    <3>1. i \in 1 .. n + 1 /\ ~(i > n)
      BY <1>1, <2>2
    <3>. QED  BY <1>7, <3>1
  <2>5. CASE here(i)
    <3>1. replaced[i + Len(u)] \in Whole
      BY <1>3, <2>2, <2>3, <2>5
    <3>2. t \o replaced[i + Len(u)] \in Whole
      BY <1>2, <3>1, JoinedWhole
    <3>. QED  BY <2>2, <2>4, <2>5, <3>2
  <2>6. CASE ~here(i) /\ i # n
    <3>1. i + 1 \in i + 1 .. n
      BY <1>1, <2>2, <2>6
    <3>2. <<d[i]>> \in Seq(AnyUnit)
      BY <1>1, <2>2
    <3>3. <<d[i]>> \o replaced[i + 1] \in Whole
      BY <2>3, <3>1, <3>2, JoinedWhole
    <3>. QED  BY <2>2, <2>4, <2>6, <3>3
  <2>7. CASE ~here(i) /\ i = n
    <3>1. replaced[n + 1] = <<>>
      <4>1. n + 1 \in 1 .. n + 1 /\ n + 1 > n
        BY <1>1
      <4>. QED  BY <1>7, <4>1
    <3>2. replaced[i] = <<d[n]>> \o <<>>
      BY <2>4, <2>7, <3>1
    <3>3. <<d[n]>> \o <<>> = <<d[n]>> /\ <<d[n]>> \in Seq(AnyUnit) /\ Len(<<d[n]>>) = 1 /\ <<d[n]>>[1] = d[n]
      <4>1. d[n] \in AnyUnit
        BY <1>1, <2>2, <2>7
      <4>. QED  BY <4>1
    <3>. DEFINE e == <<d[n]>>
    <3>4. e \in Seq(AnyUnit) /\ Len(e) >= 1 /\ e[Len(e)].c = "nl"
      BY <1>1, <3>3
    <3>5. e \in Whole
      <4>. HIDE DEF e
      <4>. QED  BY <3>4, WholeIs
    <3>. QED  BY <2>2, <3>2, <3>3, <3>5
  <2>. QED  BY <2>5, <2>6, <2>7
<1>9. replaced[1] \in Whole
  <2>1. n \in 1 .. n /\ n + 1 - n = 1
    BY <1>1
  <2>2. n \notin B
    BY <1>8, Zenon
  <2>3. replaced[n + 1 - n] \in Whole
    BY <2>1, <2>2
  <2>. QED  BY <2>1, <2>3
<1>10. ReplacedAll(d, find, text) = replaced[1]
  BY DEF ReplacedAll, replaced, body, here, u, t, n
<1>. QED  BY <1>9, <1>10

-----------------------------------------------------------------------------
(* Requests and batches. *)

(* A request carries text, a style, a shape, as its kind does.               *)
SoundRequest(q) ==
    /\ q.r \in {"insertText", "insertInlineImage", "insertTable", "deleteContentRange", "updateParagraphStyle",
                "updateTextStyle", "insertTableLine", "deleteTableLine", "replaceAllText"}
    /\ q.r = "insertText" => q.text \in Text
    /\ q.r = "insertTable" => q.rows \in Nat /\ q.columns \in Nat
    /\ q.r \in {"updateParagraphStyle", "updateTextStyle"} => q.s \in Strings
    /\ q.r = "replaceAllText" => q.find \in Text /\ q.find # <<>> /\ q.text \in Text

SoundPlan(requests) == \E S : requests \in Seq(S) /\ \A q \in S : SoundRequest(q)

LEMMA OrderIsFinite ==
    ASSUME NEW n \in Nat, NEW T \in SUBSET (1 .. n)
    PROVE  \E m \in Nat : m = Cardinality(T) /\ DOMAIN InOrder(T) = 1 .. m /\ Len(InOrder(T)) = m
<1>1. IsFiniteSet(T)
  <2>1. IsFiniteSet(1 .. n)
    BY FS_Interval
  <2>. QED  BY <2>1, FS_Subset
<1>2. PICK m \in Nat : m = Cardinality(T)
  BY <1>1, FS_CardinalityType
<1>. QED  BY <1>2 DEF InOrder

(* The rows of a table and the cells of a row are sequences.                 *)
LEMMA GridsHaveRows ==
    ASSUME NEW d \in Whole, NEW t
    PROVE  \E m \in Nat : /\ DOMAIN CellPlaces(d, t) = 1 .. m
                          /\ Len(GridAt(d, t).rows) = m /\ DOMAIN GridAt(d, t).rows = 1 .. m
                          /\ \A r \in 1 .. m : Len(GridAt(d, t).rows[r]) \in Nat
<1>. DEFINE e == TableEnd(d, t)
            rows == InOrder(Within(d, t, e, "row"))
            held(r) == {c \in Within(d, t, e, "cell") : rows[r] < c /\ c < NextAt(d, rows[r], {"row", "end"})}
            at == CellPlaces(d, t)
            grid == GridAt(d, t).rows
<1>1. PICK n \in Nat : n = Len(d)
  BY WholeHas
<1>2. \A kind : Within(d, t, e, kind) \in SUBSET (1 .. n)
  BY <1>1 DEF Within, Places
<1>3. at = [r \in 1 .. Len(rows) |-> InOrder(held(r))]
  BY DEF CellPlaces
<1>4. PICK m \in Nat : Len(rows) = m
  BY <1>2, OrderIsFinite
<1>5. DOMAIN at = 1 .. m /\ \A r \in 1 .. m : at[r] = InOrder(held(r))
  <2>. HIDE DEF rows, held, at
  <2>. QED  BY <1>3, <1>4
<1>6. grid = [r \in DOMAIN at |-> [c \in DOMAIN at[r] |-> CellAt(d, at[r][c])]]
  BY DEF GridAt
<1>7. DOMAIN grid = 1 .. m /\ Len(grid) = m
  <2>. HIDE DEF at, grid
  <2>. QED  BY <1>5, <1>6
<1>8. ASSUME NEW r \in 1 .. m PROVE Len(grid[r]) \in Nat
  <2>1. held(r) \in SUBSET (1 .. n)
    BY <1>2
  <2>2. PICK l \in Nat : DOMAIN InOrder(held(r)) = 1 .. l
    <3>. HIDE DEF held
    <3>. QED  BY <2>1, OrderIsFinite
  <2>3. grid[r] = [c \in DOMAIN at[r] |-> CellAt(d, at[r][c])]
    <3>. HIDE DEF at, grid
    <3>. QED  BY <1>5, <1>6
  <2>4. DOMAIN at[r] = 1 .. l
    <3>. HIDE DEF at, held
    <3>. QED  BY <1>5, <2>2
  <2>. HIDE DEF at, grid
  <2>. QED  BY <2>3, <2>4
<1>. QED  BY <1>5, <1>7, <1>8

LEMMA ColumnsAreCounted ==
    ASSUME NEW d \in Whole, NEW t, DOMAIN CellPlaces(d, t) # {}
    PROVE  Columns(GridAt(d, t)) \in Nat
<1>1. PICK m \in Nat : DOMAIN CellPlaces(d, t) = 1 .. m /\ \A r \in 1 .. m : Len(GridAt(d, t).rows[r]) \in Nat
  BY GridsHaveRows
<1>2. 1 \in 1 .. m
  BY <1>1
<1>. QED  BY <1>1, <1>2 DEF Columns

LEMMA NewLineIsUnits ==
    ASSUME NEW d \in Whole, NEW axis, NEW t, NEW number, HasLine(d, axis, t, number)
    PROVE  NewLine(d, axis, t) \in Seq(AnyUnit)
<1>1. CASE axis = "row"
  <2>1. DOMAIN CellPlaces(d, t) # {}
    BY <1>1 DEF HasLine
  <2>2. EmptyLine(Columns(GridAt(d, t))) \in Seq(AnyUnit)
    BY <2>1, ColumnsAreCounted, EmptyLineIsUnits
  <2>3. <<Unit("row", {})>> \in Seq(AnyUnit)
    BY DEF Unit, AnyUnit, Strings, Structure
  <2>4. \A x, y \in Seq(AnyUnit) : x \o y \in Seq(AnyUnit)
    OBVIOUS
  <2>5. NewLine(d, axis, t) = <<Unit("row", {})>> \o EmptyLine(Columns(GridAt(d, t)))
    BY <1>1 DEF NewLine
  <2>. QED  BY <2>2, <2>3, <2>4, <2>5
<1>2. CASE axis # "row"
  BY <1>2, EmptyLineIsUnits DEF NewLine
<1>. QED  BY <1>1, <1>2

(* A request that Docs accepts leaves a whole document whole.                *)
LEMMA ServedWhole ==
    ASSUME NEW d \in Whole, NEW q, SoundRequest(q), Accepts(d, q)
    PROVE  Served(d, q) \in Whole
<1>1. CASE q.r = "insertText"
  <2>1. q.at \in 1 .. Len(d) /\ q.text \in Text
    BY <1>1 DEF Accepts, InParagraph, SoundRequest
  <2>2. Served(d, q) = Put(d, q.at, Typed(d, q.at, q.text))
    BY <1>1 DEF Served
  <2>. QED  BY <2>1, <2>2, TypedIsUnits, PutWhole
<1>2. CASE q.r = "insertInlineImage"
  <2>1. q.at \in 1 .. Len(d)
    BY <1>2 DEF Accepts, InParagraph
  <2>2. <<Unit("picture", {})>> \in Seq(AnyUnit)
    BY DEF Unit, AnyUnit, Strings
  <2>3. Served(d, q) = Put(d, q.at, <<Unit("picture", {})>>)
    BY <1>2 DEF Served
  <2>. QED  BY <2>1, <2>2, <2>3, PutWhole
<1>3. CASE q.r = "insertTable"
  <2>1. q.at \in 1 .. Len(d) /\ q.rows \in Nat /\ q.columns \in Nat
    BY <1>3 DEF Accepts, InParagraph, SoundRequest
  <2>2. <<"nl">> \in Text
    BY DEF Text, Strings
  <2>3. Typed(d, q.at, <<"nl">>) \in Seq(AnyUnit)
    BY <2>1, <2>2, TypedIsUnits
  <2>4. EmptyTable(q.rows, q.columns, "ours") \in Seq(AnyUnit)
    BY <2>1, EmptyTableIsUnits
  <2>5. \A x, y \in Seq(AnyUnit) : x \o y \in Seq(AnyUnit)
    OBVIOUS
  <2>6. Served(d, q) = Put(d, q.at, Typed(d, q.at, <<"nl">>) \o EmptyTable(q.rows, q.columns, "ours"))
    BY <1>3 DEF Served
  <2>. QED  BY <2>1, <2>3, <2>4, <2>5, <2>6, PutWhole
<1>4. CASE q.r = "deleteContentRange"
  <2>1. q.from \in 1 .. Len(d) - 1 /\ q.to \in q.from + 1 .. Len(d)
    BY <1>4 DEF Accepts, Deletable
  <2>2. q.to \in 1 .. Len(d) /\ q.from \in 1 .. q.to
    BY <2>1, WholeHas
  <2>3. Served(d, q) = Cut(d, q.from, q.to)
    BY <1>4 DEF Served
  <2>. QED  BY <2>2, <2>3, CutWhole
<1>5. CASE q.r \in {"updateParagraphStyle", "updateTextStyle"}
  <2>1. q.s \in Strings
    BY <1>5 DEF SoundRequest
  <2>2. Served(d, q) = Restyled(d, q.from, q.to, q.s, TRUE) \/ Served(d, q) = Restyled(d, q.from, q.to, q.s, FALSE)
    BY <1>5 DEF Served
  <2>. QED  BY <2>1, <2>2, RestyledWhole
<1>6. CASE q.r \in {"insertTableLine", "deleteTableLine"}
  <2>1. HasLine(d, q.axis, q.table, q.number)
    BY <1>6 DEF Accepts
  <2>. DEFINE ranges == LineRanges(d, q.axis, q.table, q.number)
  <2>2. PICK n \in Nat : Len(ranges) = n /\ DOMAIN ranges = 1 .. n
    BY LineRangesAreThere
  <2>3. \A k \in 1 .. n :
           /\ ranges[k][2] \in 1 .. Len(d) /\ ranges[k][1] \in 1 .. ranges[k][2]
           /\ ranges[k][2] <= IF k = 1 THEN Len(d) ELSE ranges[k - 1][1]
    <3>. DEFINE rs == ranges
    <3>1. rs = LineRanges(d, q.axis, q.table, q.number) /\ DOMAIN rs = 1 .. n
      BY <2>2
    <3>2. \A k \in 1 .. n :
           /\ rs[k][2] \in 1 .. Len(d) /\ rs[k][1] \in 1 .. rs[k][2]
           /\ rs[k][2] <= IF k = 1 THEN Len(d) ELSE rs[k - 1][1]
      <4>. HIDE DEF rs
      <4>. QED  BY <2>1, <3>1, RangesInBody
    <3>. QED  BY <3>2
  <2>4. NewLine(d, q.axis, q.table) \in Seq(AnyUnit)
    BY <2>1, NewLineIsUnits
  <2>. HIDE DEF ranges
  <2>5. PutLine(d, ranges, NewLine(d, q.axis, q.table)) \in Whole
    BY <2>2, <2>3, <2>4, PutLineWhole
  <2>6. CutLine(d, ranges) \in Whole
    BY <2>2, <2>3, CutLineWhole
  <2>7. Served(d, q) = PutLine(d, ranges, NewLine(d, q.axis, q.table)) \/ Served(d, q) = CutLine(d, ranges)
    BY <1>6 DEF Served, ranges
  <2>. QED  BY <2>5, <2>6, <2>7
<1>7. CASE q.r = "replaceAllText"
  <2>1. q.find \in Text /\ q.find # <<>> /\ q.text \in Text
    BY <1>7 DEF SoundRequest
  <2>2. Served(d, q) = ReplacedAll(d, q.find, q.text)
    BY <1>7 DEF Served
  <2>. QED  BY <2>1, <2>2, ReplacedAllWhole
<1>. QED  BY <1>1, <1>2, <1>3, <1>4, <1>5, <1>6, <1>7 DEF SoundRequest

(* The documents on the way through a batch, Refused from where it is.       *)
BatchIs(f, n, d, requests) ==
    /\ f[0] = d
    /\ \A k \in 1 .. n : f[k] = IF f[k - 1] = Refused \/ ~Accepts(f[k - 1], requests[k]) THEN Refused
                                ELSE Served(f[k - 1], requests[k])
    /\ Batch(d, requests) = f[n]

LEMMA BatchSteps ==
    ASSUME NEW d \in Whole, NEW requests, SoundPlan(requests), NEW n \in Nat, n = Len(requests)
    PROVE  \E f : BatchIs(f, n, d, requests)
<1>1. PICK Q : requests \in Seq(Q) /\ \A q \in Q : SoundRequest(q)
  BY DEF SoundPlan
<1>3. \A k \in 1 .. n : SoundRequest(requests[k])
  BY <1>1
<1>. DEFINE S == Whole \cup {Refused}
            step(x, k) == IF x = Refused \/ ~Accepts(x, requests[k]) THEN Refused ELSE Served(x, requests[k])
            body(h) == [k \in 0 .. n |-> IF k = 0 THEN d ELSE step(h[k - 1], k)]
            after == CHOOSE h : h = body(h)
            g == [p \in (1 .. n) \X S |-> step(p[2], p[1])]
<1>4. ASSUME NEW k \in 1 .. n, NEW x \in S PROVE step(x, k) \in S
  BY <1>3, ServedWhole
<1>. HIDE DEF step
<1>5. StepsIn(g, n, S)
  <2>. HIDE DEF S
  <2>. QED  BY <1>4 DEF StepsIn
<1>6. PICK f : StepsOf(f, n, S, d, g)
  <2>1. d \in S
    OBVIOUS
  <2>. HIDE DEF S, g
  <2>. QED  BY <1>5, <2>1, StepByStep
<1>. HIDE DEF S
<1>7. f = body(f)
  <2>1. ASSUME NEW k \in 1 .. n PROVE f[k] = step(f[k - 1], k)
    <3>1. k - 1 \in 0 .. n
      OBVIOUS
    <3>2. f[k - 1] \in S
      BY <1>6, <3>1 DEF StepsOf
    <3>3. <<k, f[k - 1]>> \in (1 .. n) \X S
      BY <3>2
    <3>4. f[k] = g[<<k, f[k - 1]>>]
      <4>. HIDE DEF g
      <4>. QED  BY <1>6 DEF StepsOf
    <3>. QED  BY <3>3, <3>4
  <2>2. f = [k \in 0 .. n |-> f[k]]
    BY <1>6 DEF StepsOf
  <2>4. f[0] = d
    BY <1>6 DEF StepsOf
  <2>3. ASSUME NEW k \in 0 .. n PROVE f[k] = IF k = 0 THEN d ELSE step(f[k - 1], k)
    <3>1. k = 0 \/ (k \in 1 .. n /\ k # 0)
      OBVIOUS
    <3>. QED  BY <2>1, <2>4, <3>1
  <2>. QED  BY <2>2, <2>3
<1>8. after = body(after)
  <2>. HIDE DEF body
  <2>. QED  BY <1>7
<1>9. Batch(d, requests) = after[n]
  BY DEF Batch, after, body, step
<1>10. after[0] = d /\ \A k \in 1 .. n : after[k] = step(after[k - 1], k)
  <2>. HIDE DEF after
  <2>1. after = [k \in 0 .. n |-> IF k = 0 THEN d ELSE step(after[k - 1], k)]
    BY <1>8
  <2>2. ASSUME NEW k \in 0 .. n PROVE after[k] = IF k = 0 THEN d ELSE step(after[k - 1], k)
    BY <2>1
  <2>3. 0 \in 0 .. n /\ \A k \in 1 .. n : k \in 0 .. n /\ k # 0
    OBVIOUS
  <2>4. after[0] = d
    BY <2>2, <2>3
  <2>5. ASSUME NEW k \in 1 .. n PROVE after[k] = step(after[k - 1], k)
    BY <2>2, <2>3
  <2>. QED  BY <2>4, <2>5
<1>. HIDE DEF after
<1>. QED  BY <1>9, <1>10 DEF BatchIs, step

LEMMA BatchWhole ==
    ASSUME NEW d \in Whole, NEW requests, SoundPlan(requests)
    PROVE  Batch(d, requests) \in Whole \cup {Refused}
<1>1. PICK n \in Nat : n = Len(requests) /\ \A k \in 1 .. n : SoundRequest(requests[k])
  BY DEF SoundPlan
<1>2. PICK f : BatchIs(f, n, d, requests)
  BY <1>1, BatchSteps
<1>. DEFINE S == Whole \cup {Refused}
<1>3. f[0] \in S /\ \A k \in 1 .. n : f[k - 1] \in S => f[k] \in S
  BY <1>1, <1>2, ServedWhole DEF BatchIs
<1>4. \A k \in 0 .. n : f[k] \in S
  <2>. HIDE DEF S
  <2>. QED  BY <1>3, Climb
<1>. QED  BY <1>2, <1>4 DEF BatchIs

(* A batch goes through when Docs takes each of its requests, whatever is true *)
(* of the document by then.                                                 *)
LEMMA BatchTaken ==
    ASSUME NEW d \in Whole, NEW requests, SoundPlan(requests), NEW n \in Nat, n = Len(requests),
           NEW Q, d \in Q[0],
           \A k \in 1 .. n : \A x \in Whole \cap Q[k - 1] :
              Accepts(x, requests[k]) /\ Served(x, requests[k]) \in Q[k]
    PROVE  Batch(d, requests) \in Whole
<1>1. \A k \in 1 .. n : SoundRequest(requests[k])
  BY DEF SoundPlan
<1>2. PICK f : BatchIs(f, n, d, requests)
  BY BatchSteps
<1>. DEFINE T == {k \in 0 .. n : f[k] \notin Whole \cap Q[k]}
<1>3. ASSUME T # {} PROVE FALSE
  <2>1. PICK k \in T : \A m \in T : k <= m
    <3>1. T \in SUBSET Nat
      OBVIOUS
    <3>. HIDE DEF T
    <3>. QED  BY <1>3, <3>1, LeastOf
  <2>2. k # 0
    BY <1>2 DEF BatchIs
  <2>3. k \in 1 .. n /\ k - 1 \in 0 .. n /\ k - 1 \notin T
    BY <2>1, <2>2
  <2>4. PICK x : x = f[k - 1] /\ x \in Whole \cap Q[k - 1]
    BY <2>3
  <2>5. Accepts(x, requests[k]) /\ Served(x, requests[k]) \in Q[k] /\ x # Refused
    BY <2>3, <2>4, WholeHas
  <2>6. Served(x, requests[k]) \in Whole
    BY <1>1, <2>3, <2>4, <2>5, ServedWhole
  <2>7. f[k] = Served(x, requests[k])
    BY <1>2, <2>3, <2>4, <2>5 DEF BatchIs
  <2>. QED  BY <2>1, <2>5, <2>6, <2>7
<1>4. n \in 0 .. n
  OBVIOUS
<1>. HIDE DEF T
<1>5. n \notin T
  BY <1>3
<1>. QED  BY <1>2, <1>4, <1>5 DEF BatchIs, T

-----------------------------------------------------------------------------
(* Plans: every tool's requests are of the kinds Docs knows. *)

LEMMA SoundNone == SoundPlan(<<>>)
<1>. DEFINE S == {}
<1>1. <<>> \in Seq(S) /\ \A q \in S : SoundRequest(q)
  OBVIOUS
<1>. HIDE DEF S
<1>. QED  BY <1>1 DEF SoundPlan

LEMMA SoundTwo ==
    ASSUME NEW q, NEW r, SoundRequest(q), SoundRequest(r)
    PROVE  SoundPlan(<<q>>) /\ SoundPlan(<<q, r>>)
<1>. DEFINE S == {q, r}
<1>1. <<q>> \in Seq(S) /\ <<q, r>> \in Seq(S) /\ \A p \in S : SoundRequest(p)
  OBVIOUS
<1>. HIDE DEF S
<1>. QED  BY <1>1 DEF SoundPlan

LEMMA SoundOne ==
    ASSUME NEW q, SoundRequest(q)
    PROVE  SoundPlan(<<q>>)
BY SoundTwo

LEMMA SoundEach ==
    ASSUME NEW p, NEW n \in Nat, DOMAIN p = 1 .. n, p = [k \in 1 .. n |-> p[k]], \A k \in 1 .. n : SoundRequest(p[k])
    PROVE  SoundPlan(p)
<1>. DEFINE S == {p[k] : k \in 1 .. n}
<1>1. p \in Seq(S) /\ \A q \in S : SoundRequest(q)
  <2>1. [k \in 1 .. n |-> p[k]] \in Seq(S)
    <3>1. \A k \in 1 .. n : p[k] \in S
      OBVIOUS
    <3>. HIDE DEF S
    <3>. QED  BY <3>1
  <2>. QED  BY <2>1
<1>. QED  BY <1>1 DEF SoundPlan

LEMMA SoundJoined ==
    ASSUME NEW p, NEW r, SoundPlan(p), SoundPlan(r)
    PROVE  SoundPlan(p \o r)
<1>1. PICK S : p \in Seq(S) /\ \A q \in S : SoundRequest(q)
  BY DEF SoundPlan
<1>2. PICK T : r \in Seq(T) /\ \A q \in T : SoundRequest(q)
  BY DEF SoundPlan
<1>. DEFINE U == S \cup T
<1>3. p \in Seq(U) /\ r \in Seq(U) /\ \A q \in U : SoundRequest(q)
  BY <1>1, <1>2
<1>4. p \o r \in Seq(U)
  <2>. HIDE DEF U
  <2>. QED  BY <1>3
<1>. QED  BY <1>3, <1>4 DEF SoundPlan

LEMMA SoundFlat ==
    ASSUME NEW n \in Nat, NEW seqs, seqs = [k \in 1 .. n |-> seqs[k]], \A k \in 1 .. n : SoundPlan(seqs[k])
    PROVE  SoundPlan(FlattenSeq(seqs))
<1>. DEFINE held(k) == {seqs[k][j] : j \in DOMAIN seqs[k]}
            S == UNION {held(k) : k \in 1 .. n}
<1>1. ASSUME NEW k \in 1 .. n
      PROVE  seqs[k] \in Seq(S) /\ \A j \in DOMAIN seqs[k] : SoundRequest(seqs[k][j])
  <2>1. PICK T : seqs[k] \in Seq(T) /\ \A q \in T : SoundRequest(q)
    BY DEF SoundPlan
  <2>2. \A j \in DOMAIN seqs[k] : seqs[k][j] \in S
    OBVIOUS
  <2>. HIDE DEF S
  <2>. QED  BY <2>1, <2>2
<1>2. \A q \in S : SoundRequest(q)
  <2>. SUFFICES ASSUME NEW q \in S PROVE SoundRequest(q)
    OBVIOUS
  <2>1. PICK k \in 1 .. n : \E j \in DOMAIN seqs[k] : q = seqs[k][j]
    OBVIOUS
  <2>. HIDE DEF S
  <2>. QED  BY <1>1, <2>1
<1>3. [k \in 1 .. n |-> seqs[k]] \in Seq(Seq(S))
  <2>. HIDE DEF S
  <2>. QED  BY <1>1
<1>4. FlattenSeq(seqs) \in Seq(S)
  <2>. HIDE DEF S
  <2>. QED  BY <1>3, Flat
<1>. QED  BY <1>2, <1>4 DEF SoundPlan

-----------------------------------------------------------------------------

LEMMA TextsJoin ==
    /\ <<>> \in Text /\ <<"nl">> \in Text
    /\ \A x, y \in Text : x \o y \in Text
<1>1. "nl" \in Strings
  BY DEF Strings
<1>2. \A x, y \in Seq(Strings) : x \o y \in Seq(Strings)
  OBVIOUS
<1>3. <<>> \in Seq(Strings) /\ <<"nl">> \in Seq(Strings)
  BY <1>1
<1>. QED  BY <1>2, <1>3 DEF Text

LEMMA InsertionIsText ==
    ASSUME NEW o, NEW where, NEW n, NEW body \in Text
    PROVE  Insertion(o, where, n, body).text \in Text
<1>1. \/ Insertion(o, where, n, body).text = body \o <<"nl">>
      \/ Insertion(o, where, n, body).text = <<"nl">> \o body
  BY DEF Insertion
<1>. QED  BY <1>1, TextsJoin

LEMMA StrippedIsText ==
    ASSUME NEW text \in Text
    PROVE  StripNewline(text) \in Text
<1>1. CASE text = <<>>
  BY <1>1 DEF StripNewline
<1>2. CASE text # <<>>
  <2>1. text \in Seq(Strings) /\ Len(text) \in Nat /\ Len(text) >= 1
    BY <1>2, EmptySeq DEF Text
  <2>2. SubSeq(text, 1, Len(text) - 1) \in Seq(Strings)
    BY <2>1, SubSeqProperties
  <2>. QED  BY <2>2 DEF StripNewline, Front, Text
<1>. QED  BY <1>1, <1>2

LEMMA ListingIsText ==
    ASSUME NEW code \in Text
    PROVE  Listing(code) \in Text
<1>. DEFINE T == {0} \cup {k \in DOMAIN code : code[k] # "nl"}
            n == Greatest(T)
<1>1. code \in Seq(Strings) /\ Len(code) \in Nat /\ DOMAIN code = 1 .. Len(code)
  BY DEF Text
<1>2. T \in SUBSET (0 .. Len(code)) /\ T # {}
  BY <1>1
<1>3. n \in 0 .. Len(code)
  <2>. HIDE DEF T
  <2>. QED  BY <1>1, <1>2, GreatestIsMost
<1>. HIDE DEF n
<1>4. SubSeq(code, 1, n) \in Seq(Strings)
  BY <1>1, <1>3, SubSeqProperties
<1>. QED  BY <1>4 DEF Listing, n, Text

(* What an operation carries, by its kind.                                   *)
LEMMA OpFields ==
    ASSUME NEW x \in AnyOp
    PROVE  /\ x.kind # "none"
           /\ x.kind = "insert" => x.text \in Text /\ x.style \in Maybe(Strings)
           /\ x.kind = "edit" => x.find \in Text /\ x.replace \in Text
           /\ x.kind = "style" => x.style \in Strings
           /\ x.kind = "code" => x.code \in Text /\ x.spans \in Seq([start : Nat, end : Nat])
           /\ x.kind = "table" => x.grid \in Seq(Seq(Text))
           /\ x.kind = "insertLine" => x.cells \in Seq(Text)
           /\ x.kind = "append" => x.text \in Text
           /\ x.kind = "replace" => x.find \in Text /\ x.replace \in Text
           /\ x.kind \in {"insert", "edit", "style", "code", "table", "image", "insertLine", "deleteLine",
                          "delete", "deleteTable", "append", "replace"}
<1>. DEFINE R1 == [kind : {"insert"}, where : Strings, n : Nat, text : Text, style : Maybe(Strings), expect : Maybe(Text)]
            R2 == [kind : {"edit"}, n : Nat, find : Text, occurrence : Nat, replace : Text, expect : Text]
            R3 == [kind : {"style"}, n : Nat, style : Strings, expect : Text]
            R4 == [kind : {"code"}, n : Nat, code : Text, spans : Seq([start : Nat, end : Nat]), expect : Maybe(Text)]
            R5 == [kind : {"table"}, n : Nat, grid : Seq(Seq(Text)), header : BOOLEAN, expect : Maybe(Text)]
            R6 == [kind : {"image"}, n : Nat, insertable : BOOLEAN, expect : Maybe(Text)]
            R7 == [kind : {"insertLine", "deleteLine"}, axis : {"row", "column"}, n : Nat, number : Nat,
                   cells : Seq(Text), expect : Text]
            R8 == [kind : {"delete"}, n : Nat, to : Maybe(Nat), expect : Text, last : Maybe(Text)]
            R9 == [kind : {"deleteTable"}, n : Nat, expect : Text]
            R10 == [kind : {"append"}, text : Text]
            R11 == [kind : {"replace"}, find : Text, replace : Text]
<1>1. x \in R1 \/ x \in R2 \/ x \in R3 \/ x \in R4 \/ x \in R5 \/ x \in R6 \/ x \in R7 \/ x \in R8 \/ x \in R9
      \/ x \in R10 \/ x \in R11
  <2>. HIDE DEF R1, R2, R3, R4, R5, R6, R7, R8, R9, R10, R11
  <2>. QED  BY Zenon DEF AnyOp, R1, R2, R3, R4, R5, R6, R7, R8, R9, R10, R11
<1>. DEFINE K == x.kind
<1>2. CASE x \in R1
  <2>1. K = "insert" /\ x.text \in Text /\ x.style \in Maybe(Strings)
    BY <1>2
  <2>. QED  BY <2>1
<1>3. CASE x \in R2
  <2>1. K = "edit" /\ x.find \in Text /\ x.replace \in Text
    BY <1>3
  <2>. QED  BY <2>1
<1>4. CASE x \in R3
  <2>1. K = "style" /\ x.style \in Strings
    BY <1>4
  <2>. QED  BY <2>1
<1>5. CASE x \in R4
  <2>1. K = "code" /\ x.code \in Text /\ x.spans \in Seq([start : Nat, end : Nat])
    BY <1>5
  <2>. QED  BY <2>1
<1>6. CASE x \in R5
  <2>1. K = "table" /\ x.grid \in Seq(Seq(Text))
    BY <1>6
  <2>. QED  BY <2>1
<1>7. CASE x \in R7
  <2>1. K \in {"insertLine", "deleteLine"} /\ x.cells \in Seq(Text)
    BY <1>7
  <2>. QED  BY <2>1
<1>8. CASE x \in R6 \/ x \in R8 \/ x \in R9
  <2>1. K \in {"image", "delete", "deleteTable"}
    BY <1>8
  <2>. QED  BY <2>1
<1>9. CASE x \in R10
  <2>1. K = "append" /\ x.text \in Text
    BY <1>9
  <2>. QED  BY <2>1
<1>10. CASE x \in R11
  <2>1. K = "replace" /\ x.find \in Text /\ x.replace \in Text
    BY <1>10
  <2>. QED  BY <2>1
<1>. QED  BY <1>1, <1>2, <1>3, <1>4, <1>5, <1>6, <1>7, <1>8, <1>9, <1>10

LEMMA SoundRequests ==
    /\ \A at : \A text \in Text : SoundRequest(InsertText(at, text))
    /\ \A at : SoundRequest(InsertPicture(at))
    /\ \A at : \A rows, columns \in Nat : SoundRequest(InsertTable(at, rows, columns))
    /\ \A from, to : SoundRequest(Delete(from, to))
    /\ \A from, to : \A s \in Strings : SoundRequest(ParagraphStyle(from, to, s))
    /\ \A from, to : \A s \in Strings : SoundRequest(TextStyle(from, to, s))
    /\ \A axis, t, number : SoundRequest(InsertLine(axis, t, number)) /\ SoundRequest(DeleteLine(axis, t, number))
    /\ \A find, text \in Text : find # <<>> => SoundRequest(ReplaceText(find, text))
BY DEF SoundRequest, InsertText, InsertPicture, InsertTable, Delete, ParagraphStyle, TextStyle, InsertLine,
       DeleteLine, ReplaceText

(* Every plan of src/google/docs.rs is made of such requests.                *)
LEMMA PlannedSound ==
    ASSUME NEW d, NEW o, NEW x \in AnyOp, Takes(o, x)
    PROVE  SoundPlan(Planned(d, o, x))
<1>0. "font" \in Strings /\ "colour" \in Strings
  BY DEF Strings
<1>1. CASE x.kind = "insert"
  <2>. DEFINE body == StripNewline(x.text)
              i == Insertion(o, x.where, x.n, body)
              trailing == IF body = <<>> \/ Last(body) = "nl" THEN 1 ELSE 0
              styled == IF x.style = None THEN <<>>
                        ELSE <<ParagraphStyle(i.begins, i.begins + ULen(body) + trailing, x.style)>>
  <2>1. i.text \in Text
    BY <1>1, OpFields, StrippedIsText, InsertionIsText
  <2>2. SoundPlan(<<InsertText(i.at, i.text)>>)
    BY <2>1, SoundRequests, SoundOne
  <2>3. x.style # None => x.style \in Strings
    BY <1>1, OpFields DEF Maybe
  <2>4. SoundPlan(styled)
    <3>. DEFINE from == i.begins
                to == i.begins + ULen(body) + trailing
    <3>1. x.style # None => SoundPlan(<<ParagraphStyle(from, to, x.style)>>)
      <4>. HIDE DEF from, to
      <4>. QED  BY <2>3, SoundRequests, SoundOne
    <3>. HIDE DEF i, body, trailing
    <3>. QED  BY <3>1, SoundNone
  <2>5. Planned(d, o, x) = <<InsertText(i.at, i.text)>> \o styled
    BY <1>1 DEF Planned, PlanInsert
  <2>. HIDE DEF styled, i
  <2>. QED  BY <2>2, <2>4, <2>5, SoundJoined
<1>2. CASE x.kind = "edit"
  <2>. DEFINE p == o.paragraphs[x.n]
              start == IndexAt(d, p, Match(o, x))
              end == IndexAt(d, p, Match(o, x) + Len(x.find))
              first == IF x.replace = <<>> THEN <<>> ELSE <<InsertText(start, x.replace)>>
              second == <<Delete(start + ULen(x.replace), end + ULen(x.replace))>>
  <2>1. SoundPlan(first)
    <3>. HIDE DEF start
    <3>1. SoundPlan(<<InsertText(start, x.replace)>>)
      BY <1>2, OpFields, SoundRequests, SoundOne
    <3>. QED  BY <3>1, SoundNone
  <2>2. SoundPlan(second)
    <3>. DEFINE from == start + ULen(x.replace)
                to == end + ULen(x.replace)
    <3>1. SoundPlan(<<Delete(from, to)>>)
      <4>. HIDE DEF from, to
      <4>. QED  BY SoundRequests, SoundOne
    <3>. QED  BY <3>1
  <2>3. Planned(d, o, x) = first \o second
    BY <1>2 DEF Planned, PlanEdit
  <2>. HIDE DEF first, second
  <2>. QED  BY <2>1, <2>2, <2>3, SoundJoined
<1>3. CASE x.kind = "style"
  <2>. DEFINE from == StyleRange(o, x.n).from
              to == StyleRange(o, x.n).to
  <2>1. SoundPlan(<<ParagraphStyle(from, to, x.style)>>)
    <3>. HIDE DEF from, to
    <3>. QED  BY <1>3, OpFields, SoundRequests, SoundOne
  <2>. QED  BY <1>3, <2>1 DEF Planned, PlanStyle
<1>4. CASE x.kind = "code"
  <2>. DEFINE body == Listing(x.code)
              i == Insertion(o, "after", x.n, body)
              written == <<InsertText(i.at, i.text), TextStyle(i.begins, i.begins + ULen(body), "font")>>
              span(k) == TextStyle(i.begins + FromChars(body, x.spans[k].start),
                                   i.begins + FromChars(body, x.spans[k].end), "colour")
              spans == [k \in DOMAIN x.spans |-> span(k)]
  <2>1. i.text \in Text
    BY <1>4, OpFields, ListingIsText, InsertionIsText
  <2>2. SoundPlan(written)
    <3>. DEFINE from == i.begins
                to == i.begins + ULen(body)
    <3>1. SoundRequest(InsertText(i.at, i.text))
      BY <2>1, SoundRequests
    <3>2. SoundRequest(TextStyle(from, to, "font"))
      <4>. HIDE DEF from, to
      <4>. QED  BY <1>0, SoundRequests
    <3>. HIDE DEF i, body
    <3>. QED  BY <3>1, <3>2, SoundTwo
  <2>4. PICK m \in Nat : DOMAIN x.spans = 1 .. m
    BY <1>4, OpFields
  <2>5. ASSUME NEW k PROVE SoundRequest(span(k))
    <3>. DEFINE from == i.begins + FromChars(body, x.spans[k].start)
                to == i.begins + FromChars(body, x.spans[k].end)
    <3>1. SoundRequest(TextStyle(from, to, "colour"))
      <4>. HIDE DEF from, to
      <4>. QED  BY <1>0, SoundRequests
    <3>. QED  BY <3>1
  <2>6. SoundPlan(spans)
    <3>. HIDE DEF span
    <3>1. DOMAIN spans = 1 .. m /\ spans = [k \in 1 .. m |-> spans[k]] /\ \A k \in 1 .. m : spans[k] = span(k)
      BY <2>4
    <3>. HIDE DEF spans
    <3>. QED  BY <2>5, <3>1, SoundEach
  <2>7. Planned(d, o, x) = written \o spans
    BY <1>4 DEF Planned, PlanCode
  <2>. HIDE DEF written, spans
  <2>. QED  BY <2>2, <2>6, <2>7, SoundJoined
<1>5. CASE x.kind = "image"
  <2>. DEFINE i == Insertion(o, "after", x.n, <<>>)
  <2>1. i.text \in Text
    BY InsertionIsText, TextsJoin
  <2>2. SoundPlan(<<InsertText(i.at, i.text), InsertPicture(i.begins)>>)
    <3>. HIDE DEF i
    <3>. QED  BY <2>1, SoundRequests, SoundTwo
  <2>3. Planned(d, o, x) = <<InsertText(i.at, i.text), InsertPicture(i.begins)>>
    BY <1>5 DEF Planned, PlanImage
  <2>. QED  BY <2>2, <2>3
<1>6. CASE x.kind = "table"
  <2>1. x.grid \in Seq(Seq(Text)) /\ Len(x.grid) \in 1 .. MaxRows
    BY <1>6, OpFields DEF Takes, TakesTable
  <2>2. Len(x.grid) \in Nat /\ x.grid[1] \in Seq(Text)
    BY <2>1
  <2>3. SoundPlan(<<InsertTable(Boundary(o, x.n), Len(x.grid), Len(x.grid[1]))>>)
    BY <2>2, SoundRequests, SoundOne
  <2>. QED  BY <1>6, <2>3 DEF Planned, PlanTable
<1>7. CASE x.kind \in {"insertLine", "deleteLine"}
  <2>. DEFINE t == TheTable(o, x.n).index
  <2>1. SoundPlan(<<InsertLine(x.axis, t, x.number)>>) /\ SoundPlan(<<DeleteLine(x.axis, t, x.number)>>)
    <3>. HIDE DEF t
    <3>. QED  BY SoundRequests, SoundOne
  <2>2. Planned(d, o, x) = <<InsertLine(x.axis, t, x.number)>> \/ Planned(d, o, x) = <<DeleteLine(x.axis, t, x.number)>>
    BY <1>7 DEF Planned, PlanInsertLine, PlanDeleteLine
  <2>. QED  BY <2>1, <2>2
<1>8. CASE x.kind \in {"delete", "deleteTable"}
  <2>1. \E from, to : Planned(d, o, x) = <<Delete(from, to)>>
    BY <1>8 DEF Planned, PlanDelete, PlanDeleteTable
  <2>. QED  BY <2>1, SoundRequests, SoundOne
<1>9. CASE x.kind = "append"
  <2>1. SoundPlan(<<InsertText(AppendIndex(o), x.text)>>)
    BY <1>9, OpFields, SoundRequests, SoundOne
  <2>. QED  BY <1>9, <2>1 DEF Planned
<1>10. CASE x.kind = "replace"
  <2>1. x.find # <<>>
    BY <1>10 DEF Takes
  <2>2. SoundPlan(<<ReplaceText(x.find, x.replace)>>)
    BY <1>10, <2>1, OpFields, SoundRequests, SoundOne
  <2>. QED  BY <1>10, <2>2 DEF Planned
<1>. QED  BY <1>1, <1>2, <1>3, <1>4, <1>5, <1>6, <1>7, <1>8, <1>9, <1>10, OpFields

-----------------------------------------------------------------------------
(* The second batch, made of the document read back. *)

LEMMA FillCellsSound ==
    ASSUME NEW cells, Len(cells) \in Nat, NEW texts \in Seq(Text)
    PROVE  SoundPlan(FillCells(cells, texts))
<1>. DEFINE n == Least({Len(cells), Len(texts)})
            fill(k) == IF texts[k] = <<>> THEN <<>> ELSE <<InsertText(cells[k].index, texts[k])>>
            seqs == [k \in 1 .. n |-> fill(n + 1 - k)]
<1>1. n \in Nat /\ n <= Len(texts) /\ Len(texts) \in Nat
  <2>. DEFINE T == {Len(cells), Len(texts)}
  <2>1. Len(texts) \in Nat
    OBVIOUS
  <2>2. T \in SUBSET Nat /\ T # {} /\ Len(texts) \in T
    BY <2>1
  <2>3. Least(T) \in T /\ Least(T) <= Len(texts)
    <3>. HIDE DEF T
    <3>. QED  BY <2>2, LeastIsOne
  <2>. QED  BY <2>1, <2>2, <2>3
<1>. HIDE DEF n
<1>2. ASSUME NEW k \in 1 .. n PROVE SoundPlan(fill(k))
  <2>1. texts[k] \in Text
    BY <1>1
  <2>. DEFINE at == cells[k].index
  <2>2. SoundPlan(<<InsertText(at, texts[k])>>)
    <3>. HIDE DEF at
    <3>. QED  BY <2>1, SoundRequests, SoundOne
  <2>. QED  BY <2>2, SoundNone
<1>3. \A k \in 1 .. n : SoundPlan(seqs[k])
  <2>. SUFFICES ASSUME NEW k \in 1 .. n PROVE SoundPlan(seqs[k])
    OBVIOUS
  <2>1. n + 1 - k \in 1 .. n
    BY <1>1
  <2>2. seqs[k] = fill(n + 1 - k)
    <3>. HIDE DEF fill
    <3>. QED  OBVIOUS
  <2>. HIDE DEF seqs, fill
  <2>. QED  BY <1>2, <2>1, <2>2
<1>4. seqs = [k \in 1 .. n |-> seqs[k]]
  <2>. HIDE DEF fill
  <2>. QED  OBVIOUS
<1>5. SoundPlan(FlattenSeq(seqs))
  <2>. HIDE DEF seqs
  <2>. QED  BY <1>1, <1>3, <1>4, SoundFlat
<1>. QED  BY <1>5 DEF FillCells, n

LEMMA BoldAfterSound ==
    ASSUME NEW p, SoundPlan(p)
    PROVE  SoundPlan(BoldAfter(p))
<1>1. PICK S : p \in Seq(S) /\ \A q \in S : SoundRequest(q)
  BY DEF SoundPlan
<1>2. PICK n \in Nat : DOMAIN p = 1 .. n
  BY <1>1
<1>. DEFINE bold(k) == TextStyle(p[k].at, p[k].at + ULen(p[k].text), "bold")
            seqs == [k \in DOMAIN p |-> <<p[k], bold(k)>>]
<1>3. ASSUME NEW k PROVE SoundRequest(bold(k))
  <2>. DEFINE from == p[k].at
              to == p[k].at + ULen(p[k].text)
  <2>1. SoundRequest(TextStyle(from, to, "bold"))
    <3>1. "bold" \in Strings
      BY DEF Strings
    <3>. HIDE DEF from, to
    <3>. QED  BY <3>1, SoundRequests
  <2>. QED  BY <2>1
<1>. HIDE DEF bold
<1>4. ASSUME NEW k \in 1 .. n PROVE seqs[k] = <<p[k], bold(k)>> /\ SoundPlan(seqs[k])
  <2>1. seqs[k] = <<p[k], bold(k)>> /\ p[k] \in S
    BY <1>1, <1>2
  <2>. HIDE DEF seqs
  <2>. QED  BY <1>1, <1>3, <2>1, SoundTwo
<1>5. seqs = [k \in 1 .. n |-> seqs[k]]
  BY <1>2
<1>6. SoundPlan(FlattenSeq(seqs))
  <2>. HIDE DEF seqs
  <2>. QED  BY <1>4, <1>5, SoundFlat
<1>. QED  BY <1>6 DEF BoldAfter, bold

LEMMA FillRequestsSound ==
    ASSUME NEW g, NEW grid \in Seq(Seq(Text)), NEW header, \A r \in 1 .. Len(grid) : Len(g.rows[r]) \in Nat
    PROVE  SoundPlan(FillRequests(g, grid, header))
<1>1. PICK n \in Nat : n = Len(grid) /\ \A r \in 1 .. n : grid[r] \in Seq(Text)
  OBVIOUS
<1>. DEFINE fill(r) == FillCells(g.rows[r], grid[r])
            piece(k) == IF header /\ k = n THEN BoldAfter(fill(1)) ELSE fill(n + 1 - k)
            seqs == [k \in 1 .. n |-> piece(k)]
<1>2. ASSUME NEW r \in 1 .. n PROVE SoundPlan(fill(r))
  <2>. DEFINE cells == g.rows[r]
  <2>1. Len(cells) \in Nat /\ grid[r] \in Seq(Text)
    BY <1>1
  <2>2. SoundPlan(FillCells(cells, grid[r]))
    <3>. HIDE DEF cells
    <3>. QED  BY <2>1, FillCellsSound
  <2>. QED  BY <2>2
<1>. HIDE DEF fill
<1>3. ASSUME NEW k \in 1 .. n PROVE SoundPlan(piece(k))
  <2>1. 1 \in 1 .. n /\ n + 1 - k \in 1 .. n
    BY <1>1
  <2>. QED  BY <1>2, <2>1, BoldAfterSound
<1>. HIDE DEF piece
<1>4. seqs = [k \in 1 .. n |-> seqs[k]] /\ \A k \in 1 .. n : SoundPlan(seqs[k])
  BY <1>3
<1>5. SoundPlan(FlattenSeq(seqs))
  <2>. HIDE DEF seqs
  <2>. QED  BY <1>1, <1>4, SoundFlat
<1>6. FillRequests(g, grid, header) = FlattenSeq(seqs)
  BY <1>1 DEF FillRequests, piece, fill
<1>. QED  BY <1>5, <1>6

-----------------------------------------------------------------------------

(* Every table of an outline is read from one of the document.               *)
LEMMA OutlineTables ==
    ASSUME NEW d \in Whole, NEW t \in 1 .. Len(Outline(d).tables)
    PROVE  \E i : Outline(d).tables[t] = GridAt(d, i)
<1>. DEFINE T == {TableEnd(d, i) : i \in Places(d, {"table"})}
            tables == InOrder(T)
            at(k) == CHOOSE i \in Places(d, {"table"}) : TableEnd(d, i) = tables[k]
            grids == [k \in DOMAIN tables |-> GridAt(d, at(k))]
<1>1. IsFiniteSet(T)
  <2>1. IsFiniteSet(1 .. Len(d))
    BY WholeHas, FS_Interval
  <2>2. IsFiniteSet(Places(d, {"table"}))
    <3>1. Places(d, {"table"}) \subseteq 1 .. Len(d)
      BY DEF Places
    <3>. QED  BY <2>1, <3>1, FS_Subset
  <2>. DEFINE P == Places(d, {"table"})
              f == [i \in P |-> TableEnd(d, i)]
  <2>3. IsFiniteSet({f[i] : i \in P})
    <3>1. IsFiniteSet(P)
      BY <2>2
    <3>. HIDE DEF P
    <3>2. f \in [P -> {f[i] : i \in P}]
      OBVIOUS
    <3>3. f \in Surjection(P, {f[i] : i \in P})
      BY <3>2 DEF Surjection
    <3>. HIDE DEF f
    <3>. QED  BY <3>1, <3>3, FS_Surjection
  <2>4. {f[i] : i \in P} = T
    OBVIOUS
  <2>. QED  BY <2>3, <2>4
<1>2. PICK m \in Nat : m = Cardinality(T)
  <2>. HIDE DEF T
  <2>. QED  BY <1>1, FS_CardinalityType
<1>3. DOMAIN tables = 1 .. m
  <2>. HIDE DEF T
  <2>. QED  BY <1>2 DEF InOrder
<1>4. Outline(d).tables = grids
  BY DEF Outline
<1>. HIDE DEF at, tables
<1>5. Len(grids) = m /\ \A k \in 1 .. m : grids[k] = GridAt(d, at(k))
  BY <1>3
<1>6. Outline(d).tables[t] = GridAt(d, at(t))
  <2>. HIDE DEF grids
  <2>. QED  BY <1>4, <1>5
<1>. QED  BY <1>6

LEMMA OutlineRows ==
    ASSUME NEW d \in Whole, NEW t \in 1 .. Len(Outline(d).tables)
    PROVE  \E m \in Nat : /\ Len(Outline(d).tables[t].rows) = m /\ DOMAIN Outline(d).tables[t].rows = 1 .. m
                          /\ \A r \in 1 .. m : Len(Outline(d).tables[t].rows[r]) \in Nat
<1>1. PICK i : Outline(d).tables[t] = GridAt(d, i)
  BY OutlineTables
<1>. QED  BY <1>1, GridsHaveRows

LEMMA MinIsOne ==
    ASSUME NEW T \in SUBSET Nat, T # {}
    PROVE  Min(T) \in T
BY LeastOf DEF Min

LEMMA NewTableIsOne ==
    ASSUME NEW o, NEW index, NEW rows, NEW columns, NEW t, t = NewTable(o, index, rows, columns), t # 0
    PROVE  t \in 1 .. Len(o.tables) /\ Len(o.tables[t].rows) = rows
<1>. DEFINE T == {i \in 1 .. Len(o.tables) : /\ o.tables[i].index >= index
                                             /\ Shape(o.tables[i], rows, columns)
                                             /\ \A c \in Cells(o.tables[i]) : c.empty}
<1>1. t = IF T # {} THEN Min(T) ELSE 0
  BY DEF NewTable, SelectInSeq
<1>2. T \in SUBSET Nat
  OBVIOUS
<1>3. t \in T
  <2>. HIDE DEF T
  <2>. QED  BY <1>1, <1>2, MinIsOne
<1>. QED  BY <1>3 DEF Shape

LEMMA LineIsCounted ==
    ASSUME NEW d \in Whole, NEW index, NEW shape, NEW axis, NEW number
    PROVE  Len(NewLineCells(Outline(d), index, shape, axis, number)) \in Nat
<1>. DEFINE o == Outline(d)
            T == {i \in 1 .. Len(o.tables) : o.tables[i].index = index /\ Shape(o.tables[i], shape[1], shape[2])}
            t == SelectInSeq(o.tables, LAMBDA g : g.index = index /\ Shape(g, shape[1], shape[2]))
            cells == IF t = 0 THEN <<>> ELSE Line(o.tables[t], axis, number)
<1>1. t = IF T # {} THEN Min(T) ELSE 0
  BY DEF SelectInSeq
<1>2. t # 0 => t \in 1 .. Len(o.tables)
  <2>1. T \in SUBSET Nat /\ T \subseteq 1 .. Len(o.tables)
    OBVIOUS
  <2>. HIDE DEF T, t, o
  <2>. QED  BY <1>1, <2>1, MinIsOne
<1>. HIDE DEF t
<1>3. ASSUME t # 0 PROVE Len(Line(o.tables[t], axis, number)) \in Nat
  <2>1. PICK m \in Nat : /\ DOMAIN o.tables[t].rows = 1 .. m
                         /\ \A r \in 1 .. m : Len(o.tables[t].rows[r]) \in Nat
    BY <1>2, <1>3, OutlineRows
  <2>. DEFINE g == o.tables[t]
              has == InOrder({r \in DOMAIN g.rows : number \in DOMAIN g.rows[r]})
  <2>2. PICK l \in Nat : DOMAIN has = 1 .. l
    <3>. DEFINE H == {r \in DOMAIN g.rows : number \in DOMAIN g.rows[r]}
    <3>1. H \in SUBSET (1 .. m)
      BY <2>1
    <3>2. \E l \in Nat : DOMAIN InOrder(H) = 1 .. l
      <4>. HIDE DEF H
      <4>. QED  BY <3>1, OrderIsFinite
    <3>. QED  BY <3>2
  <2>. HIDE DEF has
  <2>3. Len([k \in DOMAIN has |-> g.rows[has[k]][number]]) = l
    <3>. HIDE DEF g
    <3>. QED  BY <2>2
  <2>4. axis = "row" /\ number \in DOMAIN g.rows => Len(g.rows[number]) \in Nat
    BY <2>1
  <2>5. Len(<<>>) = 0
    OBVIOUS
  <2>6. Line(g, axis, number) = IF axis = "row" THEN IF number \in DOMAIN g.rows THEN g.rows[number] ELSE <<>>
                                ELSE [k \in DOMAIN has |-> g.rows[has[k]][number]]
    <3>. HIDE DEF g
    <3>. QED  BY DEF Line, has
  <2>. HIDE DEF g
  <2>. QED  BY <2>2, <2>3, <2>4, <2>5, <2>6 DEF g
<1>4. Len(cells) \in Nat
  <2>. HIDE DEF o
  <2>. QED  BY <1>3
<1>5. NewLineCells(o, index, shape, axis, number) = cells \/ NewLineCells(o, index, shape, axis, number) = <<>>
  <2>. HIDE DEF o
  <2>. QED  BY DEF NewLineCells, t
<1>. HIDE DEF cells
<1>. QED  BY <1>4, <1>5

-----------------------------------------------------------------------------
(* The call. *)

(* Whatever others do leaves a document: they take no body's last newline.    *)
LEMMA OthersWhole ==
    ASSUME NEW d \in Whole
    PROVE  OthersEdits(d) \subseteq Whole
<1>1. ASSUME NEW i \in 1 .. Len(d), NEW c \in {"a", "nl"}
      PROVE  Put(d, i, Typed(d, i, <<c>>)) \in Whole
  <2>1. <<c>> \in Text
    <3>1. c \in Strings
      BY DEF Strings
    <3>. QED  BY <3>1 DEF Text
  <2>2. Typed(d, i, <<c>>) \in Seq(AnyUnit)
    BY <2>1, TypedIsUnits
  <2>. QED  BY <2>2, PutWhole
<1>2. ASSUME NEW from, NEW to, Deletable(d, from, to)
      PROVE  Cut(d, from, to) \in Whole
  <2>1. to \in 1 .. Len(d) /\ from \in 1 .. to
    <3>1. Len(d) \in Nat
      BY WholeHas
    <3>2. from \in 1 .. Len(d) - 1 /\ to \in from + 1 .. Len(d)
      BY <1>2 DEF Deletable
    <3>. QED  BY <3>1, <3>2
  <2>. QED  BY <2>1, CutWhole
<1>3. ASSUME NEW e \in OthersEdits(d) PROVE e \in Whole
  <2>1. \/ \E i \in 1 .. Len(d), c \in {"a", "nl"} : e = Put(d, i, Typed(d, i, <<c>>))
        \/ \E from, to : Deletable(d, from, to) /\ e = Cut(d, from, to)
    BY DEF OthersEdits
  <2>. QED  BY <1>1, <1>2, <2>1
<1>. QED  BY <1>3

-----------------------------------------------------------------------------

(* A document is whole, the plan held for it can be carried out, and what    *)
(* others did to it is what its revisions leave when those of the call are    *)
(* taken away.                                                              *)
DocumentInOrder ==
    /\ doc \in Whole /\ SoundPlan(plan)
    /\ rev \in Nat /\ named \in Nat /\ 1 <= rev /\ named <= rev
    /\ pc \in {"idle", "asked", "checked", "planned", "made", "filling"} \cup Answers
    /\ op \in AnyOp \cup {NoOp} /\ (pc = "idle" <=> op = NoOp)
    /\ DOMAIN table = DOMAIN NoTable
    /\ pc \in {"checked", "planned", "made"} /\ op.kind = "table" => table.rows = Len(op.grid)
    /\ upload \in {"staged", "held", "gone"}
    /\ mine \subseteq 2 .. rev /\ IsFiniteSet(mine) /\ Cardinality(mine) <= 2
    /\ rev - 1 - Cardinality(mine) <= MaxEdits

LEMMA DocumentInit == Init => DocumentInOrder
<1>. SUFFICES ASSUME Init PROVE DocumentInOrder
  OBVIOUS
<1>1. SoundPlan(plan)
  BY SoundNone DEF Init
<1>2. doc \in Whole
  BY DocumentsAreWhole DEF Init
<1>3. IsFiniteSet(mine) /\ Cardinality(mine) = 0
  BY FS_EmptySet DEF Init
<1>. QED  BY <1>1, <1>2, <1>3, EditsAreCounted DEF Init, DocumentInOrder, NoTable

LEMMA AskedIsTyped ==
    ASSUME DocumentInOrder, pc # "idle"
    PROVE  op \in AnyOp
BY DEF DocumentInOrder

LEMMA AskStep ==
    ASSUME DocumentInOrder, Ask
    PROVE  DocumentInOrder'
<1>1. op' \in AnyOp
  BY OpsAreTyped DEF Ask
<1>2. op' # NoOp
  BY <1>1, OpFields DEF NoOp
<1>3. UNCHANGED <<doc, rev, plan, table, upload, mine>> /\ pc' = "asked" /\ named' = rev
  BY DEF Ask
<1>. QED  BY <1>1, <1>2, <1>3 DEF DocumentInOrder

LEMMA TableAskedHas ==
    ASSUME NEW STATE o
    PROVE  /\ DOMAIN TableAsked(o) = DOMAIN NoTable
           /\ op.kind = "table" => TableAsked(o).rows = Len(op.grid)
BY DEF TableAsked, NoTable

LEMMA PlanWholeStep ==
    ASSUME DocumentInOrder, Plan
    PROVE  DocumentInOrder'
<1>1. /\ pc = "asked" /\ Takes(Outline(doc), op)
      /\ plan' = Planned(doc, Outline(doc), op) /\ table' = TableAsked(Outline(doc))
      /\ pc' \in {"checked", "planned"}
      /\ UNCHANGED <<doc, rev, op, named, upload, mine>>
  BY DEF Plan, Writable
<1>2. SoundPlan(plan')
  BY <1>1, AskedIsTyped, PlannedSound
<1>3. DOMAIN table' = DOMAIN NoTable /\ (op.kind = "table" => table'.rows = Len(op.grid))
  BY <1>1, TableAskedHas
<1>. QED  BY <1>1, <1>2, <1>3 DEF DocumentInOrder

(* A batch is one more revision, and no call sends a third one.              *)
LEMMA AppliedStep ==
    ASSUME DocumentInOrder, CallInOrder, NEW answers, Applied(answers), pc \in {"planned", "filling"},
           answers \subseteq {"made"} \cup Answers, "made" \in answers => pc = "planned"
    PROVE  DocumentInOrder'
<1>1. /\ Batch(doc, plan) # Refused /\ doc' = Batch(doc, plan)
      /\ rev' = rev + 1 /\ mine' = mine \cup {rev + 1}
      /\ pc' \in {"made"} \cup Answers /\ (pc' = "made" => pc = "planned")
      /\ UNCHANGED <<op, named, plan, table, upload>>
  BY DEF Applied
<1>2. doc' \in Whole
  BY <1>1, BatchWhole DEF DocumentInOrder
<1>3. mine \subseteq 2 .. rev /\ rev \in Nat /\ 1 <= rev /\ IsFiniteSet(mine)
  BY DEF DocumentInOrder
<1>4. Cardinality(mine) <= 1 /\ Cardinality(mine) \in Nat
  <2>1. mine = {} \/ \E r \in mine : mine = {r}
    BY DEF CallInOrder, BatchesInOrder
  <2>2. CASE mine = {}
    BY <2>2, FS_EmptySet
  <2>3. CASE mine # {}
    <3>1. PICK r : mine = {r}
      BY <2>1, <2>3
    <3>. QED  BY <3>1, FS_Singleton
  <2>. QED  BY <2>2, <2>3
<1>5. IsFiniteSet(mine') /\ Cardinality(mine') = Cardinality(mine) + 1
  BY <1>1, <1>3, FS_AddElement
<1>6. mine' \subseteq 2 .. rev'
  BY <1>1, <1>3
<1>. QED  BY <1>1, <1>2, <1>4, <1>5, <1>6, EditsAreCounted DEF DocumentInOrder, Answers

(* The requests of the second batch.                                        *)
LEMMA FillingStep ==
    ASSUME DocumentInOrder, NEW STATE requests, NEW STATE found, Filling(requests, found),
           pc = "made", SoundPlan(requests), DOMAIN found = DOMAIN NoTable
    PROVE  DocumentInOrder'
<1>1. /\ plan' = requests /\ table' = found /\ named' = rev /\ pc' \in {"done", "filling"}
      /\ UNCHANGED <<doc, rev, op, upload, mine>>
  BY DEF Filling
<1>2. SoundPlan(plan') /\ DOMAIN table' = DOMAIN NoTable
  BY <1>1
<1>. QED  BY <1>1, <1>2 DEF DocumentInOrder, Answers

LEMMA FindTableStep ==
    ASSUME DocumentInOrder, FindTable
    PROVE  DocumentInOrder'
<1>. DEFINE o == Outline(doc)
            g == o.tables[FoundTable(o)]
            tidy == table.tidy /\ TidyBefore(o, op.n, table.index, g.index)
            closed == IF tidy THEN 1 ELSE 0
            filled == FillRequests(g, op.grid, op.header)
            joined == IF tidy THEN <<Delete(table.index - 1, table.index)>> ELSE <<>>
            found == [table EXCEPT !.index = g.index - closed, !.tidy = tidy,
                                   !.first = FirstParagraph(g) - closed,
                                   !.last = LastParagraph(g) - closed]
<1>1. pc = "made" /\ op.kind = "table" /\ FoundTable(o) # 0 /\ Filling(filled \o joined, found)
  BY Zenon DEF FindTable
<1>2. doc \in Whole /\ op \in AnyOp /\ table.rows = Len(op.grid) /\ DOMAIN table = DOMAIN NoTable
  BY <1>1, AskedIsTyped DEF DocumentInOrder
<1>3. op.grid \in Seq(Seq(Text))
  BY <1>1, <1>2, OpFields
<1>4. PICK t : t = FoundTable(o)
  OBVIOUS
<1>5. t \in 1 .. Len(o.tables) /\ Len(o.tables[t].rows) = Len(op.grid)
  <2>1. t = NewTable(o, table.index, table.rows, table.columns) /\ t # 0
    BY <1>1, <1>4 DEF FoundTable
  <2>. HIDE DEF o
  <2>. QED  BY <1>2, <2>1, NewTableIsOne
<1>6. \A r \in 1 .. Len(op.grid) : Len(g.rows[r]) \in Nat
  <2>1. PICK m \in Nat : Len(o.tables[t].rows) = m /\ \A r \in 1 .. m : Len(o.tables[t].rows[r]) \in Nat
    BY <1>2, <1>5, OutlineRows
  <2>. QED  BY <1>4, <1>5, <2>1
<1>7. SoundPlan(filled)
  <2>. HIDE DEF g
  <2>. QED  BY <1>3, <1>6, FillRequestsSound
<1>8. SoundPlan(joined)
  <2>. HIDE DEF tidy
  <2>. QED  BY SoundNone, SoundOne, SoundRequests
<1>9. SoundPlan(filled \o joined)
  <2>. HIDE DEF filled, joined
  <2>. QED  BY <1>7, <1>8, SoundJoined
<1>10. DOMAIN found = DOMAIN NoTable
  <2>. HIDE DEF g, tidy, closed
  <2>. QED  BY <1>2
<1>. HIDE DEF filled, joined, found
<1>. QED  BY <1>1, <1>9, <1>10, FillingStep

LEMMA FindLineStep ==
    ASSUME DocumentInOrder, FindLine
    PROVE  DocumentInOrder'
<1>. DEFINE cells == FoundCells(Outline(doc))
            filled == FillCells(cells, op.cells)
            found == [table EXCEPT !.first = cells[1].ordinal, !.last = Last(cells).ordinal]
<1>1. pc = "made" /\ op.kind = "insertLine" /\ Filling(filled, found)
  BY Zenon DEF FindLine
<1>2. doc \in Whole /\ op \in AnyOp /\ DOMAIN table = DOMAIN NoTable
  BY <1>1, AskedIsTyped DEF DocumentInOrder
<1>3. op.cells \in Seq(Text)
  BY <1>1, <1>2, OpFields
<1>4. Len(cells) \in Nat
  BY <1>2, LineIsCounted DEF FoundCells
<1>5. SoundPlan(filled)
  <2>. HIDE DEF cells
  <2>. QED  BY <1>3, <1>4, FillCellsSound
<1>6. DOMAIN found = DOMAIN NoTable
  <2>. HIDE DEF cells
  <2>. QED  BY <1>2
<1>. HIDE DEF filled, found
<1>. QED  BY <1>1, <1>5, <1>6, FillingStep

LEMMA OthersStep ==
    ASSUME DocumentInOrder, Others
    PROVE  DocumentInOrder'
<1>1. /\ doc' \in OthersEdits(doc) /\ rev' = rev + 1 /\ rev - 1 - Cardinality(mine) < MaxEdits
      /\ UNCHANGED <<pc, op, named, plan, seen, table, upload, mine>>
  BY DEF Others
<1>2. doc' \in Whole
  BY <1>1, OthersWhole DEF DocumentInOrder
<1>3. IsFiniteSet(mine) => Cardinality(mine) \in Nat
  BY FS_CardinalityType
<1>. QED  BY <1>1, <1>2, <1>3, EditsAreCounted DEF DocumentInOrder

LEMMA DocumentStep ==
    ASSUME DocumentInOrder, CallInOrder, [Next]_vars
    PROVE  DocumentInOrder'
<1>1. CASE Preview \/ Refuse
  BY <1>1 DEF DocumentInOrder, Preview, Refuse, Answers
<1>2. CASE Hold
  BY <1>2 DEF DocumentInOrder, Hold, Answers
<1>3. CASE Expire
  BY <1>3 DEF DocumentInOrder, Expire
<1>4. CASE Write
  BY <1>4, AppliedStep DEF Write, Answers
<1>5. CASE Fill
  BY <1>5, AppliedStep DEF Fill, Answers
<1>6. CASE WriteRefused \/ LeftEmpty \/ FillRefused
  BY <1>6 DEF DocumentInOrder, WriteRefused, LeftEmpty, FillRefused, Answered, Answers
<1>7. CASE UNCHANGED vars
  BY <1>7 DEF DocumentInOrder, vars
<1>. QED  BY <1>1, <1>2, <1>3, <1>4, <1>5, <1>6, <1>7, Steps,
             AskStep, PlanWholeStep, FindTableStep, FindLineStep, OthersStep

LEMMA DocumentIsTyped == DocumentInOrder => TypeOK
<1>. SUFFICES ASSUME DocumentInOrder PROVE TypeOK
  OBVIOUS
<1>1. rev \in 1 .. MaxEdits + 3
  <2>1. Cardinality(mine) \in Nat
    BY FS_CardinalityType DEF DocumentInOrder
  <2>. QED  BY <2>1, EditsAreCounted DEF DocumentInOrder
<1>. QED  BY <1>1 DEF DocumentInOrder, TypeOK

(* Whatever the tools of src/mcp/docs.rs are asked for and others write, every *)
(* batch Docs takes leaves a body that ends in its own newline, the requests   *)
(* held are of kinds Docs knows, and every variable keeps its type.           *)
THEOREM DocumentStaysWhole == Spec => []TypeOK
<1>1. DocumentInOrder /\ CallInOrder /\ [Next]_vars => DocumentInOrder'
  BY DocumentStep
<1>. QED  BY DocumentInit, <1>1, DocumentIsTyped, BatchesAreCounted, PTL DEF Spec

-----------------------------------------------------------------------------
(* That Docs takes the plans that write and style text: where a paragraph of   *)
(* the outline lies, how many units a text takes, and what each request finds. *)

(* Counting from below meets every one of finitely many numbers.            *)
LEMMA CountedUp ==
    ASSUME NEW m \in Nat, NEW T \in SUBSET (1 .. m), NEW j \in 1 .. Cardinality(T)
    PROVE  \E x \in T : Cardinality({y \in T : y < x}) = j - 1
<1>. DEFINE below(v) == {y \in T : y < v}
            V == {v \in 0 .. m + 1 : Cardinality(below(v)) >= j}
<1>1. IsFiniteSet(T) /\ Cardinality(T) \in Nat
  <2>1. IsFiniteSet(1 .. m)
    BY FS_Interval
  <2>2. IsFiniteSet(T)
    BY <2>1, FS_Subset
  <2>. QED  BY <2>2, FS_CardinalityType
<1>2. ASSUME NEW v PROVE IsFiniteSet(below(v)) /\ Cardinality(below(v)) \in Nat
  <2>1. below(v) \subseteq T
    OBVIOUS
  <2>. HIDE DEF below
  <2>2. IsFiniteSet(below(v))
    BY <1>1, <2>1, FS_Subset
  <2>. QED  BY <2>2, FS_CardinalityType
<1>0. \A y \in T : y \in Nat /\ 1 <= y /\ y <= m
  OBVIOUS
<1>3. below(m + 1) = T /\ below(0) = {}
  <2>1. \A y \in T : y < m + 1 /\ ~(y < 0)
    BY <1>0
  <2>. QED  BY <2>1
<1>4. m + 1 \in V /\ 0 \notin V
  <2>1. Cardinality({}) = 0
    BY FS_EmptySet
  <2>2. j \in Nat /\ 1 <= j /\ j <= Cardinality(T)
    BY <1>1
  <2>3. Cardinality(below(m + 1)) >= j /\ ~(Cardinality(below(0)) >= j)
    <3>1. Cardinality(below(m + 1)) = Cardinality(T)
      <4>. HIDE DEF below
      <4>. QED  BY <1>3
    <3>2. Cardinality(below(0)) = 0
      <4>. HIDE DEF below
      <4>. QED  BY <1>3, <2>1
    <3>. HIDE DEF below
    <3>. QED  BY <2>2, <3>1, <3>2
  <2>. HIDE DEF below
  <2>. QED  BY <2>3
<1>5. PICK v \in V : \A u \in V : v <= u
  <2>1. V \in SUBSET Nat /\ V # {}
    <3>. HIDE DEF below
    <3>. QED  BY <1>4
  <2>. HIDE DEF V
  <2>. QED  BY <2>1, LeastOf
<1>6. v \in 1 .. m + 1 /\ v - 1 \in 0 .. m + 1
  <2>. HIDE DEF below
  <2>1. v # 0
    BY <1>4
  <2>. QED  BY <2>1
<1>7. Cardinality(below(v - 1)) < j
  <2>1. v - 1 \notin V
    <3>. HIDE DEF below
    <3>. QED  BY <1>5, <1>6
  <2>. HIDE DEF below
  <2>2. Cardinality(below(v - 1)) \in Nat /\ j \in Nat
    BY <1>1, <1>2
  <2>3. ~(Cardinality(below(v - 1)) >= j)
    BY <1>6, <2>1
  <2>. QED  BY <2>2, <2>3
<1>8. below(v) = IF v - 1 \in T THEN below(v - 1) \cup {v - 1} ELSE below(v - 1)
  <2>1. \A y \in T : y < v <=> y < v - 1 \/ y = v - 1
    BY <1>0, <1>6
  <2>. QED  BY <2>1
<1>9. v - 1 \notin below(v - 1)
  BY <1>6
<1>10. Cardinality(below(v)) >= j
  BY <1>5
<1>. HIDE DEF below
<1>11. v - 1 \in T
  BY <1>7, <1>8, <1>10, <1>2
<1>12. Cardinality(below(v)) = Cardinality(below(v - 1)) + 1
  BY <1>2, <1>8, <1>9, <1>11, FS_AddElement
<1>13. Cardinality(below(v - 1)) = j - 1
  BY <1>2, <1>7, <1>10, <1>12
<1>. QED  BY <1>11, <1>13 DEF below

LEMMA OrderIsOfThem ==
    ASSUME NEW m \in Nat, NEW T \in SUBSET (1 .. m), NEW j \in DOMAIN InOrder(T)
    PROVE  InOrder(T)[j] \in T
<1>1. j \in 1 .. Cardinality(T)
  BY DEF InOrder
<1>. QED  BY <1>1, CountedUp DEF InOrder

-----------------------------------------------------------------------------

(* Where a paragraph of the outline lies in the document.                   *)
LiesAt(d, p, e) ==
    /\ e \in 1 .. Len(d) /\ d[e].c = "nl" /\ p.end = e + 1 /\ p.start \in 1 .. e
    /\ \A j \in p.start .. e - 1 : d[j].c \notin Structure \cup {"nl"}
    /\ p.text = Chars(SubSeq(d, p.start, e - 1))

LEMMA ParagraphLies ==
    ASSUME NEW d \in Whole, NEW n, Numbered(Outline(d), n)
    PROVE  \E e : LiesAt(d, Outline(d).paragraphs[n], e)
<1>. DEFINE T == Places(d, {"nl"})
            ends == InOrder(T)
<1>1. T \in SUBSET (1 .. Len(d)) /\ Len(d) \in Nat
  BY WholeHas DEF Places
<1>2. n \in DOMAIN ends /\ Outline(d).paragraphs[n] = ParagraphAt(d, ends[n])
  <2>. HIDE DEF T
  <2>1. DOMAIN Outline(d).paragraphs = DOMAIN ends /\ (n \in DOMAIN ends => Outline(d).paragraphs[n] = ParagraphAt(d, ends[n]))
    BY DEF Outline, T
  <2>. QED  BY <2>1 DEF Numbered
<1>3. PICK i \in T : i = ends[n]
  <2>. HIDE DEF T
  <2>. QED  BY <1>1, <1>2, OrderIsOfThem
<1>4. i \in 1 .. Len(d) /\ d[i].c = "nl" /\ "nl" \notin Structure
  BY <1>3 DEF Places, Structure
<1>. DEFINE B == {j \in 1 .. i - 1 : d[j].c \in Structure \cup {"nl"}}
            start == ParagraphStart(d, i)
<1>5. Greatest({0} \cup B) \in {0} \cup B /\ \A y \in {0} \cup B : Greatest({0} \cup B) >= y
  <2>1. {0} \cup B \in SUBSET (0 .. i) /\ i \in Nat
    BY <1>4
  <2>. HIDE DEF B
  <2>. QED  BY <2>1, GreatestIsMost
<1>6. start \in 1 .. i /\ \A j \in start .. i - 1 : j \notin B
  <2>1. PICK g \in {0} \cup B : g = Greatest({0} \cup B)
    BY <1>5
  <2>2. g \in 0 .. i - 1 /\ \A y \in B : g >= y
    BY <1>4, <1>5, <2>1
  <2>3. start = g + 1
    BY <2>1, <2>2 DEF ParagraphStart
  <2>. HIDE DEF start, B
  <2>. QED  BY <1>4, <2>2, <2>3
<1>7. Outline(d).paragraphs[n] = ParagraphAt(d, i)
  BY <1>2, <1>3
<1>8. /\ ParagraphAt(d, i).start = start /\ ParagraphAt(d, i).end = i + 1
      /\ ParagraphAt(d, i).text = Chars(SubSeq(d, start, i - 1))
  BY DEF ParagraphAt
<1>9. \A j \in start .. i - 1 : d[j].c \notin Structure \cup {"nl"}
  <2>1. ASSUME NEW j \in start .. i - 1 PROVE j \in 1 .. i - 1
    <3>. HIDE DEF start
    <3>. QED  BY <1>4, <1>6
  <2>. HIDE DEF start
  <2>. QED  BY <1>6, <2>1
<1>. HIDE DEF start
<1>. QED  BY <1>4, <1>6, <1>7, <1>8, <1>9 DEF LiesAt

(* A paragraph of the outline: it begins where no table, cell or break opens,  *)
(* and ends in its newline.                                                 *)
LEMMA ParagraphsOfBody ==
    ASSUME NEW d \in Whole, NEW n, Numbered(Outline(d), n)
    PROVE  \E i \in 1 .. Len(d) :
              /\ d[i].c = "nl" /\ Outline(d).paragraphs[n].end = i + 1
              /\ Outline(d).paragraphs[n].start \in 1 .. i
              /\ d[Outline(d).paragraphs[n].start].c \notin Structure
<1>1. PICK p, e : p = Outline(d).paragraphs[n] /\ LiesAt(d, p, e)
  BY ParagraphLies
<1>2. e \in 1 .. Len(d) /\ d[e].c = "nl" /\ "nl" \notin Structure
  BY <1>1 DEF LiesAt, Structure
<1>3. d[p.start].c \notin Structure
  <2>1. CASE p.start = e
    BY <1>2, <2>1
  <2>2. CASE p.start # e
    <3>1. p.start \in p.start .. e - 1
      BY <1>1, <2>2 DEF LiesAt
    <3>. QED  BY <1>1, <3>1 DEF LiesAt
  <2>. QED  BY <2>1, <2>2
<1>. QED  BY <1>1, <1>2, <1>3 DEF LiesAt

(* How many of the numbers up to k are in a set: the units of pairs, and the  *)
(* characters among the units of a paragraph, are counted that way.          *)
Counted(T, k) == Cardinality({j \in 1 .. k : j \in T})

LEMMA CountSteps ==
    ASSUME NEW T, NEW k \in Nat
    PROVE  /\ Counted(T, k) \in Nat /\ Counted(T, 0) = 0
           /\ Counted(T, k + 1) = Counted(T, k) + (IF k + 1 \in T THEN 1 ELSE 0)
<1>. DEFINE P(m) == {j \in 1 .. m : j \in T}
<1>1. IsFiniteSet(P(k)) /\ Cardinality(P(k)) \in Nat
  <2>1. IsFiniteSet(1 .. k)
    BY FS_Interval
  <2>2. P(k) \subseteq 1 .. k
    OBVIOUS
  <2>. HIDE DEF P
  <2>. QED  BY <2>1, <2>2, FS_Subset, FS_CardinalityType
<1>2. P(0) = {}
  OBVIOUS
<1>3. P(k + 1) = IF k + 1 \in T THEN P(k) \cup {k + 1} ELSE P(k)
  <2>1. \A j : j \in 1 .. k + 1 <=> j \in 1 .. k \/ j = k + 1
    OBVIOUS
  <2>. QED  BY <2>1
<1>4. k + 1 \notin P(k)
  OBVIOUS
<1>5. Counted(T, k) = Cardinality(P(k)) /\ Counted(T, 0) = Cardinality(P(0)) /\ Counted(T, k + 1) = Cardinality(P(k + 1))
  BY DEF Counted
<1>. HIDE DEF P
<1>6. CASE k + 1 \in T
  <2>1. Cardinality(P(k) \cup {k + 1}) = Cardinality(P(k)) + 1
    BY <1>1, <1>4, FS_AddElement
  <2>. QED  BY <1>1, <1>2, <1>3, <1>5, <1>6, <2>1, FS_EmptySet
<1>7. CASE k + 1 \notin T
  BY <1>1, <1>2, <1>3, <1>5, <1>7, FS_EmptySet
<1>. QED  BY <1>6, <1>7

LEMMA CountGrows ==
    ASSUME NEW T, NEW a \in Nat, NEW b \in Nat, a <= b
    PROVE  Counted(T, a) <= Counted(T, b) /\ Counted(T, a) \in Nat /\ Counted(T, b) \in Nat
<1>. DEFINE A == {j \in 1 .. a : j \in T}
            B == {j \in 1 .. b : j \in T}
<1>1. IsFiniteSet(1 .. b)
  BY FS_Interval
<1>2. B \subseteq 1 .. b /\ A \subseteq B
  OBVIOUS
<1>3. Cardinality(A) <= Cardinality(B)
  <2>. HIDE DEF A, B
  <2>1. IsFiniteSet(B)
    BY <1>1, <1>2, FS_Subset
  <2>. QED  BY <1>2, <2>1, FS_Subset
<1>. QED  BY <1>3, CountSteps DEF Counted

(* Sequences put end to end are as long as they are together.                *)
LEMMA FlatLength ==
    ASSUME NEW S, NEW seqs \in Seq(Seq(S)), NEW n \in Nat, n = Len(seqs), NEW f,
           f[0] = 0, \A i \in 0 .. n : f[i] \in Nat, \A i \in 1 .. n : f[i] = f[i - 1] + Len(seqs[i])
    PROVE  Len(FlattenSeq(seqs)) = f[n]
<1>1. CASE n = 0
  <2>1. FlattenSeq(seqs) = seqs
    BY <1>1, Zenon DEF FlattenSeq
  <2>. QED  BY <1>1, <2>1
<1>2. CASE n # 0
  <2>. DEFINE Q == [i \in 1 .. n |-> {x \in Seq(S) : Len(x) = f[i]}]
  <2>1. \A i \in 1 .. n : seqs[i] \in Seq(S)
    OBVIOUS
  <2>2. seqs[1] \in Q[1]
    <3>1. 1 \in 1 .. n /\ 1 - 1 = 0
      BY <1>2
    <3>2. PICK w : w = seqs[1]
      OBVIOUS
    <3>3. w \in Seq(S) /\ Len(w) \in Nat
      BY <2>1, <3>1, <3>2
    <3>4. f[1] = Len(w)
      BY <3>1, <3>2, <3>3
    <3>. QED  BY <3>1, <3>2, <3>3, <3>4
  <2>3. \A i \in 2 .. n : \A x \in Seq(S) \cap Q[i - 1] : x \o seqs[i] \in Q[i]
    <3>. SUFFICES ASSUME NEW i \in 2 .. n, NEW x \in Seq(S) \cap Q[i - 1] PROVE x \o seqs[i] \in Q[i]
      OBVIOUS
    <3>1. i \in 1 .. n /\ i - 1 \in 1 .. n
      OBVIOUS
    <3>2. x \in Seq(S) /\ Len(x) = f[i - 1]
      BY <3>1
    <3>3. f[i] = f[i - 1] + Len(seqs[i]) /\ seqs[i] \in Seq(S)
      BY <2>1, <3>1
    <3>4. \A y, z \in Seq(S) : y \o z \in Seq(S) /\ Len(y \o z) = Len(y) + Len(z)
      OBVIOUS
    <3>5. x \o seqs[i] \in Seq(S) /\ Len(x \o seqs[i]) = f[i]
      BY <3>2, <3>3, <3>4
    <3>. QED  BY <3>1, <3>5
  <2>4. FlattenSeq(seqs) \in Seq(S) \cap Q[n]
    <3>. HIDE DEF Q
    <3>. QED  BY <1>2, <2>2, <2>3, FlatClimbs
  <2>5. n \in 1 .. n
    BY <1>2
  <2>. QED  BY <2>4, <2>5
<1>. QED  BY <1>1, <1>2

(* How many units a text takes, and its first characters.                    *)
Pairs(text, k) == Cardinality({j \in 1 .. k : text[j] = "W"})

LEMMA PairsCount ==
    ASSUME NEW text, NEW k \in Nat
    PROVE  /\ Pairs(text, k) \in Nat /\ Pairs(text, 0) = 0
           /\ Pairs(text, k + 1) = Pairs(text, k) + (IF text[k + 1] = "W" THEN 1 ELSE 0)
<1>. DEFINE T == {j \in Nat : text[j] = "W"}
<1>1. \A m \in Nat : Pairs(text, m) = Counted(T, m)
  <2>. SUFFICES ASSUME NEW m \in Nat PROVE Pairs(text, m) = Counted(T, m)
    OBVIOUS
  <2>1. {j \in 1 .. m : text[j] = "W"} = {j \in 1 .. m : j \in T}
    OBVIOUS
  <2>. HIDE DEF T
  <2>. QED  BY <2>1 DEF Pairs, Counted
<1>2. k + 1 \in Nat /\ (k + 1 \in T <=> text[k + 1] = "W")
  OBVIOUS
<1>. HIDE DEF T
<1>. QED  BY <1>1, <1>2, CountSteps

LEMMA PairsGrow ==
    ASSUME NEW text, NEW a \in Nat, NEW b \in Nat, a <= b
    PROVE  Pairs(text, a) <= Pairs(text, b) /\ Pairs(text, a) \in Nat /\ Pairs(text, b) \in Nat
<1>. DEFINE T == {j \in Nat : text[j] = "W"}
<1>1. \A m \in Nat : Pairs(text, m) = Counted(T, m)
  <2>. SUFFICES ASSUME NEW m \in Nat PROVE Pairs(text, m) = Counted(T, m)
    OBVIOUS
  <2>1. {j \in 1 .. m : text[j] = "W"} = {j \in 1 .. m : j \in T}
    OBVIOUS
  <2>. HIDE DEF T
  <2>. QED  BY <2>1 DEF Pairs, Counted
<1>. HIDE DEF T
<1>. QED  BY <1>1, CountGrows

(* index::from_chars is the length of the first characters, and grows.       *)
LEMMA FromCharsIs ==
    ASSUME NEW text \in Text, NEW k \in 0 .. Len(text)
    PROVE  /\ FromChars(text, k) = k + Pairs(text, k)
           /\ ULen(text) = Len(text) + Pairs(text, Len(text))
<1>1. text \in Seq(Strings) /\ Len(text) \in Nat
  BY DEF Text
<1>. DEFINE s == SubSeq(text, 1, k)
<1>2. Len(s) = k /\ \A j \in 1 .. k : s[j] = text[j]
  BY <1>1
<1>3. {j \in 1 .. k : s[j] = "W"} = {j \in 1 .. k : text[j] = "W"}
  BY <1>2
<1>4. ULen(s) = k + Pairs(text, k)
  <2>. HIDE DEF s
  <2>. QED  BY <1>2, <1>3 DEF ULen, Pairs
<1>. QED  BY <1>4 DEF FromChars, ULen, Pairs

LEMMA FromCharsGrows ==
    ASSUME NEW text \in Text, NEW a \in Nat, NEW b \in Nat, a < b, b <= Len(text)
    PROVE  /\ FromChars(text, a) \in Nat /\ FromChars(text, b) \in Nat /\ ULen(text) \in Nat
           /\ FromChars(text, a) < FromChars(text, b) /\ FromChars(text, b) <= ULen(text)
<1>1. Len(text) \in Nat /\ a \in 0 .. Len(text) /\ b \in 0 .. Len(text)
  BY DEF Text
<1>. QED  BY <1>1, FromCharsIs, PairsGrow

LEMMA ULenIsMore ==
    ASSUME NEW text \in Text
    PROVE  ULen(text) \in Nat /\ ULen(text) >= Len(text) /\ (text # <<>> => ULen(text) >= 1)
<1>1. Len(text) \in Nat /\ (text # <<>> => Len(text) >= 1)
  BY EmptySeq DEF Text
<1>2. Pairs(text, Len(text)) \in Nat /\ ULen(text) = Len(text) + Pairs(text, Len(text))
  BY <1>1, FromCharsIs, PairsCount
<1>. QED  BY <1>1, <1>2

(* A newline in front or behind takes one more.                             *)
LEMMA ULenOfLines ==
    ASSUME NEW text \in Text
    PROVE  ULen(text \o <<"nl">>) = ULen(text) + 1 /\ ULen(<<"nl">> \o text) = ULen(text) + 1
<1>1. PICK n \in Nat : n = Len(text)
  BY DEF Text
<1>. DEFINE behind == text \o <<"nl">>
            front == <<"nl">> \o text
            P == {j \in 1 .. n : text[j] = "W"}
            F == {j \in 1 .. n + 1 : front[j] = "W"}
<1>2. /\ Len(behind) = n + 1 /\ \A j \in 1 .. n + 1 : behind[j] = IF j <= n THEN text[j] ELSE "nl"
      /\ Len(front) = n + 1 /\ \A j \in 1 .. n + 1 : front[j] = IF j = 1 THEN "nl" ELSE text[j - 1]
  BY <1>1 DEF Text
<1>3. {j \in 1 .. n + 1 : behind[j] = "W"} = P
  <2>. HIDE DEF behind
  <2>. QED  BY <1>2
<1>4. Cardinality(F) = Cardinality(P)
  <2>. DEFINE g == [j \in P |-> j + 1]
  <2>1. IsFiniteSet(P)
    <3>1. IsFiniteSet(1 .. n) /\ P \subseteq 1 .. n
      BY FS_Interval
    <3>. HIDE DEF P
    <3>. QED  BY <3>1, FS_Subset
  <2>2. \A j \in F : j # 1 /\ j - 1 \in P
    <3>. HIDE DEF front
    <3>. QED  BY <1>2
  <2>3. \A j \in P : j + 1 \in F
    <3>. SUFFICES ASSUME NEW j \in P PROVE j + 1 \in F
      OBVIOUS
    <3>1. j + 1 \in 1 .. n + 1 /\ j + 1 # 1 /\ (j + 1) - 1 = j
      OBVIOUS
    <3>. HIDE DEF front
    <3>. QED  BY <1>2, <3>1
  <2>4. P \subseteq Int /\ F \subseteq Int
    OBVIOUS
  <2>5. g \in Bijection(P, F)
    <3>. HIDE DEF P, F
    <3>1. g \in [P -> F]
      BY <2>3
    <3>2. IsInjective(g)
      BY <2>4 DEF IsInjective
    <3>3. \A j \in F : \E i \in P : g[i] = j
      BY <2>2, <2>4
    <3>. QED  BY <3>1, <3>2, <3>3 DEF Bijection, Injection, Surjection
  <2>. HIDE DEF P, F, g
  <2>. QED  BY <2>1, <2>5, FS_Bijection DEF ExistsBijection
<1>5. Cardinality(P) \in Nat
  BY <1>1, PairsCount DEF Pairs
<1>6. ULen(text) = n + Cardinality(P)
  BY <1>1 DEF ULen
<1>7. ULen(behind) = (n + 1) + Cardinality(P)
  <2>. HIDE DEF behind
  <2>. QED  BY <1>2, <1>3 DEF ULen
<1>8. ULen(front) = (n + 1) + Cardinality(P)
  <2>. HIDE DEF P, front
  <2>. QED  BY <1>2, <1>4 DEF ULen
<1>. QED  BY <1>5, <1>6, <1>7, <1>8

(* The units of a text are as many as its length says.                       *)
LEMMA UnitsAreCounted ==
    ASSUME NEW text \in Text
    PROVE  Len(Units(text)) = ULen(text)
<1>. DEFINE n == Len(text)
            taken(k) == IF text[k] = "W" THEN <<Unit("W", {}), Unit("w", {})>> ELSE <<Unit(text[k], {})>>
            seqs == [k \in 1 .. n |-> taken(k)]
            f == [k \in 0 .. n |-> k + Pairs(text, k)]
<1>1. n \in Nat /\ \A k \in 1 .. n : text[k] \in Strings
  BY DEF Text
<1>2. \A k \in 1 .. n : taken(k) \in Seq(AnyUnit) /\ Len(taken(k)) = IF text[k] = "W" THEN 2 ELSE 1
  <2>1. \A c \in Strings : Unit(c, {}) \in AnyUnit
    BY DEF Unit, AnyUnit, Strings, Structure
  <2>2. "W" \in Strings /\ "w" \in Strings
    BY DEF Strings
  <2>. QED  BY <1>1, <2>1, <2>2
<1>. HIDE DEF taken
<1>3. seqs \in Seq(Seq(AnyUnit)) /\ Len(seqs) = n /\ \A k \in 1 .. n : seqs[k] = taken(k)
  BY <1>1, <1>2
<1>4. Units(text) = FlattenSeq(seqs)
  BY DEF Units, taken
<1>5. f[0] = 0 /\ \A i \in 0 .. n : f[i] \in Nat
  <2>1. 0 \in 0 .. n /\ \A i \in 0 .. n : i \in Nat /\ f[i] = i + Pairs(text, i)
    BY <1>1
  <2>2. Pairs(text, 0) = 0 /\ \A i \in Nat : Pairs(text, i) \in Nat
    <3>1. 0 \in Nat
      OBVIOUS
    <3>. QED  BY <3>1, PairsCount
  <2>. HIDE DEF f, n
  <2>. QED  BY <2>1, <2>2
<1>6. ASSUME NEW i \in 1 .. n PROVE f[i] = f[i - 1] + Len(seqs[i])
  <2>1. PICK k \in Nat : k + 1 = i /\ k = i - 1 /\ k \in 0 .. n /\ i \in 0 .. n
    <3>1. i - 1 \in Nat /\ (i - 1) + 1 = i /\ i - 1 \in 0 .. n /\ i \in 0 .. n
      BY <1>1
    <3>. QED  BY <3>1
  <2>2. Pairs(text, i) = Pairs(text, k) + (IF text[i] = "W" THEN 1 ELSE 0) /\ Pairs(text, k) \in Nat
    BY <2>1, PairsCount
  <2>3. Len(seqs[i]) = IF text[i] = "W" THEN 2 ELSE 1
    <3>. HIDE DEF seqs
    <3>. QED  BY <1>2, <1>3
  <2>. HIDE DEF seqs
  <2>. QED  BY <2>1, <2>2, <2>3
<1>. HIDE DEF seqs, f
<1>7. Len(FlattenSeq(seqs)) = f[n]
  <2>1. PICK m \in Nat : m = n
    BY <1>1
  <2>. HIDE DEF n
  <2>. QED  BY <1>3, <1>5, <1>6, <2>1, FlatLength
<1>8. f[n] = n + Pairs(text, n)
  BY <1>1 DEF f
<1>9. ULen(text) = n + Pairs(text, n)
  BY <1>1, FromCharsIs
<1>. QED  BY <1>4, <1>7, <1>8, <1>9

(* As many units are typed as the text takes. *)
LEMMA TypedIsCounted ==
    ASSUME NEW d, NEW at, NEW text \in Text
    PROVE  Len(Typed(d, at, text)) = ULen(text)
<1>. DEFINE u == Units(text)
            close == d[Least({j \in at .. Len(d) : d[j].c = "nl"})]
<1>1. u \in Seq(AnyUnit) /\ Len(u) = ULen(text)
  BY UnitsAreUnits, UnitsAreCounted
<1>2. PICK n \in Nat : n = Len(u) /\ DOMAIN u = 1 .. n
  <2>. HIDE DEF u
  <2>. QED  BY <1>1
<1>3. Len([k \in 1 .. n |-> IF u[k].c = "nl" THEN close ELSE u[k]]) = n
  <2>. HIDE DEF u, close
  <2>. QED  OBVIOUS
<1>. QED  BY <1>1, <1>2, <1>3 DEF Typed

(* What Docs takes of an insert and of a style.                             *)
LEMMA InsertTaken ==
    ASSUME NEW d \in Whole, NEW at \in 1 .. Len(d), d[at].c \notin Structure, NEW text \in Text, text # <<>>
    PROVE  /\ Accepts(d, InsertText(at, text))
           /\ Served(d, InsertText(at, text)) = Put(d, at, Typed(d, at, text))
           /\ Len(Put(d, at, Typed(d, at, text))) = Len(d) + ULen(text)
<1>1. PICK q : q = InsertText(at, text)
  OBVIOUS
<1>2. q.r = "insertText" /\ q.at = at /\ q.text = text
  BY <1>1 DEF InsertText
<1>3. Accepts(d, q) /\ Served(d, q) = Put(d, at, Typed(d, at, text))
  BY <1>2 DEF Accepts, InParagraph, Served
<1>4. Len(Put(d, at, Typed(d, at, text))) = Len(d) + ULen(text)
  BY TypedIsUnits, TypedIsCounted, PutWhole
<1>. QED  BY <1>1, <1>3, <1>4

LEMMA StyleTaken ==
    ASSUME NEW d \in Whole, NEW from \in Nat, NEW to \in Nat, 1 <= from, from < to, to <= Len(d) + 1,
           NEW s \in Strings, NEW q, q = ParagraphStyle(from, to, s) \/ q = TextStyle(from, to, s)
    PROVE  Accepts(d, q) /\ Len(Served(d, q)) = Len(d)
<1>1. q.r \in {"updateParagraphStyle", "updateTextStyle"} /\ q.from = from /\ q.to = to /\ q.s = s
  BY DEF ParagraphStyle, TextStyle
<1>2. Accepts(d, q)
  BY <1>1 DEF Accepts
<1>3. Served(d, q) = Restyled(d, from, to, s, TRUE) \/ Served(d, q) = Restyled(d, from, to, s, FALSE)
  BY <1>1 DEF Served
<1>4. \A paragraphs \in BOOLEAN : Len(Restyled(d, from, to, s, paragraphs)) = Len(d)
  BY WholeHas DEF Restyled
<1>. QED  BY <1>2, <1>3, <1>4

LEMMA GreatestOfTwo ==
    ASSUME NEW i \in Nat, 1 <= i
    PROVE  Greatest({i, 1}) = i
<1>1. {i, 1} \in SUBSET (0 .. i) /\ {i, 1} # {}
  OBVIOUS
<1>. QED  BY <1>1, GreatestIsMost

(* An insert goes into a paragraph, and what it writes begins in the body.    *)
LEMMA InsertionFits ==
    ASSUME NEW d \in Whole, NEW n, Numbered(Outline(d), n), NEW where, NEW body \in Text,
           NEW i, i = Insertion(Outline(d), where, n, body)
    PROVE  /\ i.at \in 1 .. Len(d) /\ d[i.at].c \notin Structure
           /\ i.text \in Text /\ i.text # <<>> /\ ULen(i.text) = ULen(body) + 1
           /\ i.begins \in 1 .. Len(d) + 1
           /\ where = "after" => d[i.at].c = "nl" /\ i.begins = i.at + 1
<1>. DEFINE p == Outline(d).paragraphs[n]
<1>1. PICK e \in 1 .. Len(d) : /\ d[e].c = "nl" /\ p.end = e + 1
                               /\ p.start \in 1 .. e /\ d[p.start].c \notin Structure
  BY ParagraphsOfBody
<1>2. Len(d) \in Nat /\ Greatest({p.end - 1, 1}) = e
  <2>1. Greatest({e, 1}) = e
    BY GreatestOfTwo
  <2>2. p.end - 1 = e
    <3>. HIDE DEF p
    <3>. QED  BY <1>1
  <2>. QED  BY <2>1, <2>2, WholeHas
<1>3. i = IF where = "before"
          THEN [at |-> p.start, text |-> body \o <<"nl">>, begins |-> p.start]
          ELSE [at |-> e, text |-> <<"nl">> \o body, begins |-> e + 1]
  <2>. HIDE DEF p
  <2>. QED  BY <1>2 DEF Insertion, p
<1>4. /\ body \o <<"nl">> \in Text /\ <<"nl">> \o body \in Text
      /\ body \o <<"nl">> # <<>> /\ <<"nl">> \o body # <<>>
  <2>1. body \o <<"nl">> \in Text /\ <<"nl">> \o body \in Text
    BY TextsJoin
  <2>2. Len(body \o <<"nl">>) = Len(body) + 1 /\ Len(<<"nl">> \o body) = Len(body) + 1 /\ Len(body) \in Nat
    BY DEF Text
  <2>. QED  BY <2>1, <2>2
<1>5. ULen(body \o <<"nl">>) = ULen(body) + 1 /\ ULen(<<"nl">> \o body) = ULen(body) + 1
  BY ULenOfLines
<1>6. "nl" \notin Structure
  BY DEF Structure
<1>. HIDE DEF p
<1>7. CASE where = "before"
  <2>1. i.at = p.start /\ i.text = body \o <<"nl">> /\ i.begins = p.start /\ where # "after"
    BY <1>3, <1>7
  <2>. QED  BY <1>1, <1>2, <1>4, <1>5, <2>1
<1>8. CASE where # "before"
  <2>1. i.at = e /\ i.text = <<"nl">> \o body /\ i.begins = e + 1
    BY <1>3, <1>8
  <2>. QED  BY <1>1, <1>2, <1>4, <1>5, <1>6, <2>1
<1>. QED  BY <1>7, <1>8

(* Styles after the first request are taken when they name what it left.     *)
StyleFits(q, size) ==
    \E from, to \in Nat : \E s \in Strings :
        /\ 1 <= from /\ from < to /\ to <= size + 1
        /\ q = ParagraphStyle(from, to, s) \/ q = TextStyle(from, to, s)

LEMMA StyledTaken ==
    ASSUME NEW d \in Whole, NEW requests, SoundPlan(requests), NEW n \in Nat, n = Len(requests), 1 <= n,
           Accepts(d, requests[1]), NEW size \in Nat, size = Len(Served(d, requests[1])),
           \A k \in 2 .. n : StyleFits(requests[k], size)
    PROVE  Batch(d, requests) \in Whole
<1>. DEFINE Q == [k \in 0 .. n |-> IF k = 0 THEN {d} ELSE {x \in Whole : Len(x) = size}]
<1>1. d \in Q[0]
  OBVIOUS
<1>2. SoundRequest(requests[1])
  BY DEF SoundPlan
<1>3. ASSUME NEW k \in 1 .. n, NEW x \in Whole \cap Q[k - 1]
      PROVE  Accepts(x, requests[k]) /\ Served(x, requests[k]) \in Q[k]
  <2>1. Q[k] = {y \in Whole : Len(y) = size}
    OBVIOUS
  <2>2. CASE k = 1
    <3>1. x = d
      BY <2>2
    <3>2. Served(d, requests[1]) \in Whole
      BY <1>2, ServedWhole
    <3>. HIDE DEF Q
    <3>. QED  BY <2>1, <2>2, <3>1, <3>2
  <2>3. CASE k # 1
    <3>1. k \in 2 .. n /\ k - 1 \in 1 .. n
      BY <2>3
    <3>2. x \in Whole /\ Len(x) = size
      BY <3>1
    <3>. HIDE DEF Q
    <3>3. PICK from \in Nat, to \in Nat, s \in Strings :
             /\ 1 <= from /\ from < to /\ to <= size + 1
             /\ requests[k] = ParagraphStyle(from, to, s) \/ requests[k] = TextStyle(from, to, s)
      BY <3>1 DEF StyleFits
    <3>4. Accepts(x, requests[k]) /\ Len(Served(x, requests[k])) = size
      BY <3>2, <3>3, StyleTaken
    <3>5. SoundRequest(requests[k])
      BY DEF SoundPlan
    <3>6. Served(x, requests[k]) \in Whole
      BY <3>2, <3>4, <3>5, ServedWhole
    <3>. QED  BY <2>1, <3>4, <3>6
  <2>. QED  BY <2>2, <2>3
<1>. HIDE DEF Q
<1>. QED  BY <1>1, <1>3, BatchTaken

(* A plan of one request, and of two of which the second follows the first.  *)
LEMMA OneTaken ==
    ASSUME NEW d \in Whole, NEW q, SoundRequest(q), Accepts(d, q)
    PROVE  Batch(d, <<q>>) \in Whole
<1>. DEFINE requests == <<q>>
<1>1. SoundPlan(requests)
  BY SoundOne
<1>2. Len(requests) = 1 /\ requests[1] = q
  OBVIOUS
<1>3. Served(d, q) \in Whole
  BY ServedWhole
<1>4. Len(Served(d, q)) \in Nat
  BY <1>3, WholeHas
<1>. HIDE DEF requests
<1>5. Batch(d, requests) \in Whole
  BY <1>1, <1>2, <1>4, StyledTaken
<1>. QED  BY <1>5 DEF requests

LEMMA TwoTaken ==
    ASSUME NEW d \in Whole, NEW q, SoundRequest(q), Accepts(d, q),
           NEW r, SoundRequest(r), Accepts(Served(d, q), r)
    PROVE  Batch(d, <<q, r>>) \in Whole
<1>. DEFINE requests == <<q, r>>
            Q == [k \in 0 .. 2 |-> CASE k = 0 -> {d} [] k = 1 -> {Served(d, q)} [] k = 2 -> Whole]
<1>1. SoundPlan(requests)
  BY SoundTwo
<1>2. Len(requests) = 2 /\ requests[1] = q /\ requests[2] = r
  OBVIOUS
<1>3. Served(d, q) \in Whole
  BY ServedWhole
<1>4. Served(Served(d, q), r) \in Whole
  BY <1>3, ServedWhole
<1>5. Q[0] = {d} /\ Q[1] = {Served(d, q)} /\ Q[2] = Whole
  OBVIOUS
<1>. HIDE DEF requests, Q
<1>6. ASSUME NEW k \in 1 .. 2, NEW x \in Whole \cap Q[k - 1]
      PROVE  Accepts(x, requests[k]) /\ Served(x, requests[k]) \in Q[k]
  <2>1. CASE k = 1
    BY <1>2, <1>5, <2>1
  <2>2. CASE k = 2
    BY <1>2, <1>4, <1>5, <2>2
  <2>. QED  BY <2>1, <2>2
<1>7. Batch(d, requests) \in Whole
  BY <1>1, <1>2, <1>5, <1>6, BatchTaken
<1>. QED  BY <1>7 DEF requests

-----------------------------------------------------------------------------

LEMMA Ends ==
    ASSUME NEW u, NEW v
    PROVE  /\ <<u>> \o <<>> = <<u>>
           /\ Len(<<u>> \o <<v>>) = 2 /\ (<<u>> \o <<v>>)[1] = u /\ (<<u>> \o <<v>>)[2] = v
<1>. DEFINE S == {u, v}
<1>1. <<u>> \in Seq(S) /\ <<v>> \in Seq(S) /\ <<>> \in Seq(S)
  OBVIOUS
<1>2. <<u>> \o <<>> = <<u>>
  BY <1>1
<1>3. Len(<<u>>) = 1 /\ Len(<<v>>) = 1 /\ <<u>>[1] = u /\ <<v>>[1] = v
  OBVIOUS
<1>4. \A y, z \in Seq(S) :
        /\ Len(y \o z) = Len(y) + Len(z)
        /\ \A k \in 1 .. Len(y) + Len(z) : (y \o z)[k] = IF k <= Len(y) THEN y[k] ELSE z[k - Len(y)]
  OBVIOUS
<1>. QED  BY <1>1, <1>2, <1>3, <1>4

(* The plans, tool by tool.                                                 *)
LEMMA InsertPlanTaken ==
    ASSUME NEW d \in Whole, NEW x \in AnyOp, x.kind = "insert", Takes(Outline(d), x)
    PROVE  Batch(d, Planned(d, Outline(d), x)) \in Whole
<1>. DEFINE o == Outline(d)
            body == StripNewline(x.text)
            i == Insertion(o, x.where, x.n, body)
            trailing == IF body = <<>> \/ Last(body) = "nl" THEN 1 ELSE 0
            from == i.begins
            to == i.begins + ULen(body) + trailing
            a == InsertText(i.at, i.text)
            b == ParagraphStyle(from, to, x.style)
            p == Planned(d, o, x)
<1>1. body \in Text /\ (x.style # None => x.style \in Strings)
  BY OpFields, StrippedIsText DEF Maybe
<1>2. Numbered(o, x.n)
  BY DEF Takes, TakesInsert, Named
<1>3. /\ i.at \in 1 .. Len(d) /\ d[i.at].c \notin Structure
      /\ i.text \in Text /\ i.text # <<>> /\ ULen(i.text) = ULen(body) + 1 /\ i.begins \in 1 .. Len(d) + 1
  <2>. HIDE DEF i, body, o
  <2>. QED  BY <1>1, <1>2, InsertionFits DEF i, o
<1>4. /\ x.style = None => p = <<a>>
      /\ x.style # None => Len(p) = 2 /\ p[1] = a /\ p[2] = b
  <2>1. p = <<a>> \o (IF x.style = None THEN <<>> ELSE <<b>>)
    BY DEF Planned, PlanInsert
  <2>. HIDE DEF a, b, p
  <2>2. CASE x.style = None
    <3>1. p = <<a>> \o <<>>
      BY <2>1, <2>2
    <3>. QED  BY <2>2, <3>1, Ends
  <2>3. CASE x.style # None
    <3>1. p = <<a>> \o <<b>>
      BY <2>1, <2>3
    <3>. QED  BY <2>3, <3>1, Ends
  <2>. QED  BY <2>2, <2>3
<1>5. SoundPlan(p)
  BY PlannedSound
<1>6. Accepts(d, a) /\ Len(Served(d, a)) = Len(d) + ULen(body) + 1 /\ Len(d) \in Nat /\ ULen(body) \in Nat
  <2>1. ULen(body) \in Nat
    <3>. HIDE DEF body
    <3>. QED  BY <1>1, ULenIsMore
  <2>. HIDE DEF i, body
  <2>2. Len(d) \in Nat
    BY WholeHas
  <2>. QED  BY <1>3, <2>1, <2>2, InsertTaken
<1>7. trailing \in {0, 1} /\ (trailing = 0 => ULen(body) >= 1)
  <2>. HIDE DEF body
  <2>. QED  BY <1>1, ULenIsMore
<1>. HIDE DEF trailing, body, i, a
<1>8. from \in Nat /\ to \in Nat /\ 1 <= from /\ from < to /\ to <= Len(d) + ULen(body) + 1 + 1
  BY <1>3, <1>6, <1>7
<1>. HIDE DEF from, to, p, o
<1>9. CASE x.style = None
  <2>1. SoundRequest(a)
    BY <1>3, SoundRequests DEF a
  <2>. QED  BY <1>4, <1>6, <1>9, <2>1, OneTaken DEF p, o
<1>10. CASE x.style # None
  <2>1. StyleFits(b, Len(d) + ULen(body) + 1)
    BY <1>1, <1>8, <1>10 DEF StyleFits
  <2>. HIDE DEF b
  <2>3. Len(p) = 2 /\ p[1] = a /\ p[2] = b
    BY <1>4, <1>10
  <2>4. \A k \in 2 .. 2 : StyleFits(p[k], Len(d) + ULen(body) + 1)
    BY <2>1, <2>3
  <2>. DEFINE size == Len(d) + ULen(body) + 1
  <2>5. size \in Nat /\ size = Len(Served(d, p[1])) /\ Accepts(d, p[1]) /\ \A k \in 2 .. 2 : StyleFits(p[k], size)
    BY <1>6, <2>3, <2>4
  <2>. HIDE DEF size
  <2>6. Batch(d, p) \in Whole
    <3>1. PICK n \in Nat : n = 2 /\ n = Len(p) /\ 1 <= n
      BY <2>3
    <3>2. \A k \in 2 .. n : StyleFits(p[k], size)
      BY <2>5, <3>1
    <3>. QED  BY <1>5, <2>5, <3>1, <3>2, StyledTaken
  <2>. QED  BY <2>6 DEF p, o
<1>. QED  BY <1>9, <1>10

LEMMA StylePlanTaken ==
    ASSUME NEW d \in Whole, NEW x \in AnyOp, x.kind = "style", Takes(Outline(d), x)
    PROVE  Batch(d, Planned(d, Outline(d), x)) \in Whole
<1>. DEFINE o == Outline(d)
            p == o.paragraphs[x.n]
            from == StyleRange(o, x.n).from
            to == StyleRange(o, x.n).to
            a == ParagraphStyle(from, to, x.style)
<1>1. x.style \in Strings
  BY OpFields
<1>2. Numbered(o, x.n)
  BY DEF Takes, TakesStyle
<1>3. PICK e \in 1 .. Len(d) : p.end = e + 1 /\ p.start \in 1 .. e
  <2>. HIDE DEF p
  <2>. QED  BY <1>2, ParagraphsOfBody DEF p
<1>4. PICK first \in 1 .. e : first = p.start
  BY <1>3
<1>5. Len(d) \in Nat /\ o.end = Len(d) + 1
  BY WholeHas DEF Outline
<1>6. from = first /\ to = IF e >= Len(d) THEN Greatest({Len(d), first + 1}) ELSE e + 1
  <2>1. from = p.start /\ to = IF p.end >= o.end THEN Greatest({o.end - 1, p.start + 1}) ELSE p.end
    BY DEF StyleRange
  <2>. HIDE DEF from, to, p, o
  <2>2. e \in Nat /\ (p.end >= o.end <=> e >= Len(d)) /\ o.end - 1 = Len(d)
    BY <1>3, <1>5
  <2>. QED  BY <1>3, <1>4, <2>1, <2>2
<1>7. /\ Greatest({Len(d), first + 1}) \in {Len(d), first + 1}
      /\ Greatest({Len(d), first + 1}) >= first + 1
  <2>1. {Len(d), first + 1} \in SUBSET (0 .. Len(d) + 1) /\ Len(d) + 1 \in Nat
    BY <1>5
  <2>. QED  BY <2>1, GreatestIsMost
<1>. HIDE DEF from, to, p, o
<1>8. from \in Nat /\ to \in Nat /\ 1 <= from /\ from < to /\ to <= Len(d) + 1
  BY <1>5, <1>6, <1>7
<1>9. Accepts(d, a)
  BY <1>1, <1>8, StyleTaken
<1>10. SoundRequest(a)
  BY <1>1, SoundRequests
<1>11. Planned(d, o, x) = <<a>>
  BY DEF Planned, PlanStyle, from, to
<1>. HIDE DEF a
<1>. QED  BY <1>9, <1>10, <1>11, OneTaken DEF o

-----------------------------------------------------------------------------

(* A sequence behind two requests.                                          *)
LEMMA AfterTwo ==
    ASSUME NEW u, NEW v, NEW m \in Nat, NEW z, z = [k \in 1 .. m |-> z[k]], NEW p, p = <<u, v>> \o z
    PROVE  Len(p) = m + 2 /\ p[1] = u /\ p[2] = v /\ \A k \in 3 .. m + 2 : p[k] = z[k - 2]
<1>. DEFINE S == {u, v} \cup {z[k] : k \in 1 .. m}
<1>1. <<u, v>> \in Seq(S) /\ Len(<<u, v>>) = 2 /\ <<u, v>>[1] = u /\ <<u, v>>[2] = v
  OBVIOUS
<1>2. z \in Seq(S) /\ Len(z) = m
  <2>1. \A k \in 1 .. m : z[k] \in S
    OBVIOUS
  <2>. HIDE DEF S
  <2>. QED  BY <2>1
<1>. HIDE DEF S
<1>3. \A y, w \in Seq(S) :
        /\ Len(y \o w) = Len(y) + Len(w)
        /\ \A k \in 1 .. Len(y) + Len(w) : (y \o w)[k] = IF k <= Len(y) THEN y[k] ELSE w[k - Len(y)]
  OBVIOUS
<1>4. PICK y \in Seq(S) : y = <<u, v>> /\ Len(y) = 2 /\ y[1] = u /\ y[2] = v
  BY <1>1
<1>5. Len(p) = 2 + m /\ \A k \in 1 .. 2 + m : p[k] = IF k <= 2 THEN y[k] ELSE z[k - 2]
  BY <1>2, <1>3, <1>4
<1>. QED  BY <1>4, <1>5

LEMMA CodePlanTaken ==
    ASSUME NEW d \in Whole, NEW x \in AnyOp, x.kind = "code", Takes(Outline(d), x)
    PROVE  Batch(d, Planned(d, Outline(d), x)) \in Whole
<1>. DEFINE o == Outline(d)
            body == Listing(x.code)
            i == Insertion(o, "after", x.n, body)
            a == InsertText(i.at, i.text)
            b == TextStyle(i.begins, i.begins + ULen(body), "font")
            span(k) == TextStyle(i.begins + FromChars(body, x.spans[k].start),
                                 i.begins + FromChars(body, x.spans[k].end), "colour")
            spans == [k \in DOMAIN x.spans |-> span(k)]
            p == Planned(d, o, x)
            size == Len(d) + ULen(body) + 1
<1>1. body \in Text /\ x.spans \in Seq([start : Nat, end : Nat]) /\ body # <<>>
  BY OpFields, ListingIsText DEF Takes, TakesCode
<1>2. Numbered(o, x.n) /\ \A k \in DOMAIN x.spans : x.spans[k].start < x.spans[k].end /\ x.spans[k].end <= Len(body)
  BY DEF Takes, TakesCode, Named, SpansFit
<1>3. /\ i.at \in 1 .. Len(d) /\ d[i.at].c \notin Structure
      /\ i.text \in Text /\ i.text # <<>> /\ ULen(i.text) = ULen(body) + 1 /\ i.begins \in 1 .. Len(d) + 1
  <2>. HIDE DEF i, body, o
  <2>. QED  BY <1>1, <1>2, InsertionFits DEF i, o
<1>4. PICK m \in Nat : DOMAIN x.spans = 1 .. m
  BY <1>1
<1>5. SoundPlan(p)
  BY PlannedSound
<1>6. p = <<a, b>> \o spans
  BY DEF Planned, PlanCode
<1>7. ULen(body) \in Nat /\ ULen(body) >= 1 /\ Len(d) \in Nat
  <2>. HIDE DEF body
  <2>. QED  BY <1>1, ULenIsMore, WholeHas
<1>8. Accepts(d, a) /\ Len(Served(d, a)) = size
  <2>. HIDE DEF i, body
  <2>. QED  BY <1>3, <1>7, InsertTaken
<1>9. "font" \in Strings /\ "colour" \in Strings
  BY DEF Strings
<1>10. StyleFits(b, size)
  <2>. DEFINE from == i.begins
              to == i.begins + ULen(body)
  <2>1. from \in Nat /\ to \in Nat /\ 1 <= from /\ from < to /\ to <= size + 1
    <3>. HIDE DEF i, body
    <3>. QED  BY <1>3, <1>7
  <2>2. b = TextStyle(from, to, "font")
    OBVIOUS
  <2>. HIDE DEF from, to, b, size
  <2>. QED  BY <1>9, <2>1, <2>2 DEF StyleFits
<1>11. ASSUME NEW k \in 1 .. m PROVE StyleFits(span(k), size)
  <2>. DEFINE from == i.begins + FromChars(body, x.spans[k].start)
              to == i.begins + FromChars(body, x.spans[k].end)
  <2>1. PICK s \in Nat, e \in Nat : s = x.spans[k].start /\ e = x.spans[k].end /\ s < e /\ e <= Len(body)
    <3>1. x.spans[k] \in [start : Nat, end : Nat]
      <4>1. PICK z : z = x.spans
        OBVIOUS
      <4>2. \A R : \A y \in Seq(R) : \A l \in DOMAIN y : y[l] \in R
        OBVIOUS
      <4>3. z \in Seq([start : Nat, end : Nat]) /\ k \in DOMAIN z
        <5>. HIDE DEF body
        <5>. QED  BY <1>1, <1>4, <4>1
      <4>. QED  BY <4>1, <4>2, <4>3
    <3>. HIDE DEF body
    <3>. QED  BY <1>2, <1>4, <3>1
  <2>2. /\ FromChars(body, s) \in Nat /\ FromChars(body, e) \in Nat
        /\ FromChars(body, s) < FromChars(body, e) /\ FromChars(body, e) <= ULen(body)
    <3>. HIDE DEF body
    <3>. QED  BY <1>1, <2>1, FromCharsGrows
  <2>3. from \in Nat /\ to \in Nat /\ 1 <= from /\ from < to /\ to <= size + 1
    <3>. HIDE DEF i, body
    <3>1. PICK begins \in Nat, u \in Nat, l \in Nat, v \in Nat, w \in Nat :
             /\ begins = i.begins /\ u = ULen(body) /\ l = Len(d)
             /\ v = FromChars(body, s) /\ w = FromChars(body, e)
             /\ 1 <= begins /\ begins <= l + 1 /\ v < w /\ w <= u
      BY <1>3, <1>7, <2>2
    <3>2. from = begins + v /\ to = begins + w /\ size = l + u + 1
      BY <2>1, <3>1
    <3>3. /\ begins + v \in Nat /\ begins + w \in Nat /\ 1 <= begins + v /\ begins + v < begins + w
          /\ begins + w <= (l + u + 1) + 1
      BY <3>1
    <3>. HIDE DEF from, to, size
    <3>. QED  BY <3>2, <3>3
  <2>4. span(k) = TextStyle(from, to, "colour")
    OBVIOUS
  <2>. HIDE DEF from, to, span, size
  <2>. QED  BY <1>9, <2>3, <2>4 DEF StyleFits
<1>. HIDE DEF a, b, span, size
<1>12. spans = [k \in 1 .. m |-> spans[k]] /\ \A k \in 1 .. m : spans[k] = span(k)
  BY <1>4
<1>. HIDE DEF spans, p, i, body, o
<1>13. Len(p) = m + 2 /\ p[1] = a /\ p[2] = b /\ \A k \in 3 .. m + 2 : p[k] = spans[k - 2]
  BY <1>6, <1>12, AfterTwo
<1>14. \A k \in 2 .. m + 2 : StyleFits(p[k], size)
  <2>. SUFFICES ASSUME NEW k \in 2 .. m + 2 PROVE StyleFits(p[k], size)
    OBVIOUS
  <2>1. CASE k = 2
    BY <1>10, <1>13, <2>1
  <2>2. CASE k # 2
    <3>1. k \in 3 .. m + 2 /\ k - 2 \in 1 .. m
      BY <2>2
    <3>. QED  BY <1>11, <1>12, <1>13, <3>1
  <2>. QED  BY <2>1, <2>2
<1>15. size \in Nat
  BY <1>7 DEF size
<1>16. Batch(d, p) \in Whole
  <2>1. m + 2 \in Nat /\ 1 <= m + 2
    OBVIOUS
  <2>. QED  BY <1>5, <1>8, <1>13, <1>14, <1>15, <2>1, StyledTaken
<1>. QED  BY <1>16 DEF p, o

-----------------------------------------------------------------------------

(* What stood where units go in, and behind, stands behind them.             *)
LEMMA PutPushes ==
    ASSUME NEW d \in Whole, NEW at \in 1 .. Len(d), NEW u \in Seq(AnyUnit), NEW j \in at .. Len(d)
    PROVE  Put(d, at, u)[j + Len(u)] = d[j]
<1>. DEFINE a == SubSeq(d, 1, at - 1)
            b == SubSeq(d, at, Len(d))
<1>0. Len(d) \in Nat /\ d \in Seq(AnyUnit) /\ at \in Nat /\ Len(u) \in Nat
  BY WholeHas
<1>1. a \in Seq(AnyUnit) /\ Len(a) = at - 1
  BY <1>0
<1>2. b \in Seq(AnyUnit) /\ Len(b) = Len(d) - at + 1 /\ b[j - at + 1] = d[j]
  <2>1. b \in Seq(AnyUnit) /\ Len(b) = Len(d) - at + 1
    BY <1>0
  <2>2. \A k \in 1 .. Len(d) - at + 1 : b[k] = d[at + k - 1]
    BY <1>0
  <2>3. j - at + 1 \in 1 .. Len(d) - at + 1 /\ at + (j - at + 1) - 1 = j
    BY <1>0
  <2>. HIDE DEF b
  <2>4. b[j - at + 1] = d[at + (j - at + 1) - 1]
    BY <2>2, <2>3
  <2>. QED  BY <2>1, <2>3, <2>4
<1>3. \A y, w \in Seq(AnyUnit) :
        /\ y \o w \in Seq(AnyUnit) /\ Len(y \o w) = Len(y) + Len(w)
        /\ \A k \in 1 .. Len(y) + Len(w) : (y \o w)[k] = IF k <= Len(y) THEN y[k] ELSE w[k - Len(y)]
  OBVIOUS
<1>. HIDE DEF a, b
<1>4. a \o u \in Seq(AnyUnit) /\ Len(a \o u) = at - 1 + Len(u)
  BY <1>0, <1>1, <1>3
<1>5. ((a \o u) \o b)[j + Len(u)] = b[j - at + 1]
  <2>1. PICK y \in Seq(AnyUnit) : y = a \o u /\ Len(y) = at - 1 + Len(u)
    BY <1>4
  <2>2. j + Len(u) \in 1 .. Len(y) + Len(b) /\ ~(j + Len(u) <= Len(y)) /\ (j + Len(u)) - Len(y) = j - at + 1
    BY <1>0, <1>2, <2>1
  <2>3. (y \o b)[j + Len(u)] = b[(j + Len(u)) - Len(y)]
    BY <1>2, <1>3, <2>1, <2>2
  <2>. QED  BY <2>1, <2>2, <2>3
<1>6. Put(d, at, u) = (a \o u) \o b
  BY DEF Put, a, b
<1>. QED  BY <1>2, <1>5, <1>6

LEMMA ImagePlanTaken ==
    ASSUME NEW d \in Whole, NEW x \in AnyOp, x.kind = "image", Takes(Outline(d), x)
    PROVE  Batch(d, Planned(d, Outline(d), x)) \in Whole
<1>. DEFINE o == Outline(d)
            i == Insertion(o, "after", x.n, <<>>)
            a == InsertText(i.at, i.text)
            b == InsertPicture(i.begins)
            u == Typed(d, i.at, i.text)
<1>1. Numbered(o, x.n) /\ <<>> \in Text
  BY TextsJoin DEF Takes, Named
<1>2. /\ i.at \in 1 .. Len(d) /\ d[i.at].c \notin Structure
      /\ i.text \in Text /\ i.text # <<>> /\ ULen(i.text) = ULen(<<>>) + 1
      /\ d[i.at].c = "nl" /\ i.begins = i.at + 1
  <2>. HIDE DEF i, o
  <2>. QED  BY <1>1, InsertionFits DEF i, o
<1>3. ULen(<<>>) = 0
  <2>1. Len(<<>>) = 0 /\ 0 \in 0 .. Len(<<>>)
    OBVIOUS
  <2>. QED  BY <1>1, <2>1, FromCharsIs, PairsCount
<1>. HIDE DEF i
<1>4. u \in Seq(AnyUnit) /\ Len(u) = 1
  <2>1. PICK at, text : at = i.at /\ text = i.text
    OBVIOUS
  <2>2. at \in 1 .. Len(d) /\ text \in Text /\ ULen(text) = 1 /\ u = Typed(d, at, text)
    BY <1>2, <1>3, <2>1
  <2>. HIDE DEF u
  <2>3. u \in Seq(AnyUnit)
    BY <2>2, TypedIsUnits
  <2>4. Len(u) = 1
    BY <2>2, TypedIsCounted
  <2>. QED  BY <2>3, <2>4
<1>5. Accepts(d, a) /\ Served(d, a) = Put(d, i.at, u)
  BY <1>2, InsertTaken
<1>6. /\ Put(d, i.at, u) \in Whole /\ Len(Put(d, i.at, u)) = Len(d) + 1
      /\ Put(d, i.at, u)[i.at + 1] = d[i.at]
  <2>. HIDE DEF u
  <2>1. PICK at \in 1 .. Len(d) : at = i.at /\ at \in at .. Len(d)
    BY <1>2
  <2>2. Put(d, at, u) \in Whole /\ Len(Put(d, at, u)) = Len(d) + 1
    BY <1>4, <2>1, PutWhole
  <2>3. Put(d, at, u)[at + 1] = d[at]
    BY <1>4, <2>1, PutPushes
  <2>. QED  BY <2>1, <2>2, <2>3
<1>7. Accepts(Served(d, a), b)
  <2>1. PICK y : y = Served(d, a)
    OBVIOUS
  <2>2. y[i.begins].c \notin Structure /\ i.begins \in 1 .. Len(y)
    <3>1. Len(d) \in Nat
      BY WholeHas
    <3>2. i.begins \in 1 .. Len(d) + 1
      BY <1>2, <3>1
    <3>. HIDE DEF u, a
    <3>. QED  BY <1>2, <1>5, <1>6, <2>1, <3>2
  <2>3. Accepts(y, b)
    BY <2>2 DEF Accepts, InParagraph, InsertPicture
  <2>. QED  BY <2>1, <2>3
<1>8. SoundRequest(a) /\ SoundRequest(b)
  BY <1>2, SoundRequests
<1>9. Planned(d, o, x) = <<a, b>>
  BY DEF Planned, PlanImage, i
<1>. HIDE DEF a, b
<1>. QED  BY <1>5, <1>7, <1>8, <1>9, TwoTaken

-----------------------------------------------------------------------------

LEMMA AppendPlanTaken ==
    ASSUME NEW d \in Whole, NEW x \in AnyOp, x.kind = "append", Takes(Outline(d), x), x.text \in Text
    PROVE  Batch(d, Planned(d, Outline(d), x)) \in Whole
<1>1. Outline(d).end - 1 = Len(d) /\ Len(d) \in Nat /\ 1 <= Len(d) /\ d[Len(d)].c = "nl" /\ "nl" \notin Structure
  BY WholeHas DEF Outline, Structure
<1>2. AppendIndex(Outline(d)) = Len(d)
  BY <1>1, GreatestOfTwo DEF AppendIndex
<1>3. x.text # <<>>
  BY DEF Takes
<1>4. Accepts(d, InsertText(Len(d), x.text))
  BY <1>1, <1>3, InsertTaken
<1>5. SoundRequest(InsertText(Len(d), x.text))
  BY SoundRequests
<1>6. Planned(d, Outline(d), x) = <<InsertText(Len(d), x.text)>>
  BY <1>2 DEF Planned
<1>. QED  BY <1>4, <1>5, <1>6, OneTaken

LEMMA ReplacePlanTaken ==
    ASSUME NEW d \in Whole, NEW x \in AnyOp, x.kind = "replace", x.find # <<>>, NEW q, q = ReplaceText(x.find, x.replace)
    PROVE  Batch(d, <<q>>) \in Whole
<1>1. SoundRequest(q)
  BY OpFields, SoundRequests
<1>2. Accepts(d, q)
  BY DEF Accepts, ReplaceText
<1>. QED  BY <1>1, <1>2, OneTaken

-----------------------------------------------------------------------------

(* The characters of units, a picture and the second half of a pair aside.   *)
CharPlaces(v, from) == {j \in Nat : v[from + j].c \notin {"picture", "w"}}

LEMMA CharsAreCounted ==
    ASSUME NEW v \in Seq(AnyUnit)
    PROVE  Len(Chars(v)) = Counted(CharPlaces(v, 0), Len(v))
<1>. DEFINE n == Len(v)
            taken(k) == IF v[k].c \in {"picture", "w"} THEN <<>> ELSE <<v[k].c>>
            seqs == [k \in 1 .. n |-> taken(k)]
            f == [k \in 0 .. n |-> Counted(CharPlaces(v, 0), k)]
<1>1. n \in Nat /\ \A k \in 1 .. n : v[k].c \in Strings
  <2>1. \A k \in 1 .. n : v[k] \in AnyUnit
    OBVIOUS
  <2>2. \A x \in AnyUnit : x.c \in Strings
    BY DEF AnyUnit
  <2>. QED  BY <2>1, <2>2
<1>2. \A k \in 1 .. n : taken(k) \in Seq(Strings) /\ Len(taken(k)) = IF v[k].c \in {"picture", "w"} THEN 0 ELSE 1
  <2>1. \A c \in Strings : <<c>> \in Seq(Strings) /\ Len(<<c>>) = 1
    OBVIOUS
  <2>2. <<>> \in Seq(Strings) /\ Len(<<>>) = 0
    OBVIOUS
  <2>. QED  BY <1>1, <2>1, <2>2
<1>. HIDE DEF taken
<1>3. seqs \in Seq(Seq(Strings)) /\ Len(seqs) = n /\ \A k \in 1 .. n : seqs[k] = taken(k)
  BY <1>1, <1>2
<1>4. Chars(v) = FlattenSeq(seqs)
  BY DEF Chars, taken
<1>5. f[0] = 0 /\ \A i \in 0 .. n : f[i] \in Nat
  BY <1>1, CountSteps
<1>6. ASSUME NEW i \in 1 .. n PROVE f[i] = f[i - 1] + Len(seqs[i])
  <2>1. PICK k \in Nat : k + 1 = i /\ k = i - 1 /\ k \in 0 .. n /\ i \in 0 .. n
    <3>1. i - 1 \in Nat /\ (i - 1) + 1 = i /\ i - 1 \in 0 .. n /\ i \in 0 .. n
      BY <1>1
    <3>. QED  BY <3>1
  <2>2. Counted(CharPlaces(v, 0), i) = Counted(CharPlaces(v, 0), k) + (IF i \in CharPlaces(v, 0) THEN 1 ELSE 0)
    BY <2>1, CountSteps
  <2>3. i \in CharPlaces(v, 0) <=> v[i].c \notin {"picture", "w"}
    <3>1. 0 + i = i /\ i \in Nat
      OBVIOUS
    <3>. QED  BY <3>1 DEF CharPlaces
  <2>4. Len(seqs[i]) = IF v[i].c \in {"picture", "w"} THEN 0 ELSE 1
    <3>. HIDE DEF seqs
    <3>. QED  BY <1>2, <1>3
  <2>5. Counted(CharPlaces(v, 0), k) \in Nat
    BY CountSteps
  <2>. HIDE DEF seqs
  <2>. QED  BY <2>1, <2>2, <2>3, <2>4, <2>5
<1>. HIDE DEF seqs, f
<1>7. Len(FlattenSeq(seqs)) = f[n]
  <2>1. PICK m \in Nat : m = n
    BY <1>1
  <2>. HIDE DEF n
  <2>. QED  BY <1>3, <1>5, <1>6, <2>1, FlatLength
<1>8. f[n] = Counted(CharPlaces(v, 0), n)
  BY <1>1 DEF f
<1>. QED  BY <1>4, <1>7, <1>8

CharsFrom(d, s, i) == Len(Chars(SubSeq(d, s, i)))

LEMMA CharsFromIs ==
    ASSUME NEW d \in Whole, NEW s \in 1 .. Len(d), NEW i \in s - 1 .. Len(d)
    PROVE  CharsFrom(d, s, i) = Counted(CharPlaces(d, s - 1), i - (s - 1))
<1>. DEFINE v == SubSeq(d, s, i)
<1>0. Len(d) \in Nat /\ d \in Seq(AnyUnit) /\ s \in Nat /\ i \in Nat
  BY WholeHas
<1>1. PICK m \in Nat : m = i - (s - 1)
  BY <1>0
<1>2. v \in Seq(AnyUnit) /\ Len(v) = m /\ \A j \in 1 .. m : v[j] = d[s + j - 1]
  BY <1>0, <1>1
<1>3. {j \in 1 .. m : j \in CharPlaces(v, 0)} = {j \in 1 .. m : j \in CharPlaces(d, s - 1)}
  <2>1. ASSUME NEW j \in 1 .. m PROVE j \in CharPlaces(v, 0) <=> j \in CharPlaces(d, s - 1)
    <3>1. 0 + j = j /\ (s - 1) + j = s + j - 1 /\ j \in Nat
      BY <1>0
    <3>. HIDE DEF v
    <3>. QED  BY <1>2, <3>1 DEF CharPlaces
  <2>. HIDE DEF v
  <2>. QED  BY <2>1
<1>4. Len(Chars(v)) = Counted(CharPlaces(v, 0), m)
  <2>. HIDE DEF v
  <2>. QED  BY <1>2, CharsAreCounted
<1>5. Counted(CharPlaces(v, 0), m) = Counted(CharPlaces(d, s - 1), m)
  <2>. HIDE DEF v
  <2>. QED  BY <1>3 DEF Counted
<1>. QED  BY <1>1, <1>4, <1>5 DEF CharsFrom

LEMMA CharsClimb ==
    ASSUME NEW d \in Whole, NEW s \in 1 .. Len(d), NEW i \in s .. Len(d)
    PROVE  /\ CharsFrom(d, s, i) \in Nat /\ CharsFrom(d, s, s - 1) = 0
           /\ CharsFrom(d, s, i) = CharsFrom(d, s, i - 1) + (IF d[i].c \in {"picture", "w"} THEN 0 ELSE 1)
<1>0. Len(d) \in Nat /\ s \in Nat /\ i \in Nat
  BY WholeHas
<1>. DEFINE T == CharPlaces(d, s - 1)
<1>1. PICK k \in Nat : k + 1 = i - (s - 1) /\ k = (i - 1) - (s - 1)
  <2>1. i - s \in Nat /\ (i - s) + 1 = i - (s - 1) /\ (i - s) = (i - 1) - (s - 1)
    BY <1>0
  <2>. QED  BY <2>1
<1>. HIDE DEF T
<1>2. Counted(T, 0) = 0 /\ Counted(T, k) \in Nat /\ Counted(T, k + 1) = Counted(T, k) + (IF k + 1 \in T THEN 1 ELSE 0)
  BY CountSteps
<1>3. k + 1 \in T <=> d[i].c \notin {"picture", "w"}
  <2>1. (s - 1) + (k + 1) = i /\ k + 1 \in Nat
    BY <1>0, <1>1
  <2>. QED  BY <1>1, <2>1 DEF CharPlaces, T
<1>4. CharsFrom(d, s, i) = Counted(T, k + 1)
  <2>1. i \in s - 1 .. Len(d)
    BY <1>0
  <2>. QED  BY <1>1, <2>1, CharsFromIs DEF T
<1>5. CharsFrom(d, s, i - 1) = Counted(T, k)
  <2>1. PICK l \in s - 1 .. Len(d) : l = i - 1
    BY <1>0
  <2>. QED  BY <1>1, <2>1, CharsFromIs DEF T
<1>6. CharsFrom(d, s, s - 1) = Counted(T, 0)
  <2>1. PICK l \in s - 1 .. Len(d) : l = s - 1 /\ l - (s - 1) = 0
    BY <1>0
  <2>. QED  BY <1>1, <2>1, CharsFromIs DEF T
<1>. QED  BY <1>2, <1>3, <1>4, <1>5, <1>6

LEMMA CharsGrow ==
    ASSUME NEW d \in Whole, NEW s \in 1 .. Len(d), NEW a \in s .. Len(d), NEW b \in s .. Len(d), a <= b
    PROVE  CharsFrom(d, s, a) <= CharsFrom(d, s, b)
<1>0. Len(d) \in Nat /\ s \in Nat
  BY WholeHas
<1>1. PICK k \in Nat, l \in Nat : k = a - (s - 1) /\ l = b - (s - 1) /\ k <= l
  <2>1. a - (s - 1) \in Nat /\ b - (s - 1) \in Nat /\ a - (s - 1) <= b - (s - 1)
    BY <1>0
  <2>. QED  BY <2>1
<1>2. a \in s - 1 .. Len(d) /\ b \in s - 1 .. Len(d)
  BY <1>0
<1>. QED  BY <1>1, <1>2, CharsFromIs, CountGrows

(* Every character of a paragraph ends at a unit that is one.                *)
LEMMA CharReached ==
    ASSUME NEW d \in Whole, NEW s \in 1 .. Len(d), NEW e \in s .. Len(d), NEW k \in Nat, 1 <= k, k <= CharsFrom(d, s, e)
    PROVE  \E i \in s .. e : d[i].c \notin {"picture", "w"} /\ CharsFrom(d, s, i) = k
<1>. DEFINE T == {i \in s .. e : CharsFrom(d, s, i) >= k}
<1>0. Len(d) \in Nat /\ s \in Nat /\ e \in Nat
  BY WholeHas
<1>1. T \in SUBSET Nat /\ e \in T
  BY <1>0, CharsClimb
<1>2. PICK i \in T : \A j \in T : i <= j
  <2>. HIDE DEF T
  <2>. QED  BY <1>1, LeastOf
<1>3. i \in s .. Len(d) /\ i \in s .. e /\ i - 1 \notin T /\ CharsFrom(d, s, i) >= k
  <2>1. i - 1 < i
    BY <1>0
  <2>2. T \subseteq Int
    BY <1>0
  <2>3. i - 1 \notin T
    <3>. HIDE DEF T
    <3>. QED  BY <1>2, <2>1, <2>2
  <2>. QED  BY <1>0, <2>3
<1>4. CharsFrom(d, s, i - 1) < k /\ CharsFrom(d, s, i - 1) \in Nat
  <2>1. CASE i = s
    BY <1>0, <1>3, <2>1, CharsClimb
  <2>2. CASE i # s
    <3>1. PICK l \in s .. e : l = i - 1
      BY <1>0, <1>3, <2>2
    <3>2. CharsFrom(d, s, l) \in Nat
      BY <1>0, <3>1, CharsClimb
    <3>3. ~(CharsFrom(d, s, l) >= k)
      BY <1>3, <3>1
    <3>. QED  BY <3>1, <3>2, <3>3
  <2>. QED  BY <2>1, <2>2
<1>5. /\ CharsFrom(d, s, i) \in Nat
      /\ CharsFrom(d, s, i) = CharsFrom(d, s, i - 1) + (IF d[i].c \in {"picture", "w"} THEN 0 ELSE 1)
  BY <1>3, CharsClimb
<1>6. d[i].c \notin {"picture", "w"} /\ CharsFrom(d, s, i) = k
  <2>. HIDE DEF T
  <2>. QED  BY <1>3, <1>4, <1>5
<1>. QED  BY <1>3, <1>6

-----------------------------------------------------------------------------

(* A function defined from each argument to a later one is there.            *)
BackOf(f, n, S, b, g, next) ==
    f \in [0 .. n -> S] /\ f[n] = b /\ \A k \in 0 .. n - 1 : f[k] = g[<<k, f[next[k]]>>]

LEMMA StepsBack ==
    ASSUME NEW n \in Nat, NEW S, NEW b \in S, NEW g \in [(0 .. n - 1) \X S -> S], NEW next,
           \A k \in 0 .. n - 1 : next[k] \in k + 1 .. n
    PROVE  \E f : BackOf(f, n, S, b, g, next)
<1>. DEFINE Till(m, f) == /\ f \in [n - m .. n -> S] /\ f[n] = b
                          /\ \A k \in n - m .. n - 1 : f[k] = g[<<k, f[next[k]]>>]
            T == {m \in 0 .. n : ~ \E f : Till(m, f)}
<1>1. T = {}
  <2>. SUFFICES ASSUME T # {} PROVE FALSE
    OBVIOUS
  <2>1. PICK m \in T : \A l \in T : m <= l
    <3>1. T \in SUBSET Nat
      OBVIOUS
    <3>. HIDE DEF T
    <3>. QED  BY <3>1, LeastOf
  <2>2. m \in 0 .. n
    OBVIOUS
  <2>3. m # 0
    <3>. DEFINE h == [k \in n .. n |-> b]
    <3>1. h \in [n .. n -> S] /\ h[n] = b /\ n - 0 = n /\ n .. n - 1 = {}
      OBVIOUS
    <3>. HIDE DEF h
    <3>2. Till(0, h)
      BY <3>1
    <3>3. 0 \notin T
      BY <3>2
    <3>. QED  BY <3>3
  <2>4. PICK h : Till(m - 1, h)
    <3>1. m - 1 \in 0 .. n /\ m - 1 < m
      BY <2>2, <2>3
    <3>2. m - 1 \notin T
      <4>1. T \subseteq Int
        OBVIOUS
      <4>. HIDE DEF T
      <4>. QED  BY <2>1, <3>1, <4>1
    <3>. HIDE DEF Till
    <3>. QED  BY <3>1, <3>2
  <2>. DEFINE a == n - m
              v == g[<<a, h[next[a]]>>]
              e == [k \in a .. n |-> IF k = a THEN v ELSE h[k]]
  <2>5. a \in 0 .. n - 1 /\ n - (m - 1) = a + 1 /\ next[a] \in a + 1 .. n
    BY <2>2, <2>3
  <2>6. h \in [a + 1 .. n -> S] /\ h[n] = b /\ \A k \in a + 1 .. n - 1 : h[k] = g[<<k, h[next[k]]>>]
    BY <2>4, <2>5
  <2>. HIDE DEF a, Till
  <2>7. v \in S
    <3>1. h[next[a]] \in S
      BY <2>5, <2>6
    <3>. QED  BY <2>5, <3>1
  <2>. HIDE DEF v
  <2>8. e \in [a .. n -> S] /\ e[a] = v /\ \A k \in a + 1 .. n : e[k] = h[k]
    BY <2>5, <2>6, <2>7
  <2>. HIDE DEF e
  <2>9. e[n] = b
    BY <2>5, <2>6, <2>8
  <2>10. ASSUME NEW k \in a .. n - 1 PROVE e[k] = g[<<k, e[next[k]]>>]
    <3>1. next[k] \in a + 1 .. n
      <4>1. k \in 0 .. n - 1
        BY <2>5
      <4>. QED  BY <2>5, <4>1
    <3>2. e[next[k]] = h[next[k]]
      BY <2>8, <3>1
    <3>3. CASE k = a
      BY <2>8, <3>2, <3>3 DEF v
    <3>4. CASE k # a
      <4>1. k \in a + 1 .. n - 1 /\ k \in a + 1 .. n
        BY <2>5, <3>4
      <4>. QED  BY <2>6, <2>8, <3>2, <4>1
    <3>. QED  BY <3>3, <3>4
  <2>11. Till(m, e)
    BY <2>8, <2>9, <2>10 DEF Till, a
  <2>. QED  BY <2>1, <2>11
<1>2. n \in 0 .. n /\ n - n = 0
  OBVIOUS
<1>3. PICK f : Till(n, f)
  <2>1. n \notin T
    BY <1>1, Zenon
  <2>. HIDE DEF Till
  <2>. QED  BY <1>2, <2>1
<1>. QED  BY <1>2, <1>3 DEF BackOf

(* A match lies in the text.                                                *)
LEMMA MatchesFound ==
    ASSUME NEW text, Len(text) \in Nat, NEW find, Len(find) \in Nat, Len(find) >= 1,
           NEW i \in DOMAIN Matches(text, find)
    PROVE  Matches(text, find)[i] \in Nat /\ Matches(text, find)[i] + Len(find) <= Len(text)
<1>. DEFINE n == Len(text)
            size == Len(find)
            at(k) == k + size <= n /\ SubSeq(text, k + 1, k + size) = find
            body(h) == [k \in 0 .. n |->
                           IF k = n THEN <<>> ELSE IF at(k) THEN <<k>> \o h[k + size] ELSE h[k + 1]]
            found == CHOOSE h : h = body(h)
            R == {k \in 0 .. n : k + size <= n}
            S == Seq(R)
            next == [k \in 0 .. n - 1 |-> IF at(k) THEN k + size ELSE k + 1]
            g == [p \in (0 .. n - 1) \X S |-> IF at(p[1]) THEN <<p[1]>> \o p[2] ELSE p[2]]
<1>1. Matches(text, find) = found[0]
  BY DEF Matches
<1>2. \A k \in 0 .. n : at(k) => k \in R /\ k < n /\ k + size \in k + 1 .. n
  OBVIOUS
<1>. HIDE DEF at
<1>3. \A k \in 0 .. n - 1 : next[k] \in k + 1 .. n
  <2>. HIDE DEF n, size
  <2>. QED  BY <1>2 DEF n, size
<1>4. <<>> \in S /\ \A k \in R : \A x \in S : <<k>> \o x \in S
  <2>1. \A y, w \in Seq(R) : y \o w \in Seq(R)
    OBVIOUS
  <2>2. <<>> \in Seq(R) /\ \A k \in R : <<k>> \in Seq(R)
    OBVIOUS
  <2>. HIDE DEF R
  <2>. QED  BY <2>1, <2>2
<1>5. g \in [(0 .. n - 1) \X S -> S]
  <2>1. ASSUME NEW p \in (0 .. n - 1) \X S
        PROVE  (IF at(p[1]) THEN <<p[1]>> \o p[2] ELSE p[2]) \in S
    <3>1. p[1] \in 0 .. n - 1 /\ p[2] \in S
      BY <2>1
    <3>2. p[1] \in 0 .. n
      BY <3>1
    <3>. HIDE DEF S, R, n
    <3>. QED  BY <1>2, <1>4, <3>1, <3>2
  <2>. HIDE DEF S
  <2>. QED  BY <2>1
<1>6. PICK e : e = <<>>
  OBVIOUS
<1>7. PICK f : BackOf(f, n, S, e, g, next)
  <2>1. PICK m \in Nat : m = n
    OBVIOUS
  <2>. HIDE DEF n, S, g, next
  <2>. QED  BY <1>3, <1>4, <1>5, <1>6, <2>1, StepsBack
<1>8. ASSUME NEW k \in 0 .. n - 1
      PROVE  f[k] = IF at(k) THEN <<k>> \o f[k + size] ELSE f[k + 1]
  <2>1. f[k] = g[<<k, f[next[k]]>>] /\ f \in [0 .. n -> S]
    BY <1>7 DEF BackOf
  <2>2. next[k] = (IF at(k) THEN k + size ELSE k + 1) /\ next[k] \in 0 .. n
    <3>1. next[k] \in k + 1 .. n
      BY <1>3
    <3>. QED  BY <3>1
  <2>. HIDE DEF S, next
  <2>3. f[next[k]] \in S
    BY <2>1, <2>2
  <2>4. <<k, f[next[k]]>> \in (0 .. n - 1) \X S
    BY <2>3
  <2>5. g[<<k, f[next[k]]>>] = IF at(k) THEN <<k>> \o f[next[k]] ELSE f[next[k]]
    BY <2>4
  <2>. HIDE DEF g
  <2>. QED  BY <2>1, <2>2, <2>5
<1>9. f = body(f)
  <2>1. f \in [0 .. n -> S] /\ f[n] = <<>>
    BY <1>6, <1>7 DEF BackOf
  <2>2. \A k \in 0 .. n : f[k] = IF k = n THEN <<>> ELSE IF at(k) THEN <<k>> \o f[k + size] ELSE f[k + 1]
    <3>. SUFFICES ASSUME NEW k \in 0 .. n
                  PROVE  f[k] = IF k = n THEN <<>> ELSE IF at(k) THEN <<k>> \o f[k + size] ELSE f[k + 1]
      OBVIOUS
    <3>1. CASE k = n
      BY <2>1, <3>1
    <3>2. CASE k # n
      <4>1. k \in 0 .. n - 1
        BY <3>2
      <4>. QED  BY <1>8, <3>2, <4>1
    <3>. QED  BY <3>1, <3>2
  <2>. HIDE DEF S
  <2>3. f = [k \in 0 .. n |-> f[k]]
    BY <2>1
  <2>4. [k \in 0 .. n |-> f[k]] = body(f)
    BY <2>2
  <2>. HIDE DEF body
  <2>. QED  BY <2>3, <2>4
<1>10. found = body(found)
  <2>. HIDE DEF body
  <2>. QED  BY <1>9
<1>. HIDE DEF found
<1>11. ASSUME NEW k \in 0 .. n
       PROVE  found[k] = IF k = n THEN <<>> ELSE IF at(k) THEN <<k>> \o found[k + size] ELSE found[k + 1]
  <2>. HIDE DEF n
  <2>. QED  BY <1>10
<1>. DEFINE B == {j \in 0 .. n : found[n - j] \notin S}
<1>12. B = {}
  <2>. SUFFICES ASSUME B # {} PROVE FALSE
    OBVIOUS
  <2>1. PICK j \in B : \A l \in B : j <= l
    <3>1. B \in SUBSET Nat
      OBVIOUS
    <3>. HIDE DEF B
    <3>. QED  BY <3>1, LeastOf
  <2>2. PICK k \in 0 .. n : k = n - j /\ found[k] \notin S
    <3>1. j \in 0 .. n /\ found[n - j] \notin S
      OBVIOUS
    <3>2. n - j \in 0 .. n
      BY <3>1
    <3>. QED  BY <3>1, <3>2, Zenon
  <2>3. ASSUME NEW l \in k + 1 .. n PROVE found[l] \in S
    <3>1. n - l \in 0 .. n /\ n - l < j /\ n - (n - l) = l
      BY <2>2
    <3>2. n - l \notin B
      <4>1. B \subseteq Int
        OBVIOUS
      <4>. HIDE DEF B
      <4>. QED  BY <2>1, <3>1, <4>1
    <3>3. found[n - (n - l)] \in S
      BY <3>1, <3>2
    <3>. QED  BY <3>1, <3>3
  <2>. HIDE DEF B, S, R
  <2>4. CASE k = n
    BY <1>4, <1>11, <2>2, <2>4
  <2>5. CASE k # n /\ at(k)
    <3>1. k + size \in k + 1 .. n /\ k \in R
      BY <1>2, <2>5
    <3>. HIDE DEF n, size
    <3>. QED  BY <1>4, <1>11, <2>2, <2>3, <2>5, <3>1
  <2>6. CASE k # n /\ ~at(k)
    <3>1. k + 1 \in k + 1 .. n
      BY <2>6
    <3>. QED  BY <1>11, <2>2, <2>3, <2>6, <3>1
  <2>. QED  BY <2>4, <2>5, <2>6
<1>13. found[0] \in S
  <2>1. n \notin B
    BY <1>12, Zenon
  <2>2. n \in 0 .. n /\ n - n = 0
    OBVIOUS
  <2>3. found[n - n] \in S
    BY <2>1, <2>2
  <2>. QED  BY <2>2, <2>3
<1>14. Matches(text, find)[i] \in R
  <2>1. PICK x : x = found[0]
    OBVIOUS
  <2>2. x \in Seq(R) /\ i \in DOMAIN x
    BY <1>1, <1>13, <2>1
  <2>3. \A y \in Seq(R) : \A l \in DOMAIN y : y[l] \in R
    OBVIOUS
  <2>4. x[i] \in R
    <3>. HIDE DEF R
    <3>. QED  BY <2>2, <2>3
  <2>. QED  BY <1>1, <2>1, <2>4
<1>. QED  BY <1>14

-----------------------------------------------------------------------------

(* Paragraph::index_at: in the paragraph, and right behind a character.      *)
LEMMA IndexFound ==
    ASSUME NEW d \in Whole, NEW p, NEW e, LiesAt(d, p, e), NEW k \in Nat, k <= Len(p.text)
    PROVE  IF k = 0
           THEN /\ IndexAt(d, p, k) \in p.start .. e
                /\ \A i \in p.start .. e : d[i].c # "picture" => IndexAt(d, p, k) <= i
           ELSE \E i \in p.start .. e - 1 :
                   IndexAt(d, p, k) = i + 1 /\ d[i].c # "picture" /\ CharsFrom(d, p.start, i) = k
<1>. DEFINE s == p.start
            text == {i \in s .. p.end - 1 : d[i].c # "picture"}
            char(i) == Len(Chars(SubSeq(d, s, i)))
            X == {i \in text : d[i].c # "nl" /\ char(i) = k}
<1>0. /\ Len(d) \in Nat /\ e \in 1 .. Len(d) /\ d[e].c = "nl" /\ p.end - 1 = e /\ s \in 1 .. e
      /\ \A j \in s .. e - 1 : d[j].c # "nl"
      /\ p.text = Chars(SubSeq(d, s, e - 1))
  BY WholeHas DEF LiesAt
<1>1. IndexAt(d, p, k) = IF k = 0 THEN Least(text) ELSE 1 + Greatest(X)
  BY DEF IndexAt
<1>2. text = {i \in s .. e : d[i].c # "picture"}
  BY <1>0
<1>3. CASE k = 0
  <2>1. text \in SUBSET Nat /\ e \in text
    BY <1>0, <1>2
  <2>2. Least(text) \in text /\ \A x \in text : Least(text) <= x
    <3>. HIDE DEF text
    <3>. QED  BY <2>1, LeastIsOne
  <2>. QED  BY <1>0, <1>1, <1>2, <1>3, <2>2
<1>4. CASE k # 0
  <2>1. s # e
    <3>. SUFFICES ASSUME s = e PROVE FALSE
      OBVIOUS
    <3>1. CharsFrom(d, s, s - 1) = 0
      BY <1>0, CharsClimb
    <3>2. s \in Nat /\ k >= 1
      BY <1>0, <1>4
    <3>3. Len(p.text) = CharsFrom(d, s, s - 1)
      BY <1>0 DEF CharsFrom
    <3>. QED  BY <3>1, <3>2, <3>3
  <2>2. e - 1 \in s .. Len(d) /\ Len(p.text) = CharsFrom(d, s, e - 1) /\ 1 <= k
    BY <1>0, <1>4, <2>1 DEF CharsFrom
  <2>3. PICK i \in s .. e - 1 : d[i].c \notin {"picture", "w"} /\ CharsFrom(d, s, i) = k
    <3>1. PICK l : l = e - 1
      OBVIOUS
    <3>. HIDE DEF s
    <3>2. s \in 1 .. Len(d)
      BY <1>0
    <3>. QED  BY <2>2, <3>1, <3>2, CharReached
  <2>4. i \in X
    BY <1>0, <2>3 DEF CharsFrom
  <2>5. X \in SUBSET (0 .. e)
    BY <1>0
  <2>6. Greatest(X) \in X
    <3>. HIDE DEF X
    <3>1. e \in Nat
      BY <1>0
    <3>. QED  BY <2>4, <2>5, <3>1, GreatestIsMost
  <2>7. PICK j \in X : j = Greatest(X)
    BY <2>6
  <2>8. j \in s .. e - 1 /\ d[j].c # "picture" /\ CharsFrom(d, s, j) = k
    <3>1. j \in s .. e /\ d[j].c # "picture" /\ d[j].c # "nl" /\ CharsFrom(d, s, j) = k
      BY <1>2 DEF CharsFrom
    <3>. QED  BY <1>0, <3>1
  <2>9. IndexAt(d, p, k) = j + 1
    <3>. HIDE DEF X, text
    <3>1. j \in Nat
      BY <1>0, <2>8
    <3>. QED  BY <1>1, <1>4, <2>7, <3>1
  <2>. QED  BY <1>4, <2>8, <2>9
<1>. QED  BY <1>3, <1>4

LEMMA IndexesGrow ==
    ASSUME NEW d \in Whole, NEW p, NEW e, LiesAt(d, p, e), NEW k \in Nat, NEW l \in Nat, k < l, l <= Len(p.text)
    PROVE  /\ IndexAt(d, p, k) \in p.start .. e
           /\ IndexAt(d, p, l) \in p.start + 1 .. e
           /\ IndexAt(d, p, k) < IndexAt(d, p, l)
<1>0. Len(d) \in Nat /\ e \in 1 .. Len(d) /\ p.start \in 1 .. e
  BY WholeHas DEF LiesAt
<1>1. PICK j \in p.start .. e - 1 :
         IndexAt(d, p, l) = j + 1 /\ d[j].c # "picture" /\ CharsFrom(d, p.start, j) = l
  <2>1. l # 0
    OBVIOUS
  <2>. QED  BY <2>1, IndexFound
<1>2. CASE k = 0
  <2>1. k <= l
    BY <1>2
  <2>2. /\ IndexAt(d, p, k) \in p.start .. e
        /\ \A i \in p.start .. e : d[i].c # "picture" => IndexAt(d, p, k) <= i
    <3>1. k <= Len(p.text)
      <4>1. Len(p.text) \in Nat
        <5>1. e - 1 \in p.start .. Len(d) \/ e - 1 = p.start - 1
          BY <1>0
        <5>2. p.start \in 1 .. Len(d) /\ p.start \in p.start .. Len(d)
          BY <1>0
        <5>. QED  BY <5>1, <5>2, CharsClimb DEF LiesAt, CharsFrom
      <4>. QED  BY <1>2, <4>1
    <3>. QED  BY <1>2, <3>1, IndexFound
  <2>. QED  BY <1>0, <1>1, <2>2
<1>3. CASE k # 0
  <2>0. Len(p.text) \in Nat
    <3>1. e - 1 \in p.start .. Len(d) \/ e - 1 = p.start - 1
      BY <1>0
    <3>2. p.start \in 1 .. Len(d) /\ p.start \in p.start .. Len(d)
      BY <1>0
    <3>. QED  BY <3>1, <3>2, CharsClimb DEF LiesAt, CharsFrom
  <2>1. PICK i \in p.start .. e - 1 :
           IndexAt(d, p, k) = i + 1 /\ d[i].c # "picture" /\ CharsFrom(d, p.start, i) = k
    BY <1>3, <2>0, IndexFound
  <2>2. i < j
    <3>. SUFFICES ASSUME ~(i < j) PROVE FALSE
      OBVIOUS
    <3>1. j <= i /\ i \in p.start .. Len(d) /\ j \in p.start .. Len(d) /\ p.start \in 1 .. Len(d)
      BY <1>0
    <3>2. CharsFrom(d, p.start, j) <= CharsFrom(d, p.start, i)
      BY <3>1, CharsGrow
    <3>. QED  BY <1>1, <2>1, <3>2
  <2>. QED  BY <1>0, <1>1, <2>1, <2>2
<1>. QED  BY <1>2, <1>3

-----------------------------------------------------------------------------

LEMMA TextIsDeletable ==
    ASSUME NEW d, NEW from \in 1 .. Len(d) - 1, NEW to \in from + 1 .. Len(d),
           \A j \in from .. to - 1 : d[j].c \notin Structure \cup {"nl"}
    PROVE  Accepts(d, Delete(from, to))
<1>1. \A j \in from .. to - 1 : d[j].c \notin {"table", "row", "cell", "end"}
  BY DEF Structure
<1>2. Deletable(d, from, to)
  <2>1. to - 1 \in from .. to - 1
    OBVIOUS
  <2>. QED  BY <1>1, <2>1 DEF Deletable
<1>. QED  BY <1>2 DEF Accepts, Delete

LEMMA EditPlanTaken ==
    ASSUME NEW d \in Whole, NEW x \in AnyOp, x.kind = "edit", Takes(Outline(d), x)
    PROVE  Batch(d, Planned(d, Outline(d), x)) \in Whole
<1>. DEFINE o == Outline(d)
<1>1. /\ Numbered(o, x.n) /\ x.find # <<>>
      /\ x.occurrence \in DOMAIN Matches(o.paragraphs[x.n].text, x.find)
  BY DEF Takes, TakesEdit
<1>2. x.find \in Text /\ x.replace \in Text
  BY OpFields
<1>3. Len(d) \in Nat /\ Len(x.find) \in Nat /\ Len(x.find) >= 1
  BY <1>1, <1>2, WholeHas, EmptySeq DEF Text
<1>4. PICK p : p = o.paragraphs[x.n]
  OBVIOUS
<1>5. PICK e : LiesAt(d, p, e)
  BY <1>1, <1>4, ParagraphLies
<1>6. Len(p.text) \in Nat
  <2>1. SubSeq(d, p.start, e - 1) \in Seq(AnyUnit)
    BY WholeHas, <1>3, <1>5 DEF LiesAt
  <2>2. \A v \in Seq(AnyUnit) : Len(Chars(v)) \in Nat
    <3>. SUFFICES ASSUME NEW v \in Seq(AnyUnit) PROVE Len(Chars(v)) \in Nat
      OBVIOUS
    <3>1. Len(v) \in Nat
      OBVIOUS
    <3>. QED  BY <3>1, CharsAreCounted, CountSteps
  <2>. QED  BY <1>5, <2>1, <2>2 DEF LiesAt
<1>7. PICK k \in Nat, l \in Nat : k = Match(o, x) /\ l = k + Len(x.find) /\ k < l /\ l <= Len(p.text)
  <2>1. Match(o, x) = Matches(p.text, x.find)[x.occurrence] /\ x.occurrence \in DOMAIN Matches(p.text, x.find)
    BY <1>1, <1>4 DEF Match
  <2>2. Match(o, x) \in Nat /\ Match(o, x) + Len(x.find) <= Len(p.text)
    BY <1>3, <1>6, <2>1, MatchesFound
  <2>. QED  BY <1>3, <2>2
<1>8. PICK start, end : start = IndexAt(d, p, k) /\ end = IndexAt(d, p, l)
  OBVIOUS
<1>9. start \in p.start .. e /\ end \in p.start + 1 .. e /\ start < end
  BY <1>5, <1>7, <1>8, IndexesGrow
<1>10. /\ start \in 1 .. Len(d) - 1 /\ end \in start + 1 .. Len(d)
       /\ \A j \in start .. end - 1 : d[j].c \notin Structure \cup {"nl"}
  <2>1. /\ e \in 1 .. Len(d) /\ p.start \in 1 .. e
        /\ \A j \in p.start .. e - 1 : d[j].c \notin Structure \cup {"nl"}
    BY <1>5 DEF LiesAt
  <2>2. \A j \in start .. end - 1 : j \in p.start .. e - 1
    BY <1>9, <2>1
  <2>. QED  BY <1>3, <1>9, <2>1, <2>2
<1>11. PICK shift \in Nat : shift = ULen(x.replace)
  BY <1>2, ULenIsMore
<1>12. PICK b : b = Delete(start + shift, end + shift)
  OBVIOUS
<1>13. Planned(d, o, x) = (IF x.replace = <<>> THEN <<>> ELSE <<InsertText(start, x.replace)>>) \o <<b>>
  <2>. HIDE DEF o
  <2>. QED  BY <1>4, <1>7, <1>8, <1>11, <1>12 DEF Planned, PlanEdit
<1>14. SoundRequest(b)
  BY <1>12, SoundRequests
<1>. HIDE DEF o
<1>15. CASE x.replace = <<>>
  <2>1. shift = 0
    <3>1. <<>> \in Text /\ Len(<<>>) = 0 /\ 0 \in 0 .. Len(<<>>) /\ 0 \in Nat
      BY TextsJoin
    <3>2. ULen(<<>>) = 0 + Pairs(<<>>, 0)
      BY <3>1, FromCharsIs
    <3>. QED  BY <1>11, <1>15, <3>1, <3>2, PairsCount
  <2>2. Accepts(d, b)
    <3>1. b = Delete(start, end)
      BY <1>10, <1>12, <2>1
    <3>. QED  BY <1>10, <3>1, TextIsDeletable
  <2>3. Planned(d, o, x) = <<b>>
    <3>1. <<>> \o <<b>> = <<b>>
      OBVIOUS
    <3>. QED  BY <1>13, <1>15, <3>1
  <2>. QED  BY <1>14, <2>2, <2>3, OneTaken DEF o
<1>16. CASE x.replace # <<>>
  <2>. DEFINE u == Typed(d, start, x.replace)
  <2>1. PICK a : a = InsertText(start, x.replace)
    OBVIOUS
  <2>2. start \in 1 .. Len(d) /\ d[start].c \notin Structure
    <3>1. start \in start .. end - 1
      BY <1>10
    <3>. QED  BY <1>10, <3>1
  <2>3. Accepts(d, a) /\ Served(d, a) = Put(d, start, u) /\ SoundRequest(a)
    BY <1>2, <1>16, <2>1, <2>2, InsertTaken, SoundRequests
  <2>4. u \in Seq(AnyUnit) /\ Len(u) = shift
    BY <1>2, <1>11, <2>2, TypedIsUnits, TypedIsCounted
  <2>. HIDE DEF u
  <2>5. PICK y : y = Put(d, start, u)
    OBVIOUS
  <2>6. Len(y) = Len(d) + shift
    BY <2>2, <2>4, <2>5, PutWhole
  <2>7. ASSUME NEW i \in start + shift .. end + shift - 1
        PROVE  y[i].c \notin Structure \cup {"nl"}
    <3>1. PICK j \in start .. end - 1 : j = i - shift /\ j + shift = i /\ j \in start .. Len(d)
      <4>1. i - shift \in start .. end - 1 /\ (i - shift) + shift = i /\ i - shift \in start .. Len(d)
        BY <1>3, <1>10
      <4>. QED  BY <4>1
    <3>2. y[j + Len(u)] = d[j]
      BY <2>2, <2>4, <2>5, <3>1, PutPushes
    <3>. QED  BY <1>10, <2>4, <3>1, <3>2
  <2>8. Accepts(y, b)
    <3>1. PICK from, to : from = start + shift /\ to = end + shift
      OBVIOUS
    <3>2. from \in 1 .. Len(y) - 1 /\ to \in from + 1 .. Len(y) /\ to - 1 = end + shift - 1
      BY <1>3, <1>10, <2>6, <3>1
    <3>3. \A j \in from .. to - 1 : y[j].c \notin Structure \cup {"nl"}
      BY <2>7, <3>1, <3>2
    <3>. QED  BY <1>12, <3>1, <3>2, <3>3, TextIsDeletable
  <2>9. Planned(d, o, x) = <<a, b>>
    <3>1. <<a>> \o <<b>> = <<a, b>>
      <4>. DEFINE S == {a, b}
      <4>1. \A v, z \in Seq(S) : Len(v) = 2 /\ Len(z) = 2 /\ v[1] = z[1] /\ v[2] = z[2] => v = z
        OBVIOUS
      <4>2. <<a>> \o <<b>> \in Seq(S) /\ <<a, b>> \in Seq(S)
        OBVIOUS
      <4>. HIDE DEF S
      <4>3. PICK v \in Seq(S), z \in Seq(S) : v = <<a>> \o <<b>> /\ z = <<a, b>>
        BY <4>2
      <4>4. Len(v) = 2 /\ v[1] = a /\ v[2] = b
        BY <4>3, Ends
      <4>5. Len(z) = 2 /\ z[1] = a /\ z[2] = b
        BY <4>3
      <4>. QED  BY <4>1, <4>3, <4>4, <4>5
    <3>. QED  BY <1>13, <1>16, <2>1, <3>1
  <2>. QED  BY <1>14, <2>3, <2>5, <2>8, <2>9, TwoTaken DEF o
<1>. QED  BY <1>15, <1>16

-----------------------------------------------------------------------------

(* The tools that write text, change it, style it or put a picture in.        *)
TextTools == {"insert", "edit", "style", "code", "image", "replace"}

(* Docs takes every plan of these made of the document it is at.             *)
LEMMA TextPlanTaken ==
    ASSUME DocumentInOrder, pc = "planned", named = rev, op.kind \in TextTools \cup {"append"},
           Takes(Outline(doc), op), plan = Planned(doc, Outline(doc), op)
    PROVE  Batch(doc, plan) # Refused
<1>1. doc \in Whole /\ op \in AnyOp
  BY DEF DocumentInOrder
<1>2. Batch(doc, plan) \in Whole
  <2>1. PICK d \in Whole, x \in AnyOp : d = doc /\ x = op
    BY <1>1
  <2>2. Takes(Outline(d), x) /\ plan = Planned(d, Outline(d), x) /\ x.kind \in TextTools \cup {"append"}
    BY <2>1
  <2>3. CASE x.kind = "insert"
    BY <2>1, <2>2, <2>3, InsertPlanTaken
  <2>4. CASE x.kind = "edit"
    BY <2>1, <2>2, <2>4, EditPlanTaken
  <2>5. CASE x.kind = "style"
    BY <2>1, <2>2, <2>5, StylePlanTaken
  <2>6. CASE x.kind = "code"
    BY <2>1, <2>2, <2>6, CodePlanTaken
  <2>7. CASE x.kind = "image"
    BY <2>1, <2>2, <2>7, ImagePlanTaken
  <2>8. CASE x.kind = "append"
    <3>1. x.text \in Text
      BY <2>8, OpFields
    <3>. QED  BY <2>1, <2>2, <2>8, <3>1, AppendPlanTaken
  <2>9. CASE x.kind = "replace"
    <3>1. x.find # <<>> /\ plan = <<ReplaceText(x.find, x.replace)>>
      BY <2>2, <2>9 DEF Takes, Planned
    <3>. QED  BY <2>1, <2>9, <3>1, ReplacePlanTaken
  <2>. QED  BY <2>2, <2>3, <2>4, <2>5, <2>6, <2>7, <2>8, <2>9 DEF TextTools
<1>. QED  BY <1>2, WholeHas DEF Refused, Whole

(* A plan for the revision the document is at is the one this document gives, *)
(* and a replacement is the same whatever the document.                      *)
PlanStands ==
    /\ pc \in {"checked", "planned"} /\ named = rev =>
          Takes(Outline(doc), op) /\ plan = Planned(doc, Outline(doc), op)
    /\ pc \in {"checked", "planned"} /\ op.kind = "replace" =>
          op.find # <<>> /\ plan = <<ReplaceText(op.find, op.replace)>>
    /\ pc = "rejected" => op.kind \notin TextTools /\ (op.kind = "append" => named # rev)

LEMMA StandsInit == Init => PlanStands
BY DEF Init, PlanStands

LEMMA StandsRefused ==
    ASSUME DocumentInOrder, PlanStands, WriteRefused
    PROVE  PlanStands'
<1>1. pc = "planned" /\ UNCHANGED <<doc, rev, op, named, plan>> /\ pc' \in {"stale", "rejected"}
  BY DEF WriteRefused, Answered
<1>2. ASSUME pc' = "rejected" PROVE op.kind \notin TextTools /\ (op.kind = "append" => named # rev)
  <2>1. Batch(doc, plan) = Refused /\ (op.kind \notin {"append", "replace"} => named = rev)
    BY <1>2 DEF WriteRefused, Answered, Current, Guarded
  <2>2. CASE named = rev
    BY <1>1, <2>1, <2>2, TextPlanTaken DEF PlanStands
  <2>3. CASE named # rev
    <3>1. op.kind # "replace"
      <4>. SUFFICES ASSUME op.kind = "replace" PROVE FALSE
        OBVIOUS
      <4>1. op.find # <<>> /\ plan = <<ReplaceText(op.find, op.replace)>>
        BY <1>1 DEF PlanStands
      <4>2. PICK d \in Whole, x \in AnyOp : d = doc /\ x = op
        BY <1>1 DEF DocumentInOrder
      <4>3. Batch(d, <<ReplaceText(x.find, x.replace)>>) \in Whole
        BY <4>1, <4>2, ReplacePlanTaken
      <4>. QED  BY <2>1, <4>1, <4>2, <4>3, WholeHas DEF Refused, Whole
    <3>. QED  BY <2>1, <2>3, <3>1 DEF TextTools
  <2>. QED  BY <2>2, <2>3
<1>. QED  BY <1>1, <1>2 DEF PlanStands

LEMMA StandsStep ==
    ASSUME DocumentInOrder, PlanStands, [Next]_vars
    PROVE  PlanStands'
<1>1. CASE Ask
  BY <1>1 DEF PlanStands, Ask
<1>2. CASE Preview \/ Refuse
  BY <1>2 DEF PlanStands, Preview, Refuse
<1>3. CASE Plan
  <2>1. /\ Takes(Outline(doc), op) /\ plan' = Planned(doc, Outline(doc), op)
        /\ pc' \in {"checked", "planned"} /\ UNCHANGED <<doc, rev, op, named>>
    BY <1>3 DEF Plan, Writable
  <2>2. op.kind = "replace" => op.find # <<>> /\ plan' = <<ReplaceText(op.find, op.replace)>>
    BY <2>1 DEF Takes, Planned
  <2>3. (Takes(Outline(doc), op))' /\ plan' = (Planned(doc, Outline(doc), op))'
    BY <2>1
  <2>. QED  BY <2>1, <2>2, <2>3 DEF PlanStands
<1>4. CASE Hold
  BY <1>4 DEF PlanStands, Hold
<1>5. CASE Expire
  BY <1>5 DEF PlanStands, Expire
<1>6. CASE Write \/ Fill
  <2>1. pc' \in {"failed", "made", "done", "half"}
    BY <1>6 DEF Write, Fill, Applied
  <2>. QED  BY <2>1 DEF PlanStands
<1>7. CASE WriteRefused
  BY <1>7, StandsRefused
<1>8. CASE FindTable \/ FindLine
  <2>1. pc' \in {"done", "filling"}
    BY <1>8, FindingFills
  <2>. QED  BY <2>1 DEF PlanStands
<1>9. CASE LeftEmpty \/ FillRefused
  <2>1. pc' = "half"
    BY <1>9 DEF LeftEmpty, FillRefused, Answered
  <2>. QED  BY <2>1 DEF PlanStands
<1>10. CASE Others
  <2>1. rev' = rev + 1 /\ UNCHANGED <<pc, op, named, plan>> /\ pc \notin Answers
    BY <1>10 DEF Others
  <2>2. named' # rev'
    BY <2>1 DEF DocumentInOrder
  <2>. QED  BY <2>1, <2>2 DEF PlanStands, Answers
<1>11. CASE UNCHANGED vars
  BY <1>11 DEF PlanStands, vars
<1>. QED  BY <1>1, <1>2, <1>3, <1>4, <1>5, <1>6, <1>7, <1>8, <1>9, <1>10, <1>11, Steps

(* The indexes src/google/docs.rs computes for an insert, an edit, a style, a  *)
(* listing, a picture and a replacement are ones Docs takes, whatever the      *)
(* document and whatever others write, and so is the end of the body for an    *)
(* append that nobody overtook: of DocsTakesEveryPlan, the part about these.   *)
THEOREM TextPlansAreTaken ==
    Spec => [](pc = "rejected" => op.kind \notin TextTools /\ (op.kind = "append" => named # rev))
<1>1. DocumentInOrder /\ CallInOrder /\ [Next]_vars => DocumentInOrder'
  BY DocumentStep
<1>2. DocumentInOrder /\ PlanStands /\ [Next]_vars => PlanStands'
  BY StandsStep
<1>3. PlanStands => (pc = "rejected" => op.kind \notin TextTools /\ (op.kind = "append" => named # rev))
  BY DEF PlanStands
<1>. QED  BY DocumentInit, StandsInit, <1>1, <1>2, <1>3, BatchesAreCounted, PTL DEF Spec
=============================================================================
