----------------------------- MODULE LinksProofs -----------------------------
(***************************************************************************)
(* What holds of Links for any number of links, connections, tool calls and  *)
(* downloads, whatever the life of a link and the number of its uses:        *)
(* the types, that uses add up, that no link outlives its connection, and    *)
(* that the links table implements Capability.                              *)
(***************************************************************************)
EXTENDS Links, TLAPS

Drafting(p) == pc[p] \in {"hold", "sweep", "insert"}

(* A call about to mint has an id nobody minted, and it alone has it.       *)
Drafted ==
    \A p \in Calls : Drafting(p) =>
        /\ job[p].id \in Ids /\ job[p].conn \in Conns /\ job[p].kind \in Kinds
        /\ born[job[p].id] = None

Apart ==
    \A p, q \in Calls :
        p # q /\ Drafting(p) /\ Drafting(q) => job[p].id # job[q].id

(* The table and the history agree on what was minted.                      *)
Minted ==
    \A i \in Ids : /\ links[i] # None => born[i] # None
                   /\ born[i] = None => spent[i] = 0

Drafts == Drafted /\ Apart
Table == Minted /\ UsesAddUp /\ NoLinkOutlivesConnection

(* The inductive invariant.                                                 *)
Keeping == TypeOK /\ Drafts /\ Table

Messages == {"tool_call", "link_created", "link_used", "link_refused"}

-----------------------------------------------------------------------------
(* What the parts of an action do.                                          *)

LEMMA GotoTyped ==
    ASSUME TypeOK, NEW p \in Procs, NEW from, NEW to \in States, NEW what \in Job,
           Goto(p, from, to, what)
    PROVE  pc' \in [Procs -> States] /\ job' \in [Procs -> Job]
BY DEF TypeOK, Goto

LEMMA NoJobTyped == NoJob \in Job
BY DEF NoJob, Job

LEMMA RecordTyped ==
    ASSUME TypeOK, NEW kind \in Messages, NEW c, Record(kind, c)
    PROVE  unlogged' \subseteq Messages
BY DEF TypeOK, Record, Messages

LEMMA UnexpiredTyped ==
    ASSUME TypeOK, NEW t
    PROVE  Unexpired(t) \in [Ids -> Link \cup {None}]
BY DEF TypeOK, Unexpired

(* A request that drafts nothing after its step disturbs no draft.          *)
LEMMA LeavesDrafts ==
    ASSUME TypeOK, Drafts, NEW p \in Procs, NEW from, NEW to, NEW what,
           Goto(p, from, to, what), UNCHANGED born,
           to \notin {"hold", "sweep", "insert"}
    PROVE  Drafts'
<1>1. \A q \in Calls : Drafting(q)' => Drafting(q) /\ job'[q] = job[q]
  BY DEF TypeOK, Goto, Drafting, Procs
<1> QED BY <1>1 DEF Drafts, Drafted, Apart

(* Nor does one that goes on with its own.                                  *)
LEMMA KeepsDraft ==
    ASSUME TypeOK, Drafts, NEW p \in Calls, NEW from, NEW to, NEW what \in Job,
           Goto(p, from, to, what), UNCHANGED born, Drafting(p),
           what.id = job[p].id, what.conn = job[p].conn, what.kind = job[p].kind
    PROVE  Drafts'
<1>1. \A q \in Calls : Drafting(q)' =>
         /\ Drafting(q) /\ job'[q].id = job[q].id
         /\ job'[q].conn = job[q].conn /\ job'[q].kind = job[q].kind
  BY DEF TypeOK, Goto, Drafting, Procs
<1> QED BY <1>1 DEF Drafts, Drafted, Apart

(* Rows that only go away, of links minted or not.                          *)
LEMMA RowsGo ==
    ASSUME Table, UNCHANGED <<born, spent, conns>>,
           \A i \in Ids : links'[i] \in {links[i], None}
    PROVE  Table'
BY DEF Table, Minted, UsesAddUp, NoLinkOutlivesConnection

LEMMA UnexpiredGo ==
    ASSUME NEW t, NEW i \in Ids
    PROVE  Unexpired(t)[i] \in {links[i], None}
BY DEF Unexpired

-----------------------------------------------------------------------------
(* Every action keeps the invariant.                                        *)

LEMMA CallKeeps ==
    ASSUME Keeping, NEW p \in Calls, Call(p)
    PROVE  Keeping'
<1> USE DEF Keeping
<1>0. p \in Procs
  BY DEF Procs
<1>1. job[p] \in Job
  BY <1>0 DEF TypeOK
<1>2. ASSUME NEW c \in Conns, NEW i \in Ids, NEW kind \in Kinds, StartCall(p, c, i, kind)
      PROVE  Keeping'
  <2> DEFINE to == IF kind = "upload" THEN "hold" ELSE "sweep"
             what == [NoJob EXCEPT !.id = i, !.conn = c, !.kind = kind]
  <2>1. what \in Job /\ what.id = i /\ what.conn = c /\ what.kind = kind
    BY DEF NoJob, Job
  <2>2. to \in States
    BY DEF States
  <2>3. Goto(p, "idle", to, what) /\ Undrawn(i) /\ UNCHANGED <<now, conns, links, held, history>>
    BY <1>2 DEF StartCall
  <2> HIDE DEF to, what
  <2>4. pc' \in [Procs -> States] /\ job' \in [Procs -> Job]
    BY <1>0, <2>1, <2>2, <2>3, GotoTyped
  <2>5. job'[p] = what /\ \A q \in Calls : q # p => pc'[q] = pc[q] /\ job'[q] = job[q]
    BY <1>0, <2>3 DEF Goto, TypeOK, Procs
  <2>6. Drafted'
    BY <2>1, <2>3, <2>5 DEF Drafts, Drafted, Drafting, Undrawn, history
  <2>7. Apart'
    BY <2>1, <2>3, <2>5 DEF Drafts, Apart, Drafting, Undrawn, Procs
  <2>8. Table'
    BY <2>3, RowsGo DEF history
  <2>9. TypeOK'
    BY <2>3, <2>4 DEF TypeOK, history
  <2> QED BY <2>6, <2>7, <2>8, <2>9 DEF Drafts
<1>3. CASE Hold(p)
  <2>1. pc' \in [Procs -> States] /\ job' \in [Procs -> Job]
    BY <1>0, <1>1, <1>3, GotoTyped DEF Hold, States
  <2>2. now + Ttl \in Nat
    BY ConstantsAssumption DEF TypeOK
  <2>3. Drafts'
    BY <1>1, <1>3, KeepsDraft DEF Hold, Goto, Drafting, history
  <2>4. Table'
    BY <1>3, RowsGo DEF Hold, history
  <2>5. TypeOK'
    BY <1>3, <2>1, <2>2 DEF Hold, TypeOK, history
  <2> QED BY <2>3, <2>4, <2>5
<1>4. CASE NoLink(p)
  <2>1. pc' \in [Procs -> States] /\ job' \in [Procs -> Job]
    BY <1>0, <1>1, <1>4, GotoTyped DEF NoLink, States
  <2>2. Drafts'
    BY <1>0, <1>4, LeavesDrafts DEF NoLink, Keeping, history
  <2>3. Table'
    BY <1>4, RowsGo DEF NoLink, Keeping, history
  <2>4. TypeOK'
    BY <1>4, <2>1 DEF NoLink, TypeOK, history
  <2> QED BY <2>2, <2>3, <2>4 DEF Keeping
<1>5. CASE Sweep(p)
  <2> DEFINE what == [job[p] EXCEPT !.at = now]
  <2>1. what \in Job /\ what.id = job[p].id /\ what.conn = job[p].conn /\ what.kind = job[p].kind
    BY <1>1, ConstantsAssumption DEF TypeOK, Job
  <2>2. /\ Goto(p, "sweep", "insert", what)
        /\ links' = Unexpired(now) \/ UNCHANGED links
        /\ UNCHANGED <<now, conns, held, history>>
    BY <1>5 DEF Sweep
  <2> HIDE DEF what
  <2>3. pc' \in [Procs -> States] /\ job' \in [Procs -> Job]
    BY <1>0, <2>1, <2>2, GotoTyped DEF States
  <2>4. Drafts'
    BY <2>1, <2>2, KeepsDraft DEF Goto, Drafting, history
  <2>5. Table'
    BY <2>2, RowsGo, UnexpiredGo DEF history
  <2>6. TypeOK'
    BY <2>2, <2>3, UnexpiredTyped DEF TypeOK, history
  <2> QED BY <2>4, <2>5, <2>6
<1>6. CASE Insert(p)
  <2> DEFINE i == job[p].id
             until == job[p].at + Ttl
             row == [conn |-> job[p].conn, kind |-> job[p].kind,
                     expires |-> until, uses |-> Uses]
             birth == [conn |-> job[p].conn, expires |-> until]
  <2>1. /\ Goto(p, "insert", "created", job[p]) /\ job[p].conn \in conns
        /\ links' = [links EXCEPT ![i] = row] /\ born' = [born EXCEPT ![i] = birth]
        /\ UNCHANGED <<now, conns, held, spent, unlogged>>
    BY <1>6 DEF Insert, MayRefer
  <2>2. i \in Ids /\ born[i] = None /\ job[p].conn \in Conns /\ job[p].kind \in Kinds
    BY <2>1 DEF Goto, Drafts, Drafted, Drafting
  <2>3. until \in Nat /\ Uses \in 0..Uses
    BY <1>1, ConstantsAssumption DEF Job
  <2>4. birth \in [conn : Conns, expires : Nat] /\ birth # None
    BY <2>2, <2>3, ConstantsAssumption
  <2>5. row \in Link /\ row.uses = Uses /\ row.conn = job[p].conn
    BY <2>2, <2>3 DEF Link
  <2> HIDE DEF row, birth, until
  <2>6. pc' \in [Procs -> States] /\ job' \in [Procs -> Job]
    BY <1>0, <1>1, <2>1, GotoTyped DEF States
  <2>7. /\ links'[i] = row /\ born'[i] = birth
        /\ \A k \in Ids : k # i => links'[k] = links[k] /\ born'[k] = born[k]
    BY <2>1, <2>2 DEF TypeOK
  <2>8. \A q \in Calls : Drafting(q)' => Drafting(q) /\ job'[q] = job[q] /\ q # p
    BY <1>0, <2>1 DEF TypeOK, Goto, Drafting, Procs
  <2>9. Drafting(p)
    BY <2>1 DEF Goto, Drafting
  <2>10. Drafts'
    BY <2>7, <2>8, <2>9 DEF Drafts, Drafted, Apart
  <2>11. Minted' /\ NoLinkOutlivesConnection'
    BY <2>1, <2>2, <2>4, <2>5, <2>7 DEF Table, Minted, NoLinkOutlivesConnection
  <2>12. UsesAddUp'
    BY <2>1, <2>2, <2>5, <2>7, ConstantsAssumption DEF Table, Minted, UsesAddUp
  <2>13. TypeOK'
    BY <2>1, <2>4, <2>5, <2>6 DEF TypeOK
  <2> QED BY <2>10, <2>11, <2>12, <2>13 DEF Table
<1>7. CASE InsertFails(p)
  <2>1. pc' \in [Procs -> States] /\ job' \in [Procs -> Job]
    BY <1>0, <1>1, <1>7, GotoTyped DEF InsertFails, States
  <2>2. Drafts'
    BY <1>0, <1>7, LeavesDrafts DEF InsertFails, Keeping, history
  <2>3. Table'
    BY <1>7, RowsGo DEF InsertFails, Keeping, history
  <2>4. TypeOK'
    BY <1>7, <2>1 DEF InsertFails, TypeOK, history
  <2> QED BY <2>2, <2>3, <2>4 DEF Keeping
<1>8. CASE LogCreated(p)
  <2>1. pc' \in [Procs -> States] /\ job' \in [Procs -> Job]
    BY <1>0, <1>1, <1>8, GotoTyped DEF LogCreated, States
  <2>2. Drafts'
    BY <1>0, <1>8, LeavesDrafts DEF LogCreated, Keeping, history
  <2>3. Table'
    BY <1>8, RowsGo DEF LogCreated, Keeping, history
  <2>4. TypeOK'
    BY <1>8, <2>1, RecordTyped DEF LogCreated, TypeOK, Messages
  <2> QED BY <2>2, <2>3, <2>4 DEF Keeping
<1>9. CASE LogCall(p)
  <2>1. pc' \in [Procs -> States] /\ job' \in [Procs -> Job]
    BY <1>0, NoJobTyped, <1>9, GotoTyped DEF LogCall, States
  <2>2. Drafts'
    BY <1>0, <1>9, LeavesDrafts DEF LogCall, Keeping, history
  <2>3. Table'
    BY <1>9, RowsGo DEF LogCall, Keeping, history
  <2>4. TypeOK'
    BY <1>9, <2>1, RecordTyped DEF LogCall, TypeOK, Messages
  <2> QED BY <2>2, <2>3, <2>4 DEF Keeping
<1> QED BY <1>2, <1>3, <1>4, <1>5, <1>6, <1>7, <1>8, <1>9 DEF Call

LEMMA HitKeeps ==
    ASSUME Keeping, NEW p \in Hits, Hit(p)
    PROVE  Keeping'
<1> USE DEF Keeping
<1>0. p \in Procs
  BY DEF Procs
<1>1. job[p] \in Job
  BY <1>0 DEF TypeOK
<1>2. ASSUME NEW i \in Ids \cup {None}, StartHit(p, i)
      PROVE  Keeping'
  <2>1. [NoJob EXCEPT !.id = i, !.at = now] \in Job
    <3>1. now \in Nat
      BY ConstantsAssumption DEF TypeOK
    <3> QED BY <3>1 DEF NoJob, Job
  <2>2. pc' \in [Procs -> States] /\ job' \in [Procs -> Job]
    BY <1>0, <1>2, <2>1, GotoTyped DEF StartHit, States
  <2>3. Drafts'
    BY <1>0, <1>2, LeavesDrafts DEF StartHit, history
  <2>4. Table'
    BY <1>2, RowsGo DEF StartHit, history
  <2>5. TypeOK'
    BY <1>2, <2>2 DEF StartHit, TypeOK, history
  <2> QED BY <2>3, <2>4, <2>5
<1>3. CASE Take(p)
  <2> DEFINE i == job[p].id
             what == [job[p] EXCEPT !.conn = links[i].conn, !.kind = links[i].kind]
  <2>1. /\ i # None /\ links[i] # None /\ links[i].uses > 0
        /\ Goto(p, "take", "stream", what)
        /\ links' = [links EXCEPT ![i].uses = @ - 1]
        /\ spent' = [spent EXCEPT ![i] = @ + 1]
        /\ UNCHANGED <<now, conns, held, born, unlogged>>
    BY <1>3 DEF Take, Takeable
  <2>2. i \in Ids
    BY <1>1, <2>1 DEF Job
  <2>3. links[i] \in Link /\ links[i].uses \in 0..Uses /\ spent[i] \in Nat
    BY <2>1, <2>2 DEF TypeOK, Link
  <2>4. what \in Job
    BY <1>1, <2>3 DEF Job, Link
  <2> HIDE DEF what
  <2>5. pc' \in [Procs -> States] /\ job' \in [Procs -> Job]
    BY <1>0, <2>1, <2>4, GotoTyped DEF States
  <2> DEFINE row == [links[i] EXCEPT !.uses = @ - 1]
  <2>6. row \in Link /\ row.uses = links[i].uses - 1 /\ row.conn = links[i].conn
    BY <2>1, <2>3, ConstantsAssumption DEF Link
  <2>7. /\ links'[i] = row /\ spent'[i] = spent[i] + 1
        /\ \A k \in Ids : k # i => links'[k] = links[k] /\ spent'[k] = spent[k]
    BY <2>1, <2>2 DEF TypeOK
  <2>8. links' \in [Ids -> Link \cup {None}] /\ spent' \in [Ids -> Nat]
    <3>1. links' = [links EXCEPT ![i] = row]
      BY <2>1
    <3> QED BY <2>1, <2>2, <2>3, <2>6, <3>1 DEF TypeOK
  <2> HIDE DEF row
  <2>9. Drafts'
    BY <1>0, <2>1, LeavesDrafts
  <2>10. Minted' /\ NoLinkOutlivesConnection'
    BY <2>1, <2>2, <2>6, <2>7 DEF Table, Minted, NoLinkOutlivesConnection
  <2>11. UsesAddUp'
    <3>1. spent'[i] + row.uses = Uses /\ spent'[i] <= Uses
      BY <2>1, <2>2, <2>3, <2>6, <2>7, ConstantsAssumption DEF Table, UsesAddUp
    <3> QED BY <2>7, <3>1 DEF Table, UsesAddUp
  <2>12. TypeOK'
    BY <2>1, <2>5, <2>8 DEF TypeOK
  <2> QED BY <2>9, <2>10, <2>11, <2>12 DEF Table
<1>4. CASE NotTaken(p)
  <2>1. pc' \in [Procs -> States] /\ job' \in [Procs -> Job]
    BY <1>0, <1>1, <1>4, GotoTyped DEF NotTaken, States
  <2>2. Drafts'
    BY <1>0, <1>4, LeavesDrafts DEF NotTaken, Keeping, history
  <2>3. Table'
    BY <1>4, RowsGo DEF NotTaken, Keeping, history
  <2>4. TypeOK'
    BY <1>4, <2>1 DEF NotTaken, TypeOK, history
  <2> QED BY <2>2, <2>3, <2>4 DEF Keeping
<1>5. CASE LookUp(p)
  <2>1. [job[p] EXCEPT !.why = Why(job[p].id, job[p].at)] \in Job
    BY <1>1 DEF Job, Why, Reasons
  <2>2. pc' \in [Procs -> States] /\ job' \in [Procs -> Job]
    BY <1>0, <1>5, <2>1, GotoTyped DEF LookUp, States
  <2>3. Drafts'
    BY <1>0, <1>5, LeavesDrafts DEF LookUp, history
  <2>4. Table'
    BY <1>5, RowsGo DEF LookUp, history
  <2>5. TypeOK'
    BY <1>5, <2>2 DEF LookUp, TypeOK, history
  <2> QED BY <2>3, <2>4, <2>5
<1>6. CASE FindOwner(p)
  <2> DEFINE i == job[p].id
             known == IF i # None /\ links[i] # None THEN {links[i].conn} ELSE {}
  <2>1. PICK c \in known \cup {None} :
          Goto(p, "refused", "log_refused", [job[p] EXCEPT !.conn = c])
    BY <1>6 DEF FindOwner
  <2>2. c \in Conns \cup {None}
    BY <1>1 DEF Job, TypeOK, Link
  <2> HIDE DEF known
  <2>3. [job[p] EXCEPT !.conn = c] \in Job
    BY <1>1, <2>2 DEF Job
  <2>4. pc' \in [Procs -> States] /\ job' \in [Procs -> Job]
    BY <1>0, <2>1, <2>3, GotoTyped DEF States
  <2>5. UNCHANGED <<now, conns, links, held, history>>
    BY <1>6 DEF FindOwner
  <2>6. Drafts'
    BY <1>0, <2>1, <2>5, LeavesDrafts DEF history
  <2>7. Table'
    BY <2>5, RowsGo DEF history
  <2>8. TypeOK'
    BY <2>4, <2>5 DEF TypeOK, history
  <2> QED BY <2>6, <2>7, <2>8
<1>7. CASE LogRefused(p)
  <2>1. pc' \in [Procs -> States] /\ job' \in [Procs -> Job]
    BY <1>0, NoJobTyped, <1>7, GotoTyped DEF LogRefused, States
  <2>2. Drafts'
    BY <1>0, <1>7, LeavesDrafts DEF LogRefused, Keeping, history
  <2>3. Table'
    BY <1>7, RowsGo DEF LogRefused, Keeping, history
  <2>4. TypeOK'
    BY <1>7, <2>1, RecordTyped DEF LogRefused, TypeOK, Messages
  <2> QED BY <2>2, <2>3, <2>4 DEF Keeping
<1>8. CASE Serve(p)
  <2>1. pc' \in [Procs -> States] /\ job' \in [Procs -> Job]
    BY <1>0, <1>1, <1>8, GotoTyped DEF Serve, States
  <2>2. Drafts'
    BY <1>0, <1>8, LeavesDrafts DEF Serve, Keeping, history
  <2>3. Table'
    BY <1>8, RowsGo DEF Serve, Keeping, history
  <2>4. TypeOK'
    BY <1>8, <2>1 DEF Serve, TypeOK, history
  <2> QED BY <2>2, <2>3, <2>4 DEF Keeping
<1>9. CASE ServeFails(p)
  <2>1. pc' \in [Procs -> States] /\ job' \in [Procs -> Job]
    BY <1>0, <1>1, <1>9, GotoTyped DEF ServeFails, States
  <2>2. Drafts'
    BY <1>0, <1>9, LeavesDrafts DEF ServeFails, Keeping, history
  <2>3. Table'
    BY <1>9, RowsGo DEF ServeFails, Keeping, history
  <2>4. TypeOK'
    BY <1>9, <2>1 DEF ServeFails, TypeOK, history
  <2> QED BY <2>2, <2>3, <2>4 DEF Keeping
<1>10. CASE LogUsed(p)
  <2>1. pc' \in [Procs -> States] /\ job' \in [Procs -> Job]
    BY <1>0, NoJobTyped, <1>10, GotoTyped DEF LogUsed, States
  <2>2. Drafts'
    BY <1>0, <1>10, LeavesDrafts DEF LogUsed, Keeping, history
  <2>3. Table'
    BY <1>10, RowsGo DEF LogUsed, Keeping, history
  <2>4. TypeOK'
    BY <1>10, <2>1, RecordTyped DEF LogUsed, TypeOK, Messages
  <2> QED BY <2>2, <2>3, <2>4 DEF Keeping
<1> QED BY <1>2, <1>3, <1>4, <1>5, <1>6, <1>7, <1>8, <1>9, <1>10 DEF Hit

LEMMA NextKeeps ==
    ASSUME Keeping, [Next]_vars
    PROVE  Keeping'
<1> USE DEF Keeping
<1>1. ASSUME NEW p \in Calls, Call(p) PROVE Keeping'
  BY <1>1, CallKeeps
<1>2. ASSUME NEW p \in Hits, Hit(p) PROVE Keeping'
  BY <1>2, HitKeeps
<1>3. ASSUME NEW p \in Procs, Dropped(p) PROVE Keeping'
  <2>1. pc' \in [Procs -> States] /\ job' \in [Procs -> Job]
    BY <1>3, NoJobTyped, GotoTyped DEF Dropped, States
  <2>2. Drafts'
    BY <1>3, LeavesDrafts DEF Dropped, history
  <2>3. Table'
    BY <1>3, RowsGo DEF Dropped, history
  <2>4. TypeOK'
    BY <1>3, <2>1 DEF Dropped, TypeOK, history
  <2> QED BY <2>2, <2>3, <2>4
<1>4. ASSUME NEW c \in Conns, DeleteConnection(c) PROVE Keeping'
  <2>1. \A i \in Ids : \/ links'[i] = links[i] /\ links[i].conn # c
                      \/ links'[i] = None
    BY <1>4 DEF DeleteConnection, Cascade
  <2>2. Table'
    BY <1>4, <2>1 DEF DeleteConnection, history, Table, Minted, UsesAddUp,
                      NoLinkOutlivesConnection
  <2>3. Drafts'
    BY <1>4 DEF DeleteConnection, history, Drafts, Drafted, Apart, Drafting
  <2>4. TypeOK'
    BY <1>4 DEF DeleteConnection, Cascade, history, TypeOK
  <2> QED BY <2>2, <2>3, <2>4
<1>5. CASE Prune
  <2>1. Table'
    BY <1>5, RowsGo, UnexpiredGo DEF Prune, history
  <2>2. Drafts'
    BY <1>5 DEF Prune, history, Drafts, Drafted, Apart, Drafting
  <2>3. TypeOK'
    BY <1>5, UnexpiredTyped DEF Prune, history, TypeOK
  <2> QED BY <2>1, <2>2, <2>3
<1>6. CASE Tick
  <2>1. Table'
    BY <1>6, RowsGo DEF Tick, history
  <2>2. Drafts'
    BY <1>6 DEF Tick, history, Drafts, Drafted, Apart, Drafting
  <2>3. TypeOK'
    BY <1>6, ConstantsAssumption DEF Tick, history, TypeOK
  <2> QED BY <2>1, <2>2, <2>3
<1>7. CASE Restart
  <2>1. Table'
    BY <1>7, RowsGo DEF Restart, history
  <2>2. Drafts'
    BY <1>7 DEF Restart, history, Drafts, Drafted, Apart, Drafting, Procs
  <2>3. TypeOK'
    BY <1>7, NoJobTyped DEF Restart, history, TypeOK, States
  <2> QED BY <2>1, <2>2, <2>3
<1>8. CASE UNCHANGED vars
  <2>1. Table'
    BY <1>8, RowsGo DEF vars
  <2>2. Drafts'
    BY <1>8 DEF vars, Drafts, Drafted, Apart, Drafting
  <2>3. TypeOK'
    BY <1>8 DEF vars, TypeOK
  <2> QED BY <2>1, <2>2, <2>3
<1> QED BY <1>1, <1>2, <1>3, <1>4, <1>5, <1>6, <1>7, <1>8 DEF Next

LEMMA InitKeeps == Init => Keeping
<1> SUFFICES ASSUME Init PROVE Keeping
  OBVIOUS
<1>1. TypeOK
  BY NoJobTyped, ConstantsAssumption DEF Init, TypeOK, States
<1>2. Drafts
  BY DEF Init, Drafts, Drafted, Apart, Drafting, Procs
<1>3. Table
  BY ConstantsAssumption DEF Init, Table, Minted, UsesAddUp, NoLinkOutlivesConnection
<1> QED BY <1>1, <1>2, <1>3 DEF Keeping

LEMMA KeepingInvariant == Spec => []Keeping
BY InitKeeps, NextKeeps, PTL DEF Spec

-----------------------------------------------------------------------------
(* The results.                                                             *)

(* The table, the requests under way and the log hold what their types say. *)
THEOREM TypeCorrect == Spec => []TypeOK
BY KeepingInvariant, PTL DEF Keeping

(* However many hits race for a link, what take_link has spent of it and what *)
(* its row has left add up to LINK_USES.                                    *)
THEOREM NoUseIsLostOrMade == Spec => []UsesAddUp
<1>1. Keeping => UsesAddUp
  BY DEF Keeping, Table
<1> QED BY <1>1, KeepingInvariant, PTL

(* Deleting a connection leaves no link to it, whatever is minted meanwhile. *)
THEOREM ConnectionsTakeTheirLinks == Spec => []NoLinkOutlivesConnection
<1>1. Keeping => NoLinkOutlivesConnection
  BY DEF Keeping, Table
<1> QED BY <1>1, KeepingInvariant, PTL

-----------------------------------------------------------------------------
(* Links implements Capability, step by step.                               *)

(* A step that only takes rows away ends their capabilities.                *)
LEMMA RowsGoEnd ==
    ASSUME Keeping, UNCHANGED born, \A i \in Ids : links'[i] \in {links[i], None}
    PROVE  Promise!End
<1> DEFINE S == {i \in Ids : links[i] # None /\ links'[i] = None}
<1>1. \A i \in Ids : links[i] # None => links[i].uses \in Nat /\ born[i] # None
  BY ConstantsAssumption DEF Keeping, TypeOK, Link, Table, Minted
<1>2. S \in SUBSET {i \in Ids : UsesLeft[i] # None}
  BY <1>1, ConstantsAssumption DEF UsesLeft
<1>3. UsesLeft' = [i \in Ids |-> IF i \in S THEN 0 ELSE UsesLeft[i]]
  BY <1>1 DEF UsesLeft
<1> QED BY <1>2, <1>3 DEF Promise!End

LEMMA InsertDraws ==
    ASSUME Keeping, NEW p \in Calls, Insert(p)
    PROVE  Promise!Draw(job[p].id)
<1> DEFINE i == job[p].id
<1>1. i \in Ids /\ born[i] = None
  BY DEF Keeping, Drafts, Drafted, Drafting, Insert
<1>2. links[i] = None
  BY <1>1 DEF Keeping, Table, Minted
<1>3. UsesLeft[i] = None
  BY <1>1, <1>2 DEF UsesLeft
<1>4. /\ links'[i] # None /\ links'[i].uses = Uses
      /\ \A k \in Ids : k # i => links'[k] = links[k] /\ born'[k] = born[k]
  <2> DEFINE row == [conn |-> job[p].conn, kind |-> job[p].kind,
                     expires |-> job[p].at + Ttl, uses |-> Uses]
  <2>1. links'[i] = row /\ \A k \in Ids : k # i => links'[k] = links[k] /\ born'[k] = born[k]
    BY <1>1 DEF Insert, Keeping, TypeOK
  <2>2. job[p] \in Job
    BY DEF Keeping, TypeOK, Procs
  <2>3. row \in [conn : Conns, kind : {"google", "upload"}, expires : Nat, uses : 0..Uses]
    <3>1. job[p].conn \in Conns /\ job[p].kind \in Kinds
      BY DEF Keeping, Drafts, Drafted, Drafting, Insert
    <3>2. job[p].at + Ttl \in Nat /\ Uses \in 0..Uses
      BY <2>2, ConstantsAssumption DEF Job
    <3> QED BY <3>1, <3>2 DEF Kinds
  <2> QED BY <2>1, <2>3, ConstantsAssumption
<1>5. \A k \in Ids : UsesLeft'[k] = IF k = i THEN Uses ELSE UsesLeft[k]
  BY <1>4 DEF UsesLeft
<1> HIDE DEF i
<1>6. UsesLeft' = [UsesLeft EXCEPT ![i] = Uses]
  BY <1>1, <1>5 DEF UsesLeft
<1> QED BY <1>3, <1>6 DEF Promise!Draw, i

LEMMA TakeUses ==
    ASSUME Keeping, NEW p \in Hits, Take(p)
    PROVE  job[p].id \in Ids /\ Promise!Use(job[p].id)
<1> DEFINE i == job[p].id
           row == [links[i] EXCEPT !.uses = @ - 1]
<1>1. job[p] \in Job /\ i # None /\ links[i] # None /\ links[i].uses > 0
  BY DEF Take, Takeable, Keeping, TypeOK, Procs
<1>2. i \in Ids
  BY <1>1 DEF Job
<1>3. links[i] \in Link /\ links[i].uses \in 0..Uses
  BY <1>1, <1>2 DEF Keeping, TypeOK, Link
<1>4. row \in Link /\ row.uses = links[i].uses - 1
  BY <1>1, <1>3, ConstantsAssumption DEF Link
<1>5. row # None
  BY <1>4, ConstantsAssumption DEF Link, Kinds
<1>6. links' = [links EXCEPT ![i] = row] /\ born' = born
  BY DEF Take
<1> HIDE DEF row
<1>7. UsesLeft[i] = links[i].uses /\ UsesLeft[i] # None
  BY <1>1, <1>2, <1>3, ConstantsAssumption DEF UsesLeft
<1>8. /\ links'[i] = row
      /\ \A k \in Ids : k # i => links'[k] = links[k]
  BY <1>2, <1>6 DEF Keeping, TypeOK
<1>9. UsesLeft' = [UsesLeft EXCEPT ![i] = @ - 1]
  BY <1>1, <1>2, <1>4, <1>5, <1>6, <1>8 DEF UsesLeft
<1> QED BY <1>1, <1>2, <1>7, <1>9 DEF Promise!Use

LEMMA NextImplements ==
    ASSUME Keeping, [Next]_vars
    PROVE  [Promise!Next]_UsesLeft
<1>1. ASSUME UNCHANGED <<links, born>> PROVE UNCHANGED UsesLeft
  BY <1>1 DEF UsesLeft
<1>2. ASSUME UNCHANGED born, \A i \in Ids : links'[i] \in {links[i], None}
      PROVE  Promise!Next
  BY <1>2, RowsGoEnd DEF Promise!Next
<1>3. ASSUME NEW p \in Calls, Call(p) PROVE [Promise!Next]_UsesLeft
  <2>1. CASE Sweep(p)
    BY <1>2, <2>1, UnexpiredGo DEF Sweep, history
  <2>2. CASE Insert(p)
    <3>1. job[p].id \in Ids
      BY <2>2 DEF Keeping, Drafts, Drafted, Drafting, Insert
    <3> QED BY <2>2, <3>1, InsertDraws DEF Promise!Next
  <2>3. CASE \E c \in Conns, i \in Ids, kind \in Kinds : StartCall(p, c, i, kind)
    BY <1>1, <2>3 DEF StartCall, history
  <2>4. CASE Hold(p) \/ NoLink(p) \/ InsertFails(p) \/ LogCreated(p) \/ LogCall(p)
    BY <1>1, <2>4 DEF Hold, NoLink, InsertFails, LogCreated, LogCall, history
  <2> QED BY <1>3, <2>1, <2>2, <2>3, <2>4 DEF Call
<1>4. ASSUME NEW p \in Hits, Hit(p) PROVE [Promise!Next]_UsesLeft
  <2>1. CASE Take(p)
    BY <2>1, TakeUses DEF Promise!Next
  <2>2. CASE ~Take(p)
    <3>1. UNCHANGED <<links, born>>
      BY <1>4, <2>2 DEF Hit, StartHit, NotTaken, LookUp, FindOwner, LogRefused,
                        Serve, ServeFails, LogUsed, history
    <3> QED BY <1>1, <3>1
  <2> QED BY <2>1, <2>2
<1>5. ASSUME NEW p \in Procs, Dropped(p) PROVE [Promise!Next]_UsesLeft
  BY <1>1, <1>5 DEF Dropped, history
<1>6. ASSUME NEW c \in Conns, DeleteConnection(c) PROVE [Promise!Next]_UsesLeft
  BY <1>2, <1>6 DEF DeleteConnection, Cascade, history
<1>7. CASE Prune
  BY <1>2, <1>7, UnexpiredGo DEF Prune, history
<1>8. CASE Tick \/ Restart
  BY <1>1, <1>8 DEF Tick, Restart, history
<1>9. CASE UNCHANGED vars
  BY <1>1, <1>9 DEF vars
<1> QED BY <1>3, <1>4, <1>5, <1>6, <1>7, <1>8, <1>9 DEF Next

(* The links table with its sweeps, cascades, prunes and racing hits          *)
(* implements Capability: an id is minted once, spent at most LINK_USES       *)
(* times, and never comes back.                                             *)
THEOREM LinksImplementCapability == Spec => LinksAreCapabilities
<1>1. Init => Promise!Init
  BY DEF Init, Promise!Init, UsesLeft
<1>2. Keeping /\ [Next]_vars => [Promise!Next]_UsesLeft
  BY NextImplements
<1> QED BY <1>1, <1>2, KeepingInvariant, PTL DEF Spec, LinksAreCapabilities, Promise!Spec

-----------------------------------------------------------------------------
(* What a refusal is recorded as.                                          *)

(* A link that is no longer there has had its time, or lost its connection. *)
Over(i) == born[i].expires <= now \/ born[i].conn \notin conns

Recorded ==
    \A i \in Ids :
        /\ links[i] # None => /\ born[i].expires = links[i].expires
                              /\ born[i].conn = links[i].conn
        /\ born[i] # None /\ links[i] = None => Over(i)

(* What a download has found out: a use that was not to be had is not to be   *)
(* had later, and the reason stays the reason.                             *)
Asked(p) ==
    LET i == job[p].id IN
    /\ pc[p] \in {"take", "why", "refused"} /\ i # None => i \in Ids /\ born[i] # None
    /\ pc[p] = "why" /\ i # None /\ links[i] # None =>
          links[i].expires <= job[p].at \/ links[i].uses = 0
    /\ pc[p] = "refused" =>
          /\ job[p].why = "exhausted" => i # None /\ spent[i] = Uses
          /\ job[p].why = "expired" => i # None /\ born[i].expires <= job[p].at
          /\ job[p].why = "unknown" => i = None \/ Over(i)
          /\ job[p].why \in Reasons

Refusals == Recorded /\ \A p \in Hits : Asked(p)

(* What one step does to the table.                                        *)
TableMoves ==
    /\ now' >= now /\ conns' \subseteq conns
    /\ \A i \in Ids :
          /\ born[i] # None => born'[i] = born[i]
          /\ spent'[i] = spent[i] \/ (links[i] # None /\ links[i].uses > 0)
          /\ \/ links'[i] = links[i] /\ born'[i] = born[i]
             \/ links[i] # None /\ links'[i] = None /\ born'[i] = born[i]
                  /\ (links[i].expires <= now' \/ links[i].conn \notin conns')
             \/ /\ links[i] # None /\ links[i].uses > 0 /\ born'[i] = born[i]
                /\ links'[i] # None
                /\ links'[i].expires = links[i].expires /\ links'[i].conn = links[i].conn
             \/ /\ born[i] = None /\ links'[i] # None
                /\ born'[i].expires = links'[i].expires /\ born'[i].conn = links'[i].conn

LEMMA StepMovesTable ==
    ASSUME Keeping, [Next]_vars
    PROVE  TableMoves
<1>0. /\ links \in [Ids -> Link \cup {None}] /\ now \in Nat
      /\ born \in [Ids -> [conn : Conns, expires : Nat] \cup {None}] /\ spent \in [Ids -> Nat]
  BY DEF Keeping, TypeOK
<1>1. ASSUME links' = links, UNCHANGED <<now, conns, born, spent>>  PROVE TableMoves
  BY <1>0, <1>1 DEF TableMoves
<1>2. ASSUME links' = Unexpired(now), UNCHANGED <<now, conns, born, spent>>  PROVE TableMoves
  <2>1. \A i \in Ids : links'[i] = links[i] \/ (links'[i] = None /\ links[i] # None /\ ~(links[i].expires > now))
    BY <1>2 DEF Unexpired
  <2>2. \A i \in Ids : links[i] # None => links[i].expires \in Nat
    BY <1>0 DEF Link
  <2>. QED  BY <1>0, <1>2, <2>1, <2>2 DEF TableMoves
<1>3. ASSUME NEW p \in Calls, Call(p)  PROVE TableMoves
  <2>1. CASE Insert(p)
    <3>. DEFINE k == job[p].id
    <3>1. k \in Ids /\ born[k] = None
      BY <2>1 DEF Keeping, Drafts, Drafted, Drafting, Insert
    <3>2. /\ links'[k].expires = born'[k].expires /\ links'[k].conn = born'[k].conn
          /\ \A i \in Ids : i # k => links'[i] = links[i] /\ born'[i] = born[i]
      BY <1>0, <2>1, <3>1 DEF Insert
    <3>3. now' = now /\ conns' = conns /\ spent' = spent
      BY <2>1 DEF Insert
    <3>4. links'[k] # None
      <4>1. job[p].conn \in Conns /\ job[p].kind \in Kinds /\ job[p].at \in Nat
        BY <2>1 DEF Keeping, Drafts, Drafted, Drafting, Insert, TypeOK, Job, Procs
      <4>2. [conn |-> job[p].conn, kind |-> job[p].kind, expires |-> job[p].at + Ttl, uses |-> Uses]
              \in [conn : Conns, kind : {"google", "upload"}, expires : Nat, uses : 0..Uses]
        BY <4>1, ConstantsAssumption DEF Kinds
      <4>. QED  BY <1>0, <2>1, <3>1, <4>2, ConstantsAssumption DEF Insert
    <3>. HIDE DEF k
    <3>. QED  BY <1>0, <3>1, <3>2, <3>3, <3>4 DEF TableMoves
  <2>2. CASE Sweep(p)
    BY <1>1, <1>2, <2>2 DEF Sweep, history
  <2>. QED
    BY <1>1, <1>3, <2>1, <2>2
    DEF Call, StartCall, Hold, NoLink, InsertFails, LogCreated, LogCall, history
<1>4. ASSUME NEW p \in Hits, Hit(p)  PROVE TableMoves
  <2>1. CASE Take(p)
    <3>. DEFINE k == job[p].id
                row == [links[k] EXCEPT !.uses = @ - 1]
    <3>1. k \in Ids /\ links[k] # None /\ links[k].uses > 0
      BY <2>1, TakeUses DEF Take, Takeable
    <3>2. row.expires = links[k].expires /\ row.conn = links[k].conn /\ row # None
      <4>1. row.expires = links[k].expires /\ row.conn = links[k].conn /\ row \in Link
        BY <1>0, <3>1, ConstantsAssumption DEF Link
      <4>. QED  BY <4>1, ConstantsAssumption DEF Link, Kinds
    <3>3. links'[k] = row /\ \A i \in Ids : i # k => links'[i] = links[i] /\ spent'[i] = spent[i]
      BY <1>0, <2>1, <3>1 DEF Take
    <3>4. now' = now /\ conns' = conns /\ born' = born
      BY <2>1 DEF Take
    <3>. HIDE DEF k, row
    <3>. QED  BY <1>0, <3>1, <3>2, <3>3, <3>4 DEF TableMoves
  <2>. QED
    BY <1>1, <1>4, <2>1
    DEF Hit, StartHit, NotTaken, LookUp, FindOwner, LogRefused, Serve, ServeFails, LogUsed, history
<1>5. ASSUME NEW c \in Conns, DeleteConnection(c)  PROVE TableMoves
  <2>1. \A i \in Ids : links'[i] = links[i] \/ (links'[i] = None /\ links[i] # None /\ links[i].conn \notin conns')
    BY <1>5 DEF DeleteConnection, Cascade
  <2>. QED  BY <1>0, <1>5, <2>1 DEF DeleteConnection, history, TableMoves
<1>6. CASE Tick
  BY <1>0, <1>6 DEF Tick, history, TableMoves
<1>. QED
  BY <1>1, <1>2, <1>3, <1>4, <1>5, <1>6 DEF Next, Dropped, Prune, Restart, vars, history

(* The table keeps what is recorded, and what a download that waits has found. *)
LEMMA MovesKeepRecord ==
    ASSUME Keeping, Keeping', Recorded, TableMoves
    PROVE  Recorded'
<1>0. /\ now \in Nat /\ now' \in Nat
      /\ \A i \in Ids : born[i] # None => born[i].expires \in Nat
      /\ \A i \in Ids : links[i] # None => links[i].expires \in Nat /\ born[i] # None
      /\ \A i \in Ids : links'[i] # None => born'[i] # None
  BY DEF Keeping, TypeOK, Link, Table, Minted
<1>1. ASSUME NEW i \in Ids, links'[i] # None
      PROVE  born'[i].expires = links'[i].expires /\ born'[i].conn = links'[i].conn
  BY <1>0, <1>1 DEF TableMoves, Recorded
<1>2. ASSUME NEW i \in Ids, born'[i] # None, links'[i] = None  PROVE Over(i)'
  <2>1. CASE links'[i] = links[i] /\ born'[i] = born[i]
    BY <1>0, <1>2, <2>1 DEF TableMoves, Recorded, Over
  <2>2. CASE links[i] # None /\ links'[i] = None /\ born'[i] = born[i]
               /\ (links[i].expires <= now' \/ links[i].conn \notin conns')
    BY <1>0, <2>2 DEF Recorded, Over
  <2>. QED  BY <1>2, <2>1, <2>2 DEF TableMoves
<1>. QED  BY <1>1, <1>2 DEF Recorded

LEMMA MovesKeepAsked ==
    ASSUME Keeping, Keeping', Recorded, TableMoves, NEW p \in Hits, Asked(p),
           pc'[p] = pc[p], job'[p] = job[p]
    PROVE  Asked(p)'
<1>. DEFINE i == job[p].id
<1>0. /\ now \in Nat /\ now' \in Nat /\ job[p] \in Job /\ Uses \in Nat
      /\ \A k \in Ids : born[k] # None => born[k].expires \in Nat
      /\ \A k \in Ids : links[k] # None => /\ links[k].expires \in Nat /\ links[k].uses \in 0..Uses
                                           /\ born[k] # None
      /\ \A k \in Ids : links'[k] # None => links'[k].uses \in 0..Uses
      /\ \A k \in Ids : spent[k] <= Uses /\ spent[k] \in Nat /\ (links[k] # None => spent[k] + links[k].uses = Uses)
  BY ConstantsAssumption DEF Keeping, TypeOK, Link, Table, Minted, UsesAddUp, Procs
<1>1. SUFFICES ASSUME pc[p] \in {"take", "why", "refused"}  PROVE Asked(p)'
  BY <1>0, ConstantsAssumption DEF Asked
<1>2. CASE i = None
  BY <1>1, <1>2 DEF Asked
<1>3. CASE i # None
  <2>1. i \in Ids /\ born[i] # None /\ born'[i] = born[i]
    BY <1>1, <1>3 DEF Asked, TableMoves
  <2>2. pc[p] = "why" /\ links'[i] # None => links'[i].expires <= job[p].at \/ links'[i].uses = 0
    <3>1. links'[i] # None =>
             \/ links'[i] = links[i]
             \/ links[i] # None /\ links[i].uses > 0 /\ links'[i].expires = links[i].expires
      BY <2>1 DEF TableMoves
    <3>. QED  BY <1>0, <1>3, <2>1, <3>1 DEF Asked
  <2>3. spent[i] = Uses => spent'[i] = Uses
    <3>1. spent'[i] = spent[i] \/ (links[i] # None /\ links[i].uses > 0)
      BY <2>1 DEF TableMoves
    <3>. QED  BY <1>0, <2>1, <3>1
  <2>4. Over(i) => Over(i)'
    BY <1>0, <2>1 DEF TableMoves, Over
  <2>. HIDE DEF i
  <2>5. born'[i] # None
    BY <2>1
  <2>6. pc[p] = "refused" =>
           /\ job[p].why = "exhausted" => i # None /\ spent'[i] = Uses
           /\ job[p].why = "expired" => i # None /\ born'[i].expires <= job[p].at
           /\ job[p].why = "unknown" => i = None \/ Over(i)'
           /\ job[p].why \in Reasons
    BY <1>3, <2>1, <2>3, <2>4 DEF Asked, i
  <2>. QED  BY <1>3, <2>1, <2>2, <2>5, <2>6 DEF Asked, i
<1>. QED  BY <1>2, <1>3

(* A download looks the reason up after it was refused, and the table may have *)
(* moved on: what the second look sees is still why.                         *)
LEMMA HitAsks ==
    ASSUME Keeping, Keeping', Refusals, Recorded', TableMoves, NEW p \in Hits, Hit(p)
    PROVE  Asked(p)'
<1>. DEFINE i == job[p].id
<1>0. /\ p \in Procs /\ Asked(p) /\ Recorded /\ i \in Ids \cup {None}
      /\ pc \in [Procs -> States] /\ job \in [Procs -> Job] /\ Uses \in Nat /\ job[p].at \in Nat
      /\ \A k \in Ids : links[k] # None => /\ links[k].expires \in Nat /\ links[k].uses \in 0..Uses
                                           /\ born[k] # None
      /\ \A k \in Ids : spent[k] \in Nat /\ (links[k] # None => spent[k] + links[k].uses = Uses)
  BY ConstantsAssumption DEF Keeping, TypeOK, Link, Table, Minted, UsesAddUp, Procs, Refusals, Job
<1>1. ASSUME NEW from, NEW to, NEW what, Goto(p, from, to, what)
      PROVE  pc[p] = from /\ pc'[p] = to /\ job'[p] = what
  BY <1>0, <1>1 DEF Goto
<1>2. ASSUME NEW k \in Ids \cup {None}, StartHit(p, k)  PROVE Asked(p)'
  <2>1. [NoJob EXCEPT !.id = k, !.at = now].id = k
    BY DEF NoJob
  <2>2. pc'[p] = "take" /\ job'[p].id = k /\ born' = born /\ (k # None => k \in Ids /\ born[k] # None)
    BY <1>1, <1>2, <2>1 DEF StartHit, history
  <2>. QED  BY <2>2 DEF Asked
<1>3. CASE NotTaken(p)
  <2>1. pc[p] = "take" /\ pc'[p] = "why" /\ job'[p] = job[p] /\ born' = born /\ links' = links
    BY <1>1, <1>3 DEF NotTaken, history
  <2>2. i # None /\ links[i] # None => links[i].expires <= job[p].at \/ links[i].uses = 0
    BY <1>0, <1>3 DEF NotTaken, Takeable
  <2>. QED  BY <1>0, <2>1, <2>2 DEF Asked
<1>4. CASE LookUp(p)
  <2>. DEFINE told == [job[p] EXCEPT !.why = Why(i, job[p].at)]
  <2>1. /\ pc[p] = "why" /\ pc'[p] = "refused" /\ job'[p] = told
        /\ born' = born /\ spent' = spent /\ now' = now /\ conns' = conns
    BY <1>1, <1>4 DEF LookUp, history
  <2>2. told.id = i /\ told.at = job[p].at /\ told.why = Why(i, job[p].at)
    BY <1>0 DEF Job
  <2>3. i # None => i \in Ids /\ born[i] # None
    BY <1>0, <2>1 DEF Asked
  <2>4. CASE i = None \/ links[i] = None
    <3>1. told.why = "unknown" /\ (i = None \/ Over(i))
      BY <1>0, <2>2, <2>3, <2>4 DEF Why, Recorded
    <3>. QED  BY <2>1, <2>2, <2>3, <3>1 DEF Asked, Over, Reasons
  <2>5. CASE i # None /\ links[i] # None /\ links[i].expires <= job[p].at
    <3>1. told.why = "expired" /\ born[i].expires <= job[p].at
      BY <1>0, <2>2, <2>3, <2>5 DEF Why, Recorded
    <3>. QED  BY <2>1, <2>2, <2>3, <2>5, <3>1 DEF Asked, Reasons
  <2>6. CASE i # None /\ links[i] # None /\ ~(links[i].expires <= job[p].at)
    <3>1. told.why = "exhausted" /\ spent[i] = Uses
      BY <1>0, <2>1, <2>2, <2>3, <2>6 DEF Why, Asked
    <3>. QED  BY <2>1, <2>2, <2>3, <2>6, <3>1 DEF Asked, Reasons
  <2>. QED  BY <2>4, <2>5, <2>6
<1>5. ASSUME NEW from, NEW to, NEW what, Goto(p, from, to, what),
             to \notin {"take", "why", "refused"}
      PROVE  Asked(p)'
  BY <1>1, <1>5 DEF Asked
<1>6. CASE LogRefused(p) \/ Serve(p) \/ ServeFails(p) \/ LogUsed(p)
  BY <1>5, <1>6 DEF LogRefused, Serve, ServeFails, LogUsed
<1>7. CASE Take(p)
  <2>1. PICK what : Goto(p, "take", "stream", what)
    BY <1>7 DEF Take
  <2>. QED  BY <1>5, <2>1
<1>8. CASE FindOwner(p)
  <2>1. PICK what : Goto(p, "refused", "log_refused", what)
    BY <1>8 DEF FindOwner
  <2>. QED  BY <1>5, <2>1
<1>. QED  BY <1>2, <1>3, <1>4, <1>6, <1>7, <1>8 DEF Hit

LEMMA RefusalsInit == Init => Refusals
BY DEF Init, Refusals, Recorded, Asked, Procs

LEMMA RefusalsStep == Keeping /\ Keeping' /\ Refusals /\ [Next]_vars => Refusals'
<1>1. SUFFICES ASSUME Keeping, Keeping', Refusals, [Next]_vars  PROVE Refusals'
  OBVIOUS
<1>. USE <1>1
<1>2. TableMoves
  BY StepMovesTable
<1>3. Recorded'
  BY <1>2, MovesKeepRecord DEF Refusals
<1>4. \A p \in Hits : p \in Procs /\ Asked(p)
  BY DEF Refusals, Procs
<1>5. ASSUME NEW p \in Hits, (pc'[p] = pc[p] /\ job'[p] = job[p]) \/ pc'[p] = "idle"  PROVE Asked(p)'
  BY <1>2, <1>4, <1>5, MovesKeepAsked DEF Refusals, Asked
<1>6. ASSUME NEW q \in Procs, NEW from, NEW to, NEW what, Goto(q, from, to, what), NEW p \in Hits \ {q}
      PROVE  pc'[p] = pc[p] /\ job'[p] = job[p]
  BY <1>4, <1>6 DEF Keeping, TypeOK, Goto
<1>7. ASSUME NEW q \in Calls, Call(q), NEW p \in Hits  PROVE pc'[p] = pc[p] /\ job'[p] = job[p]
  <2>1. q \in Procs /\ p \in Hits \ {q}
    BY ConstantsAssumption DEF Procs
  <2>2. ASSUME NEW c \in Conns, NEW i \in Ids, NEW kind \in Kinds, StartCall(q, c, i, kind)
        PROVE  pc'[p] = pc[p] /\ job'[p] = job[p]
    BY <1>6, <2>1, <2>2 DEF StartCall
  <2>3. CASE Hold(q) \/ NoLink(q) \/ Sweep(q) \/ Insert(q) \/ InsertFails(q) \/ LogCreated(q) \/ LogCall(q)
    BY <1>6, <2>1, <2>3 DEF Hold, NoLink, Sweep, Insert, InsertFails, LogCreated, LogCall
  <2>. QED  BY <1>7, <2>2, <2>3 DEF Call
<1>8. ASSUME NEW q \in Hits, Hit(q), NEW p \in Hits \ {q}  PROVE pc'[p] = pc[p] /\ job'[p] = job[p]
  <2>1. q \in Procs
    BY DEF Procs
  <2>2. ASSUME NEW i \in Ids \cup {None}, StartHit(q, i)  PROVE pc'[p] = pc[p] /\ job'[p] = job[p]
    BY <1>6, <2>1, <2>2 DEF StartHit
  <2>3. CASE Take(q) \/ NotTaken(q) \/ LookUp(q)
    BY <1>6, <2>1, <2>3 DEF Take, NotTaken, LookUp
  <2>4. CASE FindOwner(q)
    <3>1. PICK what : Goto(q, "refused", "log_refused", what)
      BY <2>4 DEF FindOwner
    <3>. QED  BY <1>6, <2>1, <3>1
  <2>5. CASE LogRefused(q) \/ Serve(q) \/ ServeFails(q) \/ LogUsed(q)
    BY <1>6, <2>1, <2>5 DEF LogRefused, Serve, ServeFails, LogUsed
  <2>. QED  BY <1>8, <2>2, <2>3, <2>4, <2>5 DEF Hit
<1>9. ASSUME NEW q \in Procs, Dropped(q), NEW p \in Hits
      PROVE  (pc'[p] = pc[p] /\ job'[p] = job[p]) \/ pc'[p] = "idle"
  BY <1>4, <1>6, <1>9 DEF Dropped, Goto, Keeping, TypeOK
<1>10. ASSUME Restart, NEW p \in Hits  PROVE pc'[p] = "idle"
  BY <1>4, <1>10 DEF Restart
<1>11. ASSUME (\E c \in Conns : DeleteConnection(c)) \/ Prune \/ Tick \/ UNCHANGED vars, NEW p \in Hits
       PROVE  pc'[p] = pc[p] /\ job'[p] = job[p]
  BY <1>11 DEF DeleteConnection, Prune, Tick, vars
<1>12. ASSUME NEW p \in Hits  PROVE Asked(p)'
  <2>1. CASE Hit(p)
    BY <1>2, <1>3, <2>1, HitAsks
  <2>2. CASE ~Hit(p)
    BY <1>5, <1>7, <1>8, <1>9, <1>10, <1>11, <2>2 DEF Next
  <2>. QED  BY <2>1, <2>2
<1>. QED  BY <1>3, <1>12 DEF Refusals

(* The reason refused() in src/http/links.rs logs is the true one, although it *)
(* reads the row a second time, after take_link has said no: however the table *)
(* has moved meanwhile.                                                     *)
THEOREM RefusalsAreTrue == Spec => []RefusalIsTrue
<1>1. Keeping /\ Refusals => RefusalIsTrue
  <2>1. SUFFICES ASSUME Keeping, Refusals, NEW p \in Hits, pc[p] = "refused"
                 PROVE  LET i == job[p].id IN
                        CASE job[p].why = "exhausted" -> spent[i] = Uses
                          [] job[p].why = "expired" -> born[i].expires <= job[p].at
                          [] OTHER -> i # None => born[i].expires <= now \/ born[i].conn \notin conns
    BY DEF RefusalIsTrue
  <2>2. Asked(p)
    BY <2>1 DEF Refusals
  <2>. QED  BY <2>1, <2>2 DEF Asked, Over, Reasons
<1>. QED  BY <1>1, InitKeeps, NextKeeps, RefusalsInit, RefusalsStep, PTL DEF Spec

=============================================================================
