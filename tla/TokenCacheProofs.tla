--------------------------- MODULE TokenCacheProofs ---------------------------
(***************************************************************************)
(* What holds of TokenCache for any number of connections, calls, handlers   *)
(* and grants: the types; that no call is sent with a token older than what   *)
(* the cache was cleared to when it asked; that a retry presents another      *)
(* token; that callers who arrive together make one request; and that no call *)
(* goes out with a token whose hour is over.                                *)
(***************************************************************************)
EXTENDS TokenCache, FiniteSetTheorems, SequenceTheorems, TLAPS

States == {"idle"} \cup CallStates \cup HandlerStates

(* Where a call has a slot, and where it works on it.                       *)
AtSlot == {"lock", "sealed", "post", "answered", "mark"}
Working == AtSlot \ {"lock"}

(* What a request carries by the time a step needs it.                      *)
CallCarries(at, carried) ==
    /\ at \in {"idle"} \cup CallStates
    /\ at # "idle" => carried.conn \in Conns
    /\ IF at \in AtSlot THEN carried.arc \in Arcs ELSE carried.arc = None
    /\ at \in {"post", "answered", "mark"} => carried.grant \in Grants
    /\ at \in {"answered", "send"} => carried.token \in Token

HandlerCarries(at, carried) ==
    /\ at \in {"idle"} \cup HandlerStates
    /\ at \in {"known", "granted", "revoke", "forget", "delete"} => carried.conn \in Conns
    /\ at \in {"exchanged", "known", "granted", "revoke"} => carried.grant \in Grants
    /\ carried.arc = None

CallTyped(p) == CallCarries(pc[p], job[p])
HandlerTyped(h) == HandlerCarries(pc[h], job[h])

RequestsTyped == (\A p \in Calls : CallTyped(p)) /\ (\A h \in Handlers : HandlerTyped(h))

Typed == TypeOK /\ RequestsTyped

-----------------------------------------------------------------------------
(* Queues.                                                                 *)

(* Some place in a queue comes before the others.                           *)
LEMMA FirstPlace ==
    ASSUME NEW I \in SUBSET Nat, I # {}
    PROVE  Min(I) \in I
<1>. DEFINE less == OpToRel(<, Nat)
<1>1. IsWellFoundedOn(less, Nat)
  BY NatLessThanWellFounded
<1>2. \E m \in I : \A i \in I : <<i, m>> \notin less
  <2>. HIDE DEF less
  <2>. QED  BY <1>1, WFMin, Zenon
<1>3. PICK m \in I : \A i \in I : <<i, m>> \notin less
  BY <1>2
<1>4. \A i \in I : m <= i
  <2>1. \A i \in I : ~(i < m)
    BY <1>3, Zenon DEF OpToRel
  <2>. QED  BY <2>1
<1>. QED  BY <1>4 DEF Min

(* What leaves a queue leaves one place, and those behind move up.           *)
LEMMA RemovingPlace ==
    ASSUME NEW S, NEW seq \in Seq(S), NEW e
    PROVE  \/ RemoveFirst(seq, e) = seq /\ \A i \in 1 .. Len(seq) : seq[i] # e
           \/ \E m \in 1 .. Len(seq) :
                 /\ seq[m] = e /\ RemoveFirst(seq, e) \in Seq(S)
                 /\ Len(RemoveFirst(seq, e)) = Len(seq) - 1
                 /\ \A i \in 1 .. m - 1 : RemoveFirst(seq, e)[i] = seq[i]
                 /\ \A i \in m + 1 .. Len(seq) : RemoveFirst(seq, e)[i - 1] = seq[i]
<1>. DEFINE I == {i \in 1 .. Len(seq) : seq[i] = e}
<1>1. CASE I = {}
  <2>1. RemoveFirst(seq, e) = seq
    BY <1>1 DEF RemoveFirst
  <2>. QED  BY <1>1, <2>1
<1>2. CASE I # {}
  <2>. DEFINE m == Min(I)
              rest == SubSeq(seq, 1, m - 1) \o SubSeq(seq, m + 1, Len(seq))
  <2>1. m \in I
    <3>1. I \in SUBSET Nat
      OBVIOUS
    <3>. HIDE DEF I
    <3>. QED  BY <1>2, <3>1, FirstPlace
  <2>2. RemoveFirst(seq, e) = rest
    BY <1>2 DEF RemoveFirst, RemoveAt, SelectInSeq
  <2>. HIDE DEF m
  <2>3. m \in 1 .. Len(seq) /\ seq[m] = e
    BY <2>1
  <2>4. /\ rest \in Seq(S) /\ Len(rest) = Len(seq) - 1
        /\ \A i \in 1 .. m - 1 : rest[i] = seq[i]
        /\ \A i \in m + 1 .. Len(seq) : rest[i - 1] = seq[i]
    <3>. DEFINE before == SubSeq(seq, 1, m - 1)
                after == SubSeq(seq, m + 1, Len(seq))
    <3>1. /\ before \in Seq(S) /\ Len(before) = m - 1
          /\ \A i \in 1 .. m - 1 : before[i] = seq[i]
      BY <2>3
    <3>2. /\ after \in Seq(S) /\ Len(after) = Len(seq) - m
          /\ \A i \in 1 .. Len(seq) - m : after[i] = seq[m + i]
      BY <2>3, SubSeqProperties
    <3>. HIDE DEF before, after
    <3>3. /\ before \o after \in Seq(S) /\ Len(before \o after) = Len(before) + Len(after)
          /\ \A i \in 1 .. Len(before) + Len(after) :
                (before \o after)[i] = IF i <= Len(before) THEN before[i] ELSE after[i - Len(before)]
      BY <3>1, <3>2, ConcatProperties
    <3>4. ASSUME NEW i \in m + 1 .. Len(seq)  PROVE (before \o after)[i - 1] = seq[i]
      <4>1. i - m \in 1 .. Len(seq) - m /\ m + (i - m) = i /\ (i - 1) - (m - 1) = i - m
        BY <2>3
      <4>2. after[i - m] = seq[i]
        BY <3>2, <4>1
      <4>3. (before \o after)[i - 1] = after[(i - 1) - (m - 1)]
        BY <2>3, <3>1, <3>2, <3>3
      <4>. QED  BY <4>1, <4>2, <4>3
    <3>5. \A i \in 1 .. m - 1 : (before \o after)[i] = seq[i]
      BY <2>3, <3>1, <3>2, <3>3
    <3>6. Len(before \o after) = Len(seq) - 1
      BY <2>3, <3>1, <3>2, <3>3
    <3>. QED  BY <3>3, <3>4, <3>5, <3>6 DEF before, after
  <2>. HIDE DEF rest
  <2>. QED  BY <2>2, <2>3, <2>4
<1>. QED  BY <1>1, <1>2

LEMMA RemovingFirst ==
    ASSUME NEW S, NEW seq \in Seq(S), NEW e
    PROVE  /\ RemoveFirst(seq, e) \in Seq(S)
           /\ \A f : f # e /\ f \in Range(seq) => f \in Range(RemoveFirst(seq, e))
           /\ seq # <<>> /\ Head(seq) # e =>
                 RemoveFirst(seq, e) # <<>> /\ Head(RemoveFirst(seq, e)) = Head(seq)
<1>1. PICK rest : rest = RemoveFirst(seq, e)
  OBVIOUS
<1>2. CASE rest = seq
  BY <1>1, <1>2
<1>3. ASSUME NEW m \in 1 .. Len(seq), seq[m] = e, rest \in Seq(S), Len(rest) = Len(seq) - 1,
             \A i \in 1 .. m - 1 : rest[i] = seq[i],
             \A i \in m + 1 .. Len(seq) : rest[i - 1] = seq[i]
      PROVE  /\ rest \in Seq(S)
             /\ \A f : f # e /\ f \in Range(seq) => f \in Range(rest)
             /\ seq # <<>> /\ Head(seq) # e => rest # <<>> /\ Head(rest) = Head(seq)
  <2>1. \A f : f # e /\ f \in Range(seq) => f \in Range(rest)
    <3>. SUFFICES ASSUME NEW i \in 1 .. Len(seq), seq[i] # e  PROVE seq[i] \in Range(rest)
      BY DEF Range
    <3>1. \E j \in 1 .. Len(rest) : rest[j] = seq[i]
      <4>1. CASE i < m  BY <1>3, <4>1
      <4>2. CASE i > m  BY <1>3, <4>2
      <4>. QED  BY <1>3, <4>1, <4>2
    <3>. QED  BY <1>3, <3>1 DEF Range
  <2>2. seq # <<>> /\ Head(seq) # e => rest # <<>> /\ Head(rest) = Head(seq)
    BY <1>3
  <2>. QED  BY <1>3, <2>1, <2>2
<1>. QED  BY <1>1, <1>2, <1>3, RemovingPlace

LEMMA Unlocking ==
    ASSUME TypeOK, NEW p, Unlock(p)
    PROVE  queue' \in [Arcs -> Seq(Calls)]
BY RemovingFirst DEF TypeOK, Unlock

-----------------------------------------------------------------------------
(* The types.                                                              *)

LEMMA Idle ==
    /\ NoJob \in Job /\ NoJob.arc = None
    /\ CallCarries("idle", NoJob) /\ HandlerCarries("idle", NoJob)
BY DEF NoJob, Job, CallCarries, HandlerCarries, AtSlot

(* One request moves, and the others are where they were.                   *)
LEMMA Moving ==
    ASSUME Typed, NEW p \in Procs, NEW from, NEW to, NEW what \in Job, Goto(p, from, to, what),
           p \in Calls => CallCarries(to, what),
           p \in Handlers => HandlerCarries(to, what)
    PROVE  /\ pc[p] = from /\ pc'[p] = to /\ job'[p] = what
           /\ \A q \in Procs \ {p} : pc'[q] = pc[q] /\ job'[q] = job[q]
           /\ pc' \in [Procs -> States] /\ job' \in [Procs -> Job]
           /\ RequestsTyped'
<1>1. to \in States
  BY DEF Procs, CallCarries, HandlerCarries, States
<1>2. /\ pc[p] = from /\ pc'[p] = to /\ job'[p] = what
      /\ \A q \in Procs \ {p} : pc'[q] = pc[q] /\ job'[q] = job[q]
      /\ pc' \in [Procs -> States] /\ job' \in [Procs -> Job]
  BY <1>1 DEF Typed, TypeOK, States, Goto
<1>3. \A q \in Calls : CallTyped(q)'
  BY <1>2 DEF Typed, RequestsTyped, CallTyped, Procs, CallCarries
<1>4. \A q \in Handlers : HandlerTyped(q)'
  BY <1>2 DEF Typed, RequestsTyped, HandlerTyped, Procs, HandlerCarries
<1>. QED  BY <1>2, <1>3, <1>4 DEF RequestsTyped

LEMMA Finishing ==
    ASSUME Typed, NEW p \in Procs, NEW from, Finish(p, from)
    PROVE  /\ pc[p] = from /\ pc'[p] = "idle" /\ job'[p] = NoJob
           /\ \A q \in Procs \ {p} : pc'[q] = pc[q] /\ job'[q] = job[q]
           /\ pc' \in [Procs -> States] /\ job' \in [Procs -> Job]
           /\ RequestsTyped'
BY Moving, Idle DEF Finish

(* A handler writes a grant to a row, as the latest of all.                  *)
LEMMA Writing ==
    ASSUME Typed, NEW c \in Conns, NEW g \in Grants, Writes(c, g)
    PROVE  /\ rows' \in [Conns -> Row \cup {Unborn, Disconnected, Removed}]
           /\ written' \in [Grants -> Nat]
<1>1. [grant |-> g, status |-> "ok"] \in Row
  BY DEF Row, Statuses
<1>2. rows' \in [Conns -> Row \cup {Unborn, Disconnected, Removed}]
  BY <1>1 DEF Typed, TypeOK, Writes
<1>3. Cardinality({f \in Grants : written[f] > 0}) \in Nat
  <2>1. IsFiniteSet({f \in Grants : written[f] > 0})
    BY NamesAssumption, FS_Subset
  <2>. QED  BY <2>1, FS_CardinalityType
<1>4. written' \in [Grants -> Nat]
  BY <1>3 DEF Typed, TypeOK, Writes
<1>. QED  BY <1>2, <1>4

LEMMA TypedInit == Init => Typed
<1>1. SUFFICES ASSUME Init  PROVE Typed
  OBVIOUS
<1>. USE <1>1
<1>2. rows \in [Conns -> Row \cup {Unborn, Disconnected, Removed}]
  BY DEF Init, Row, Statuses
<1>3. live \subseteq Grants
  BY DEF Init, Exists
<1>4. TypeOK
  BY <1>2, <1>3, Idle, ConstantsAssumption DEF Init, TypeOK
<1>5. RequestsTyped
  BY Idle DEF Init, RequestsTyped, CallTyped, HandlerTyped, Procs
<1>. QED  BY <1>4, <1>5 DEF Typed

LEMMA CallKeepsTypes ==
    ASSUME Typed, NEW p \in Calls, (\E c \in Conns : StartCall(p, c)) \/ Call(p)
    PROVE  Typed'
<1>. DEFINE j == job[p]
<1>0. /\ p \in Procs /\ p \notin Handlers /\ j \in Job /\ CallCarries(pc[p], j)
      /\ now \in Nat /\ now \in 0 .. MaxTime /\ slot \in [Arcs -> Cached \cup {None}]
      /\ rows \in [Conns -> Row \cup {Unborn, Disconnected, Removed}]
      /\ entries \in [Conns -> Arcs \cup {None}] /\ queue \in [Arcs -> Seq(Calls)]
      /\ live \subseteq Grants /\ floor \in [Conns -> Nat] /\ refused \subseteq Token
  BY ConstantsAssumption DEF Typed, TypeOK, RequestsTyped, CallTyped, Procs
<1>. DEFINE Moved == pc' \in [Procs -> States] /\ job' \in [Procs -> Job] /\ RequestsTyped'
<1>1. ASSUME NEW from, NEW to, NEW what \in Job, Goto(p, from, to, what), CallCarries(to, what)
      PROVE  Moved
  BY <1>0, <1>1, Moving
<1>2. ASSUME NEW from, Finish(p, from)  PROVE Moved
  BY <1>0, <1>2, Finishing
<1>. USE DEF Typed, TypeOK, States
<1>3. ASSUME NEW c \in Conns, StartCall(p, c)  PROVE Typed'
  <2>1. [NoJob EXCEPT !.conn = c] \in Job /\ CallCarries("entry", [NoJob EXCEPT !.conn = c])
    BY DEF NoJob, Job, CallCarries, CallStates, AtSlot
  <2>2. Moved
    BY <1>1, <1>3, <2>1 DEF StartCall
  <2>. QED  BY <1>3, <2>2 DEF StartCall, history
<1>4. CASE Entry(p)
  <2>1. PICK a \in Arcs \cup {None} :
            /\ a \in Arcs \/ (entries[j.conn] = a /\ a # None)
            /\ Goto(p, "entry", "lock", [j EXCEPT !.arc = a, !.floor = floor[j.conn]])
            /\ queue' = [queue EXCEPT ![a] = Append(@, p)]
            /\ \/ UNCHANGED <<entries, slot>>
               \/ entries' = [entries EXCEPT ![j.conn] = a] /\ slot' = [slot EXCEPT ![a] = None]
    BY <1>0, <1>4 DEF Entry, CallCarries, CallStates
  <2>2. j.conn \in Conns /\ a \in Arcs
    BY <1>0, <1>4, <2>1 DEF Entry, CallCarries
  <2>3. /\ [j EXCEPT !.arc = a, !.floor = floor[j.conn]] \in Job
        /\ CallCarries("lock", [j EXCEPT !.arc = a, !.floor = floor[j.conn]])
    BY <1>0, <2>2 DEF Job, CallCarries, CallStates, AtSlot
  <2>4. Moved
    BY <1>1, <2>1, <2>3
  <2>5. queue' \in [Arcs -> Seq(Calls)]
    BY <1>0, <2>1, <2>2
  <2>6. entries' \in [Conns -> Arcs \cup {None}] /\ slot' \in [Arcs -> Cached \cup {None}]
    BY <1>0, <2>1, <2>2
  <2>. QED  BY <1>4, <2>4, <2>5, <2>6 DEF Entry, history
<1>5. CASE UseCached(p)
  <2>1. j.arc \in Arcs /\ slot[j.arc].token \in Token
    BY <1>0, <1>5 DEF UseCached, CallCarries, AtSlot, Usable, Cached
  <2>2. /\ [j EXCEPT !.token = slot[j.arc].token, !.arc = None, !.at = now] \in Job
        /\ CallCarries("send", [j EXCEPT !.token = slot[j.arc].token, !.arc = None, !.at = now])
    BY <1>0, <1>5, <2>1 DEF UseCached, Job, CallCarries, CallStates, AtSlot
  <2>3. Moved
    BY <1>1, <1>5, <2>2 DEF UseCached
  <2>. QED  BY <1>5, <2>3, Unlocking DEF UseCached, history
<1>6. CASE Refresh(p)
  <2>1. CallCarries("sealed", j)
    BY <1>0, <1>6 DEF Refresh, CallCarries, CallStates, AtSlot
  <2>2. Moved
    BY <1>0, <1>1, <1>6, <2>1 DEF Refresh
  <2>. QED  BY <1>6, <2>2 DEF Refresh, history
<1>7. CASE OpenSeal(p)
  <2>. DEFINE opened == [j EXCEPT !.grant = rows[j.conn].grant, !.at = now]
  <2>1. j.conn \in Conns /\ rows[j.conn].grant \in Grants
    BY <1>0, <1>7 DEF OpenSeal, CallCarries, Exists, Row
  <2>2. opened \in Job /\ CallCarries("mark", opened) /\ CallCarries("post", opened)
    BY <1>0, <1>7, <2>1 DEF OpenSeal, Job, CallCarries, CallStates, AtSlot
  <2>3. Moved
    BY <1>1, <1>7, <2>2 DEF OpenSeal
  <2>. QED  BY <1>7, <2>3 DEF OpenSeal, history
<1>8. CASE NoRow(p) \/ TokenRequestFails(p) \/ Mark(p) \/ Answered(p)
  <2>1. Moved
    BY <1>2, <1>8 DEF NoRow, TokenRequestFails, Mark, Answered
  <2>2. queue' \in [Arcs -> Seq(Calls)]
    BY <1>0, <1>8, Unlocking DEF NoRow, TokenRequestFails, Mark, Answered
  <2>3. rows' \in [Conns -> Row \cup {Unborn, Disconnected, Removed}]
    <3>1. CASE rows' = rows  BY <1>0, <3>1
    <3>2. CASE Mark(p) /\ Exists(j.conn) /\ rows' = [rows EXCEPT ![j.conn] = Refused(@)]
      <4>1. j.conn \in Conns
        BY <1>0, <3>2 DEF Mark, Finish, Goto, CallCarries
      <4>2. Refused(rows[j.conn]) \in Row
        BY <1>0, <3>2, <4>1 DEF Exists, Refused, Row, Statuses
      <4>. QED  BY <1>0, <3>2, <4>1, <4>2
    <3>. QED  BY <1>8, <3>1, <3>2 DEF NoRow, TokenRequestFails, Mark, Answered
  <2>. QED  BY <1>8, <2>1, <2>2, <2>3 DEF NoRow, TokenRequestFails, Mark, Answered, history
<1>9. CASE TokenIssued(p)
  <2>1. PICK i \in Ids :
            /\ j.grant \in live
            /\ Goto(p, "post", "answered", [j EXCEPT !.token = [id |-> i, grant |-> j.grant, at |-> now]])
    BY <1>9 DEF TokenIssued
  <2>2. [id |-> i, grant |-> j.grant, at |-> now] \in Token
    BY <1>0, <2>1 DEF Token
  <2>3. pc[p] = "post"
    BY <2>1 DEF Goto
  <2>4. /\ [j EXCEPT !.token = [id |-> i, grant |-> j.grant, at |-> now]] \in Job
        /\ CallCarries("answered", [j EXCEPT !.token = [id |-> i, grant |-> j.grant, at |-> now]])
    BY <1>0, <2>1, <2>2, <2>3 DEF Job, CallCarries, CallStates, AtSlot
  <2>5. Moved
    BY <1>1, <2>1, <2>4
  <2>6. refused' \subseteq Token
    BY <1>0, <1>9 DEF TokenIssued
  <2>. QED  BY <1>9, <2>5, <2>6 DEF TokenIssued
<1>10. CASE GrantRefused(p)
  <2>1. CallCarries("mark", j)
    BY <1>0, <1>10 DEF GrantRefused, CallCarries, CallStates, AtSlot
  <2>2. Moved
    BY <1>0, <1>1, <1>10, <2>1 DEF GrantRefused
  <2>. QED  BY <1>10, <2>2 DEF GrantRefused, history
<1>11. CASE Store(p)
  <2>1. pc[p] = "answered" /\ j.arc \in Arcs /\ j.token \in Token
    BY <1>0, <1>11 DEF Store, Goto, CallCarries, AtSlot
  <2>2. /\ [j EXCEPT !.arc = None, !.at = now] \in Job
        /\ CallCarries("send", [j EXCEPT !.arc = None, !.at = now])
    BY <1>0, <2>1 DEF Job, CallCarries, CallStates, AtSlot
  <2>3. Moved
    BY <1>1, <1>11, <2>2 DEF Store
  <2>4. [token |-> j.token, expires |-> now + Life] \in Cached
    BY <1>0, <2>1, ConstantsAssumption DEF Cached
  <2>5. slot' \in [Arcs -> Cached \cup {None}]
    BY <1>0, <1>11, <2>1, <2>4 DEF Store
  <2>. QED  BY <1>11, <2>3, <2>5, Unlocking DEF Store, history
<1>12. CASE Unauthorized(p)
  <2>. DEFINE again == [NoJob EXCEPT !.conn = j.conn, !.stale = j.token]
  <2>1. j.conn \in Conns /\ j.token \in Token
    BY <1>0, <1>12 DEF Unauthorized, CallCarries
  <2>2. again \in Job /\ CallCarries("entry", again)
    BY <2>1 DEF NoJob, Job, CallCarries, CallStates, AtSlot
  <2>3. Moved
    BY <1>1, <1>2, <1>12, <2>2 DEF Unauthorized
  <2>4. refused' \subseteq Token
    BY <1>0, <1>12, <2>1 DEF Unauthorized
  <2>. QED  BY <1>12, <2>3, <2>4 DEF Unauthorized
<1>. QED
  BY <1>3, <1>4, <1>5, <1>6, <1>7, <1>8, <1>9, <1>10, <1>11, <1>12 DEF Call

LEMMA HandlerKeepsTypes ==
    ASSUME Typed, NEW h \in Handlers, Handler(h)
    PROVE  Typed'
<1>. DEFINE j == job[h]
<1>0. /\ h \in Procs /\ h \notin Calls /\ j \in Job /\ HandlerCarries(pc[h], j)
      /\ rows \in [Conns -> Row \cup {Unborn, Disconnected, Removed}]
      /\ entries \in [Conns -> Arcs \cup {None}]
      /\ live \subseteq Grants /\ floor \in [Conns -> Nat] /\ written \in [Grants -> Nat]
  BY ConstantsAssumption DEF Typed, TypeOK, RequestsTyped, HandlerTyped, Procs
<1>. DEFINE Moved == pc' \in [Procs -> States] /\ job' \in [Procs -> Job] /\ RequestsTyped'
<1>1. ASSUME NEW from, NEW to, NEW what \in Job, Goto(h, from, to, what), HandlerCarries(to, what)
      PROVE  Moved
  BY <1>0, <1>1, Moving
<1>2. ASSUME NEW from, Finish(h, from)  PROVE Moved
  BY <1>0, <1>2, Finishing
<1>. USE DEF Typed, TypeOK, States
<1>3. ASSUME NEW c \in Conns \cup {None}, Exchange(h, c)  PROVE Typed'
  <2>1. PICK g \in Grants :
            /\ Goto(h, "idle", "exchanged", [NoJob EXCEPT !.conn = c, !.grant = g])
            /\ live' = live \cup {g}
    BY <1>3 DEF Exchange
  <2>2. /\ [NoJob EXCEPT !.conn = c, !.grant = g] \in Job
        /\ HandlerCarries("exchanged", [NoJob EXCEPT !.conn = c, !.grant = g])
    BY DEF NoJob, Job, HandlerCarries, HandlerStates
  <2>3. Moved
    BY <1>1, <2>1, <2>2
  <2>. QED  BY <1>0, <1>3, <2>1, <2>3 DEF Exchange, history
<1>4. CASE Connect(h)
  <2>1. Moved
    BY <1>2, <1>4 DEF Connect
  <2>2. j.grant \in Grants
    BY <1>0, <1>4 DEF Connect, Finish, Goto, HandlerCarries
  <2>3. PICK c \in Conns : Writes(c, j.grant)
    BY <1>4 DEF Connect
  <2>. QED  BY <1>4, <2>1, <2>2, <2>3, Writing DEF Connect
<1>5. CASE FindRow(h)
  <2>1. HandlerCarries("known", j)
    BY <1>0, <1>5 DEF FindRow, Goto, HandlerCarries, HandlerStates, Job
  <2>2. Moved
    BY <1>0, <1>1, <1>5, <2>1 DEF FindRow
  <2>. QED  BY <1>5, <2>2 DEF FindRow, history
<1>6. CASE SetGrant(h)
  <2>1. HandlerCarries("granted", j) /\ j.conn \in Conns /\ j.grant \in Grants
    BY <1>0, <1>6 DEF SetGrant, HandlerCarries, HandlerStates
  <2>2. Moved
    BY <1>0, <1>1, <1>6, <2>1 DEF SetGrant
  <2>. QED  BY <1>6, <2>1, <2>2, Writing DEF SetGrant
<1>7. CASE NotStored(h) \/ ForgetDeleted(h) \/ Revoke(h)
  <2>1. ASSUME ForgetDeleted(h) \/ Revoke(h)
        PROVE  HandlerCarries("delete", j) /\ HandlerCarries("forget", j) /\ j.conn \in Conns
    BY <1>0, <2>1 DEF ForgetDeleted, Revoke, Goto, HandlerCarries, HandlerStates
  <2>2. Moved
    BY <1>0, <1>1, <1>2, <1>7, <2>1 DEF NotStored, ForgetDeleted, Revoke
  <2>3. entries' \in [Conns -> Arcs \cup {None}] /\ live' \subseteq Grants
    BY <1>0, <1>7 DEF NotStored, ForgetDeleted, Revoke, Forget, history
  <2>. QED  BY <1>7, <2>2, <2>3 DEF NotStored, ForgetDeleted, Revoke, history
<1>8. CASE ForgetOld(h)
  <2>1. Moved
    BY <1>2, <1>8 DEF ForgetOld
  <2>2. j.conn \in Conns /\ j.grant \in Grants
    BY <1>0, <1>8 DEF ForgetOld, Finish, Goto, HandlerCarries
  <2>3. entries' \in [Conns -> Arcs \cup {None}] /\ floor' \in [Conns -> Nat]
    BY <1>0, <1>8, <2>2 DEF ForgetOld, Forget
  <2>. QED  BY <1>8, <2>1, <2>3 DEF ForgetOld
<1>9. ASSUME NEW c \in Conns, StartDelete(h, c)  PROVE Typed'
  <2>. DEFINE begun == [NoJob EXCEPT !.conn = c, !.grant = rows[c].grant]
  <2>1. rows[c].grant \in Grants
    BY <1>0, <1>9 DEF StartDelete, Exists, Row
  <2>2. begun \in Job /\ HandlerCarries("forget", begun) /\ HandlerCarries("revoke", begun)
    BY <2>1 DEF NoJob, Job, HandlerCarries, HandlerStates
  <2>3. Moved
    BY <1>1, <1>9, <2>2 DEF StartDelete
  <2>. QED  BY <1>9, <2>3 DEF StartDelete, history
<1>10. CASE DeleteRow(h)
  <2>1. Moved
    BY <1>2, <1>10 DEF DeleteRow
  <2>2. rows' \in [Conns -> Row \cup {Unborn, Disconnected, Removed}]
    BY <1>0, <1>10 DEF DeleteRow
  <2>. QED  BY <1>10, <2>1, <2>2 DEF DeleteRow, history
<1>. QED
  BY <1>3, <1>4, <1>5, <1>6, <1>7, <1>8, <1>9, <1>10 DEF Handler

LEMMA TypedStep == Typed /\ [Next]_vars => Typed'
<1>1. SUFFICES ASSUME Typed, [Next]_vars  PROVE Typed'
  OBVIOUS
<1>. USE <1>1
<1>2. ASSUME NEW p \in Procs, Dropped(p)  PROVE Typed'
  <2>1. pc' \in [Procs -> States] /\ job' \in [Procs -> Job] /\ RequestsTyped'
    BY <1>2, Finishing DEF Dropped
  <2>. QED  BY <1>2, <2>1, Unlocking DEF Dropped, history, Typed, TypeOK, States
<1>3. CASE \/ \E c \in Conns : CliRemove(c)
           \/ \E g \in Grants : GoogleRevokes(g)
           \/ Tick
           \/ UNCHANGED vars
  <2>1. pc' = pc /\ job' = job
    BY <1>3 DEF CliRemove, GoogleRevokes, Tick, vars
  <2>2. RequestsTyped'
    BY <2>1 DEF Typed, RequestsTyped, CallTyped, HandlerTyped, CallCarries, HandlerCarries
  <2>3. now' \in 0 .. MaxTime
    BY <1>3, ConstantsAssumption DEF CliRemove, GoogleRevokes, Tick, vars, Typed, TypeOK
  <2>4. TypeOK'
    BY <1>3, <2>1, <2>3 DEF CliRemove, GoogleRevokes, Tick, vars, history, Typed, TypeOK
  <2>. QED  BY <2>2, <2>4 DEF Typed
<1>4. CASE Restart
  <2>1. RequestsTyped'
    BY <1>4, Idle DEF Restart, RequestsTyped, CallTyped, HandlerTyped, Procs
  <2>2. TypeOK'
    BY <1>4, Idle DEF Restart, Typed, TypeOK, history
  <2>. QED  BY <2>1, <2>2 DEF Typed
<1>. QED
  BY <1>2, <1>3, <1>4, CallKeepsTypes, HandlerKeepsTypes DEF Next

(* Every variable keeps its type, and a request its part of what it needs:   *)
(* the cache of src/google/client.rs and the handlers that clear it.          *)
THEOREM TypeCorrect == Spec => []TypeOK
<1>1. Spec => []Typed
  BY TypedInit, TypedStep, PTL DEF Spec
<1>2. Typed => TypeOK
  BY DEF Typed
<1>. QED  BY <1>1, <1>2, PTL

-----------------------------------------------------------------------------
(* Grants in the order they were written.                                   *)

Count == Cardinality({g \in Grants : written[g] > 0})

(* A row holds the last grant written to it, and that is no older than what   *)
(* the cache was cleared to.                                               *)
RowsInOrder ==
    /\ \A g \in Grants : written[g] <= Count
    /\ \A c \in Conns : floor[c] <= 1 + Count
    /\ \A c \in Conns : Exists(c) => written[rows[c].grant] >= floor[c]

(* A handler brings a grant that nobody has seen, until it has written it.    *)
Bringing(h) == pc[h] \in {"exchanged", "known"}
HandlerInOrder(h) ==
    /\ Bringing(h) =>
          /\ written[job[h].grant] = 0
          /\ \A k \in Handlers \ {h} : Bringing(k) => job[k].grant # job[h].grant
    /\ pc[h] = "granted" =>
          /\ written[job[h].grant] > 0
          /\ Exists(job[h].conn) => written[job[h].grant] <= written[rows[job[h].conn].grant]

TablesInOrder == RowsInOrder /\ \A h \in Handlers : HandlerInOrder(h)

(* What a slot holds is new enough for everybody who may come to use it.  The *)
(* calls that share one asked between the same two clearings, and only those  *)
(* since the last one find it in the map.                                   *)
MapInOrder ==
    /\ \A c \in Conns : entries[c] # None /\ slot[entries[c]] # None =>
          written[slot[entries[c]].token.grant] >= floor[c]
    /\ \A c, d \in Conns : entries[c] # None /\ entries[c] = entries[d] => c = d

ArcInOrder(p) ==
    pc[p] \in AtSlot =>
        LET a == job[p].arc
        IN /\ job[p].floor <= floor[job[p].conn]
           /\ slot[a] # None => written[slot[a].token.grant] >= job[p].floor
           /\ \A c \in Conns : entries[c] = a => c = job[p].conn /\ floor[c] = job[p].floor
           /\ \A q \in Calls : pc[q] \in AtSlot /\ job[q].arc = a => job[q].floor = job[p].floor

ArcsInOrder == MapInOrder /\ \A p \in Calls : ArcInOrder(p)

(* What a call has of its own.                                              *)
CallInOrder(p) ==
    /\ pc[p] \in {"post", "answered"} => written[job[p].grant] >= job[p].floor
    /\ pc[p] = "answered" => job[p].token.grant = job[p].grant
    /\ pc[p] = "send" => written[job[p].token.grant] >= job[p].floor
    /\ pc[p] \in {"answered", "send"} => job[p].token # job[p].stale

CallsInOrder == \A p \in Calls : CallInOrder(p)

GrantsInOrder == TablesInOrder /\ ArcsInOrder /\ CallsInOrder

-----------------------------------------------------------------------------
(* What disturbs none of it.                                                *)

LEMMA ArcsKept ==
    ASSUME Typed, Typed', ArcsInOrder, slot' = slot,
           \A c \in Conns : /\ floor[c] <= floor'[c]
                            /\ entries'[c] # None => entries'[c] = entries[c] /\ floor'[c] = floor[c],
           \A g \in Grants : written[g] <= written'[g],
           \A p \in Calls : pc'[p] \in AtSlot =>
               /\ pc[p] \in AtSlot
               /\ job'[p].arc = job[p].arc /\ job'[p].conn = job[p].conn /\ job'[p].floor = job[p].floor
    PROVE  ArcsInOrder'
<1>1. /\ \A a \in Arcs : slot[a] # None => slot[a].token.grant \in Grants
      /\ \A c \in Conns : entries[c] # None => entries[c] \in Arcs
      /\ written \in [Grants -> Nat] /\ written' \in [Grants -> Nat]
      /\ floor \in [Conns -> Nat] /\ floor' \in [Conns -> Nat]
  BY DEF Typed, TypeOK, Cached, Token
<1>2. MapInOrder'
  BY <1>1 DEF ArcsInOrder, MapInOrder
<1>3. ASSUME NEW p \in Calls  PROVE ArcInOrder(p)'
  <2>1. SUFFICES ASSUME pc'[p] \in AtSlot  PROVE ArcInOrder(p)'
    BY DEF ArcInOrder
  <2>. DEFINE a == job[p].arc
  <2>2. /\ ArcInOrder(p) /\ pc[p] \in AtSlot
        /\ job'[p].arc = a /\ job'[p].conn = job[p].conn /\ job'[p].floor = job[p].floor
    BY <2>1 DEF ArcsInOrder
  <2>3. a \in Arcs /\ a # None /\ job[p].conn \in Conns /\ job[p].floor \in Nat
    BY <2>2, NamesAssumption
    DEF Typed, TypeOK, RequestsTyped, CallTyped, CallCarries, AtSlot, CallStates, Job, Procs
  <2>. HIDE DEF a
  <2>4. /\ job[p].floor <= floor'[job[p].conn]
        /\ slot[a] # None => written'[slot[a].token.grant] >= job[p].floor
    BY <1>1, <2>2, <2>3 DEF ArcInOrder, a
  <2>5. \A c \in Conns : entries'[c] = a => c = job[p].conn /\ floor'[c] = job[p].floor
    BY <2>2, <2>3 DEF ArcInOrder, a
  <2>6. \A q \in Calls : pc'[q] \in AtSlot /\ job'[q].arc = a => job'[q].floor = job[p].floor
    BY <2>2 DEF ArcInOrder, a
  <2>. QED  BY <2>2, <2>4, <2>5, <2>6 DEF ArcInOrder
<1>. QED  BY <1>2, <1>3 DEF ArcsInOrder

LEMMA CallsKept ==
    ASSUME Typed, CallsInOrder,
           written' \in [Grants -> Nat], \A g \in Grants : written[g] <= written'[g],
           \A p \in Calls : CallInOrder(p)' \/ (pc'[p] = pc[p] /\ job'[p] = job[p])
    PROVE  CallsInOrder'
<1>1. SUFFICES ASSUME NEW p \in Calls, pc'[p] = pc[p], job'[p] = job[p]  PROVE CallInOrder(p)'
  BY DEF CallsInOrder
<1>2. /\ pc[p] \in {"post", "answered"} => job[p].grant \in Grants
      /\ pc[p] = "send" => job[p].token.grant \in Grants
      /\ job[p].floor \in Nat /\ written \in [Grants -> Nat]
  BY DEF Typed, TypeOK, RequestsTyped, CallTyped, CallCarries, Token, Job, Procs
<1>. QED  BY <1>1, <1>2 DEF CallsInOrder, CallInOrder

LEMMA TablesKept ==
    ASSUME Typed, TablesInOrder, written' = written, floor' = floor,
           \A c \in Conns : Exists(c)' => Exists(c) /\ rows'[c].grant = rows[c].grant,
           \A h \in Handlers :
               \/ ~Bringing(h)' /\ pc'[h] # "granted"
               \/ pc'[h] = pc[h] /\ job'[h] = job[h]
               \/ Bringing(h) /\ Bringing(h)' /\ job'[h] = job[h]
    PROVE  TablesInOrder'
<1>1. Count' = Count
  BY DEF Count
<1>2. RowsInOrder'
  BY <1>1 DEF TablesInOrder, RowsInOrder
<1>3. ASSUME NEW h \in Handlers  PROVE HandlerInOrder(h)'
  <2>1. HandlerInOrder(h)
    BY DEF TablesInOrder
  <2>2. Bringing(h)' => /\ written'[job'[h].grant] = 0
                        /\ \A k \in Handlers \ {h} : Bringing(k)' => job'[k].grant # job'[h].grant
    BY <2>1 DEF HandlerInOrder, Bringing
  <2>3. pc'[h] = "granted" => pc[h] = "granted" /\ job'[h] = job[h]
    BY DEF Bringing
  <2>4. pc[h] = "granted" => job[h].conn \in Conns
    BY DEF Typed, RequestsTyped, HandlerTyped, HandlerCarries
  <2>. QED  BY <2>1, <2>2, <2>3, <2>4 DEF HandlerInOrder
<1>. QED  BY <1>2, <1>3 DEF TablesInOrder

(* A new grant is newer than any.                                           *)
LEMMA WritingRaises ==
    ASSUME Typed, RowsInOrder, NEW c, NEW g \in Grants, written[g] = 0, Writes(c, g)
    PROVE  /\ Count \in Nat /\ Count' = Count + 1 /\ written'[g] = Count'
           /\ \A f \in Grants \ {g} : written'[f] = written[f]
           /\ \A f \in Grants : written[f] <= written'[f] /\ written'[f] <= Count'
<1>. DEFINE W == {f \in Grants : written[f] > 0}
<1>1. IsFiniteSet(W)
  BY NamesAssumption, FS_Subset
<1>2. Cardinality(W) \in Nat
  BY <1>1, FS_CardinalityType
<1>3. /\ written \in [Grants -> Nat]
      /\ written' = [written EXCEPT ![g] = 1 + Cardinality(W)]
  BY DEF Typed, TypeOK, Writes
<1>4. {f \in Grants : written'[f] > 0} = W \cup {g} /\ g \notin W
  BY <1>2, <1>3
<1>5. Cardinality(W \cup {g}) = Cardinality(W) + 1
  BY <1>1, <1>4, FS_AddElement
<1>6. Count = Cardinality(W) /\ Count' = Cardinality(W) + 1
  BY <1>4, <1>5 DEF Count
<1>. HIDE DEF W
<1>. QED  BY <1>2, <1>3, <1>6 DEF RowsInOrder

LEMMA Stepping ==
    ASSUME Typed, NEW p \in Procs, NEW from, NEW to, NEW what, Goto(p, from, to, what)
    PROVE  /\ pc[p] = from /\ pc'[p] = to /\ job'[p] = what
           /\ \A q \in Procs \ {p} : pc'[q] = pc[q] /\ job'[q] = job[q]
BY DEF Typed, TypeOK, Goto

-----------------------------------------------------------------------------
(* A call's steps.                                                         *)

LEMMA CallKeepsTables ==
    ASSUME Typed, TablesInOrder, NEW p \in Calls, (\E c \in Conns : StartCall(p, c)) \/ Call(p)
    PROVE  TablesInOrder' /\ written' = written /\ floor' = floor
<1>1. p \in Procs /\ \A h \in Handlers : h \in Procs \ {p}
  BY ConstantsAssumption DEF Procs
<1>2. written' = written /\ floor' = floor
  BY DEF StartCall, Call, Entry, UseCached, Refresh, OpenSeal, NoRow, TokenIssued, GrantRefused,
         TokenRequestFails, Store, Mark, Answered, Unauthorized, history
<1>3. \A q \in Procs \ {p} : pc'[q] = pc[q] /\ job'[q] = job[q]
  BY <1>1, Stepping
  DEF StartCall, Call, Entry, UseCached, Refresh, OpenSeal, NoRow, TokenIssued, GrantRefused,
      TokenRequestFails, Store, Mark, Answered, Unauthorized, Finish
<1>4. \A c \in Conns : Exists(c)' => Exists(c) /\ rows'[c].grant = rows[c].grant
  <2>1. CASE rows' = rows  BY <2>1 DEF Exists
  <2>2. CASE Exists(job[p].conn) /\ rows' = [rows EXCEPT ![job[p].conn] = Refused(@)]
    <3>1. rows \in [Conns -> Row \cup {Unborn, Disconnected, Removed}]
      BY DEF Typed, TypeOK
    <3>. QED  BY <2>2, <3>1 DEF Exists, Refused, Row
  <2>. QED
    BY <2>1, <2>2
    DEF StartCall, Call, Entry, UseCached, Refresh, OpenSeal, NoRow, TokenIssued, GrantRefused,
        TokenRequestFails, Store, Mark, Answered, Unauthorized, history
<1>. QED  BY <1>1, <1>2, <1>3, <1>4, TablesKept

LEMMA CallKeepsArcs ==
    ASSUME Typed, Typed', ArcsInOrder, CallsInOrder, written' = written, floor' = floor,
           NEW p \in Calls, (\E c \in Conns : StartCall(p, c)) \/ Call(p)
    PROVE  ArcsInOrder'
<1>. DEFINE j == job[p]
<1>0. /\ p \in Procs /\ \A q \in Calls : q \in Procs
      /\ floor \in [Conns -> Nat] /\ written \in [Grants -> Nat]
      /\ slot \in [Arcs -> Cached \cup {None}] /\ entries \in [Conns -> Arcs \cup {None}]
      /\ None \notin Arcs
      /\ \A q \in Calls : pc[q] \in AtSlot => job[q].conn \in Conns /\ job[q].arc \in Arcs /\ job[q].floor \in Nat
  BY NamesAssumption DEF Typed, TypeOK, RequestsTyped, CallTyped, CallCarries, Procs, Job, AtSlot
<1>1. ASSUME slot' = slot, entries' = entries, NEW from, NEW to, NEW what, Goto(p, from, to, what),
             to \in AtSlot => /\ from \in AtSlot
                              /\ what.arc = j.arc /\ what.conn = j.conn /\ what.floor = j.floor
      PROVE  ArcsInOrder'
  <2>1. \A q \in Calls : pc'[q] \in AtSlot =>
               /\ pc[q] \in AtSlot
               /\ job'[q].arc = job[q].arc /\ job'[q].conn = job[q].conn /\ job'[q].floor = job[q].floor
    BY <1>0, <1>1, Stepping
  <2>. QED  BY <1>0, <1>1, <2>1, ArcsKept
<1>2. ASSUME slot' = slot, entries' = entries, NEW from, Finish(p, from)  PROVE ArcsInOrder'
  BY <1>1, <1>2 DEF Finish, AtSlot
<1>3. ASSUME NEW c \in Conns, StartCall(p, c)  PROVE ArcsInOrder'
  BY <1>1, <1>3 DEF StartCall, AtSlot
<1>4. CASE UseCached(p) \/ Answered(p) \/ Unauthorized(p) \/ NoRow(p) \/ TokenRequestFails(p) \/ Mark(p)
  BY <1>1, <1>2, <1>4 DEF UseCached, Answered, Unauthorized, NoRow, TokenRequestFails, Mark, AtSlot
<1>5. CASE Refresh(p) \/ GrantRefused(p)
  BY <1>1, <1>5 DEF Refresh, GrantRefused, AtSlot
<1>6. CASE OpenSeal(p)
  <2>. DEFINE opened == [j EXCEPT !.grant = rows[j.conn].grant, !.at = now]
  <2>1. opened.arc = j.arc /\ opened.conn = j.conn /\ opened.floor = j.floor
    BY <1>0 DEF Typed, TypeOK, Job
  <2>2. \E to : Goto(p, "sealed", to, opened)
    BY <1>6 DEF OpenSeal
  <2>3. slot' = slot /\ entries' = entries
    BY <1>6 DEF OpenSeal
  <2>. QED  BY <1>1, <2>1, <2>2, <2>3 DEF AtSlot
<1>7. CASE TokenIssued(p)
  <2>1. PICK t : Goto(p, "post", "answered", [j EXCEPT !.token = t])
    BY <1>7 DEF TokenIssued
  <2>. DEFINE answered == [j EXCEPT !.token = t]
  <2>2. answered.arc = j.arc /\ answered.conn = j.conn /\ answered.floor = j.floor
    BY <1>0 DEF Typed, TypeOK, Job
  <2>3. slot' = slot /\ entries' = entries
    BY <1>7 DEF TokenIssued
  <2>. QED  BY <1>1, <2>1, <2>2, <2>3 DEF AtSlot
<1>8. CASE Store(p)
  <2>1. /\ pc[p] = "answered" /\ pc'[p] = "send"
        /\ \A q \in Calls \ {p} : pc'[q] = pc[q] /\ job'[q] = job[q]
    BY <1>0, <1>8, Stepping DEF Store
  <2>2. /\ j.arc \in Arcs /\ j.token \in Token /\ ArcInOrder(p) /\ CallInOrder(p)
        /\ entries' = entries
        /\ slot' = [slot EXCEPT ![j.arc] = [token |-> j.token, expires |-> now + Life]]
    BY <1>0, <1>8, <2>1
    DEF Store, ArcsInOrder, CallsInOrder, AtSlot, Typed, RequestsTyped, CallTyped, CallCarries
  <2>3. slot'[j.arc].token = j.token /\ \A a \in Arcs \ {j.arc} : slot'[a] = slot[a]
    BY <1>0, <2>2
  <2>4. j.floor \in Nat /\ written[j.token.grant] >= j.floor
    BY <1>0, <2>1, <2>2 DEF CallInOrder, AtSlot
  <2>5. ASSUME NEW c \in Conns, entries[c] # None, slot'[entries[c]] # None
        PROVE  written[slot'[entries[c]].token.grant] >= floor[c]
    <3>1. CASE entries[c] = j.arc
      <4>1. floor[c] = j.floor
        BY <2>1, <2>2, <3>1 DEF ArcInOrder, AtSlot
      <4>. QED  BY <2>3, <2>4, <3>1, <4>1
    <3>2. CASE entries[c] # j.arc
      <4>1. slot'[entries[c]] = slot[entries[c]]
        BY <1>0, <2>3, <2>5, <3>2
      <4>. QED  BY <2>5, <4>1 DEF ArcsInOrder, MapInOrder
    <3>. QED  BY <3>1, <3>2
  <2>6. MapInOrder'
    BY <2>2, <2>5 DEF ArcsInOrder, MapInOrder
  <2>7. ASSUME NEW q \in Calls  PROVE ArcInOrder(q)'
    <3>1. SUFFICES ASSUME pc'[q] \in AtSlot  PROVE ArcInOrder(q)'
      BY DEF ArcInOrder
    <3>2. q # p /\ pc[q] \in AtSlot /\ job'[q] = job[q] /\ ArcInOrder(q)
      BY <2>1, <3>1 DEF AtSlot, ArcsInOrder
    <3>. DEFINE a == job[q].arc
    <3>3. slot'[a] # None => written[slot'[a].token.grant] >= job[q].floor
      <4>1. CASE a = j.arc
        <5>1. job[q].floor = j.floor
          BY <2>1, <3>2, <4>1 DEF ArcInOrder, AtSlot
        <5>. QED  BY <2>3, <2>4, <4>1, <5>1
      <4>2. CASE a # j.arc
        BY <1>0, <2>3, <3>2, <4>2 DEF ArcInOrder
      <4>. QED  BY <4>1, <4>2
    <3>4. \A r \in Calls : pc'[r] \in AtSlot /\ job'[r].arc = a => job'[r].floor = job[q].floor
      BY <2>1, <3>2 DEF ArcInOrder, AtSlot
    <3>. QED  BY <2>2, <3>2, <3>3, <3>4 DEF ArcInOrder
  <2>. QED  BY <2>6, <2>7 DEF ArcsInOrder
<1>9. CASE Entry(p)
  <2>. DEFINE c == j.conn
  <2>1. pc[p] = "entry" /\ c \in Conns /\ j \in Job
    BY <1>0, <1>9 DEF Entry, Typed, TypeOK, RequestsTyped, CallTyped, CallCarries
  <2>2. PICK a \in Arcs :
           /\ Goto(p, "entry", "lock", [j EXCEPT !.arc = a, !.floor = floor[c]])
           /\ \/ entries[c] = a /\ entries' = entries /\ slot' = slot
              \/ /\ entries[c] = None /\ Unreferenced(a)
                 /\ entries' = [entries EXCEPT ![c] = a] /\ slot' = [slot EXCEPT ![a] = None]
    BY <1>0, <1>9, <2>1 DEF Entry
  <2>3. /\ pc'[p] = "lock" /\ job'[p].conn = c /\ job'[p].arc = a /\ job'[p].floor = floor[c]
        /\ \A q \in Calls \ {p} : pc'[q] = pc[q] /\ job'[q] = job[q]
    <3>. DEFINE placed == [j EXCEPT !.arc = a, !.floor = floor[c]]
    <3>1. /\ pc'[p] = "lock" /\ job'[p] = placed
          /\ \A q \in Procs \ {p} : pc'[q] = pc[q] /\ job'[q] = job[q]
      BY <1>0, <2>2, Stepping
    <3>2. placed.conn = c /\ placed.arc = a /\ placed.floor = floor[c]
      BY <2>1 DEF Job
    <3>. QED  BY <1>0, <3>1, <3>2
  <2>4. entries'[c] = a /\ \A d \in Conns : entries'[d] = a => d = c
    BY <1>0, <2>1, <2>2 DEF ArcsInOrder, MapInOrder, Unreferenced
  <2>5. /\ \A d \in Conns \ {c} : entries'[d] = entries[d]
        /\ \A b \in Arcs \ {a} : slot'[b] = slot[b]
    BY <1>0, <2>1, <2>2
  <2>6. slot'[a] # None => slot'[a] = slot[a] /\ entries[c] = a
    BY <1>0, <2>2
  <2>7. slot'[a] # None => written[slot'[a].token.grant] >= floor[c]
    BY <1>0, <2>1, <2>6 DEF ArcsInOrder, MapInOrder
  <2>8. MapInOrder'
    BY <1>0, <2>1, <2>4, <2>5, <2>7 DEF ArcsInOrder, MapInOrder
  <2>9. ASSUME NEW q \in Calls \ {p}, pc[q] \in AtSlot, job[q].arc = a
        PROVE  entries[c] = a /\ job[q].conn = c /\ job[q].floor = floor[c]
    <3>1. entries[c] = a
      BY <1>0, <2>2, <2>9 DEF Unreferenced
    <3>2. ArcInOrder(q)
      BY DEF ArcsInOrder
    <3>. QED  BY <2>1, <2>9, <3>1, <3>2 DEF ArcInOrder
  <2>10. ArcInOrder(p)'
    <3>1. floor[c] \in Nat
      BY <1>0, <2>1
    <3>2. \A q \in Calls : pc'[q] \in AtSlot /\ job'[q].arc = a => job'[q].floor = floor[c]
      BY <2>3, <2>9
    <3>. QED  BY <2>3, <2>4, <2>7, <3>1, <3>2 DEF ArcInOrder
  <2>11. ASSUME NEW q \in Calls \ {p}  PROVE ArcInOrder(q)'
    <3>1. SUFFICES ASSUME pc[q] \in AtSlot  PROVE ArcInOrder(q)'
      BY <2>3 DEF ArcInOrder
    <3>2. ArcInOrder(q) /\ pc'[q] = pc[q] /\ job'[q] = job[q] /\ job[q].arc \in Arcs
      BY <1>0, <2>3, <3>1 DEF ArcsInOrder
    <3>3. CASE job[q].arc = a
      <4>1. job[q].conn = c /\ job[q].floor = floor[c]
        BY <2>9, <3>1, <3>3
      <4>2. \A r \in Calls : pc'[r] \in AtSlot /\ job'[r].arc = a => job'[r].floor = floor[c]
        BY <2>3, <2>9
      <4>. QED  BY <2>4, <2>7, <3>1, <3>2, <3>3, <4>1, <4>2 DEF ArcInOrder
    <3>4. CASE job[q].arc # a
      <4>1. slot'[job[q].arc] = slot[job[q].arc]
        BY <2>5, <3>2, <3>4
      <4>2. \A d \in Conns : entries'[d] = job[q].arc => entries[d] = job[q].arc
        BY <2>4, <2>5, <3>4
      <4>3. \A r \in Calls : pc'[r] \in AtSlot /\ job'[r].arc = job[q].arc
                                => pc[r] \in AtSlot /\ job'[r] = job[r]
        BY <2>3, <3>4
      <4>. QED  BY <3>1, <3>2, <4>1, <4>2, <4>3 DEF ArcInOrder
    <3>. QED  BY <3>3, <3>4
  <2>. QED  BY <2>8, <2>10, <2>11 DEF ArcsInOrder
<1>. QED
  BY <1>3, <1>4, <1>5, <1>6, <1>7, <1>8, <1>9 DEF Call

LEMMA CallKeepsCalls ==
    ASSUME Typed, TablesInOrder, ArcsInOrder, CallsInOrder, written' = written,
           NEW p \in Calls, (\E c \in Conns : StartCall(p, c)) \/ Call(p)
    PROVE  CallsInOrder'
<1>. DEFINE j == job[p]
<1>0. /\ p \in Procs /\ j \in Job /\ CallInOrder(p) /\ ArcInOrder(p)
      /\ CallCarries(pc[p], j)
      /\ floor \in [Conns -> Nat] /\ written \in [Grants -> Nat]
      /\ slot \in [Arcs -> Cached \cup {None}]
      /\ rows \in [Conns -> Row \cup {Unborn, Disconnected, Removed}]
  BY DEF Typed, TypeOK, RequestsTyped, CallTyped, Procs, CallsInOrder, ArcsInOrder
<1>1. ASSUME NEW from, NEW to, NEW what, Goto(p, from, to, what), CallInOrder(p)'
      PROVE  CallsInOrder'
  <2>1. \A q \in Calls : CallInOrder(q)' \/ (pc'[q] = pc[q] /\ job'[q] = job[q])
    BY <1>0, <1>1, Stepping DEF Procs
  <2>. QED  BY <1>0, <2>1, CallsKept
<1>2. ASSUME NEW from, NEW to, NEW what, Goto(p, from, to, what),
             to \notin {"post", "answered", "send"}
      PROVE  CallsInOrder'
  BY <1>0, <1>1, <1>2, Stepping DEF CallInOrder
<1>3. ASSUME \/ \E c \in Conns : StartCall(p, c)
             \/ Entry(p) \/ Refresh(p) \/ NoRow(p) \/ GrantRefused(p) \/ TokenRequestFails(p)
             \/ Mark(p) \/ Answered(p) \/ Unauthorized(p)
      PROVE  CallsInOrder'
  <2>1. ASSUME NEW from, Finish(p, from)  PROVE CallsInOrder'
    BY <1>2, <2>1 DEF Finish
  <2>2. ASSUME NEW c \in Conns, StartCall(p, c)  PROVE CallsInOrder'
    BY <1>2, <2>2 DEF StartCall
  <2>3. CASE NoRow(p) \/ TokenRequestFails(p) \/ Mark(p) \/ Answered(p)
    BY <2>1, <2>3 DEF NoRow, TokenRequestFails, Mark, Answered
  <2>4. CASE Refresh(p) \/ GrantRefused(p)
    BY <1>2, <2>4 DEF Refresh, GrantRefused
  <2>5. CASE Entry(p)
    <3>1. PICK a : Goto(p, "entry", "lock", [j EXCEPT !.arc = a, !.floor = floor[j.conn]])
      BY <2>5 DEF Entry
    <3>. QED  BY <1>2, <3>1
  <2>6. CASE Unauthorized(p)
    <3>1. \/ Finish(p, "send")
          \/ Goto(p, "send", "entry", [NoJob EXCEPT !.conn = j.conn, !.stale = j.token])
      BY <2>6 DEF Unauthorized
    <3>. QED  BY <1>2, <2>1, <3>1
  <2>. QED  BY <1>3, <2>2, <2>3, <2>4, <2>5, <2>6
<1>4. CASE UseCached(p)
  <2>. DEFINE s == slot[j.arc]
              taken == [j EXCEPT !.token = s.token, !.arc = None, !.at = now]
  <2>1. /\ pc[p] = "lock" /\ pc'[p] = "send" /\ job'[p] = taken
        /\ s # None /\ (j.stale # None => s.token # j.stale)
        /\ Goto(p, "lock", "send", taken)
    BY <1>0, <1>4, Stepping DEF UseCached, Usable
  <2>2. taken.token = s.token /\ taken.stale = j.stale /\ taken.floor = j.floor
    BY <1>0 DEF Job
  <2>3. s.token \in Token /\ None \notin Token
    BY <1>0, <2>1, NamesAssumption DEF CallCarries, AtSlot, Cached
  <2>4. written[s.token.grant] >= j.floor
    BY <1>0, <2>1 DEF ArcInOrder, AtSlot
  <2>5. CallInOrder(p)'
    BY <1>0, <2>1, <2>2, <2>3, <2>4 DEF CallInOrder
  <2>. QED  BY <1>1, <2>1, <2>5
<1>5. CASE OpenSeal(p)
  <2>. DEFINE c == j.conn
              opened == [j EXCEPT !.grant = rows[c].grant, !.at = now]
  <2>1. PICK to \in {"mark", "post"} : Goto(p, "sealed", to, opened)
    BY <1>5 DEF OpenSeal
  <2>2. pc[p] = "sealed" /\ pc'[p] = to /\ job'[p] = opened /\ Exists(c) /\ c \in Conns
    BY <1>0, <1>5, <2>1, Stepping DEF OpenSeal, CallCarries
  <2>3. opened.grant = rows[c].grant /\ opened.floor = j.floor
    BY <1>0 DEF Job
  <2>4. rows[c].grant \in Grants /\ j.floor \in Nat
    BY <1>0, <2>2 DEF Exists, Row, Job
  <2>5. written[rows[c].grant] >= j.floor
    <3>1. written[rows[c].grant] >= floor[c] /\ j.floor <= floor[c]
      BY <1>0, <2>2 DEF TablesInOrder, RowsInOrder, ArcInOrder, AtSlot
    <3>. QED  BY <1>0, <2>2, <2>4, <3>1
  <2>6. CallInOrder(p)'
    BY <1>0, <2>2, <2>3, <2>5 DEF CallInOrder
  <2>. QED  BY <1>1, <2>1, <2>6
<1>6. CASE TokenIssued(p)
  <2>1. PICK i \in Ids :
            /\ \A v \in InUse : v.id # i
            /\ Goto(p, "post", "answered", [j EXCEPT !.token = [id |-> i, grant |-> j.grant, at |-> now]])
    BY <1>6 DEF TokenIssued
  <2>. DEFINE t == [id |-> i, grant |-> j.grant, at |-> now]
              answered == [j EXCEPT !.token = t]
  <2>2. pc[p] = "post" /\ pc'[p] = "answered" /\ job'[p] = answered
    BY <1>0, <2>1, Stepping
  <2>3. /\ answered.token = t /\ answered.grant = j.grant /\ answered.stale = j.stale
        /\ answered.floor = j.floor
    BY <1>0 DEF Job
  <2>4. t # j.stale
    <3>1. j.stale = None \/ j.stale \in InUse
      BY <1>0 DEF InUse
    <3>2. t \in Token
      BY <1>0, <2>2 DEF Token, Typed, TypeOK, CallCarries
    <3>. QED  BY <2>1, <3>1, <3>2, NamesAssumption
  <2>5. CallInOrder(p)'
    BY <1>0, <2>2, <2>3, <2>4 DEF CallInOrder
  <2>. QED  BY <1>1, <2>1, <2>5
<1>7. CASE Store(p)
  <2>. DEFINE stored == [j EXCEPT !.arc = None, !.at = now]
  <2>1. pc[p] = "answered" /\ pc'[p] = "send" /\ job'[p] = stored /\ Goto(p, "answered", "send", stored)
    BY <1>0, <1>7, Stepping DEF Store
  <2>2. stored.token = j.token /\ stored.stale = j.stale /\ stored.floor = j.floor
    BY <1>0 DEF Job
  <2>3. CallInOrder(p)'
    BY <1>0, <2>1, <2>2 DEF CallInOrder
  <2>. QED  BY <1>1, <2>1, <2>3
<1>. QED
  BY <1>3, <1>4, <1>5, <1>6, <1>7 DEF Call

-----------------------------------------------------------------------------
(* A handler's steps.                                                      *)

(* No call is disturbed.                                                   *)
LEMMA HandlerAlone ==
    ASSUME Typed, NEW h \in Handlers, Handler(h)
    PROVE  /\ h \in Procs
           /\ \A q \in Procs \ {h} : pc'[q] = pc[q] /\ job'[q] = job[q]
           /\ \A q \in Calls : q \in Procs \ {h}
           /\ slot' = slot
<1>1. h \in Procs /\ \A q \in Calls : q \in Procs \ {h}
  BY ConstantsAssumption DEF Procs
<1>. DEFINE Alone == \A q \in Procs \ {h} : pc'[q] = pc[q] /\ job'[q] = job[q]
<1>2. ASSUME NEW from, NEW to, NEW what, Goto(h, from, to, what)  PROVE Alone
  BY <1>1, <1>2, Stepping
<1>3. ASSUME NEW from, Finish(h, from)  PROVE Alone
  BY <1>2, <1>3 DEF Finish
<1>. HIDE DEF Alone
<1>4. ASSUME NEW c \in Conns \cup {None}, Exchange(h, c)  PROVE Alone
  <2>1. PICK g : Goto(h, "idle", "exchanged", [NoJob EXCEPT !.conn = c, !.grant = g])
    BY <1>4 DEF Exchange
  <2>. QED  BY <1>2, <2>1
<1>5. ASSUME NEW c \in Conns, StartDelete(h, c)  PROVE Alone
  BY <1>2, <1>5 DEF StartDelete
<1>6. ASSUME Connect(h) \/ NotStored(h) \/ ForgetOld(h) \/ DeleteRow(h)  PROVE Alone
  BY <1>3, <1>6 DEF Connect, NotStored, ForgetOld, DeleteRow
<1>7. ASSUME FindRow(h) \/ SetGrant(h) \/ Revoke(h) \/ ForgetDeleted(h)  PROVE Alone
  BY <1>2, <1>7 DEF FindRow, SetGrant, Revoke, ForgetDeleted
<1>8. Alone
  BY <1>4, <1>5, <1>6, <1>7 DEF Handler
<1>9. slot' = slot
  BY DEF Handler, Exchange, StartDelete, Connect, NotStored, ForgetOld, DeleteRow, FindRow, SetGrant,
         Revoke, ForgetDeleted
<1>. QED  BY <1>1, <1>8, <1>9 DEF Alone

(* What it leaves of the slots and of the calls, by what it does to the cache. *)
LEMMA HandlerKeepsCalls ==
    ASSUME Typed, Typed', GrantsInOrder, NEW h \in Handlers, Handler(h),
           \A c \in Conns : /\ floor[c] <= floor'[c]
                            /\ entries'[c] # None => entries'[c] = entries[c] /\ floor'[c] = floor[c],
           \A g \in Grants : written[g] <= written'[g]
    PROVE  ArcsInOrder' /\ CallsInOrder'
<1>1. \A q \in Calls : pc'[q] = pc[q] /\ job'[q] = job[q]
  BY HandlerAlone
<1>2. slot' = slot
  BY HandlerAlone
<1>3. ArcsInOrder'
  BY <1>1, <1>2, ArcsKept DEF GrantsInOrder
<1>4. written' \in [Grants -> Nat]
  BY DEF Typed, TypeOK
<1>. QED  BY <1>1, <1>3, <1>4, CallsKept DEF GrantsInOrder

(* A grant nobody else has is written to a row.                             *)
LEMMA WritingKeepsRows ==
    ASSUME Typed, TablesInOrder, NEW c \in Conns, NEW g \in Grants, written[g] = 0, Writes(c, g),
           floor' = floor
    PROVE  /\ RowsInOrder'
           /\ \A f \in Grants : written[f] <= written'[f] /\ written'[f] <= written'[g]
           /\ \A f \in Grants \ {g} : written'[f] = written[f]
           /\ written'[g] > 0
           /\ rows'[c].grant = g
           /\ \A d \in Conns \ {c} : rows'[d] = rows[d]
<1>1. RowsInOrder
  BY DEF TablesInOrder
<1>2. /\ Count \in Nat /\ Count' = Count + 1 /\ written'[g] = Count'
      /\ \A f \in Grants \ {g} : written'[f] = written[f]
      /\ \A f \in Grants : written[f] <= written'[f] /\ written'[f] <= Count'
  BY <1>1, WritingRaises
<1>3. /\ rows \in [Conns -> Row \cup {Unborn, Disconnected, Removed}]
      /\ floor \in [Conns -> Nat] /\ written \in [Grants -> Nat]
      /\ written' \in [Grants -> Nat]
  BY Writing DEF Typed, TypeOK
<1>4. rows'[c] = [grant |-> g, status |-> "ok"] /\ \A d \in Conns \ {c} : rows'[d] = rows[d]
  BY <1>3 DEF Writes
<1>5. RowsInOrder'
  <2>1. ASSUME NEW d \in Conns  PROVE floor'[d] <= 1 + Count'
    BY <1>1, <1>2, <1>3 DEF RowsInOrder
  <2>2. ASSUME NEW d \in Conns, Exists(d)'  PROVE written'[rows'[d].grant] >= floor'[d]
    <3>1. CASE d = c
      <4>1. floor[c] <= 1 + Count
        BY <1>1 DEF RowsInOrder
      <4>. QED  BY <1>2, <1>3, <1>4, <3>1, <4>1
    <3>2. CASE d # c
      <4>1. Exists(d) /\ rows'[d] = rows[d]
        BY <1>4, <2>2, <3>2 DEF Exists
      <4>2. rows[d].grant \in Grants /\ written[rows[d].grant] >= floor[d]
        BY <1>1, <1>3, <4>1 DEF RowsInOrder, Exists, Row
      <4>. QED  BY <1>2, <1>3, <4>1, <4>2
    <3>. QED  BY <3>1, <3>2
  <2>. QED  BY <1>2, <2>1, <2>2 DEF RowsInOrder
<1>. QED  BY <1>2, <1>4, <1>5

LEMMA HandlerKeepsOrder ==
    ASSUME Typed, Typed', GrantsInOrder, NEW h \in Handlers, Handler(h)
    PROVE  GrantsInOrder'
<1>. DEFINE j == job[h]
<1>0. /\ h \in Procs /\ \A k \in Handlers : k \in Procs
      /\ \A q \in Procs \ {h} : pc'[q] = pc[q] /\ job'[q] = job[q]
      /\ HandlerCarries(pc[h], j) /\ j \in Job
      /\ floor \in [Conns -> Nat] /\ written \in [Grants -> Nat]
      /\ rows \in [Conns -> Row \cup {Unborn, Disconnected, Removed}]
      /\ TablesInOrder /\ RowsInOrder /\ HandlerInOrder(h)
  BY HandlerAlone
  DEF Typed, TypeOK, RequestsTyped, HandlerTyped, Procs, GrantsInOrder, TablesInOrder
<1>1. ASSUME entries' = entries \/ \E c : entries' = Forget(c), floor' = floor,
             \A g \in Grants : written[g] <= written'[g]
      PROVE  ArcsInOrder' /\ CallsInOrder'
  <2>1. \A c \in Conns : entries'[c] # None => entries'[c] = entries[c]
    BY <1>1 DEF Forget, Typed, TypeOK
  <2>2. \A c \in Conns : floor[c] <= floor'[c]
    BY <1>0, <1>1
  <2>. QED  BY <1>1, <2>1, <2>2, HandlerKeepsCalls
<1>2. ASSUME written' = written, floor' = floor,
             \A c \in Conns : Exists(c)' => Exists(c) /\ rows'[c].grant = rows[c].grant,
             \/ ~Bringing(h)' /\ pc'[h] # "granted"
             \/ Bringing(h) /\ Bringing(h)' /\ job'[h] = job[h],
             entries' = entries \/ \E c : entries' = Forget(c)
      PROVE  GrantsInOrder'
  <2>1. \A k \in Handlers : \/ ~Bringing(k)' /\ pc'[k] # "granted"
                            \/ pc'[k] = pc[k] /\ job'[k] = job[k]
                            \/ Bringing(k) /\ Bringing(k)' /\ job'[k] = job[k]
    BY <1>0, <1>2
  <2>2. TablesInOrder'
    BY <1>0, <1>2, <2>1, TablesKept
  <2>3. \A g \in Grants : written[g] <= written'[g]
    BY <1>0, <1>2
  <2>. QED  BY <1>1, <1>2, <2>2, <2>3 DEF GrantsInOrder
<1>3. CASE NotStored(h)
  <2>1. pc'[h] = "idle"
    BY <1>0, <1>3, Finishing DEF NotStored
  <2>. QED  BY <1>2, <1>3, <2>1 DEF NotStored, history, Bringing, Exists
<1>4. CASE FindRow(h)
  <2>1. pc[h] = "exchanged" /\ pc'[h] = "known" /\ job'[h] = job[h]
    BY <1>0, <1>4, Stepping DEF FindRow
  <2>. QED  BY <1>2, <1>4, <2>1 DEF FindRow, history, Bringing, Exists
<1>5. CASE Revoke(h)
  <2>1. pc'[h] = "forget"
    BY <1>0, <1>5, Stepping DEF Revoke
  <2>. QED  BY <1>2, <1>5, <2>1 DEF Revoke, history, Bringing, Exists
<1>6. CASE ForgetDeleted(h)
  <2>1. pc'[h] = "delete"
    BY <1>0, <1>6, Stepping DEF ForgetDeleted
  <2>. QED  BY <1>2, <1>6, <2>1 DEF ForgetDeleted, history, Bringing, Exists
<1>7. CASE DeleteRow(h)
  <2>1. pc'[h] = "idle"
    BY <1>0, <1>7, Finishing DEF DeleteRow
  <2>2. rows' = rows \/ rows' = [rows EXCEPT ![j.conn] = Disconnected]
    BY <1>7 DEF DeleteRow
  <2>3. \A c \in Conns : Exists(c)' => Exists(c) /\ rows'[c].grant = rows[c].grant
    BY <1>0, <2>2 DEF Exists
  <2>. QED  BY <1>2, <1>7, <2>1, <2>3 DEF DeleteRow, history, Bringing
<1>8. ASSUME NEW c \in Conns, StartDelete(h, c)  PROVE GrantsInOrder'
  <2>1. pc'[h] \in {"forget", "revoke"}
    BY <1>0, <1>8, Stepping DEF StartDelete
  <2>. QED  BY <1>2, <1>8, <2>1 DEF StartDelete, history, Bringing, Exists
<1>9. ASSUME NEW c \in Conns \cup {None}, Exchange(h, c)  PROVE GrantsInOrder'
  <2>1. PICK g \in Grants :
            /\ written[g] = 0 /\ \A k \in Handlers : job[k].grant # g
            /\ Goto(h, "idle", "exchanged", [NoJob EXCEPT !.conn = c, !.grant = g])
    BY <1>9 DEF Exchange
  <2>2. pc'[h] = "exchanged" /\ job'[h].grant = g
    <3>1. pc'[h] = "exchanged" /\ job'[h] = [NoJob EXCEPT !.conn = c, !.grant = g]
      BY <1>0, <2>1, Stepping
    <3>. QED  BY <3>1 DEF NoJob
  <2>3. rows' = rows /\ written' = written /\ floor' = floor /\ entries' = entries
    BY <1>9 DEF Exchange, history
  <2>4. RowsInOrder'
    BY <1>0, <2>3 DEF RowsInOrder, Count, Exists
  <2>5. ASSUME NEW k \in Handlers  PROVE HandlerInOrder(k)'
    <3>1. CASE k = h
      BY <1>0, <2>1, <2>2, <2>3, <3>1 DEF HandlerInOrder, Bringing
    <3>2. CASE k # h
      <4>1. HandlerInOrder(k) /\ pc'[k] = pc[k] /\ job'[k] = job[k]
        BY <1>0, <3>2 DEF TablesInOrder
      <4>2. Bringing(k)' => \A m \in Handlers \ {k} : Bringing(m)' => job'[m].grant # job'[k].grant
        BY <1>0, <2>1, <2>2, <4>1 DEF HandlerInOrder, Bringing
      <4>. QED  BY <2>3, <4>1, <4>2 DEF HandlerInOrder, Bringing, Exists
    <3>. QED  BY <3>1, <3>2
  <2>6. \A f \in Grants : written[f] <= written'[f]
    BY <1>0, <2>3
  <2>. QED  BY <1>1, <2>3, <2>4, <2>5, <2>6 DEF GrantsInOrder, TablesInOrder
<1>10. ASSUME NEW c \in Conns, Bringing(h), j.grant \in Grants, Writes(c, j.grant),
              floor' = floor, entries' = entries,
              \/ pc'[h] = "idle"
              \/ pc'[h] = "granted" /\ job'[h] = j /\ j.conn = c
       PROVE  GrantsInOrder'
  <2>. DEFINE g == j.grant
  <2>1. written[g] = 0 /\ \A k \in Handlers \ {h} : Bringing(k) => job[k].grant # g
    BY <1>0, <1>10 DEF HandlerInOrder
  <2>2. /\ RowsInOrder'
        /\ \A f \in Grants : written[f] <= written'[f] /\ written'[f] <= written'[g]
        /\ \A f \in Grants \ {g} : written'[f] = written[f]
        /\ written'[g] > 0 /\ rows'[c].grant = g
        /\ \A d \in Conns \ {c} : rows'[d] = rows[d]
    BY <1>0, <1>10, <2>1, WritingKeepsRows
  <2>. HIDE DEF g
  <2>3. HandlerInOrder(h)'
    <3>1. written'[g] \in Nat
      BY <1>10 DEF Typed, TypeOK, g
    <3>. QED  BY <1>10, <2>2, <3>1 DEF HandlerInOrder, Bringing, g
  <2>4. ASSUME NEW k \in Handlers \ {h}  PROVE HandlerInOrder(k)'
    <3>1. HandlerInOrder(k) /\ pc'[k] = pc[k] /\ job'[k] = job[k] /\ HandlerCarries(pc[k], job[k])
      BY <1>0 DEF TablesInOrder, Typed, RequestsTyped, HandlerTyped
    <3>2. Bringing(k)' =>
              /\ written'[job'[k].grant] = 0
              /\ \A m \in Handlers \ {k} : Bringing(m)' => job'[m].grant # job'[k].grant
      <4>1. SUFFICES ASSUME Bringing(k)
                     PROVE  /\ written'[job[k].grant] = 0
                            /\ \A m \in Handlers \ {k} : Bringing(m)' => job'[m].grant # job[k].grant
        BY <3>1 DEF Bringing
      <4>2. job[k].grant \in Grants \ {g} /\ written[job[k].grant] = 0
        BY <2>1, <3>1, <4>1 DEF HandlerCarries, HandlerInOrder, Bringing
      <4>3. \A m \in Handlers \ {k} : Bringing(m)' => Bringing(m) /\ job'[m] = job[m]
        BY <1>0, <1>10 DEF Bringing
      <4>. QED  BY <2>2, <3>1, <4>1, <4>2, <4>3 DEF HandlerInOrder
    <3>3. ASSUME pc'[k] = "granted"
          PROVE  /\ written'[job'[k].grant] > 0
                 /\ Exists(job[k].conn)' => written'[job'[k].grant] <= written'[rows'[job'[k].conn].grant]
      <4>. DEFINE f == job[k].grant
                  d == job[k].conn
      <4>1. f \in Grants /\ d \in Conns /\ written[f] > 0 /\ f # g
        BY <2>1, <3>1, <3>3 DEF HandlerCarries, HandlerInOrder
      <4>2. written'[f] = written[f]
        BY <2>2, <4>1
      <4>3. CASE d = c
        BY <2>2, <3>1, <4>1, <4>2, <4>3
      <4>4. CASE d # c
        <5>1. rows'[d] = rows[d]
          BY <2>2, <4>1, <4>4
        <5>2. Exists(d)' => /\ Exists(d) /\ rows[d].grant \in Grants
                            /\ written[f] <= written[rows[d].grant]
          BY <1>0, <3>1, <3>3, <4>1, <5>1 DEF Exists, Row, HandlerInOrder
        <5>3. written' \in [Grants -> Nat]
          BY DEF Typed, TypeOK
        <5>. QED  BY <1>0, <2>2, <3>1, <4>1, <4>2, <5>1, <5>2, <5>3
      <4>. QED  BY <4>3, <4>4
    <3>. QED  BY <3>2, <3>3 DEF HandlerInOrder
  <2>5. TablesInOrder'
    BY <2>2, <2>3, <2>4 DEF TablesInOrder
  <2>. QED  BY <1>1, <1>10, <2>2, <2>5 DEF GrantsInOrder
<1>11. CASE Connect(h)
  <2>1. PICK c \in Conns : Writes(c, j.grant)
    BY <1>11 DEF Connect
  <2>2. pc[h] = "exchanged" /\ pc'[h] = "idle"
    BY <1>0, <1>11, Finishing DEF Connect
  <2>3. Bringing(h) /\ j.grant \in Grants
    BY <1>0, <2>2 DEF Bringing, HandlerCarries
  <2>4. floor' = floor /\ entries' = entries
    BY <1>11 DEF Connect
  <2>. QED  BY <1>10, <2>1, <2>2, <2>3, <2>4
<1>12. CASE SetGrant(h)
  <2>1. pc[h] = "known" /\ pc'[h] = "granted" /\ job'[h] = j
    BY <1>0, <1>12, Stepping DEF SetGrant
  <2>2. Bringing(h) /\ j.grant \in Grants /\ j.conn \in Conns
    BY <1>0, <2>1 DEF Bringing, HandlerCarries
  <2>3. Writes(j.conn, j.grant) /\ floor' = floor /\ entries' = entries
    BY <1>12 DEF SetGrant
  <2>. QED  BY <1>10, <2>1, <2>2, <2>3
<1>13. CASE ForgetOld(h)
  <2>. DEFINE c == j.conn
              g == j.grant
  <2>1. pc[h] = "granted" /\ pc'[h] = "idle"
    BY <1>0, <1>13, Finishing DEF ForgetOld
  <2>2. /\ c \in Conns /\ g \in Grants /\ written[g] > 0
        /\ Exists(c) => written[g] <= written[rows[c].grant]
    BY <1>0, <2>1 DEF HandlerCarries, HandlerInOrder
  <2>3. /\ entries' = [entries EXCEPT ![c] = None] /\ rows' = rows /\ written' = written
        /\ floor' = [floor EXCEPT ![c] = IF written[g] > @ THEN written[g] ELSE @]
    BY <1>13 DEF ForgetOld, Forget
  <2>4. \A d \in Conns : /\ floor[d] <= floor'[d]
                         /\ entries'[d] # None => entries'[d] = entries[d] /\ floor'[d] = floor[d]
    BY <1>0, <2>2, <2>3 DEF Typed, TypeOK
  <2>5. \A f \in Grants : written[f] <= written'[f]
    BY <1>0, <2>3
  <2>6. ArcsInOrder' /\ CallsInOrder'
    BY <2>4, <2>5, HandlerKeepsCalls
  <2>7. Count' = Count /\ Count \in Nat
    <3>1. IsFiniteSet({f \in Grants : written[f] > 0})
      BY NamesAssumption, FS_Subset
    <3>. QED  BY <2>3, <3>1, FS_CardinalityType DEF Count
  <2>8. ASSUME NEW d \in Conns  PROVE floor'[d] <= 1 + Count'
    <3>1. floor[d] <= 1 + Count /\ written[g] <= Count
      BY <1>0, <2>2 DEF RowsInOrder
    <3>. QED  BY <1>0, <2>2, <2>3, <2>7, <3>1
  <2>9. ASSUME NEW d \in Conns, Exists(d)'  PROVE written'[rows'[d].grant] >= floor'[d]
    <3>1. Exists(d) /\ rows[d].grant \in Grants
      BY <1>0, <2>3, <2>9 DEF Exists, Row
    <3>2. written[rows[d].grant] >= floor[d]
      BY <1>0, <3>1 DEF RowsInOrder
    <3>. QED  BY <1>0, <2>2, <2>3, <3>1, <3>2
  <2>10. RowsInOrder'
    BY <1>0, <2>3, <2>7, <2>8, <2>9 DEF RowsInOrder
  <2>11. ASSUME NEW k \in Handlers  PROVE HandlerInOrder(k)'
    <3>1. CASE k = h
      BY <2>1, <3>1 DEF HandlerInOrder, Bringing
    <3>2. CASE k # h
      <4>1. HandlerInOrder(k) /\ pc'[k] = pc[k] /\ job'[k] = job[k]
        BY <1>0, <3>2 DEF TablesInOrder
      <4>2. \A m \in Handlers : Bringing(m)' => Bringing(m) /\ job'[m] = job[m]
        BY <1>0, <2>1 DEF Bringing
      <4>. QED  BY <2>3, <4>1, <4>2 DEF HandlerInOrder, Bringing, Exists
    <3>. QED  BY <3>1, <3>2
  <2>. QED  BY <2>6, <2>10, <2>11 DEF GrantsInOrder, TablesInOrder
<1>. QED
  BY <1>3, <1>4, <1>5, <1>6, <1>7, <1>8, <1>9, <1>11, <1>12, <1>13 DEF Handler

-----------------------------------------------------------------------------
(* Everyone's steps.                                                       *)

LEMMA OrderInit == Init => GrantsInOrder
<1>1. SUFFICES ASSUME Init  PROVE GrantsInOrder
  OBVIOUS
<1>. USE <1>1
<1>2. \A p \in Procs : pc[p] = "idle"
  BY DEF Init
<1>3. \A g \in Grants : written[g] = IF g \in live THEN 1 ELSE 0
  BY DEF Init
<1>4. Count \in Nat
  <2>1. IsFiniteSet({g \in Grants : written[g] > 0})
    BY NamesAssumption, FS_Subset
  <2>. QED  BY <2>1, FS_CardinalityType DEF Count
<1>5. ASSUME NEW g \in Grants, written[g] > 0  PROVE Count >= 1
  <2>1. IsFiniteSet({f \in Grants : written[f] > 0}) /\ g \in {f \in Grants : written[f] > 0}
    BY <1>5, NamesAssumption, FS_Subset
  <2>2. Count # 0
    BY <2>1, FS_EmptySet DEF Count
  <2>. QED  BY <1>4, <2>2
<1>6. RowsInOrder
  <2>1. \A g \in Grants : written[g] <= Count
    BY <1>3, <1>4, <1>5
  <2>2. ASSUME NEW c \in Conns, Exists(c)  PROVE written[rows[c].grant] >= floor[c]
    <3>1. rows[c].grant \in live /\ rows[c].grant \in Grants
      BY <2>2 DEF Init, Exists
    <3>. QED  BY <1>3, <3>1 DEF Init
  <2>. QED  BY <1>4, <2>1, <2>2 DEF Init, RowsInOrder
<1>7. \A h \in Handlers : HandlerInOrder(h)
  BY <1>2 DEF HandlerInOrder, Bringing, Procs
<1>8. ArcsInOrder
  BY <1>2 DEF Init, ArcsInOrder, MapInOrder, ArcInOrder, AtSlot, Procs
<1>9. CallsInOrder
  BY <1>2 DEF CallsInOrder, CallInOrder, Procs
<1>. QED  BY <1>6, <1>7, <1>8, <1>9 DEF GrantsInOrder, TablesInOrder

LEMMA OrderStep == Typed /\ Typed' /\ GrantsInOrder /\ [Next]_vars => GrantsInOrder'
<1>1. SUFFICES ASSUME Typed, Typed', GrantsInOrder, [Next]_vars  PROVE GrantsInOrder'
  OBVIOUS
<1>. USE <1>1
<1>2. ASSUME NEW p \in Calls, (\E c \in Conns : StartCall(p, c)) \/ Call(p)  PROVE GrantsInOrder'
  <2>1. TablesInOrder' /\ written' = written /\ floor' = floor
    BY <1>2, CallKeepsTables DEF GrantsInOrder
  <2>. QED  BY <1>2, <2>1, CallKeepsArcs, CallKeepsCalls DEF GrantsInOrder
<1>3. ASSUME written' = written, floor' = floor, slot' = slot, entries' = entries,
             \A c \in Conns : Exists(c)' => Exists(c) /\ rows'[c].grant = rows[c].grant,
             \A q \in Procs : pc'[q] = "idle" \/ (pc'[q] = pc[q] /\ job'[q] = job[q])
      PROVE  GrantsInOrder'
  <2>1. /\ written \in [Grants -> Nat] /\ floor \in [Conns -> Nat]
        /\ \A q \in Calls : q \in Procs
        /\ \A h \in Handlers : h \in Procs
    BY DEF Typed, TypeOK, Procs
  <2>2. TablesInOrder'
    BY <1>3, <2>1, TablesKept DEF GrantsInOrder, Bringing
  <2>3. ArcsInOrder'
    <3>1. \A p \in Calls : pc'[p] \in AtSlot => pc[p] \in AtSlot /\ job'[p] = job[p]
      BY <1>3, <2>1 DEF AtSlot
    <3>. QED  BY <1>3, <2>1, <3>1, ArcsKept DEF GrantsInOrder
  <2>4. CallsInOrder'
    <3>1. \A p \in Calls : CallInOrder(p)' \/ (pc'[p] = pc[p] /\ job'[p] = job[p])
      BY <1>3, <2>1 DEF CallInOrder
    <3>. QED  BY <1>3, <2>1, <3>1, CallsKept DEF GrantsInOrder
  <2>. QED  BY <2>2, <2>3, <2>4 DEF GrantsInOrder
<1>4. ASSUME NEW p \in Procs, Dropped(p)  PROVE GrantsInOrder'
  <2>1. \A q \in Procs : pc'[q] = "idle" \/ (pc'[q] = pc[q] /\ job'[q] = job[q])
    BY <1>4, Finishing DEF Dropped
  <2>. QED  BY <1>3, <1>4, <2>1 DEF Dropped, history, Exists
<1>5. ASSUME NEW c \in Conns, CliRemove(c)  PROVE GrantsInOrder'
  <2>1. \A d \in Conns : Exists(d)' => Exists(d) /\ rows'[d].grant = rows[d].grant
    BY <1>5 DEF CliRemove, Exists, Typed, TypeOK
  <2>. QED  BY <1>3, <1>5, <2>1 DEF CliRemove, history
<1>6. CASE (\E g \in Grants : GoogleRevokes(g)) \/ Tick \/ UNCHANGED vars
  <2>1. /\ written' = written /\ floor' = floor /\ slot' = slot /\ entries' = entries
        /\ rows' = rows /\ pc' = pc /\ job' = job
    BY <1>6 DEF GoogleRevokes, Tick, vars, history
  <2>. QED  BY <1>3, <2>1 DEF Exists
<1>7. CASE Restart
  <2>1. \A p \in Procs : pc'[p] = "idle"
    BY <1>7 DEF Restart
  <2>2. /\ written' = written /\ floor' = floor /\ rows' = rows
        /\ \A c \in Conns : entries'[c] = None
        /\ written' \in [Grants -> Nat] /\ \A g \in Grants : written[g] <= written'[g]
    BY <1>7 DEF Restart, history, Typed, TypeOK
  <2>3. TablesInOrder'
    BY <2>1, <2>2, TablesKept DEF GrantsInOrder, Bringing, Exists, Procs
  <2>4. ArcsInOrder'
    BY <2>1, <2>2 DEF ArcsInOrder, MapInOrder, ArcInOrder, AtSlot, Procs
  <2>5. CallsInOrder'
    BY <2>1 DEF CallsInOrder, CallInOrder, Procs
  <2>. QED  BY <2>3, <2>4, <2>5 DEF GrantsInOrder
<1>8. ASSUME NEW h \in Handlers, Handler(h)  PROVE GrantsInOrder'
  BY <1>8, HandlerKeepsOrder
<1>. QED
  BY <1>2, <1>4, <1>5, <1>6, <1>7, <1>8 DEF Next

LEMMA InOrder == Spec => [](Typed /\ GrantsInOrder)
BY TypedInit, TypedStep, OrderInit, OrderStep, PTL DEF Spec

(* Once a reconnect of src/http/handlers/connections.rs is through, no call   *)
(* of src/google/client.rs that asks for a token is sent with one issued for  *)
(* a grant it has replaced, whatever requests were under way.                *)
THEOREM NoOldTokenAfterReconnect == Spec => []NoOldGrant
<1>1. Typed /\ GrantsInOrder => NoOldGrant
  BY DEF GrantsInOrder, CallsInOrder, CallInOrder, NoOldGrant
<1>. QED  BY <1>1, InOrder, PTL

(* TokenSource::refresh_after_401 answers with a token other than the one     *)
(* Google has just refused, whoever fetched it.                             *)
THEOREM RetriesDiffer == Spec => []RetriesWithAnother
<1>1. Typed /\ GrantsInOrder => RetriesWithAnother
  BY DEF GrantsInOrder, CallsInOrder, CallInOrder, RetriesWithAnother
<1>. QED  BY <1>1, InOrder, PTL

-----------------------------------------------------------------------------
(* The lock of a slot, and what it is taken for.                            *)

LockInOrder(p) ==
    /\ pc[p] = "lock" => p \in Range(queue[job[p].arc])
    /\ pc[p] \in Working => queue[job[p].arc] # <<>> /\ Head(queue[job[p].arc]) = p

(* A retry avoids a token that was refused, and what a call replaces is not    *)
(* worth keeping.                                                          *)
NeedInOrder(p) ==
    /\ job[p].stale # None => job[p].stale \in refused
    /\ Refreshing(p) =>
          LET s == slot[job[p].arc]
          IN s = None \/ s.expires <= now + Skew \/ s.token \in refused

LocksInOrder == \A p \in Calls : LockInOrder(p) /\ NeedInOrder(p)

(* Nobody else's place in a queue is lost.                                  *)
PlacesKept(p) ==
    \A a \in Arcs : \A q \in Calls \ {p} :
        /\ q \in Range(queue[a]) => q \in Range(queue'[a])
        /\ queue[a] # <<>> /\ Head(queue[a]) = q => queue'[a] # <<>> /\ Head(queue'[a]) = q

LEMMA PlacesUnlocked ==
    ASSUME Typed, NEW p, Unlock(p) \/ queue' = queue
    PROVE  PlacesKept(p)
<1>1. queue \in [Arcs -> Seq(Calls)]
  BY DEF Typed, TypeOK
<1>2. CASE queue' = queue
  BY <1>2 DEF PlacesKept
<1>3. CASE Unlock(p)
  <2>1. ASSUME NEW a \in Arcs, NEW q \in Calls \ {p}
        PROVE  /\ q \in Range(queue[a]) => q \in Range(queue'[a])
               /\ queue[a] # <<>> /\ Head(queue[a]) = q => queue'[a] # <<>> /\ Head(queue'[a]) = q
    <3>1. queue[a] \in Seq(Calls) /\ queue'[a] = RemoveFirst(queue[a], p)
      BY <1>1, <1>3 DEF Unlock
    <3>2. /\ \A f : f # p /\ f \in Range(queue[a]) => f \in Range(RemoveFirst(queue[a], p))
          /\ queue[a] # <<>> /\ Head(queue[a]) # p =>
               RemoveFirst(queue[a], p) # <<>> /\ Head(RemoveFirst(queue[a], p)) = Head(queue[a])
      BY <3>1, RemovingFirst
    <3>. QED  BY <3>1, <3>2
  <2>. QED  BY <2>1 DEF PlacesKept
<1>. QED  BY <1>2, <1>3

(* A call that stays where it is.                                           *)
LEMMA LockKept ==
    ASSUME Typed, NEW p, PlacesKept(p), NEW q \in Calls \ {p}, LockInOrder(q),
           pc'[q] = pc[q], job'[q] = job[q]
    PROVE  LockInOrder(q)'
<1>1. pc[q] \in AtSlot => job[q].arc \in Arcs
  BY DEF Typed, RequestsTyped, CallTyped, CallCarries
<1>. QED  BY <1>1 DEF LockInOrder, PlacesKept, AtSlot, Working

LEMMA NeedKept ==
    ASSUME Typed, NEW q \in Calls, NeedInOrder(q), pc'[q] = pc[q], job'[q] = job[q],
           Refreshing(q) => slot'[job[q].arc] = slot[job[q].arc],
           now' \in Nat, now <= now', refused \cap InUse \subseteq refused'
    PROVE  NeedInOrder(q)'
<1>1. job[q].stale # None => job[q].stale \in InUse
  BY DEF InUse, Procs
<1>2. Refreshing(q) => /\ job[q].arc \in Arcs
                       /\ slot[job[q].arc] # None => slot[job[q].arc].token \in InUse
  BY DEF Typed, RequestsTyped, CallTyped, CallCarries, AtSlot, Refreshing, InUse, Unreferenced, Procs
<1>3. /\ now \in Nat /\ Skew \in Nat
      /\ Refreshing(q) /\ slot[job[q].arc] # None => slot[job[q].arc].expires \in Nat
  BY <1>2, ConstantsAssumption DEF Typed, TypeOK, Cached
<1>4. Refreshing(q)' <=> Refreshing(q)
  BY DEF Refreshing
<1>. QED  BY <1>1, <1>2, <1>3, <1>4 DEF NeedInOrder

LEMMA CallKeepsLocks ==
    ASSUME Typed, LocksInOrder, NEW p \in Calls, (\E c \in Conns : StartCall(p, c)) \/ Call(p)
    PROVE  LocksInOrder'
<1>. DEFINE j == job[p]
<1>0. /\ p \in Procs /\ \A q \in Calls : q \in Procs
      /\ j \in Job /\ LockInOrder(p) /\ NeedInOrder(p) /\ CallCarries(pc[p], j)
      /\ now \in Nat /\ queue \in [Arcs -> Seq(Calls)] /\ slot \in [Arcs -> Cached \cup {None}]
      /\ None \notin Arcs
  BY NamesAssumption
  DEF Typed, TypeOK, RequestsTyped, CallTyped, Procs, LocksInOrder
<1>1. ASSUME NEW from, NEW to, NEW what, Goto(p, from, to, what), PlacesKept(p),
             now' = now, refused \cap InUse \subseteq refused',
             \A q \in Calls \ {p} : Refreshing(q) => slot'[job[q].arc] = slot[job[q].arc],
             LockInOrder(p)' /\ NeedInOrder(p)'
      PROVE  LocksInOrder'
  <2>1. \A q \in Calls \ {p} : pc'[q] = pc[q] /\ job'[q] = job[q]
    BY <1>0, <1>1, Stepping
  <2>2. ASSUME NEW q \in Calls \ {p}  PROVE LockInOrder(q)' /\ NeedInOrder(q)'
    <3>1. LockInOrder(q) /\ NeedInOrder(q)
      BY DEF LocksInOrder
    <3>2. LockInOrder(q)'
      BY <1>1, <2>1, <3>1, LockKept
    <3>. QED  BY <1>0, <1>1, <2>1, <3>1, <3>2, NeedKept
  <2>. QED  BY <1>1, <2>2 DEF LocksInOrder
<1>2. ASSUME NEW from, NEW to, NEW what, Goto(p, from, to, what), to \in {"idle", "entry", "send"},
             Unlock(p) \/ queue' = queue, slot' = slot, now' = now, refused \subseteq refused',
             what.stale # None => what.stale \in refused'
      PROVE  LocksInOrder'
  <2>1. LockInOrder(p)' /\ NeedInOrder(p)'
    BY <1>0, <1>2, Stepping DEF LockInOrder, NeedInOrder, Refreshing, Working, AtSlot
  <2>. QED  BY <1>1, <1>2, <2>1, PlacesUnlocked
<1>3. ASSUME NEW from, Finish(p, from), Unlock(p) \/ queue' = queue, slot' = slot, now' = now,
             refused \subseteq refused'
      PROVE  LocksInOrder'
  BY <1>2, <1>3 DEF Finish, NoJob
<1>4. ASSUME NEW c \in Conns, StartCall(p, c)  PROVE LocksInOrder'
  <2>1. [NoJob EXCEPT !.conn = c].stale = None
    BY DEF NoJob
  <2>. QED  BY <1>2, <1>4, <2>1 DEF StartCall, history
<1>5. CASE NoRow(p) \/ TokenRequestFails(p) \/ Mark(p) \/ Answered(p)
  BY <1>3, <1>5 DEF NoRow, TokenRequestFails, Mark, Answered, history
<1>6. CASE Unauthorized(p)
  <2>. DEFINE again == [NoJob EXCEPT !.conn = j.conn, !.stale = j.token]
  <2>1. again.stale = j.token /\ refused' = refused \cup {j.token}
    BY <1>6 DEF Unauthorized, NoJob
  <2>2. \/ Goto(p, "send", "entry", again)
        \/ Finish(p, "send")
    BY <1>6 DEF Unauthorized
  <2>3. queue' = queue /\ slot' = slot /\ now' = now
    BY <1>6 DEF Unauthorized
  <2>. HIDE DEF again
  <2>. QED  BY <1>2, <1>3, <2>1, <2>2, <2>3
<1>7. CASE UseCached(p)
  <2>. DEFINE taken == [j EXCEPT !.token = slot[j.arc].token, !.arc = None, !.at = now]
  <2>1. taken.stale = j.stale
    BY <1>0 DEF Job
  <2>2. Goto(p, "lock", "send", taken)
    BY <1>7 DEF UseCached
  <2>3. Unlock(p) /\ slot' = slot /\ now' = now /\ refused' = refused
    BY <1>7 DEF UseCached, history
  <2>. HIDE DEF taken
  <2>. QED  BY <1>0, <1>2, <2>1, <2>2, <2>3 DEF NeedInOrder
<1>8. CASE Refresh(p)
  <2>1. pc[p] = "lock" /\ pc'[p] = "sealed" /\ job'[p] = j /\ Goto(p, "lock", "sealed", j)
    BY <1>0, <1>8, Stepping DEF Refresh
  <2>2. now' = now /\ slot' = slot /\ queue' = queue /\ refused' = refused
    BY <1>8 DEF Refresh, history
  <2>3. LockInOrder(p)'
    <3>1. queue[j.arc] # <<>>
      BY <1>0, <2>1 DEF LockInOrder, Range
    <3>. QED  BY <1>8, <2>1, <2>2, <3>1 DEF Refresh, HasLock, LockInOrder
  <2>4. NeedInOrder(p)'
    <3>1. j.arc \in Arcs /\ Skew \in Nat
      BY <1>0, <2>1, ConstantsAssumption DEF CallCarries, AtSlot
    <3>2. slot[j.arc] # None => slot[j.arc].expires \in Nat
      BY <1>0, <3>1 DEF Cached
    <3>3. ~Usable(slot[j.arc], j.stale)
      BY <1>8 DEF Refresh
    <3>. QED  BY <1>0, <2>1, <2>2, <3>1, <3>2, <3>3 DEF NeedInOrder, Usable
  <2>. QED  BY <1>0, <1>1, <2>1, <2>2, <2>3, <2>4, PlacesUnlocked
<1>9. ASSUME NEW from \in Working, NEW to \in Working, NEW what, Goto(p, from, to, what),
             what.arc = j.arc, what.stale = j.stale,
             Refreshing(p)' => Refreshing(p),
             queue' = queue, slot' = slot, now' = now, refused \cap InUse \subseteq refused'
      PROVE  LocksInOrder'
  <2>1. pc[p] = from /\ pc'[p] = to /\ job'[p] = what
    BY <1>0, <1>9, Stepping
  <2>2. LockInOrder(p)'
    BY <1>0, <1>9, <2>1 DEF LockInOrder, Working, AtSlot
  <2>3. NeedInOrder(p)'
    <3>1. j.stale # None => j.stale \in InUse
      BY <1>0 DEF InUse
    <3>2. /\ j.arc \in Arcs
          /\ slot[j.arc] # None => slot[j.arc].token \in InUse
      BY <1>0, <1>9, <2>1 DEF CallCarries, AtSlot, Working, InUse, Unreferenced
    <3>. QED  BY <1>0, <1>9, <2>1, <3>1, <3>2 DEF NeedInOrder
  <2>. QED  BY <1>1, <1>9, <2>2, <2>3, PlacesUnlocked
<1>10. CASE OpenSeal(p)
  <2>. DEFINE opened == [j EXCEPT !.grant = rows[j.conn].grant, !.at = now]
  <2>1. opened.arc = j.arc /\ opened.stale = j.stale
    BY <1>0 DEF Job
  <2>2. PICK to \in {"mark", "post"} : Goto(p, "sealed", to, opened)
    BY <1>10 DEF OpenSeal
  <2>3. Refreshing(p)
    BY <1>10 DEF OpenSeal, Refreshing
  <2>4. queue' = queue /\ slot' = slot /\ now' = now /\ refused' = refused
    BY <1>10 DEF OpenSeal, history
  <2>. HIDE DEF opened
  <2>. QED  BY <1>9, <2>1, <2>2, <2>3, <2>4 DEF Working, AtSlot
<1>11. CASE TokenIssued(p)
  <2>1. PICK t : Goto(p, "post", "answered", [j EXCEPT !.token = t])
    BY <1>11 DEF TokenIssued
  <2>. DEFINE answered == [j EXCEPT !.token = t]
  <2>2. answered.arc = j.arc /\ answered.stale = j.stale
    BY <1>0 DEF Job
  <2>3. pc[p] = "post"
    BY <1>0, <2>1, Stepping
  <2>4. queue' = queue /\ slot' = slot /\ now' = now /\ refused' = refused \cap InUse
    BY <1>11 DEF TokenIssued
  <2>. QED  BY <1>9, <2>1, <2>2, <2>3, <2>4 DEF Working, AtSlot, Refreshing
<1>12. CASE GrantRefused(p)
  BY <1>9, <1>12 DEF GrantRefused, Working, AtSlot, Refreshing, history
<1>13. CASE Store(p)
  <2>. DEFINE stored == [j EXCEPT !.arc = None, !.at = now]
  <2>1. pc[p] = "answered" /\ pc'[p] = "send" /\ job'[p] = stored /\ Goto(p, "answered", "send", stored)
    BY <1>0, <1>13, Stepping DEF Store
  <2>2. stored.stale = j.stale
    BY <1>0 DEF Job
  <2>3. /\ now' = now /\ refused' = refused /\ Unlock(p) /\ j.arc \in Arcs
        /\ slot' = [slot EXCEPT ![j.arc] = [token |-> j.token, expires |-> now + Life]]
    BY <1>0, <1>13, <2>1 DEF Store, history, CallCarries, AtSlot
  <2>4. ASSUME NEW q \in Calls \ {p}, Refreshing(q)  PROVE slot'[job[q].arc] = slot[job[q].arc]
    <3>1. LockInOrder(q) /\ pc[q] \in Working /\ pc[p] \in Working
      BY <2>1, <2>4 DEF LocksInOrder, Refreshing, Working, AtSlot
    <3>2. job[q].arc # j.arc
      BY <1>0, <3>1 DEF LockInOrder
    <3>. QED  BY <1>0, <2>3, <3>2
  <2>5. LockInOrder(p)' /\ NeedInOrder(p)'
    BY <1>0, <2>1, <2>2, <2>3 DEF LockInOrder, NeedInOrder, Refreshing, Working, AtSlot
  <2>. QED  BY <1>1, <2>1, <2>3, <2>4, <2>5, PlacesUnlocked
<1>14. CASE Entry(p)
  <2>. DEFINE c == j.conn
  <2>1. PICK a \in Arcs :
           /\ Goto(p, "entry", "lock", [j EXCEPT !.arc = a, !.floor = floor[c]])
           /\ queue' = [queue EXCEPT ![a] = Append(@, p)]
           /\ \/ slot' = slot
              \/ Unreferenced(a) /\ slot' = [slot EXCEPT ![a] = None]
    <3>1. entries[c] # None => entries[c] \in Arcs
      BY <1>0, <1>14 DEF Entry, CallCarries, Typed, TypeOK
    <3>. QED  BY <1>14, <3>1 DEF Entry
  <2>. DEFINE placed == [j EXCEPT !.arc = a, !.floor = floor[c]]
  <2>2. placed.arc = a /\ placed.stale = j.stale
    BY <1>0 DEF Job
  <2>3. pc'[p] = "lock" /\ job'[p] = placed
    BY <1>0, <2>1, Stepping
  <2>4. PlacesKept(p)
    <3>1. ASSUME NEW b \in Arcs, NEW q \in Calls \ {p}
          PROVE  /\ q \in Range(queue[b]) => q \in Range(queue'[b])
                 /\ queue[b] # <<>> /\ Head(queue[b]) = q => queue'[b] # <<>> /\ Head(queue'[b]) = q
      <4>1. CASE b # a
        BY <1>0, <2>1, <4>1
      <4>2. CASE b = a
        <5>. DEFINE old == queue[a]
                    new == Append(queue[a], p)
        <5>1. queue'[a] = new /\ old \in Seq(Calls)
          BY <1>0, <2>1
        <5>2. new \in Seq(Calls) /\ Len(new) = Len(old) + 1 /\ \A i \in 1 .. Len(old) : new[i] = old[i]
          BY <5>1
        <5>3. q \in Range(old) => q \in Range(new)
          BY <5>1, <5>2 DEF Range
        <5>4. old # <<>> => new # <<>> /\ Head(new) = Head(old)
          BY <5>1, <5>2
        <5>. QED  BY <4>2, <5>1, <5>3, <5>4
      <4>. QED  BY <4>1, <4>2
    <3>. QED  BY <3>1 DEF PlacesKept
  <2>5. p \in Range(queue'[a])
    <3>1. Len(Append(queue[a], p)) = Len(queue[a]) + 1 /\ Append(queue[a], p)[Len(queue[a]) + 1] = p
      BY <1>0
    <3>. QED  BY <1>0, <2>1, <3>1 DEF Range
  <2>6. ASSUME NEW q \in Calls \ {p}, Refreshing(q)  PROVE slot'[job[q].arc] = slot[job[q].arc]
    <3>1. job[q].arc \in Arcs
      BY <2>6 DEF Typed, RequestsTyped, CallTyped, CallCarries, Refreshing, AtSlot
    <3>. QED  BY <1>0, <2>1, <3>1 DEF Unreferenced
  <2>7. LockInOrder(p)' /\ NeedInOrder(p)'
    <3>1. now' = now /\ refused' = refused
      BY <1>14 DEF Entry, history
    <3>. QED
      BY <1>0, <2>2, <2>3, <2>5, <3>1 DEF LockInOrder, NeedInOrder, Refreshing, Working, AtSlot
  <2>8. now' = now /\ refused' = refused
    BY <1>14 DEF Entry, history
  <2>. QED  BY <1>1, <2>1, <2>4, <2>6, <2>7, <2>8
<1>. QED
  BY <1>4, <1>5, <1>6, <1>7, <1>8, <1>10, <1>11, <1>12, <1>13, <1>14 DEF Call

LEMMA LocksInit == Init => LocksInOrder
BY DEF Init, LocksInOrder, LockInOrder, NeedInOrder, Refreshing, Working, AtSlot, NoJob, Procs

LEMMA LocksStep == Typed /\ Typed' /\ LocksInOrder /\ [Next]_vars => LocksInOrder'
<1>1. SUFFICES ASSUME Typed, Typed', LocksInOrder, [Next]_vars  PROVE LocksInOrder'
  OBVIOUS
<1>. USE <1>1
<1>0. \A q \in Calls : q \in Procs
  BY DEF Procs
<1>2. ASSUME NEW p \in Calls, (\E c \in Conns : StartCall(p, c)) \/ Call(p)  PROVE LocksInOrder'
  BY <1>2, CallKeepsLocks
<1>3. ASSUME NEW p, PlacesKept(p), slot' = slot, now <= now', now' \in Nat, refused' = refused,
             \A q \in Calls \ {p} : pc'[q] = pc[q] /\ job'[q] = job[q],
             p \in Calls => pc'[p] = "idle" /\ job'[p] = NoJob
      PROVE  LocksInOrder'
  <2>1. ASSUME NEW q \in Calls \ {p}  PROVE LockInOrder(q)' /\ NeedInOrder(q)'
    <3>1. LockInOrder(q) /\ NeedInOrder(q)
      BY DEF LocksInOrder
    <3>. QED  BY <1>3, <3>1, LockKept, NeedKept
  <2>2. p \in Calls => LockInOrder(p)' /\ NeedInOrder(p)'
    BY <1>3 DEF LockInOrder, NeedInOrder, Refreshing, Working, AtSlot, NoJob
  <2>. QED  BY <2>1, <2>2 DEF LocksInOrder
<1>4. now \in Nat
  BY DEF Typed, TypeOK
<1>5. ASSUME NEW p \in Procs, Dropped(p)  PROVE LocksInOrder'
  <2>1. /\ pc'[p] = "idle" /\ job'[p] = NoJob
        /\ \A q \in Calls \ {p} : pc'[q] = pc[q] /\ job'[q] = job[q]
    BY <1>0, <1>5, Finishing DEF Dropped
  <2>. QED  BY <1>3, <1>4, <1>5, <2>1, PlacesUnlocked DEF Dropped, history
<1>6. ASSUME NEW h \in Handlers, Handler(h)  PROVE LocksInOrder'
  <2>1. h \notin Calls /\ slot' = slot /\ \A q \in Calls : pc'[q] = pc[q] /\ job'[q] = job[q]
    BY <1>6, HandlerAlone, ConstantsAssumption
  <2>2. now' = now /\ queue' = queue /\ refused' = refused
    BY <1>6 DEF Handler, Exchange, StartDelete, Connect, NotStored, ForgetOld, DeleteRow, FindRow,
                SetGrant, Revoke, ForgetDeleted, history
  <2>. QED  BY <1>3, <1>4, <2>1, <2>2, PlacesUnlocked
<1>7. CASE \/ \E c \in Conns : CliRemove(c)
           \/ \E g \in Grants : GoogleRevokes(g)
           \/ Tick
           \/ UNCHANGED vars
  <2>1. /\ pc' = pc /\ job' = job /\ slot' = slot /\ queue' = queue /\ refused' = refused
        /\ now <= now' /\ now' \in Nat
    BY <1>4, <1>7 DEF CliRemove, GoogleRevokes, Tick, vars, history
  <2>2. ASSUME NEW q \in Calls  PROVE LockInOrder(q)' /\ NeedInOrder(q)'
    <3>1. LockInOrder(q) /\ NeedInOrder(q)
      BY DEF LocksInOrder
    <3>2. LockInOrder(q)'
      BY <2>1, <3>1 DEF LockInOrder
    <3>. QED  BY <2>1, <3>1, <3>2, NeedKept
  <2>. QED  BY <2>2 DEF LocksInOrder
<1>8. CASE Restart
  BY <1>0, <1>8 DEF Restart, LocksInOrder, LockInOrder, NeedInOrder, Refreshing, Working, AtSlot, NoJob
<1>. QED
  BY <1>2, <1>5, <1>6, <1>7, <1>8 DEF Next

(* Callers who arrive together share one token request, and callers who run    *)
(* into one 401 share one refresh: the slot's lock in src/google/client.rs is  *)
(* held over the request, and the slot is looked at again once it is held.     *)
THEOREM RequestsAreShared == Spec => []NoWastedRequest
<1>1. LocksInOrder => NoWastedRequest
  BY DEF LocksInOrder, NeedInOrder, NoWastedRequest
<1>. QED  BY <1>1, TypedInit, TypedStep, LocksInit, LocksStep, PTL DEF Spec

-----------------------------------------------------------------------------
(* How old a token can get on its way to a call.                            *)

(* The requests a lock may be held for: the queue of a slot is no longer than *)
(* the calls are many, and each holds the lock for one request to Google.    *)
Waited(k) == k * Timeout
N == Cardinality(Calls)

(* A token lives for longer than two turns of such a queue and a call to      *)
(* Google in between, and the skew makes up for a request.  EXPIRY_SKEW_SECONDS *)
(* and REQUEST_TIMEOUT are both 60 s and Google's tokens live for 3600 s, which  *)
(* leaves room for 29 calls.                                                *)
LifeIsLong ==
    /\ IsFiniteSet(Calls)
    /\ Timeout <= Skew
    /\ Waited(2 * N + 1) < Life

(* Since when the lock of a slot is held for a request to Google, or now.     *)
Asking == {"post", "answered", "mark"}
Began(p) == IF pc[p] \in Asking THEN job[p].at ELSE now
Since(a) == Began(Head(queue[a]))

(* The turn of a call comes before this time is over.                        *)
InLine(p, bound) ==
    \A i \in 1 .. Len(queue[job[p].arc]) :
        queue[job[p].arc][i] = p => Since(job[p].arc) + Waited(i - 1) <= bound

(* Who is in a queue is there once, and waits for that slot.                 *)
PlacesInOrder ==
    \A a \in Arcs : \A i \in 1 .. Len(queue[a]) :
        /\ pc[queue[a][i]] \in AtSlot /\ job[queue[a][i]].arc = a
        /\ \A k \in 1 .. Len(queue[a]) : queue[a][k] = queue[a][i] => k = i

(* A request takes its time and no longer, and brings a token made meanwhile. *)
TimeInOrder(p) ==
    /\ pc[p] \in Asking \cup {"send"} => job[p].at <= now /\ now <= job[p].at + Timeout
    /\ pc[p] = "answered" => job[p].at <= job[p].token.at

SlotsInOrder ==
    \A a \in Arcs : slot[a] # None => slot[a].expires <= slot[a].token.at + Timeout + Life

(* What the map has by now, other than what a call has, is newer than what    *)
(* the call has: the call was there before it, and waited for no longer than  *)
(* its queue.                                                              *)
FirstInLine(p) ==
    pc[p] \in AtSlot /\ job[p].stale = None =>
        \A a \in Arcs : entries[job[p].conn] = a /\ a # job[p].arc /\ slot[a] # None =>
            InLine(p, slot[a].token.at + Waited(N))

FirstSent(p) ==
    pc[p] = "send" /\ job[p].stale = None =>
        \A a \in Arcs : entries[job[p].conn] = a /\ slot[a] # None /\ slot[a].token # job[p].token =>
            job[p].at <= slot[a].token.at + Waited(N + 1)

AskingAgain(p) ==
    pc[p] = "entry" /\ job[p].stale # None =>
        \A a \in Arcs : entries[job[p].conn] = a /\ slot[a] # None /\ slot[a].token # job[p].stale =>
            now <= slot[a].token.at + Waited(N + 2)

AgainInLine(p) ==
    pc[p] \in AtSlot /\ job[p].stale # None =>
        LET a == job[p].arc
        IN slot[a] # None /\ slot[a].token # job[p].stale =>
               InLine(p, slot[a].token.at + Waited(2 * N + 1))

SentAlive(p) == pc[p] = "send" => job[p].at < job[p].token.at + Life

FreshCall(p) == FirstInLine(p) /\ FirstSent(p) /\ AskingAgain(p) /\ AgainInLine(p) /\ SentAlive(p)

TokensInOrder ==
    /\ PlacesInOrder /\ SlotsInOrder
    /\ \A p \in Calls : TimeInOrder(p) /\ FreshCall(p)

-----------------------------------------------------------------------------
(* Waiting.                                                                *)

LEMMA Waiting ==
    /\ Waited(0) = 0 /\ Waited(1) = Timeout
    /\ \A k \in Nat : Waited(k) \in Nat
    /\ \A k, m \in Nat : Waited(k + m) = Waited(k) + Waited(m)
    /\ \A k, m \in Nat : k <= m => Waited(k) <= Waited(m)
<1>1. Timeout \in Nat
  BY ConstantsAssumption
<1>2. \A k, m \in Nat : (k + m) * Timeout = k * Timeout + m * Timeout
  BY <1>1
<1>3. \A k \in Nat : k * Timeout \in Nat
  BY <1>1
<1>4. ASSUME NEW k \in Nat, NEW m \in Nat, k <= m  PROVE k * Timeout <= m * Timeout
  <2>1. m - k \in Nat /\ k + (m - k) = m
    BY <1>4
  <2>2. m * Timeout = k * Timeout + (m - k) * Timeout
    BY <1>2, <2>1
  <2>3. (m - k) * Timeout \in Nat /\ k * Timeout \in Nat /\ m * Timeout \in Nat
    BY <1>3, <2>1
  <2>. QED  BY <2>2, <2>3
<1>5. 0 * Timeout = 0 /\ 1 * Timeout = Timeout
  BY <1>1
<1>. QED  BY <1>2, <1>3, <1>4, <1>5 DEF Waited

LEMMA Long ==
    ASSUME LifeIsLong, NEW p \in Calls
    PROVE  /\ N \in Nat /\ 1 <= N
           /\ Timeout <= Skew /\ Timeout < Life
           /\ Waited(N + 2) + Waited(N - 1) = Waited(2 * N + 1) /\ Waited(2 * N + 1) < Life
           /\ Waited(N - 1) + Timeout = Waited(N) /\ Waited(N) + Timeout = Waited(N + 1)
           /\ Waited(N + 1) + Timeout = Waited(N + 2)
<1>1. N \in Nat /\ N # 0
  BY FS_CardinalityType, FS_EmptySet DEF LifeIsLong, N
<1>2. N - 1 \in Nat /\ N + 1 \in Nat /\ N + 2 \in Nat /\ 2 * N + 1 \in Nat
  BY <1>1
<1>3. (N + 2) + (N - 1) = 2 * N + 1 /\ (N - 1) + 1 = N /\ (N + 1) + 1 = N + 2
  BY <1>1
<1>4. Waited(N + 2) + Waited(N - 1) = Waited(2 * N + 1)
  BY <1>2, <1>3, Waiting
<1>5. /\ Waited(N - 1) + Timeout = Waited(N) /\ Waited(N) + Timeout = Waited(N + 1)
      /\ Waited(N + 1) + Timeout = Waited(N + 2)
  BY <1>1, <1>2, <1>3, Waiting
<1>6. Timeout <= Waited(2 * N + 1)
  BY <1>1, <1>2, Waiting
<1>7. Waited(2 * N + 1) \in Nat /\ Timeout \in Nat /\ Life \in Nat
  BY <1>2, Waiting, ConstantsAssumption
<1>. QED  BY <1>1, <1>4, <1>5, <1>6, <1>7 DEF LifeIsLong

(* A queue nobody is in twice.                                              *)
LEMMA NobodyTwice ==
    ASSUME LifeIsLong, NEW s \in Seq(Calls),
           \A i, k \in 1 .. Len(s) : s[i] = s[k] => i = k
    PROVE  Len(s) <= N
<1>1. s \in [1 .. Len(s) -> Calls] /\ Len(s) \in Nat
  OBVIOUS
<1>2. s \in Injection(1 .. Len(s), Calls)
  BY <1>1 DEF Injection, IsInjective
<1>3. Cardinality(1 .. Len(s)) <= Cardinality(Calls)
  BY <1>2, FS_Injection DEF LifeIsLong
<1>4. Cardinality(1 .. Len(s)) = Len(s)
  <2>1. PICK n \in Nat : n = Len(s)
    BY <1>1
  <2>2. Cardinality(1 .. n) = IF 1 > n THEN 0 ELSE n - 1 + 1
    BY FS_Interval
  <2>. QED  BY <2>1, <2>2
<1>. QED  BY <1>3, <1>4 DEF N

(* The same, seen from the places that are left.                             *)
LEMMA MovingUp ==
    ASSUME NEW s \in Seq(Calls), NEW e, NEW new, new = RemoveFirst(s, e),
           \A i, k \in 1 .. Len(s) : s[i] = s[k] => i = k
    PROVE  /\ new \in Seq(Calls) /\ Len(new) <= Len(s)
           /\ \A i \in 1 .. Len(new) : new[i] # e
           /\ \A i, k \in 1 .. Len(new) : new[i] = new[k] => i = k
           /\ \A i \in 1 .. Len(new) :
                 \/ Head(s) = e /\ i + 1 \in 1 .. Len(s) /\ new[i] = s[i + 1]
                 \/ /\ Head(s) # e /\ Head(new) = Head(s)
                    /\ \E k \in 1 .. Len(s) : i <= k /\ new[i] = s[k]
<1>1. CASE new = s /\ \A i \in 1 .. Len(s) : s[i] # e
  <2>1. s # <<>> => Head(s) = s[1] /\ 1 \in 1 .. Len(s)
    OBVIOUS
  <2>2. \A i \in 1 .. Len(new) : s # <<>> /\ i <= i
    BY <1>1
  <2>. QED  BY <1>1, <2>1, <2>2
<1>2. ASSUME NEW m \in 1 .. Len(s),
             s[m] = e, new \in Seq(Calls), Len(new) = Len(s) - 1,
             \A i \in 1 .. m - 1 : new[i] = s[i],
             \A i \in m + 1 .. Len(s) : new[i - 1] = s[i]
      PROVE  /\ Len(new) <= Len(s)
             /\ \A i \in 1 .. Len(new) : new[i] # e
             /\ \A i, k \in 1 .. Len(new) : new[i] = new[k] => i = k
             /\ \A i \in 1 .. Len(new) :
                   \/ Head(s) = e /\ i + 1 \in 1 .. Len(s) /\ new[i] = s[i + 1]
                   \/ /\ Head(s) # e /\ Head(new) = Head(s)
                      /\ \E k \in 1 .. Len(s) : i <= k /\ new[i] = s[k]
  <2>. DEFINE was(i) == IF i < m THEN i ELSE i + 1
  <2>1. ASSUME NEW i \in 1 .. Len(new)
        PROVE  was(i) \in 1 .. Len(s) /\ was(i) # m /\ i <= was(i) /\ new[i] = s[was(i)]
    <3>1. CASE i < m  BY <1>2, <2>1, <3>1
    <3>2. CASE ~(i < m)
      <4>1. i + 1 \in m + 1 .. Len(s) /\ (i + 1) - 1 = i
        BY <1>2, <2>1, <3>2
      <4>2. new[i] = s[i + 1]
        BY <1>2, <4>1
      <4>. QED  BY <3>2, <4>1, <4>2
    <3>. QED  BY <3>1, <3>2
  <2>2. \A i, k \in 1 .. Len(new) : was(i) = was(k) => i = k
    BY <1>2
  <2>. HIDE DEF was
  <2>3. \A i \in 1 .. Len(new) : new[i] # e
    BY <1>2, <2>1
  <2>4. \A i, k \in 1 .. Len(new) : new[i] = new[k] => i = k
    BY <2>1, <2>2
  <2>5. Head(s) = s[1] /\ 1 \in 1 .. Len(s)
    BY <1>2
  <2>6. ASSUME NEW i \in 1 .. Len(new)
        PROVE  \/ Head(s) = e /\ i + 1 \in 1 .. Len(s) /\ new[i] = s[i + 1]
               \/ /\ Head(s) # e /\ Head(new) = Head(s)
                  /\ \E k \in 1 .. Len(s) : i <= k /\ new[i] = s[k]
    <3>1. CASE m = 1
      <4>1. was(i) = i + 1
        BY <3>1 DEF was
      <4>. QED  BY <1>2, <2>1, <2>5, <3>1, <4>1
    <3>2. CASE m # 1
      <4>1. s[1] # e
        BY <1>2, <2>5, <3>2
      <4>2. 1 \in 1 .. m - 1 /\ new[1] = s[1]
        BY <1>2, <3>2
      <4>3. Head(new) = new[1]
        BY <1>2, <2>6
      <4>. QED  BY <2>1, <2>5, <4>1, <4>2, <4>3
    <3>. QED  BY <3>1, <3>2
  <2>. QED  BY <1>2, <2>3, <2>4, <2>6
<1>. QED  BY <1>1, <1>2, RemovingPlace

-----------------------------------------------------------------------------
(* Turns.                                                                  *)

(* A lock is held for a request that may still take its time.               *)
LEMMA SinceThen ==
    ASSUME Typed, NEW p \in Calls, TimeInOrder(p)
    PROVE  Began(p) \in Nat /\ now \in Nat /\ Began(p) <= now /\ now <= Began(p) + Timeout
<1>1. now \in Nat /\ job[p].at \in Nat /\ Timeout \in Nat
  BY ConstantsAssumption DEF Typed, TypeOK, Procs, Job
<1>. QED  BY <1>1 DEF TimeInOrder, Began

(* Who is where in a queue that is left.                                    *)
LEMMA LineUnlocked ==
    ASSUME Typed, Typed', TokensInOrder, NEW p, Unlock(p), now' = now, NEW q \in Calls, q # p,
           \A r \in Calls : r # p => pc'[r] = pc[r] /\ job'[r] = job[r],
           pc[q] \in AtSlot, NEW bound \in Nat, InLine(q, bound)
    PROVE  InLine(q, bound)'
<1>1. PICK a \in Arcs : a = job[q].arc /\ a = job'[q].arc
  BY DEF Typed, RequestsTyped, CallTyped, CallCarries
<1>2. PICK s \in Seq(Calls) : s = queue[a]
  BY DEF Typed, TypeOK
<1>3. PICK new : new = queue'[a]
  OBVIOUS
<1>4. new = RemoveFirst(s, p) /\ \A i, k \in 1 .. Len(s) : s[i] = s[k] => i = k
  BY <1>2, <1>3 DEF Typed, TypeOK, Unlock, TokensInOrder, PlacesInOrder
<1>5. /\ new \in Seq(Calls)
      /\ \A i \in 1 .. Len(new) : new[i] # p
      /\ \A i \in 1 .. Len(new) :
            \/ Head(s) = p /\ i + 1 \in 1 .. Len(s) /\ new[i] = s[i + 1]
            \/ /\ Head(s) # p /\ Head(new) = Head(s)
               /\ \E k \in 1 .. Len(s) : i <= k /\ new[i] = s[k]
  BY <1>4, MovingUp
<1>6. ASSUME NEW i \in 1 .. Len(new), new[i] = q
      PROVE  Since(a)' + Waited(i - 1) <= bound
  <2>1. PICK h \in Calls : h = Head(new) /\ h # p
    <3>1. Head(new) = new[1] /\ 1 \in 1 .. Len(new)
      BY <1>5, <1>6
    <3>. QED  BY <1>5, <3>1
  <2>2. PICK first \in Calls : first = Head(s)
    <3>1. s # <<>>
      BY <1>4, <1>5, <1>6
    <3>. QED  BY <3>1
  <2>3. PICK began \in Nat : began = Began(first) /\ now <= began + Timeout
    BY <2>2, SinceThen DEF TokensInOrder
  <2>4. now \in Nat /\ Began(h) \in Nat /\ Began(h) <= now
    BY <2>1, SinceThen DEF TokensInOrder
  <2>5. Since(a)' = Began(h)
    BY <1>3, <2>1 DEF Since, Began
  <2>6. Since(a) = began
    BY <1>2, <2>2, <2>3 DEF Since
  <2>7. \A k \in 1 .. Len(s) : s[k] = q => began + Waited(k - 1) <= bound
    BY <1>1, <1>2, <2>6 DEF InLine
  <2>8. i - 1 \in Nat /\ i \in Nat /\ (i - 1) + 1 = i
    BY <1>5, <1>6
  <2>9. Waited(i - 1) \in Nat /\ Waited(i) = Waited(i - 1) + Timeout /\ Timeout \in Nat
    BY <2>8, Waiting, ConstantsAssumption
  <2>10. CASE first = p /\ i + 1 \in 1 .. Len(s) /\ new[i] = s[i + 1]
    <3>1. began + Waited((i + 1) - 1) <= bound
      BY <1>6, <2>7, <2>10
    <3>2. (i + 1) - 1 = i
      BY <2>8
    <3>. QED  BY <2>3, <2>4, <2>5, <2>9, <3>1, <3>2
  <2>11. ASSUME h = first, NEW k \in 1 .. Len(s), i <= k, new[i] = s[k]
         PROVE  Since(a)' + Waited(i - 1) <= bound
    <3>1. began + Waited(k - 1) <= bound
      BY <1>6, <2>7, <2>11
    <3>2. k - 1 \in Nat /\ i - 1 <= k - 1
      BY <2>8, <2>11
    <3>3. Waited(i - 1) <= Waited(k - 1) /\ Waited(k - 1) \in Nat
      BY <2>8, <3>2, Waiting
    <3>4. Since(a)' = began
      BY <2>3, <2>5, <2>11
    <3>. QED  BY <2>3, <2>9, <3>1, <3>3, <3>4
  <2>. QED  BY <1>5, <1>6, <2>1, <2>2, <2>10, <2>11
<1>. QED  BY <1>1, <1>3, <1>6 DEF InLine, Since, Began

(* And in a queue somebody joins.                                           *)
LEMMA LineJoined ==
    ASSUME Typed, Typed', TokensInOrder, NEW p \in Calls, NEW b \in Arcs,
           queue' = [queue EXCEPT ![b] = Append(@, p)], now' = now, NEW q \in Calls, q # p,
           \A r \in Calls : r # p => pc'[r] = pc[r] /\ job'[r] = job[r],
           pc[p] \notin AtSlot, pc[q] \in AtSlot, NEW bound \in Nat, InLine(q, bound)
    PROVE  InLine(q, bound)'
<1>1. PICK a \in Arcs : a = job[q].arc /\ a = job'[q].arc
  BY DEF Typed, RequestsTyped, CallTyped, CallCarries
<1>2. PICK s \in Seq(Calls) : s = queue[a]
  BY DEF Typed, TypeOK
<1>3. PICK new : new = queue'[a]
  OBVIOUS
<1>4. (new = s \/ new = Append(s, p)) /\ \A i \in 1 .. Len(s) : s[i] # p
  BY <1>2, <1>3 DEF Typed, TypeOK, TokensInOrder, PlacesInOrder
<1>5. ASSUME NEW i \in 1 .. Len(new), new[i] = q
      PROVE  Since(a)' + Waited(i - 1) <= bound
  <2>1. i \in 1 .. Len(s) /\ s[i] = q
    BY <1>4, <1>5
  <2>2. PICK h \in Calls : h = Head(new) /\ h = Head(s) /\ h # p
    <3>1. s # <<>> /\ Head(s) = s[1] /\ 1 \in 1 .. Len(s)
      BY <2>1
    <3>. QED  BY <1>4, <3>1
  <2>3. Since(a)' = Since(a)
    BY <1>2, <1>3, <2>2 DEF Since, Began
  <2>. QED  BY <1>1, <1>2, <2>1, <2>3 DEF InLine
<1>. QED  BY <1>1, <1>3, <1>5 DEF InLine, Since, Began

(* And in one that nobody leaves or joins, when the lock is held as before.  *)
LEMMA LineSame ==
    ASSUME Typed, queue' = queue, NEW q \in Calls, job'[q].arc = job[q].arc,
           \A r \in Calls : Began(r)' = Began(r),
           pc[q] \in AtSlot, NEW bound, InLine(q, bound)
    PROVE  InLine(q, bound)'
<1>1. PICK a \in Arcs : a = job[q].arc /\ a = job'[q].arc
  BY DEF Typed, RequestsTyped, CallTyped, CallCarries
<1>2. PICK s \in Seq(Calls) : s = queue[a] /\ s = queue'[a]
  BY DEF Typed, TypeOK
<1>3. ASSUME NEW i \in 1 .. Len(s)  PROVE Since(a)' = Since(a)
  <2>1. PICK h \in Calls : h = Head(s)
    <3>1. s # <<>>
      OBVIOUS
    <3>. QED  BY <3>1
  <2>2. Since(a) = Began(h) /\ Since(a)' = Began(h)'
    BY <1>2, <2>1 DEF Since, Began
  <2>. QED  BY <2>2
<1>4. ASSUME NEW i \in 1 .. Len(s), s[i] = q  PROVE Since(a)' + Waited(i - 1) <= bound
  BY <1>1, <1>2, <1>3, <1>4 DEF InLine
<1>. QED  BY <1>1, <1>2, <1>4 DEF InLine, Since, Began

(* A place is never further back than there are calls.                      *)
LEMMA TurnComes ==
    ASSUME LifeIsLong, Typed', PlacesInOrder', \A q \in Calls : TimeInOrder(q)',
           NEW p \in Calls, pc'[p] \in AtSlot, NEW bound \in Nat, now' + Waited(N - 1) <= bound
    PROVE  InLine(p, bound)'
<1>1. PICK a \in Arcs : a = job'[p].arc
  BY DEF Typed, RequestsTyped, CallTyped, CallCarries
<1>2. PICK s \in Seq(Calls) : s = queue'[a] /\ \A i, k \in 1 .. Len(s) : s[i] = s[k] => i = k
  BY DEF Typed, TypeOK, PlacesInOrder
<1>3. Len(s) <= N
  BY <1>2, NobodyTwice
<1>4. ASSUME NEW i \in 1 .. Len(s)  PROVE Since(a)' + Waited(i - 1) <= bound
  <2>1. PICK h \in Calls : h = Head(s)
    <3>1. s # <<>>
      OBVIOUS
    <3>. QED  BY <3>1
  <2>2. Since(a)' = Began(h)'
    BY <1>2, <2>1 DEF Since, Began
  <2>3. now' \in Nat /\ Began(h)' \in Nat /\ Began(h)' <= now'
    <3>1. now' \in Nat /\ job'[h].at \in Nat
      BY ConstantsAssumption DEF Typed, TypeOK, Procs, Job
    <3>2. TimeInOrder(h)'
      OBVIOUS
    <3>. QED  BY <3>1, <3>2 DEF TimeInOrder, Began
  <2>4. i - 1 \in Nat /\ N - 1 \in Nat /\ i - 1 <= N - 1
    BY <1>3, Long
  <2>5. Waited(i - 1) <= Waited(N - 1) /\ Waited(i - 1) \in Nat /\ Waited(N - 1) \in Nat
    BY <2>4, Waiting
  <2>. QED  BY <2>2, <2>3, <2>5
<1>. QED  BY <1>1, <1>2, <1>4 DEF InLine, Since, Began

-----------------------------------------------------------------------------
(* One request moves, and nobody else's turn comes later.                    *)

(* What it does to the queue.                                               *)
Leaves(p) == Unlock(p) /\ (p \in Calls => pc'[p] \notin AtSlot)
Joins(p, a) ==
    /\ queue' = [queue EXCEPT ![a] = Append(@, p)]
    /\ pc[p] \notin AtSlot /\ pc'[p] \in AtSlot /\ job'[p].arc = a
Stays(p) ==
    /\ queue' = queue
    /\ p \in Calls =>
          \/ pc[p] \notin AtSlot /\ pc'[p] \notin AtSlot
          \/ /\ pc[p] \in AtSlot /\ pc'[p] \in AtSlot
             /\ job'[p].arc = job[p].arc /\ Began(p)' = Began(p)

(* And to the slots: what is new in one was asked for within a request.      *)
SlotsMove ==
    /\ \A a \in Arcs : slot'[a] # None =>
          slot'[a] = slot[a] \/ now <= slot'[a].token.at + Timeout
    /\ \A c \in Conns : entries'[c] # None =>
          entries'[c] = entries[c] \/ slot'[entries'[c]] = None

OthersWait(p) == \A q \in Calls : q # p => pc'[q] = pc[q] /\ job'[q] = job[q]

Moves(p) ==
    /\ now' = now /\ OthersWait(p)
    /\ Leaves(p) \/ (p \in Calls /\ \E a \in Arcs : Joins(p, a)) \/ Stays(p)

LEMMA PlacesMove ==
    ASSUME Typed, PlacesInOrder, NEW p, Moves(p)
    PROVE  PlacesInOrder'
<1>1. ASSUME NEW a \in Arcs, NEW i \in 1 .. Len(queue'[a])
      PROVE  /\ pc'[queue'[a][i]] \in AtSlot /\ job'[queue'[a][i]].arc = a
             /\ \A k \in 1 .. Len(queue'[a]) : queue'[a][k] = queue'[a][i] => k = i
  <2>1. PICK s \in Seq(Calls) : s = queue[a]
    BY DEF Typed, TypeOK
  <2>2. /\ \A k \in 1 .. Len(s) : pc[s[k]] \in AtSlot /\ job[s[k]].arc = a
        /\ \A k, m \in 1 .. Len(s) : s[k] = s[m] => k = m
    BY <2>1 DEF PlacesInOrder
  <2>3. PICK new : new = queue'[a]
    OBVIOUS
  <2>4. CASE Leaves(p)
    <3>1. new = RemoveFirst(s, p)
      BY <2>1, <2>3, <2>4 DEF Leaves, Unlock
    <3>2. /\ new \in Seq(Calls)
          /\ \A k \in 1 .. Len(new) : new[k] # p
          /\ \A k, m \in 1 .. Len(new) : new[k] = new[m] => k = m
          /\ \E k \in 1 .. Len(s) : new[i] = s[k]
      BY <1>1, <2>2, <2>3, <3>1, MovingUp
    <3>3. PICK q \in Calls : q = new[i] /\ q # p /\ pc[q] \in AtSlot /\ job[q].arc = a
      BY <1>1, <2>2, <2>3, <3>2
    <3>. QED  BY <1>1, <2>3, <3>2, <3>3 DEF Moves, OthersWait
  <2>5. ASSUME p \in Calls, NEW b \in Arcs, Joins(p, b)
        PROVE  /\ pc'[new[i]] \in AtSlot /\ job'[new[i]].arc = a
               /\ \A k \in 1 .. Len(new) : new[k] = new[i] => k = i
    <3>1. \A k \in 1 .. Len(s) : s[k] # p
      BY <2>2, <2>5 DEF Joins
    <3>2. new = s \/ (a = b /\ new = Append(s, p))
      BY <2>1, <2>3, <2>5 DEF Joins, Typed, TypeOK
    <3>3. \/ i \in 1 .. Len(s) /\ new[i] = s[i]
          \/ a = b /\ i = Len(s) + 1 /\ new[i] = p
      BY <1>1, <2>3, <3>2
    <3>4. \A k \in 1 .. Len(new) : new[k] = new[i] => k = i
      BY <1>1, <2>2, <2>3, <3>1, <3>2
    <3>5. CASE i \in 1 .. Len(s) /\ new[i] = s[i]
      <4>1. PICK q \in Calls : q = new[i] /\ q # p /\ pc[q] \in AtSlot /\ job[q].arc = a
        BY <2>2, <3>1, <3>5
      <4>. QED  BY <3>4, <4>1 DEF Moves, OthersWait
    <3>. QED  BY <2>5, <3>3, <3>4, <3>5 DEF Joins
  <2>6. CASE Stays(p)
    <3>1. new = s
      BY <2>1, <2>3, <2>6 DEF Stays
    <3>2. PICK q \in Calls : q = new[i] /\ pc[q] \in AtSlot /\ job[q].arc = a
      BY <1>1, <2>2, <2>3, <3>1
    <3>3. pc'[q] \in AtSlot /\ job'[q].arc = a
      BY <2>6, <3>2 DEF Moves, OthersWait, Stays
    <3>. QED  BY <1>1, <2>2, <2>3, <3>1, <3>2, <3>3
  <2>. QED  BY <2>3, <2>4, <2>5, <2>6 DEF Moves
<1>. QED  BY <1>1 DEF PlacesInOrder

LEMMA LineMoves ==
    ASSUME Typed, Typed', TokensInOrder, NEW p, Moves(p), NEW q \in Calls,
           q = p => pc'[q] \in AtSlot, pc[q] \in AtSlot, NEW bound \in Nat, InLine(q, bound)
    PROVE  InLine(q, bound)'
<1>1. CASE Leaves(p)
  BY <1>1, LineUnlocked DEF Moves, OthersWait, Leaves
<1>2. ASSUME p \in Calls, NEW a \in Arcs, Joins(p, a)  PROVE InLine(q, bound)'
  <2>1. q # p
    BY <1>2 DEF Joins
  <2>. QED  BY <1>2, <2>1, LineJoined DEF Moves, OthersWait, Joins
<1>3. CASE Stays(p)
  <2>1. ASSUME NEW r \in Calls  PROVE Began(r)' = Began(r)
    <3>1. CASE r # p
      BY <3>1 DEF Moves, OthersWait, Began
    <3>2. CASE r = p
      BY <1>3, <3>2 DEF Moves, Stays, Began, Asking, AtSlot
    <3>. QED  BY <3>1, <3>2
  <2>2. queue' = queue /\ job'[q].arc = job[q].arc
    BY <1>3 DEF Moves, OthersWait, Stays
  <2>. QED  BY <2>1, <2>2, LineSame
<1>. QED  BY <1>1, <1>2, <1>3 DEF Moves

(* What is known of a call that waits where it did.                         *)
LEMMA FreshKept ==
    ASSUME LifeIsLong, Typed, Typed', TokensInOrder, NEW p, Moves(p), SlotsMove,
           \A r \in Calls : TimeInOrder(r)', NEW q \in Calls,
           job'[q].conn = job[q].conn, job'[q].arc = job[q].arc, job'[q].stale = job[q].stale,
           \/ pc[q] \in AtSlot /\ pc'[q] \in AtSlot
           \/ q # p
    PROVE  FreshCall(q)'
<1>1. PlacesInOrder'
  BY PlacesMove DEF TokensInOrder
<1>2. now' = now /\ now \in Nat /\ Timeout \in Nat
  BY ConstantsAssumption DEF Moves, Typed, TypeOK
<1>3. /\ \A a \in Arcs : slot'[a] # None => slot'[a].token.at \in Nat
      /\ \A c \in Conns : entries'[c] \in Arcs \cup {None}
  BY DEF Typed, TypeOK, Cached, Token
<1>4. /\ Waited(N - 1) \in Nat /\ Waited(N) \in Nat /\ Waited(N + 1) \in Nat /\ Waited(N + 2) \in Nat
      /\ Waited(2 * N + 1) \in Nat /\ Waited(N) <= Waited(2 * N + 1) /\ Waited(N - 1) + Timeout = Waited(N)
      /\ Timeout <= Waited(N + 1) /\ Timeout <= Waited(N + 2)
  <2>1. N \in Nat /\ 1 <= N /\ Waited(N - 1) + Timeout = Waited(N)
    BY Long
  <2>2. N - 1 \in Nat /\ N + 1 \in Nat /\ N + 2 \in Nat /\ 2 * N + 1 \in Nat /\ N <= 2 * N + 1
    BY <2>1
  <2>. QED  BY <2>1, <2>2, Waiting
<1>5. ASSUME NEW c \in Conns, NEW a \in Arcs, entries'[c] = a, slot'[a] # None
      PROVE  \/ entries[c] = a /\ slot'[a] = slot[a]
             \/ now <= slot'[a].token.at + Timeout
  BY <1>5, NamesAssumption DEF SlotsMove
<1>6. ASSUME NEW at \in Nat, now <= at + Timeout, pc'[q] \in AtSlot, NEW bound \in Nat, at + Waited(N) <= bound
      PROVE  InLine(q, bound)'
  <2>1. now' + Waited(N - 1) <= bound
    BY <1>2, <1>4, <1>6
  <2>. QED  BY <1>1, <1>6, <2>1, TurnComes
<1>7. FreshCall(q) /\ CallCarries(pc'[q], job'[q])
  BY DEF TokensInOrder, Typed, RequestsTyped, CallTyped
<1>8. q # p => pc'[q] = pc[q] /\ job'[q] = job[q]
  BY DEF Moves, OthersWait
<1>9. FirstInLine(q)'
  <2>1. ASSUME pc'[q] \in AtSlot, job'[q].stale = None, NEW a \in Arcs,
               entries'[job'[q].conn] = a, a # job'[q].arc, slot'[a] # None
        PROVE  InLine(q, slot[a].token.at + Waited(N))'
    <3>1. PICK bound \in Nat : bound = slot'[a].token.at + Waited(N)
      BY <1>3, <1>4, <2>1
    <3>2. job'[q].conn \in Conns /\ pc[q] \in AtSlot
      BY <1>7, <1>8, <2>1 DEF CallCarries, AtSlot
    <3>3. CASE entries[job[q].conn] = a /\ slot'[a] = slot[a]
      <4>1. InLine(q, slot[a].token.at + Waited(N))
        BY <1>7, <2>1, <3>2, <3>3 DEF FreshCall, FirstInLine
      <4>2. InLine(q, bound)
        BY <3>1, <3>3, <4>1
      <4>3. InLine(q, bound)'
        BY <2>1, <3>2, <4>2, LineMoves
      <4>. QED  BY <3>1, <4>3 DEF InLine, Since, Began
    <3>4. CASE now <= slot'[a].token.at + Timeout
      <4>1. InLine(q, bound)'
        BY <1>3, <1>6, <2>1, <3>1, <3>4
      <4>. QED  BY <3>1, <4>1 DEF InLine, Since, Began
    <3>. QED  BY <1>5, <2>1, <3>2, <3>3, <3>4
  <2>. QED  BY <2>1 DEF FirstInLine, InLine, Since, Began
<1>10. FirstSent(q)'
  <2>1. ASSUME pc'[q] = "send", job'[q].stale = None, NEW a \in Arcs,
               entries'[job'[q].conn] = a, slot'[a] # None, slot'[a].token # job'[q].token
        PROVE  job'[q].at <= slot'[a].token.at + Waited(N + 1)
    <3>1. q # p /\ job'[q].conn \in Conns
      BY <1>7, <2>1 DEF CallCarries, AtSlot
    <3>2. job'[q].at \in Nat /\ job'[q].at <= now
      <4>1. TimeInOrder(q)'
        OBVIOUS
      <4>. QED  BY <1>2, <2>1, <4>1 DEF TimeInOrder, Typed, TypeOK, Job, Procs
    <3>3. CASE entries[job[q].conn] = a /\ slot'[a] = slot[a]
      BY <1>7, <1>8, <2>1, <3>1, <3>3 DEF FreshCall, FirstSent
    <3>4. CASE now <= slot'[a].token.at + Timeout
      BY <1>2, <1>3, <1>4, <2>1, <3>2, <3>4
    <3>. QED  BY <1>5, <2>1, <3>1, <3>3, <3>4
  <2>. QED  BY <2>1 DEF FirstSent
<1>11. AskingAgain(q)'
  <2>1. ASSUME pc'[q] = "entry", job'[q].stale # None, NEW a \in Arcs,
               entries'[job'[q].conn] = a, slot'[a] # None, slot'[a].token # job'[q].stale
        PROVE  now' <= slot'[a].token.at + Waited(N + 2)
    <3>1. q # p /\ job'[q].conn \in Conns
      BY <1>7, <2>1 DEF CallCarries, AtSlot
    <3>2. CASE entries[job[q].conn] = a /\ slot'[a] = slot[a]
      BY <1>2, <1>7, <1>8, <2>1, <3>1, <3>2 DEF FreshCall, AskingAgain
    <3>3. CASE now <= slot'[a].token.at + Timeout
      BY <1>2, <1>3, <1>4, <2>1, <3>3
    <3>. QED  BY <1>5, <2>1, <3>1, <3>2, <3>3
  <2>. QED  BY <2>1 DEF AskingAgain
<1>12. AgainInLine(q)'
  <2>1. SUFFICES ASSUME pc'[q] \in AtSlot, job'[q].stale # None, NEW a, a = job'[q].arc,
                        slot'[a] # None, slot'[a].token # job'[q].stale
                 PROVE  InLine(q, slot[a].token.at + Waited(2 * N + 1))'
    BY DEF AgainInLine, InLine, Since, Began
  <2>2. pc[q] \in AtSlot /\ a \in Arcs /\ a = job[q].arc
    BY <1>7, <1>8, <2>1 DEF CallCarries
  <2>3. PICK bound \in Nat : bound = slot'[a].token.at + Waited(2 * N + 1)
    BY <1>3, <1>4, <2>1, <2>2
  <2>4. CASE slot'[a] = slot[a]
    <3>1. InLine(q, bound)
      BY <1>7, <2>1, <2>2, <2>3, <2>4 DEF FreshCall, AgainInLine
    <3>2. InLine(q, bound)'
      BY <2>1, <2>2, <3>1, LineMoves
    <3>. QED  BY <2>3, <3>2 DEF InLine, Since, Began
  <2>5. CASE now <= slot'[a].token.at + Timeout
    <3>1. slot'[a].token.at + Waited(N) <= bound /\ slot'[a].token.at \in Nat
      BY <1>3, <1>4, <2>1, <2>2, <2>3
    <3>2. InLine(q, bound)'
      BY <1>6, <2>1, <2>5, <3>1
    <3>. QED  BY <2>3, <3>2 DEF InLine, Since, Began
  <2>. QED  BY <2>1, <2>2, <2>4, <2>5 DEF SlotsMove
<1>13. SentAlive(q)'
  <2>1. pc'[q] = "send" => q # p
    BY DEF AtSlot
  <2>. QED  BY <1>7, <1>8, <2>1 DEF FreshCall, SentAlive
<1>. QED  BY <1>9, <1>10, <1>11, <1>12, <1>13 DEF FreshCall

(* What a call keeps that goes on with its slot.                            *)
KeepsSlot(p) ==
    /\ pc[p] \in AtSlot /\ pc'[p] \in AtSlot
    /\ job'[p].conn = job[p].conn /\ job'[p].arc = job[p].arc /\ job'[p].stale = job[p].stale

LEMMA TimesMove ==
    ASSUME TokensInOrder, NEW p, Moves(p), p \in Calls => TimeInOrder(p)'
    PROVE  \A q \in Calls : TimeInOrder(q)'
<1>1. ASSUME NEW q \in Calls, q # p  PROVE TimeInOrder(q)'
  <2>1. TimeInOrder(q)
    BY DEF TokensInOrder
  <2>. QED  BY <1>1, <2>1 DEF Moves, OthersWait, TimeInOrder
<1>. QED  BY <1>1

LEMMA OneMoves ==
    ASSUME LifeIsLong, Typed, Typed', TokensInOrder, NEW p, Moves(p), SlotsMove, SlotsInOrder',
           p \in Calls => TimeInOrder(p)' /\ (FreshCall(p)' \/ KeepsSlot(p))
    PROVE  TokensInOrder'
<1>1. \A q \in Calls : TimeInOrder(q)'
  BY TimesMove
<1>2. ASSUME NEW q \in Calls, q # p \/ KeepsSlot(p)  PROVE FreshCall(q)'
  <2>1. /\ job'[q].conn = job[q].conn /\ job'[q].arc = job[q].arc /\ job'[q].stale = job[q].stale
        /\ (pc[q] \in AtSlot /\ pc'[q] \in AtSlot) \/ q # p
    BY <1>2 DEF Moves, OthersWait, KeepsSlot
  <2>. QED  BY <1>1, <2>1, FreshKept
<1>. QED  BY <1>1, <1>2, PlacesMove DEF TokensInOrder

(* Nothing is known of a call that has nothing to do with a token.           *)
LEMMA FreshIdle ==
    ASSUME NEW p, pc'[p] = "idle" \/ (pc'[p] = "entry" /\ job'[p].stale = None)
    PROVE  TimeInOrder(p)' /\ FreshCall(p)'
BY DEF TimeInOrder, FreshCall, FirstInLine, FirstSent, AskingAgain, AgainInLine, SentAlive, AtSlot, Asking

(* The slots are as they were, or emptied.                                   *)
LEMMA SlotsSame ==
    ASSUME TokensInOrder,
           \A a \in Arcs : slot'[a] # None => slot'[a] = slot[a],
           \A c \in Conns : entries'[c] # None => entries'[c] = entries[c] \/ slot'[entries'[c]] = None
    PROVE  SlotsMove /\ SlotsInOrder'
BY DEF TokensInOrder, SlotsInOrder, SlotsMove

(* A call that holds the lock has its turn now, or has had it since it asked. *)
LEMMA Served ==
    ASSUME Typed, NEW p \in Calls, pc[p] \in AtSlot, HasLock(p), LockInOrder(p),
           NEW bound \in Nat, InLine(p, bound)
    PROVE  Began(p) <= bound
<1>1. PICK a \in Arcs : a = job[p].arc
  BY DEF Typed, RequestsTyped, CallTyped, CallCarries
<1>2. PICK s \in Seq(Calls) : s = queue[a]
  BY DEF Typed, TypeOK
<1>3. s # <<>> /\ Head(s) = p
  BY <1>1, <1>2 DEF HasLock, LockInOrder, AtSlot, Working, Range
<1>4. 1 \in 1 .. Len(s) /\ s[1] = p /\ 1 - 1 = 0
  BY <1>3
<1>5. Since(a) + Waited(0) <= bound
  BY <1>1, <1>2, <1>4 DEF InLine
<1>6. Since(a) = Began(p)
  BY <1>2, <1>3 DEF Since
<1>7. Began(p) \in Nat
  BY DEF Began, Typed, TypeOK, Job, Procs
<1>. QED  BY <1>5, <1>6, <1>7, Waiting

-----------------------------------------------------------------------------
(* A call's steps, once more.                                              *)

LEMMA TokenHandedOut ==
    ASSUME LifeIsLong, Typed, Typed', LocksInOrder, TokensInOrder, NEW p \in Calls, UseCached(p)
    PROVE  TokensInOrder'
<1>. DEFINE j == job[p]
<1>1. PICK a \in Arcs, s \in Cached : a = j.arc /\ s = slot[a] /\ Usable(s, j.stale)
  BY DEF UseCached, Usable, Typed, TypeOK, RequestsTyped, CallTyped, CallCarries, AtSlot
<1>. DEFINE taken == [j EXCEPT !.token = s.token, !.arc = None, !.at = now]
<1>2. /\ Goto(p, "lock", "send", taken) /\ Unlock(p)
      /\ slot' = slot /\ entries' = entries /\ now' = now
  BY <1>1 DEF UseCached
<1>3. /\ taken.token = s.token /\ taken.at = now /\ taken.stale = j.stale /\ taken.conn = j.conn
      /\ j.conn \in Conns /\ j \in Job
  BY <1>2 DEF Goto, Typed, TypeOK, Job, RequestsTyped, CallTyped, CallCarries, Procs
<1>. HIDE DEF taken
<1>4. /\ pc[p] = "lock" /\ pc'[p] = "send" /\ job'[p] = taken
      /\ \A q \in Calls : q # p => pc'[q] = pc[q] /\ job'[q] = job[q]
  BY <1>2, Stepping DEF Procs
<1>5. Moves(p)
  BY <1>2, <1>4 DEF Moves, OthersWait, Leaves, AtSlot
<1>6. /\ now \in Nat /\ Timeout \in Nat /\ Skew \in Nat /\ Life \in Nat
      /\ s.token.at \in Nat /\ s.expires \in Nat /\ s # None
  BY <1>1, ConstantsAssumption DEF Typed, TypeOK, Cached, Token, Usable
<1>7. /\ Timeout <= Skew /\ Waited(2 * N + 1) < Life
      /\ \A b \in Arcs : slot[b] # None => slot[b].token.at \in Nat
      /\ Waited(N) \in Nat /\ Waited(N + 1) \in Nat /\ Waited(N) <= Waited(N + 1) /\ Waited(2 * N + 1) \in Nat
  <2>1. N \in Nat /\ Timeout <= Skew /\ Waited(2 * N + 1) < Life
    BY Long
  <2>2. N + 1 \in Nat /\ 2 * N + 1 \in Nat /\ N <= N + 1
    BY <2>1
  <2>3. \A b \in Arcs : slot[b] # None => slot[b].token.at \in Nat
    BY DEF Typed, TypeOK, Cached, Token
  <2>. QED  BY <2>1, <2>2, <2>3, Waiting
<1>8. FreshCall(p) /\ LockInOrder(p) /\ HasLock(p) /\ pc[p] \in AtSlot /\ Began(p) = now
  BY <1>4 DEF TokensInOrder, LocksInOrder, UseCached, AtSlot, Asking, Began
<1>9. ASSUME j.stale = None  PROVE now < s.token.at + Life
  <2>1. s.expires > now + Skew
    BY <1>1, <1>9 DEF Usable
  <2>2. s.expires <= s.token.at + Timeout + Life
    BY <1>1, <1>6 DEF TokensInOrder, SlotsInOrder
  <2>. QED  BY <1>6, <1>7, <2>1, <2>2
<1>10. ASSUME j.stale # None  PROVE now < s.token.at + Life
  <2>1. s.token # j.stale
    BY <1>1, <1>10 DEF Usable
  <2>2. PICK bound \in Nat : bound = s.token.at + Waited(2 * N + 1)
    BY <1>6, <1>7
  <2>3. InLine(p, bound)
    BY <1>1, <1>6, <1>8, <1>10, <2>1, <2>2 DEF FreshCall, AgainInLine
  <2>4. now <= bound
    BY <1>8, <2>3, Served
  <2>. QED  BY <1>6, <1>7, <2>2, <2>4
<1>11. SentAlive(p)'
  BY <1>3, <1>4, <1>9, <1>10 DEF SentAlive
<1>12. FirstSent(p)'
  <2>1. ASSUME j.stale = None, NEW b \in Arcs, entries[j.conn] = b, slot[b] # None, slot[b].token # s.token
        PROVE  now <= slot[b].token.at + Waited(N + 1)
    <3>1. PICK bound \in Nat : bound = slot[b].token.at + Waited(N)
      BY <1>7, <2>1
    <3>2. InLine(p, bound)
      BY <1>1, <1>8, <2>1, <3>1 DEF FreshCall, FirstInLine
    <3>3. now <= bound
      BY <1>8, <3>2, Served
    <3>. QED  BY <1>6, <1>7, <2>1, <3>1, <3>3
  <2>. QED  BY <1>2, <1>3, <1>4, <2>1 DEF FirstSent
<1>13. FreshCall(p)'
  BY <1>4, <1>11, <1>12 DEF FreshCall, FirstInLine, AskingAgain, AgainInLine, AtSlot
<1>14. TimeInOrder(p)'
  BY <1>2, <1>3, <1>4, <1>6 DEF TimeInOrder, Asking
<1>15. SlotsMove /\ SlotsInOrder'
  BY <1>2, SlotsSame
<1>. QED  BY <1>5, <1>13, <1>14, <1>15, OneMoves

LEMMA TokenStored ==
    ASSUME LifeIsLong, Typed, Typed', LocksInOrder, TokensInOrder, NEW p \in Calls, Store(p)
    PROVE  TokensInOrder'
<1>. DEFINE j == job[p]
            stored == [j EXCEPT !.arc = None, !.at = now]
            cached == [token |-> j.token, expires |-> now + Life]
<1>1. /\ Goto(p, "answered", "send", stored) /\ Unlock(p)
      /\ slot' = [slot EXCEPT ![j.arc] = cached] /\ entries' = entries /\ now' = now
  BY DEF Store
<1>2. /\ stored.token = j.token /\ stored.at = now /\ stored.stale = j.stale /\ stored.conn = j.conn
      /\ cached.token = j.token /\ cached.expires = now + Life
  BY DEF Typed, TypeOK, Job, Procs
<1>. HIDE DEF stored, cached
<1>3. /\ pc[p] = "answered" /\ pc'[p] = "send" /\ job'[p] = stored
      /\ \A q \in Calls : q # p => pc'[q] = pc[q] /\ job'[q] = job[q]
  BY <1>1, Stepping DEF Procs
<1>4. Moves(p)
  BY <1>1, <1>3 DEF Moves, OthersWait, Leaves, AtSlot
<1>5. /\ j.arc \in Arcs /\ j.conn \in Conns /\ j.token \in Token /\ j.at \in Nat /\ j.token.at \in Nat
      /\ now \in Nat /\ Timeout \in Nat /\ Life \in Nat
  BY <1>3, ConstantsAssumption
  DEF Typed, TypeOK, RequestsTyped, CallTyped, CallCarries, AtSlot, Job, Procs, Token
<1>6. \A b \in Arcs : slot'[b] = IF b = j.arc THEN cached ELSE slot[b]
  BY <1>1 DEF Typed, TypeOK
<1>7. /\ Timeout < Life /\ Waited(N) \in Nat /\ Waited(N + 1) \in Nat /\ Waited(N) + Timeout = Waited(N + 1)
      /\ \A b \in Arcs : slot[b] # None => slot[b].token.at \in Nat
  <2>1. N \in Nat /\ Timeout < Life /\ Waited(N) + Timeout = Waited(N + 1)
    BY Long
  <2>2. N + 1 \in Nat
    BY <2>1
  <2>3. \A b \in Arcs : slot[b] # None => slot[b].token.at \in Nat
    BY DEF Typed, TypeOK, Cached, Token
  <2>. QED  BY <2>1, <2>2, <2>3, Waiting
<1>8. j.at <= now /\ now <= j.at + Timeout /\ j.at <= j.token.at
  BY <1>3 DEF TokensInOrder, TimeInOrder, Asking
<1>9. SentAlive(p)'
  BY <1>2, <1>3, <1>5, <1>7, <1>8 DEF SentAlive
<1>10. FirstSent(p)'
  <2>1. FreshCall(p) /\ LockInOrder(p) /\ pc[p] \in AtSlot /\ Began(p) = j.at
    BY <1>3 DEF TokensInOrder, LocksInOrder, AtSlot, Asking, Began
  <2>2. HasLock(p)
    BY <1>3, <2>1 DEF LockInOrder, HasLock, Working, AtSlot
  <2>3. ASSUME j.stale = None, NEW b \in Arcs, entries[j.conn] = b, slot'[b] # None,
               slot'[b].token # j.token
        PROVE  now <= slot'[b].token.at + Waited(N + 1)
    <3>1. b # j.arc /\ slot'[b] = slot[b]
      BY <1>2, <1>6, <2>3
    <3>2. PICK bound \in Nat : bound = slot[b].token.at + Waited(N)
      BY <1>7, <2>3, <3>1
    <3>3. InLine(p, bound)
      BY <2>1, <2>3, <3>1, <3>2 DEF FreshCall, FirstInLine
    <3>4. j.at <= bound
      BY <2>1, <2>2, <3>3, Served
    <3>. QED  BY <1>5, <1>7, <1>8, <2>3, <3>1, <3>2, <3>4
  <2>. QED  BY <1>1, <1>2, <1>3, <2>3 DEF FirstSent
<1>11. FreshCall(p)'
  BY <1>3, <1>9, <1>10 DEF FreshCall, FirstInLine, AskingAgain, AgainInLine, AtSlot
<1>12. TimeInOrder(p)'
  BY <1>1, <1>2, <1>3, <1>5 DEF TimeInOrder, Asking
<1>13. SlotsMove /\ SlotsInOrder'
  <2>1. now <= cached.token.at + Timeout /\ cached.expires <= cached.token.at + Timeout + Life
    BY <1>2, <1>5, <1>8
  <2>2. SlotsMove
    BY <1>1, <1>6, <2>1 DEF SlotsMove
  <2>3. SlotsInOrder'
    BY <1>6, <2>1 DEF TokensInOrder, SlotsInOrder
  <2>. QED  BY <2>2, <2>3
<1>. QED  BY <1>4, <1>11, <1>12, <1>13, OneMoves

LEMMA AskedAgain ==
    ASSUME LifeIsLong, Typed, Typed', TokensInOrder, NEW p \in Calls, Unauthorized(p)
    PROVE  TokensInOrder'
<1>. DEFINE j == job[p]
            again == [NoJob EXCEPT !.conn = j.conn, !.stale = j.token]
<1>1. /\ pc[p] = "send" /\ slot' = slot /\ entries' = entries /\ queue' = queue /\ now' = now
      /\ \/ Retries(p) /\ Goto(p, "send", "entry", again)
         \/ Finish(p, "send")
  BY DEF Unauthorized
<1>2. SlotsMove /\ SlotsInOrder'
  BY <1>1, SlotsSame
<1>3. CASE Finish(p, "send")
  <2>1. /\ pc'[p] = "idle"
        /\ \A q \in Calls : q # p => pc'[q] = pc[q] /\ job'[q] = job[q]
    BY <1>3, Finishing DEF Procs
  <2>2. Moves(p)
    BY <1>1, <2>1 DEF Moves, OthersWait, Stays, AtSlot
  <2>. QED  BY <1>2, <2>1, <2>2, OneMoves, FreshIdle
<1>4. CASE Retries(p) /\ Goto(p, "send", "entry", again)
  <2>1. again.conn = j.conn /\ again.stale = j.token
    BY DEF NoJob
  <2>. HIDE DEF again
  <2>2. /\ pc'[p] = "entry" /\ job'[p] = again
        /\ \A q \in Calls : q # p => pc'[q] = pc[q] /\ job'[q] = job[q]
    BY <1>4, Stepping DEF Procs
  <2>3. Moves(p)
    BY <1>1, <2>2 DEF Moves, OthersWait, Stays, AtSlot
  <2>4. FreshCall(p) /\ TimeInOrder(p) /\ j.stale = None
    BY <1>4 DEF TokensInOrder, Retries
  <2>5. /\ now \in Nat /\ j.at \in Nat /\ Timeout \in Nat /\ now <= j.at + Timeout
        /\ Waited(N + 1) \in Nat /\ Waited(N + 1) + Timeout = Waited(N + 2)
        /\ j.conn \in Conns
        /\ \A b \in Arcs : slot[b] # None => slot[b].token.at \in Nat
    <3>1. N \in Nat /\ Waited(N + 1) + Timeout = Waited(N + 2)
      BY Long
    <3>2. Waited(N + 1) \in Nat
      BY <3>1, Waiting
    <3>3. now \in Nat /\ j.at \in Nat /\ Timeout \in Nat /\ j.conn \in Conns
      BY <1>1, ConstantsAssumption
      DEF Typed, TypeOK, Job, Procs, RequestsTyped, CallTyped, CallCarries
    <3>4. \A b \in Arcs : slot[b] # None => slot[b].token.at \in Nat
      BY DEF Typed, TypeOK, Cached, Token
    <3>. QED  BY <1>1, <2>4, <3>1, <3>2, <3>3, <3>4 DEF TimeInOrder
  <2>6. ASSUME NEW b \in Arcs, entries[j.conn] = b, slot[b] # None, slot[b].token # j.token
        PROVE  now <= slot[b].token.at + Waited(N + 2)
    <3>1. j.at <= slot[b].token.at + Waited(N + 1)
      BY <1>1, <2>4, <2>6 DEF FreshCall, FirstSent
    <3>. QED  BY <2>5, <2>6, <3>1
  <2>7. AskingAgain(p)'
    BY <1>1, <2>1, <2>2, <2>6 DEF AskingAgain
  <2>8. TimeInOrder(p)' /\ FreshCall(p)'
    BY <2>2, <2>7
    DEF TimeInOrder, FreshCall, FirstInLine, FirstSent, AgainInLine, SentAlive, AtSlot, Asking
  <2>. QED  BY <1>2, <2>3, <2>8, OneMoves
<1>. QED  BY <1>1, <1>3, <1>4

LEMMA PlaceTaken ==
    ASSUME LifeIsLong, Typed, Typed', TokensInOrder, NEW p \in Calls, Entry(p)
    PROVE  TokensInOrder'
<1>. DEFINE j == job[p]
            c == j.conn
<1>1. c \in Conns /\ entries[c] \in Arcs \cup {None} /\ j \in Job
  BY DEF Entry, Typed, TypeOK, RequestsTyped, CallTyped, CallCarries, Procs
<1>2. PICK a \in Arcs :
         /\ Goto(p, "entry", "lock", [j EXCEPT !.arc = a, !.floor = floor[c]])
         /\ queue' = [queue EXCEPT ![a] = Append(@, p)] /\ entries'[c] = a
         /\ \/ entries' = entries /\ slot' = slot
            \/ entries' = [entries EXCEPT ![c] = a] /\ slot' = [slot EXCEPT ![a] = None]
  BY <1>1 DEF Entry, Typed, TypeOK
<1>. DEFINE placed == [j EXCEPT !.arc = a, !.floor = floor[c]]
<1>3. placed.arc = a /\ placed.stale = j.stale /\ placed.conn = c
  BY <1>1 DEF Job
<1>4. /\ pc[p] = "entry" /\ pc'[p] = "lock" /\ job'[p] = placed /\ now' = now
      /\ \A q \in Calls : q # p => pc'[q] = pc[q] /\ job'[q] = job[q]
  <2>1. Goto(p, "entry", "lock", placed)
    BY <1>2
  <2>. HIDE DEF placed
  <2>2. p \in Procs /\ \A q \in Calls : q \in Procs
    BY DEF Procs
  <2>3. now' = now
    BY DEF Entry
  <2>. QED  BY <2>1, <2>2, <2>3, Stepping
<1>. HIDE DEF placed
<1>5. Moves(p)
  BY <1>2, <1>3, <1>4 DEF Moves, OthersWait, Joins, AtSlot
<1>6. /\ \A b \in Arcs : slot'[b] # None => slot'[b] = slot[b]
      /\ \A d \in Conns : entries'[d] # None => entries'[d] = entries[d] \/ slot'[entries'[d]] = None
      /\ slot'[a] # None => entries[c] = a /\ slot'[a] = slot[a]
  BY <1>1, <1>2 DEF Typed, TypeOK
<1>7. SlotsMove /\ SlotsInOrder'
  BY <1>6, SlotsSame
<1>8. TimeInOrder(p)'
  BY <1>4 DEF TimeInOrder, Asking
<1>9. PlacesInOrder' /\ \A q \in Calls : TimeInOrder(q)'
  BY <1>5, <1>8, PlacesMove, TimesMove DEF TokensInOrder
<1>10. ASSUME j.stale # None, slot'[a] # None, slot'[a].token # j.stale
       PROVE  InLine(p, slot[a].token.at + Waited(2 * N + 1))'
  <2>1. now <= slot[a].token.at + Waited(N + 2)
    BY <1>1, <1>4, <1>6, <1>10 DEF TokensInOrder, FreshCall, AskingAgain
  <2>2. /\ N \in Nat /\ 1 <= N /\ Waited(N + 2) + Waited(N - 1) = Waited(2 * N + 1)
    BY Long
  <2>3. N + 2 \in Nat /\ N - 1 \in Nat /\ 2 * N + 1 \in Nat
    BY <2>2
  <2>4. Waited(N + 2) \in Nat /\ Waited(N - 1) \in Nat /\ Waited(2 * N + 1) \in Nat
    BY <2>3, Waiting
  <2>5. slot'[a].token.at \in Nat /\ slot[a].token.at = slot'[a].token.at /\ now \in Nat
    BY <1>6, <1>10 DEF Typed, TypeOK, Cached, Token
  <2>6. PICK bound \in Nat : bound = slot'[a].token.at + Waited(2 * N + 1)
    BY <2>4, <2>5
  <2>7. now' + Waited(N - 1) <= bound
    BY <1>4, <2>1, <2>2, <2>4, <2>5, <2>6
  <2>8. InLine(p, bound)'
    BY <1>4, <1>9, <2>7, TurnComes DEF AtSlot
  <2>. QED  BY <2>6, <2>8 DEF InLine, Since, Began
<1>11. AgainInLine(p)'
  BY <1>3, <1>4, <1>10 DEF AgainInLine, InLine, Since, Began
<1>12. FreshCall(p)'
  BY <1>2, <1>3, <1>4, <1>11 DEF FreshCall, FirstInLine, FirstSent, AskingAgain, SentAlive
<1>. QED  BY <1>5, <1>7, <1>8, <1>12, OneMoves

LEMMA CallKeepsTokens ==
    ASSUME LifeIsLong, Typed, Typed', LocksInOrder, TokensInOrder, NEW p \in Calls,
           (\E c \in Conns : StartCall(p, c)) \/ Call(p)
    PROVE  TokensInOrder'
<1>. DEFINE j == job[p]
<1>0. /\ p \in Procs /\ j \in Job /\ now \in Nat /\ Timeout \in Nat /\ \A q \in Calls : q \in Procs
      /\ TimeInOrder(p)
  BY ConstantsAssumption DEF Typed, TypeOK, Procs, TokensInOrder
<1>1. ASSUME slot' = slot, entries' = entries  PROVE SlotsMove /\ SlotsInOrder'
  BY <1>1, SlotsSame
<1>2. ASSUME NEW from, Finish(p, from), slot' = slot, entries' = entries, now' = now,
             Unlock(p) \/ (queue' = queue /\ from \notin AtSlot)
      PROVE  TokensInOrder'
  <2>1. pc[p] = from /\ pc'[p] = "idle" /\ \A q \in Calls : q # p => pc'[q] = pc[q] /\ job'[q] = job[q]
    BY <1>0, <1>2, Finishing
  <2>2. Moves(p)
    BY <1>2, <2>1 DEF Moves, OthersWait, Leaves, Stays, AtSlot
  <2>. QED  BY <1>1, <1>2, <2>1, <2>2, OneMoves, FreshIdle
<1>3. ASSUME NEW c \in Conns, StartCall(p, c)  PROVE TokensInOrder'
  <2>. DEFINE new == [NoJob EXCEPT !.conn = c]
  <2>1. new.stale = None
    BY DEF NoJob
  <2>. HIDE DEF new
  <2>2. /\ Goto(p, "idle", "entry", new) /\ slot' = slot /\ entries' = entries
        /\ queue' = queue /\ now' = now
    BY <1>3 DEF StartCall, new
  <2>3. /\ pc[p] = "idle" /\ pc'[p] = "entry" /\ job'[p] = new
        /\ \A q \in Calls : q # p => pc'[q] = pc[q] /\ job'[q] = job[q]
    BY <1>0, <2>2, Stepping
  <2>4. Moves(p)
    BY <2>2, <2>3 DEF Moves, OthersWait, Stays, AtSlot
  <2>. QED  BY <1>1, <2>1, <2>2, <2>3, <2>4, OneMoves, FreshIdle
<1>4. CASE NoRow(p) \/ TokenRequestFails(p) \/ Mark(p)
  BY <1>2, <1>4 DEF NoRow, TokenRequestFails, Mark
<1>5. CASE Answered(p)
  BY <1>2, <1>5 DEF Answered, AtSlot
<1>6. ASSUME NEW from \in AtSlot, NEW to \in AtSlot, NEW what, Goto(p, from, to, what),
             what.conn = j.conn, what.arc = j.arc, what.stale = j.stale,
             (IF to \in Asking THEN what.at ELSE now) = IF from \in Asking THEN j.at ELSE now,
             to \in Asking => what.at <= now /\ now <= what.at + Timeout,
             to = "answered" => what.at <= what.token.at,
             slot' = slot, entries' = entries, queue' = queue, now' = now
      PROVE  TokensInOrder'
  <2>1. /\ pc[p] = from /\ pc'[p] = to /\ job'[p] = what
        /\ \A q \in Calls : q # p => pc'[q] = pc[q] /\ job'[q] = job[q]
    BY <1>0, <1>6, Stepping
  <2>2. Moves(p)
    BY <1>6, <2>1 DEF Moves, OthersWait, Stays, Began
  <2>3. KeepsSlot(p)
    BY <1>6, <2>1 DEF KeepsSlot
  <2>4. TimeInOrder(p)'
    BY <1>6, <2>1 DEF TimeInOrder, AtSlot
  <2>. QED  BY <1>1, <1>6, <2>2, <2>3, <2>4, OneMoves
<1>7. CASE Refresh(p)
  BY <1>6, <1>7 DEF Refresh, AtSlot, Asking
<1>8. CASE OpenSeal(p)
  <2>. DEFINE opened == [j EXCEPT !.grant = rows[j.conn].grant, !.at = now]
  <2>1. opened.arc = j.arc /\ opened.stale = j.stale /\ opened.conn = j.conn /\ opened.at = now
    BY <1>0 DEF Job
  <2>2. PICK to \in {"mark", "post"} : Goto(p, "sealed", to, opened)
    BY <1>8 DEF OpenSeal
  <2>3. slot' = slot /\ entries' = entries /\ queue' = queue /\ now' = now
    BY <1>8 DEF OpenSeal
  <2>. HIDE DEF opened
  <2>. QED  BY <1>0, <1>6, <2>1, <2>2, <2>3 DEF AtSlot, Asking
<1>9. CASE TokenIssued(p)
  <2>1. PICK i \in Ids : Goto(p, "post", "answered",
                              [j EXCEPT !.token = [id |-> i, grant |-> j.grant, at |-> now]])
    BY <1>9 DEF TokenIssued
  <2>. DEFINE t == [id |-> i, grant |-> j.grant, at |-> now]
              answered == [j EXCEPT !.token = t]
  <2>2. /\ answered.arc = j.arc /\ answered.stale = j.stale /\ answered.conn = j.conn
        /\ answered.at = j.at /\ answered.token.at = now
    BY <1>0 DEF Job
  <2>3. Goto(p, "post", "answered", answered) /\ pc[p] = "post"
    BY <1>0, <2>1, Stepping
  <2>4. slot' = slot /\ entries' = entries /\ queue' = queue /\ now' = now
    BY <1>9 DEF TokenIssued
  <2>. HIDE DEF answered
  <2>5. j.at <= now /\ now <= j.at + Timeout
    BY <1>0, <2>3 DEF TimeInOrder, Asking
  <2>. QED  BY <1>6, <2>2, <2>3, <2>4, <2>5 DEF AtSlot, Asking
<1>10. CASE GrantRefused(p)
  <2>1. j.at <= now /\ now <= j.at + Timeout
    BY <1>0, <1>10 DEF TimeInOrder, Asking, GrantRefused
  <2>. QED  BY <1>6, <1>10, <2>1 DEF GrantRefused, AtSlot, Asking
<1>. QED
  BY <1>3, <1>4, <1>5, <1>7, <1>8, <1>9, <1>10, TokenHandedOut, TokenStored, AskedAgain, PlaceTaken
  DEF Call

-----------------------------------------------------------------------------
(* Nobody waits while time passes but for Google or for who waits for it.     *)
LEMMA TimeKeepsTokens ==
    ASSUME Typed, Typed', TokensInOrder, Tick
    PROVE  TokensInOrder'
<1>1. /\ pc' = pc /\ job' = job /\ queue' = queue /\ slot' = slot /\ entries' = entries
      /\ now' = now + 1 /\ now \in Nat /\ Timeout \in Nat
  BY ConstantsAssumption DEF Tick, Typed, TypeOK
<1>2. ASSUME NEW p \in Calls  PROVE Waits(p) /\ job[p].at \in Nat /\ TimeInOrder(p) /\ FreshCall(p)
  BY DEF Tick, Procs, Typed, TypeOK, Job, TokensInOrder
<1>3. PlacesInOrder' /\ SlotsInOrder'
  BY <1>1 DEF TokensInOrder, PlacesInOrder, SlotsInOrder
<1>4. ASSUME NEW p \in Calls  PROVE TimeInOrder(p)'
  BY <1>1, <1>2 DEF TimeInOrder, Waits, Asking
<1>5. ASSUME NEW p \in Calls, pc[p] \in AtSlot, NEW bound, InLine(p, bound)  PROVE InLine(p, bound)'
  <2>1. PICK a \in Arcs : a = job[p].arc /\ a = job'[p].arc
    BY <1>1, <1>5 DEF Typed, RequestsTyped, CallTyped, CallCarries
  <2>2. PICK s \in Seq(Calls) : s = queue[a] /\ s = queue'[a]
    BY <1>1 DEF Typed, TypeOK
  <2>3. ASSUME NEW i \in 1 .. Len(s)  PROVE Since(a)' = Since(a)
    <3>1. PICK h \in Calls : h = Head(s) /\ h = s[1]
      <4>1. s # <<>>
        OBVIOUS
      <4>. QED  BY <4>1
    <3>2. pc[h] \in AtSlot /\ job[h].arc = a
      <4>1. PICK k \in 1 .. Len(s) : h = s[k]
        BY <3>1
      <4>. QED  BY <2>2, <4>1 DEF TokensInOrder, PlacesInOrder
    <3>3. Waits(h) /\ HasLock(h)
      BY <1>2, <2>2, <3>1, <3>2 DEF HasLock
    <3>4. pc[h] \in Asking
      BY <3>2, <3>3 DEF Waits, AtSlot, Asking
    <3>. QED  BY <1>1, <2>2, <3>1, <3>4 DEF Since, Began
  <2>4. ASSUME NEW i \in 1 .. Len(s), s[i] = p  PROVE Since(a)' + Waited(i - 1) <= bound
    BY <1>5, <2>1, <2>2, <2>3, <2>4 DEF InLine
  <2>. QED  BY <2>1, <2>2, <2>4 DEF InLine, Since, Began
<1>6. ASSUME NEW p \in Calls  PROVE FreshCall(p)'
  <2>1. FirstInLine(p)'
    <3>1. ASSUME pc[p] \in AtSlot, job[p].stale = None, NEW a \in Arcs, entries[job[p].conn] = a,
                 a # job[p].arc, slot[a] # None
          PROVE  InLine(p, slot[a].token.at + Waited(N))'
      <4>1. PICK bound : bound = slot[a].token.at + Waited(N)
        OBVIOUS
      <4>2. InLine(p, bound)
        BY <1>2, <3>1, <4>1 DEF FreshCall, FirstInLine
      <4>3. InLine(p, bound)'
        BY <1>5, <3>1, <4>2
      <4>. QED  BY <1>1, <4>1, <4>3 DEF InLine, Since, Began
    <3>. QED  BY <1>1, <3>1 DEF FirstInLine, InLine, Since, Began
  <2>2. AgainInLine(p)'
    <3>1. SUFFICES ASSUME pc[p] \in AtSlot, job[p].stale # None, NEW a, a = job[p].arc,
                          slot[a] # None, slot[a].token # job[p].stale
                   PROVE  InLine(p, slot[a].token.at + Waited(2 * N + 1))'
      BY <1>1 DEF AgainInLine, InLine, Since, Began
    <3>2. PICK bound : bound = slot[a].token.at + Waited(2 * N + 1)
      OBVIOUS
    <3>3. InLine(p, bound)
      BY <1>2, <3>1, <3>2 DEF FreshCall, AgainInLine
    <3>4. InLine(p, bound)'
      BY <1>5, <3>1, <3>3
    <3>. QED  BY <1>1, <3>2, <3>4 DEF InLine, Since, Began
  <2>3. FirstSent(p)' /\ SentAlive(p)'
    BY <1>1, <1>2 DEF FreshCall, FirstSent, SentAlive
  <2>4. AskingAgain(p)'
    BY <1>1, <1>2 DEF Waits, AskingAgain
  <2>. QED  BY <2>1, <2>2, <2>3, <2>4 DEF FreshCall
<1>. QED  BY <1>3, <1>4, <1>6 DEF TokensInOrder

LEMMA TokensInit == Init => TokensInOrder
<1>1. SUFFICES ASSUME Init  PROVE TokensInOrder
  OBVIOUS
<1>2. PlacesInOrder /\ SlotsInOrder
  BY <1>1 DEF Init, PlacesInOrder, SlotsInOrder
<1>3. ASSUME NEW p \in Calls  PROVE TimeInOrder(p) /\ FreshCall(p)
  <2>1. pc[p] = "idle"
    BY <1>1 DEF Init, Procs
  <2>. QED
    BY <2>1
    DEF TimeInOrder, FreshCall, FirstInLine, FirstSent, AskingAgain, AgainInLine, SentAlive, AtSlot, Asking
<1>. QED  BY <1>2, <1>3 DEF TokensInOrder

LEMMA TokensStep ==
    LifeIsLong /\ Typed /\ Typed' /\ LocksInOrder /\ TokensInOrder /\ [Next]_vars => TokensInOrder'
<1>1. SUFFICES ASSUME LifeIsLong, Typed, Typed', LocksInOrder, TokensInOrder, [Next]_vars
               PROVE  TokensInOrder'
  OBVIOUS
<1>. USE <1>1
<1>2. ASSUME NEW p \in Calls, (\E c \in Conns : StartCall(p, c)) \/ Call(p)  PROVE TokensInOrder'
  BY <1>2, CallKeepsTokens
<1>3. ASSUME NEW h \in Handlers, Handler(h)  PROVE TokensInOrder'
  <2>1. h \notin Calls /\ slot' = slot /\ \A q \in Calls : pc'[q] = pc[q] /\ job'[q] = job[q]
    BY <1>3, HandlerAlone, ConstantsAssumption
  <2>2. now' = now /\ queue' = queue
    BY <1>3 DEF Handler, Exchange, StartDelete, Connect, NotStored, ForgetOld, DeleteRow, FindRow,
                SetGrant, Revoke, ForgetDeleted, history
  <2>3. entries' = entries \/ entries' = [entries EXCEPT ![job[h].conn] = None]
    BY <1>3 DEF Handler, Exchange, StartDelete, Connect, NotStored, ForgetOld, DeleteRow, FindRow,
                SetGrant, Revoke, ForgetDeleted, Forget, history
  <2>4. \A c \in Conns : entries'[c] # None => entries'[c] = entries[c]
    BY <2>3 DEF Typed, TypeOK
  <2>5. Moves(h)
    BY <2>1, <2>2 DEF Moves, OthersWait, Stays
  <2>. QED  BY <2>1, <2>4, <2>5, SlotsSame, OneMoves
<1>4. ASSUME NEW p \in Procs, Dropped(p)  PROVE TokensInOrder'
  <2>1. /\ pc'[p] = "idle"
        /\ \A q \in Procs \ {p} : pc'[q] = pc[q] /\ job'[q] = job[q]
    BY <1>4, Finishing DEF Dropped
  <2>2. Unlock(p) /\ now' = now /\ slot' = slot /\ entries' = entries
    BY <1>4 DEF Dropped
  <2>3. Moves(p)
    BY <2>1, <2>2 DEF Moves, OthersWait, Leaves, AtSlot, Procs
  <2>. QED  BY <2>1, <2>2, <2>3, SlotsSame, OneMoves, FreshIdle
<1>5. CASE \/ \E c \in Conns : CliRemove(c)
           \/ \E g \in Grants : GoogleRevokes(g)
           \/ UNCHANGED vars
  <2>1. /\ pc' = pc /\ job' = job /\ slot' = slot /\ queue' = queue /\ entries' = entries
        /\ now' = now
    BY <1>5 DEF CliRemove, GoogleRevokes, vars
  <2>2. PlacesInOrder' /\ SlotsInOrder'
    BY <2>1 DEF TokensInOrder, PlacesInOrder, SlotsInOrder
  <2>3. ASSUME NEW p \in Calls  PROVE TimeInOrder(p)' /\ FreshCall(p)'
    <3>1. TimeInOrder(p) /\ FreshCall(p)
      BY DEF TokensInOrder
    <3>. QED
      BY <2>1, <3>1
      DEF TimeInOrder, FreshCall, FirstInLine, FirstSent, AskingAgain, AgainInLine, SentAlive,
          InLine, Since, Began
  <2>. QED  BY <2>2, <2>3 DEF TokensInOrder
<1>6. CASE Tick
  BY <1>6, TimeKeepsTokens
<1>7. CASE Restart
  <2>1. /\ \A p \in Calls : pc'[p] = "idle" /\ \A a \in Arcs : slot'[a] = None /\ queue'[a] = <<>>
    BY <1>7 DEF Restart, Procs
  <2>2. PlacesInOrder' /\ SlotsInOrder'
    BY <1>7 DEF Restart, PlacesInOrder, SlotsInOrder
  <2>. QED  BY <2>1, <2>2, FreshIdle DEF TokensInOrder
<1>. QED
  BY <1>2, <1>3, <1>4, <1>5, <1>6, <1>7 DEF Next

(* The skew of src/google/client.rs makes up for the time a token request may  *)
(* take, and no queue for a slot is so long that a token grows old in it: no   *)
(* call goes out with a token whose hour is over.                           *)
THEOREM TokensArriveAlive ==
    ASSUME LifeIsLong
    PROVE  Spec => []HandedOutAlive
<1>1. TokensInOrder => HandedOutAlive
  BY DEF TokensInOrder, FreshCall, SentAlive, HandedOutAlive
<1>. QED
  BY <1>1, TypedInit, TypedStep, LocksInit, LocksStep, TokensInit, TokensStep, PTL DEF Spec

-----------------------------------------------------------------------------
(* A first attempt, however many calls there are.                            *)

(* EXPIRY_SKEW_SECONDS and REQUEST_TIMEOUT, whatever runs at once.            *)
SkewCovers == Timeout <= Skew /\ Timeout < Life

FirstAlive(p) == pc[p] = "send" /\ job[p].stale = None => job[p].at < job[p].token.at + Life

TimesInOrder == SlotsInOrder /\ \A p \in Calls : TimeInOrder(p) /\ FirstAlive(p)

LEMMA OneTimed ==
    ASSUME Typed, Typed', TimesInOrder, NEW p, now' = now, OthersWait(p), SlotsInOrder',
           p \in Calls => TimeInOrder(p)' /\ FirstAlive(p)'
    PROVE  TimesInOrder'
<1>1. ASSUME NEW q \in Calls, q # p  PROVE TimeInOrder(q)' /\ FirstAlive(q)'
  <2>1. TimeInOrder(q) /\ FirstAlive(q)
    BY DEF TimesInOrder
  <2>. QED  BY <1>1, <2>1 DEF OthersWait, TimeInOrder, FirstAlive
<1>. QED  BY <1>1 DEF TimesInOrder

LEMMA CallKeepsTimes ==
    ASSUME SkewCovers, Typed, Typed', TimesInOrder, NEW p \in Calls,
           (\E c \in Conns : StartCall(p, c)) \/ Call(p)
    PROVE  TimesInOrder'
<1>. DEFINE j == job[p]
<1>0. /\ p \in Procs /\ j \in Job /\ j.at \in Nat /\ now \in Nat /\ \A q \in Calls : q \in Procs
      /\ Timeout \in Nat /\ Skew \in Nat /\ Life \in Nat /\ Timeout <= Skew /\ Timeout < Life
      /\ TimeInOrder(p) /\ CallCarries(pc[p], j)
  BY ConstantsAssumption
  DEF Typed, TypeOK, RequestsTyped, CallTyped, Procs, Job, TimesInOrder, SkewCovers
<1>1. ASSUME NEW from, NEW to, NEW what, Goto(p, from, to, what), now' = now,
             \A a \in Arcs : slot'[a] # None => slot'[a] = slot[a],
             to \in Asking \cup {"send"} => what.at <= now /\ now <= what.at + Timeout,
             to = "answered" => what.at <= what.token.at,
             to = "send" /\ what.stale = None => what.at < what.token.at + Life
      PROVE  TimesInOrder'
  <2>1. pc'[p] = to /\ job'[p] = what /\ OthersWait(p)
    BY <1>0, <1>1, Stepping DEF OthersWait
  <2>2. TimeInOrder(p)' /\ FirstAlive(p)'
    BY <1>1, <2>1 DEF TimeInOrder, FirstAlive
  <2>3. SlotsInOrder'
    BY <1>1 DEF TimesInOrder, SlotsInOrder
  <2>. QED  BY <1>1, <2>1, <2>2, <2>3, OneTimed
<1>2. ASSUME NEW from, NEW to, NEW what, Goto(p, from, to, what), now' = now, slot' = slot,
             to \in {"idle", "entry", "lock", "sealed"}
      PROVE  TimesInOrder'
  BY <1>1, <1>2 DEF Asking
<1>3. ASSUME NEW c \in Conns, StartCall(p, c)  PROVE TimesInOrder'
  BY <1>2, <1>3 DEF StartCall
<1>4. CASE NoRow(p) \/ TokenRequestFails(p) \/ Mark(p) \/ Answered(p) \/ Refresh(p)
  BY <1>2, <1>4 DEF NoRow, TokenRequestFails, Mark, Answered, Refresh, Finish
<1>5. CASE Unauthorized(p)
  <2>1. now' = now /\ slot' = slot
        /\ \E to \in {"idle", "entry"} : \E what : Goto(p, "send", to, what)
    BY <1>5 DEF Unauthorized, Finish
  <2>. QED  BY <1>2, <2>1
<1>6. CASE Entry(p)
  <2>1. /\ now' = now
        /\ \E what : Goto(p, "entry", "lock", what)
    BY <1>6 DEF Entry
  <2>2. \A a \in Arcs : slot'[a] # None => slot'[a] = slot[a]
    BY <1>6 DEF Entry, Typed, TypeOK
  <2>. QED  BY <1>1, <2>1, <2>2 DEF Asking
<1>7. CASE OpenSeal(p)
  <2>. DEFINE opened == [j EXCEPT !.grant = rows[j.conn].grant, !.at = now]
  <2>1. opened.at = now
    BY <1>0 DEF Job
  <2>2. PICK to \in {"mark", "post"} : Goto(p, "sealed", to, opened)
    BY <1>7 DEF OpenSeal
  <2>3. slot' = slot /\ now' = now
    BY <1>7 DEF OpenSeal
  <2>. HIDE DEF opened
  <2>. QED  BY <1>0, <1>1, <2>1, <2>2, <2>3
<1>8. CASE TokenIssued(p)
  <2>1. PICK i \in Ids : Goto(p, "post", "answered",
                              [j EXCEPT !.token = [id |-> i, grant |-> j.grant, at |-> now]])
    BY <1>8 DEF TokenIssued
  <2>. DEFINE t == [id |-> i, grant |-> j.grant, at |-> now]
              answered == [j EXCEPT !.token = t]
  <2>2. answered.at = j.at /\ answered.token.at = now
    BY <1>0 DEF Job
  <2>3. Goto(p, "post", "answered", answered) /\ pc[p] = "post"
    BY <1>0, <2>1, Stepping
  <2>4. slot' = slot /\ now' = now
    BY <1>8 DEF TokenIssued
  <2>. HIDE DEF answered
  <2>. QED  BY <1>0, <1>1, <2>2, <2>3, <2>4 DEF TimeInOrder, Asking
<1>9. CASE GrantRefused(p)
  <2>1. j.at <= now /\ now <= j.at + Timeout
    BY <1>0, <1>9 DEF TimeInOrder, Asking, GrantRefused
  <2>. QED  BY <1>1, <1>9, <2>1 DEF GrantRefused
<1>10. CASE UseCached(p)
  <2>1. PICK a \in Arcs, s \in Cached : a = j.arc /\ s = slot[a] /\ Usable(s, j.stale)
    BY <1>10 DEF UseCached, Usable, Typed, TypeOK, RequestsTyped, CallTyped, CallCarries, AtSlot
  <2>. DEFINE taken == [j EXCEPT !.token = s.token, !.arc = None, !.at = now]
  <2>2. Goto(p, "lock", "send", taken) /\ slot' = slot /\ now' = now
    BY <1>10, <2>1 DEF UseCached
  <2>3. taken.token = s.token /\ taken.at = now /\ taken.stale = j.stale
    BY <1>0 DEF Job
  <2>. HIDE DEF taken
  <2>4. s.token.at \in Nat /\ s.expires \in Nat /\ s # None
    BY <2>1 DEF Cached, Token, Usable
  <2>5. ASSUME j.stale = None  PROVE now < s.token.at + Life
    <3>1. s.expires > now + Skew /\ s.expires <= s.token.at + Timeout + Life
      BY <2>1, <2>4, <2>5 DEF Usable, TimesInOrder, SlotsInOrder
    <3>. QED  BY <1>0, <2>4, <3>1
  <2>. QED  BY <1>0, <1>1, <2>2, <2>3, <2>5 DEF Asking
<1>11. CASE Store(p)
  <2>. DEFINE stored == [j EXCEPT !.arc = None, !.at = now]
              cached == [token |-> j.token, expires |-> now + Life]
  <2>1. /\ Goto(p, "answered", "send", stored) /\ slot' = [slot EXCEPT ![j.arc] = cached] /\ now' = now
    BY <1>11 DEF Store
  <2>2. stored.token = j.token /\ stored.at = now /\ cached.token = j.token /\ cached.expires = now + Life
    BY <1>0 DEF Job
  <2>. HIDE DEF stored, cached
  <2>3. pc[p] = "answered" /\ pc'[p] = "send" /\ job'[p] = stored /\ OthersWait(p)
    BY <1>0, <2>1, Stepping DEF OthersWait
  <2>4. j.token.at \in Nat /\ j.arc \in Arcs /\ now <= j.token.at + Timeout
    <3>1. j.token \in Token /\ j.arc \in Arcs
      BY <1>0, <2>3 DEF CallCarries, AtSlot
    <3>2. j.at <= j.token.at /\ now <= j.at + Timeout
      BY <1>0, <2>3 DEF TimeInOrder, Asking
    <3>. QED  BY <1>0, <3>1, <3>2 DEF Token
  <2>5. TimeInOrder(p)' /\ FirstAlive(p)'
    BY <1>0, <2>1, <2>2, <2>3, <2>4 DEF TimeInOrder, FirstAlive, Asking
  <2>6. SlotsInOrder'
    <3>1. \A b \in Arcs : slot'[b] = IF b = j.arc THEN cached ELSE slot[b]
      BY <2>1 DEF Typed, TypeOK
    <3>2. cached.expires <= cached.token.at + Timeout + Life
      BY <1>0, <2>2, <2>4
    <3>. QED  BY <3>1, <3>2 DEF TimesInOrder, SlotsInOrder
  <2>. QED  BY <2>1, <2>3, <2>5, <2>6, OneTimed
<1>. QED
  BY <1>3, <1>4, <1>5, <1>6, <1>7, <1>8, <1>9, <1>10, <1>11 DEF Call

LEMMA TimesStep == SkewCovers /\ Typed /\ Typed' /\ TimesInOrder /\ [Next]_vars => TimesInOrder'
<1>1. SUFFICES ASSUME SkewCovers, Typed, Typed', TimesInOrder, [Next]_vars  PROVE TimesInOrder'
  OBVIOUS
<1>. USE <1>1
<1>2. ASSUME NEW p \in Calls, (\E c \in Conns : StartCall(p, c)) \/ Call(p)  PROVE TimesInOrder'
  BY <1>2, CallKeepsTimes
<1>3. ASSUME slot' = slot  PROVE SlotsInOrder'
  BY <1>3 DEF TimesInOrder, SlotsInOrder
<1>4. ASSUME NEW h \in Handlers, Handler(h)  PROVE TimesInOrder'
  <2>1. h \notin Calls /\ slot' = slot /\ \A q \in Calls : pc'[q] = pc[q] /\ job'[q] = job[q]
    BY <1>4, HandlerAlone, ConstantsAssumption
  <2>2. now' = now
    BY <1>4 DEF Handler, Exchange, StartDelete, Connect, NotStored, ForgetOld, DeleteRow, FindRow,
                SetGrant, Revoke, ForgetDeleted, history
  <2>. QED  BY <1>3, <2>1, <2>2, OneTimed DEF OthersWait
<1>5. ASSUME NEW p \in Procs, Dropped(p)  PROVE TimesInOrder'
  <2>1. pc'[p] = "idle" /\ OthersWait(p)
    BY <1>5, Finishing DEF Dropped, OthersWait, Procs
  <2>2. TimeInOrder(p)' /\ FirstAlive(p)'
    BY <2>1 DEF TimeInOrder, FirstAlive, Asking
  <2>. QED  BY <1>3, <1>5, <2>1, <2>2, OneTimed DEF Dropped
<1>6. CASE \/ \E c \in Conns : CliRemove(c)
           \/ \E g \in Grants : GoogleRevokes(g)
           \/ Tick
           \/ UNCHANGED vars
  <2>1. pc' = pc /\ job' = job /\ slot' = slot
    BY <1>6 DEF CliRemove, GoogleRevokes, Tick, vars
  <2>2. now' = now \/ Tick
    BY <1>6 DEF CliRemove, GoogleRevokes, vars
  <2>3. ASSUME NEW p \in Calls  PROVE TimeInOrder(p)' /\ FirstAlive(p)'
    <3>1. TimeInOrder(p) /\ FirstAlive(p) /\ now \in Nat /\ job[p].at \in Nat /\ Timeout \in Nat
      BY ConstantsAssumption DEF TimesInOrder, Typed, TypeOK, Procs, Job
    <3>2. FirstAlive(p)'
      BY <2>1, <3>1 DEF FirstAlive
    <3>3. CASE now' = now
      BY <2>1, <3>1, <3>2, <3>3 DEF TimeInOrder
    <3>4. CASE Tick
      <4>1. Waits(p) /\ now' = now + 1
        BY <3>4 DEF Tick, Procs
      <4>. QED  BY <2>1, <3>1, <3>2, <4>1 DEF TimeInOrder, Waits, Asking
    <3>. QED  BY <2>2, <3>3, <3>4
  <2>. QED  BY <1>3, <2>1, <2>3 DEF TimesInOrder
<1>7. CASE Restart
  <2>1. (\A p \in Calls : pc'[p] = "idle") /\ \A a \in Arcs : slot'[a] = None
    BY <1>7 DEF Restart, Procs
  <2>. QED  BY <2>1 DEF TimesInOrder, SlotsInOrder, TimeInOrder, FirstAlive, Asking
<1>. QED
  BY <1>2, <1>4, <1>5, <1>6, <1>7 DEF Next

(* The skew of src/google/client.rs alone: however many calls there are and    *)
(* however long the queues, a first attempt never goes out with a token whose  *)
(* hour is over.  A retry does not look at the hour, so for it the queues count. *)
FirstAttemptsAlive ==
    \A p \in Calls : pc[p] = "send" /\ job[p].stale = None => job[p].at < job[p].token.at + Life

THEOREM SkewIsEnough ==
    ASSUME SkewCovers
    PROVE  Spec => []FirstAttemptsAlive
<1>1. Init => TimesInOrder
  <2>1. SUFFICES ASSUME Init  PROVE TimesInOrder
    OBVIOUS
  <2>2. (\A p \in Calls : pc[p] = "idle") /\ \A a \in Arcs : slot[a] = None
    BY <2>1 DEF Init, Procs
  <2>. QED  BY <2>2 DEF TimesInOrder, SlotsInOrder, TimeInOrder, FirstAlive, Asking
<1>2. TimesInOrder => FirstAttemptsAlive
  BY DEF TimesInOrder, FirstAlive, FirstAttemptsAlive
<1>. QED  BY <1>1, <1>2, TypedInit, TypedStep, TimesStep, PTL DEF Spec

=============================================================================
