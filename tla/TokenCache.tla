----------------------------- MODULE TokenCache -----------------------------
(***************************************************************************)
(* The access tokens of src/google/client.rs: one slot for each connection, *)
(* filled by one token request at a time, together with what moves under    *)
(* it: the connection's row and its sealed refresh token, the portal's       *)
(* handlers that reconnect and disconnect an account, the command line, and  *)
(* Google, which may stop honouring a grant or a token whenever it likes.    *)
(*                                                                          *)
(* A slot is reached through an Arc cloned out of a map.  Forgetting a       *)
(* connection takes the Arc out of the map, so a request that already has    *)
(* it goes on working on a slot nobody else will find.                      *)
(***************************************************************************)
EXTENDS Naturals, FiniteSets, SequencesExt

CONSTANTS
    Conns,       \* ids of connections (AUTOINCREMENT: never used twice)
    Calls,       \* calls to Google that may run at once (Client::send)
    Handlers,    \* portal requests that may run at once
    Arcs,        \* the slots: what the map's Arcs point at
    Grants,      \* refresh tokens Google issues, one for each consent
    Rotated,     \* those sealed under a GMCP_SECRET no longer in use
    Life,        \* expires_in of a token response
    Skew,        \* EXPIRY_SKEW_SECONDS
    Timeout,     \* REQUEST_TIMEOUT
    Ids,         \* bound: access tokens that may be about at once
    MaxTime,     \* bound: the clock stops here
    Unborn, Disconnected, Removed,  \* a row not yet there; deleted by the portal, by the CLI
    None

ASSUME ConstantsAssumption ==
    /\ Life \in Nat /\ Skew \in Nat /\ Timeout \in Nat
    /\ MaxTime \in Nat
    /\ Rotated \subseteq Grants
    /\ Calls \cap Handlers = {}

Procs == Calls \cup Handlers

VARIABLES
    now,       \* Utc::now()
    rows,      \* the connections table: the sealed refresh token and the status
    entries,   \* TokenSource.entries
    slot,      \* what each slot holds: Option<Cached>
    queue,     \* the slot's tokio mutex: who holds it, then who waits, first come first
    pc,        \* how far each call and each handler has come
    job,       \* what it works on
    live,      \* at Google: grants it still honours
    written,   \* history: when each grant was written to a row, 0 for never
    floor,     \* history: the last grant after which the cache was cleared
    refused    \* history: tokens a call was told 401 for

vars == <<now, rows, entries, slot, queue, pc, job, live,
          written, floor, refused>>
history == <<written, floor, refused>>

Statuses == {"ok", "needs_reauth"}
Row == [grant : Grants, status : Statuses]
Token == [id : Ids, grant : Grants, at : 0..MaxTime]
Cached == [token : Token, expires : Nat]

\* `refused` is the token a retry must not use again; `floor` is history: what
\* the cache had been cleared up to when the call asked it for a token.
Job == [conn : Conns \cup {None}, arc : Arcs \cup {None}, grant : Grants \cup {None},
        token : Token \cup {None}, stale : Token \cup {None}, at : Nat, floor : Nat]

NoJob == [conn |-> None, arc |-> None, grant |-> None,
          token |-> None, stale |-> None, at |-> 0, floor |-> 0]

\* Consents are finitely many, and no slot or token is the absence of one.
ASSUME NamesAssumption == IsFiniteSet(Grants) /\ None \notin Arcs \cup Token

CallStates == {"entry", "lock", "sealed", "post", "answered", "mark", "send"}
HandlerStates == {"exchanged", "known", "granted", "revoke", "forget", "delete"}

Exists(c) == rows[c] \notin {Unborn, Disconnected, Removed}

Init ==
    /\ now = 0
    /\ rows \in [Conns -> [grant : Grants, status : {"ok"}] \cup {Unborn}]
    /\ \A c, d \in Conns : c # d /\ Exists(c) /\ Exists(d) => rows[c].grant # rows[d].grant
    /\ entries = [c \in Conns |-> None]
    /\ slot = [a \in Arcs |-> None]
    /\ queue = [a \in Arcs |-> << >>]
    /\ pc = [p \in Procs |-> "idle"]
    /\ job = [p \in Procs |-> NoJob]
    /\ live = {rows[c].grant : c \in {d \in Conns : Exists(d)}}
    /\ written = [g \in Grants |-> IF g \in live THEN 1 ELSE 0]
    /\ floor = [c \in Conns |-> 1]
    /\ refused = {}

-----------------------------------------------------------------------------
(* Client::send, up to the token: TokenSource::access_token and, after a     *)
(* 401, TokenSource::refresh_after_401.                                      *)

Goto(p, from, to, what) ==
    /\ pc[p] = from
    /\ pc' = [pc EXCEPT ![p] = to]
    /\ job' = [job EXCEPT ![p] = what]

Finish(p, from) == Goto(p, from, "idle", NoJob)

\* A tool or a download resolves its connection and asks Google for something.
StartCall(p, c) ==
    /\ Exists(c)
    /\ Goto(p, "idle", "entry", [NoJob EXCEPT !.conn = c])
    /\ UNCHANGED <<now, rows, entries, slot, queue, live, history>>

Unreferenced(a) ==
    /\ \A c \in Conns : entries[c] # a
    /\ \A p \in Procs : job[p].arc # a

\* TokenSource::entry: the Arc in the map, or a new one over an empty slot; and
\* then a place in the queue for it.
Entry(p) ==
    LET c == job[p].conn
        Take(a) == /\ Goto(p, "entry", "lock",
                           [job[p] EXCEPT !.arc = a, !.floor = floor[c]])
                   /\ queue' = [queue EXCEPT ![a] = Append(@, p)]
    IN
    /\ pc[p] = "entry"
    /\ \/ /\ entries[c] # None
          /\ Take(entries[c])
          /\ UNCHANGED <<entries, slot>>
       \/ /\ entries[c] = None
          /\ \E a \in Arcs :
               /\ Unreferenced(a)
               /\ Take(a)
               /\ entries' = [entries EXCEPT ![c] = a]
               /\ slot' = [slot EXCEPT ![a] = None]
    /\ UNCHANGED <<now, rows, live, history>>

\* Mutants of Usable: the skew is left out; a retry is content with any
\* token; the slot is not looked at again under its lock.
NoSkew(s, stale) == s # None /\ (stale = None => s.expires > now) /\ s.token # stale
AnyCached(s, stale) == s # None /\ (stale = None => s.expires > now + Skew)
NotLookedAt(s, stale) == FALSE

\* What makes a cached token good enough: for a first attempt that it will not
\* expire soon, for a retry only that it is not the one just refused.
Usable(s, stale) ==
    /\ s # None
    /\ IF stale = None THEN s.expires > now + Skew ELSE s.token # stale

HasLock(p) == Head(queue[job[p].arc]) = p

Unlock(p) == queue' = [a \in Arcs |-> RemoveFirst(queue[a], p)]

UseCached(p) ==
    LET s == slot[job[p].arc] IN
    /\ pc[p] = "lock" /\ HasLock(p)
    /\ Usable(s, job[p].stale)
    /\ Goto(p, "lock", "send",
            [job[p] EXCEPT !.token = s.token, !.arc = None, !.at = now])
    /\ Unlock(p)
    /\ UNCHANGED <<now, rows, entries, slot, live, history>>

Refresh(p) ==
    /\ pc[p] = "lock" /\ HasLock(p)
    /\ ~Usable(slot[job[p].arc], job[p].stale)
    /\ Goto(p, "lock", "sealed", job[p])
    /\ UNCHANGED <<now, rows, entries, slot, queue, live, history>>

-----------------------------------------------------------------------------
(* TokenSource::refresh, with the slot locked.                              *)

\* Connections::sealed_refresh_token and seal::open.
OpenSeal(p) ==
    LET c == job[p].conn IN
    /\ pc[p] = "sealed" /\ Exists(c)
    /\ Goto(p, "sealed", IF rows[c].grant \in Rotated THEN "mark" ELSE "post",
            [job[p] EXCEPT !.grant = rows[c].grant, !.at = now])
    /\ UNCHANGED <<now, rows, entries, slot, queue, live, history>>

NoRow(p) ==
    /\ pc[p] = "sealed" /\ ~Exists(job[p].conn)
    /\ Finish(p, "sealed")
    /\ Unlock(p)
    /\ UNCHANGED <<now, rows, entries, slot, live, history>>

\* Tokens somebody still has; Google issues none of them twice.
InUse ==
    {slot[a].token : a \in {b \in Arcs : slot[b] # None /\ ~Unreferenced(b)}}
    \cup {job[p].token : p \in {q \in Procs : job[q].token # None}}
    \cup {job[p].stale : p \in {q \in Procs : job[q].stale # None}}

\* Google issues an access token; the response is on its way back.
TokenIssued(p) ==
    \E i \in Ids :
      LET t == [id |-> i, grant |-> job[p].grant, at |-> now] IN
      /\ job[p].grant \in live
      /\ \A v \in InUse : v.id # i
      /\ Goto(p, "post", "answered", [job[p] EXCEPT !.token = t])
      /\ refused' = refused \cap InUse
      /\ UNCHANGED <<now, rows, entries, slot, queue, live, written, floor>>

\* invalid_grant.
GrantRefused(p) ==
    /\ pc[p] = "post" /\ job[p].grant \notin live
    /\ Goto(p, "post", "mark", job[p])
    /\ UNCHANGED <<now, rows, entries, slot, queue, live, history>>

\* Google could not be reached, or answered with any other failure.
TokenRequestFails(p) ==
    /\ Finish(p, "post")
    /\ Unlock(p)
    /\ UNCHANGED <<now, rows, entries, slot, live, history>>

Store(p) ==
    /\ slot' = [slot EXCEPT ![job[p].arc] =
                  [token |-> job[p].token, expires |-> now + Life]]
    /\ Unlock(p)
    /\ Goto(p, "answered", "send", [job[p] EXCEPT !.arc = None, !.at = now])
    /\ UNCHANGED <<now, rows, entries, live, history>>

\* Mutant of Refused: the status the enumeration has and nothing writes.
Revoked(r) == [r EXCEPT !.status = "revoked"]

Refused(r) == [r EXCEPT !.status = "needs_reauth"]

\* Connections::mark_needs_reauth: whatever the row holds by now.  A write that
\* fails is logged and forgotten, as is one that finds no row.
Mark(p) ==
    LET c == job[p].conn IN
    /\ Finish(p, "mark")
    /\ Unlock(p)
    /\ \/ Exists(c) /\ rows' = [rows EXCEPT ![c] = Refused(@)]
       \/ UNCHANGED rows
    /\ UNCHANGED <<now, entries, slot, live, history>>

-----------------------------------------------------------------------------
(* Client::send, with the token in hand.                                    *)

\* Any answer but a 401, or none at all.
Answered(p) ==
    /\ Finish(p, "send")
    /\ UNCHANGED <<now, rows, entries, slot, queue, live, history>>

\* Mutant of Retries: a 401 is always followed by another try.
RetriesAlways(p) == TRUE

\* One retry, and only one.
Retries(p) == job[p].stale = None

\* Google no longer takes the token: it may stop doing so whenever it likes.
Unauthorized(p) ==
    LET t == job[p].token IN
    /\ pc[p] = "send"
    /\ refused' = refused \cup {t}
    /\ IF Retries(p)
       THEN Goto(p, "send", "entry", [NoJob EXCEPT !.conn = job[p].conn, !.stale = t])
       ELSE Finish(p, "send")
    /\ UNCHANGED <<now, rows, entries, slot, queue, live, written, floor>>

\* The caller goes away: the future is dropped where it waits, and the lock
\* with it.  A statement a handler was waiting for may have been carried out.
Dropped(p) ==
    /\ pc[p] # "idle"
    /\ Finish(p, pc[p])
    /\ Unlock(p)
    /\ UNCHANGED <<now, rows, entries, slot, live, history>>

-----------------------------------------------------------------------------
(* The portal: connections.rs.                                              *)

\* The Google callback has exchanged the code for a grant nobody has seen, for
\* a connection there is or for one to be made.
Exchange(h, c) ==
    /\ c # None => rows[c] # Unborn
    /\ \E g \in Grants :
         /\ written[g] = 0 /\ g \notin live \cup Rotated
         /\ \A k \in Handlers : job[k].grant # g
         /\ Goto(h, "idle", "exchanged", [NoJob EXCEPT !.conn = c, !.grant = g])
         /\ live' = live \cup {g}
    /\ UNCHANGED <<now, rows, entries, slot, queue, history>>

Writes(c, g) ==
    /\ rows' = [rows EXCEPT ![c] = [grant |-> g, status |-> "ok"]]
    /\ written' = [written EXCEPT ![g] =
                     1 + Cardinality({f \in Grants : written[f] > 0})]

\* A new connection: Db::create_connection.
Connect(h) ==
    /\ job[h].conn = None
    /\ Finish(h, "exchanged")
    /\ \E c \in Conns : rows[c] = Unborn /\ Writes(c, job[h].grant)
    /\ UNCHANGED <<now, entries, slot, queue, live, floor, refused>>

\* A reconnect finds its row, and then writes it if it is still there:
\* Db::set_connection_grant.
FindRow(h) ==
    /\ job[h].conn # None /\ Exists(job[h].conn)
    /\ Goto(h, "exchanged", "known", job[h])
    /\ UNCHANGED <<now, rows, entries, slot, queue, live, history>>

SetGrant(h) ==
    LET c == job[h].conn IN
    /\ pc[h] = "known" /\ Exists(c)
    /\ Goto(h, "known", "granted", job[h])
    /\ Writes(c, job[h].grant)
    /\ UNCHANGED <<now, entries, slot, queue, live, floor, refused>>

\* The callback answers ?error: the row is gone, or not this person's, or the
\* account is another one, or the label is taken.
NotStored(h) ==
    /\ \/ Finish(h, "exchanged")
       \/ Finish(h, "known")
    /\ UNCHANGED <<now, rows, entries, slot, queue, live, history>>

\* Mutant of Forget: the entry stays in the map.
Kept(c) == entries

\* TokenSource::forget.
Forget(c) == [entries EXCEPT ![c] = None]

ForgetOld(h) ==
    LET c == job[h].conn IN
    /\ Finish(h, "granted")
    /\ entries' = Forget(c)
    /\ floor' = [floor EXCEPT ![c] =
                   IF written[job[h].grant] > @ THEN written[job[h].grant] ELSE @]
    /\ UNCHANGED <<now, rows, slot, queue, live, written, refused>>

\* delete_connection: the grant is revoked at Google, best effort, then the
\* cache is cleared, then the row goes.
StartDelete(h, c) ==
    /\ Exists(c)
    /\ Goto(h, "idle", IF rows[c].grant \in Rotated THEN "forget" ELSE "revoke",
            [NoJob EXCEPT !.conn = c, !.grant = rows[c].grant])
    /\ UNCHANGED <<now, rows, entries, slot, queue, live, history>>

Revoke(h) ==
    /\ Goto(h, "revoke", "forget", job[h])
    /\ live' \in {live, live \ {job[h].grant}}
    /\ UNCHANGED <<now, rows, entries, slot, queue, history>>

ForgetDeleted(h) ==
    /\ Goto(h, "forget", "delete", job[h])
    /\ entries' = Forget(job[h].conn)
    /\ UNCHANGED <<now, rows, slot, queue, live, history>>

DeleteRow(h) ==
    LET c == job[h].conn IN
    /\ Finish(h, "delete")
    /\ rows' = IF Exists(c) THEN [rows EXCEPT ![c] = Disconnected] ELSE rows
    /\ UNCHANGED <<now, entries, slot, queue, live, history>>

-----------------------------------------------------------------------------
(* Everyone else.                                                           *)

\* `gmcp connection remove`, in a process of its own.
CliRemove(c) ==
    /\ Exists(c)
    /\ rows' = [rows EXCEPT ![c] = Removed]
    /\ UNCHANGED <<now, entries, slot, queue, pc, job, live, history>>

\* Google stops honouring a grant.
GoogleRevokes(g) ==
    /\ g \in live
    /\ live' = live \ {g}
    /\ UNCHANGED <<now, rows, entries, slot, queue, pc, job, history>>

\* Time passes while nobody has anything to do but wait for Google, and nobody
\* waits for longer than a request may take.
Waits(p) ==
    \/ pc[p] = "idle"
    \/ pc[p] = "lock" /\ ~HasLock(p)
    \/ pc[p] \in {"post", "answered", "send"} /\ now < job[p].at + Timeout

Tick ==
    /\ now < MaxTime
    /\ \A p \in Procs : Waits(p)
    /\ now' = now + 1
    /\ UNCHANGED <<rows, entries, slot, queue, pc, job, live, history>>

\* The process ends and another starts: the rows stay.
Restart ==
    /\ entries' = [c \in Conns |-> None]
    /\ slot' = [a \in Arcs |-> None]
    /\ queue' = [a \in Arcs |-> << >>]
    /\ pc' = [p \in Procs |-> "idle"]
    /\ job' = [p \in Procs |-> NoJob]
    /\ UNCHANGED <<now, rows, live, history>>

Call(p) ==
    \/ Entry(p) \/ UseCached(p) \/ Refresh(p)
    \/ OpenSeal(p) \/ NoRow(p)
    \/ TokenIssued(p) \/ GrantRefused(p) \/ TokenRequestFails(p)
    \/ Store(p) \/ Mark(p)
    \/ Answered(p) \/ Unauthorized(p)

Handler(h) ==
    \/ \E c \in Conns \cup {None} : Exchange(h, c)
    \/ Connect(h) \/ FindRow(h) \/ SetGrant(h) \/ NotStored(h) \/ ForgetOld(h)
    \/ \E c \in Conns : StartDelete(h, c)
    \/ Revoke(h) \/ ForgetDeleted(h) \/ DeleteRow(h)

Next ==
    \/ \E p \in Calls : (\E c \in Conns : StartCall(p, c)) \/ Call(p)
    \/ \E h \in Handlers : Handler(h)
    \/ \E p \in Procs : Dropped(p)
    \/ \E c \in Conns : CliRemove(c)
    \/ \E g \in Grants : GoogleRevokes(g)
    \/ Tick
    \/ Restart

Spec == Init /\ [][Next]_vars

\* A call that can go on does, and Google answers it or the request times out.
FairSpec == Spec /\ \A p \in Calls : WF_vars(Call(p))

-----------------------------------------------------------------------------
(* Properties.                                                              *)

\* Every variable holds what its Rust type allows.
TypeOK ==
    /\ now \in 0..MaxTime
    /\ rows \in [Conns -> Row \cup {Unborn, Disconnected, Removed}]
    /\ entries \in [Conns -> Arcs \cup {None}]
    /\ slot \in [Arcs -> Cached \cup {None}]
    /\ queue \in [Arcs -> Seq(Calls)]
    /\ pc \in [Procs -> {"idle"} \cup CallStates \cup HandlerStates]
    /\ job \in [Procs -> Job]
    /\ live \subseteq Grants
    /\ written \in [Grants -> Nat]
    /\ floor \in [Conns -> Nat]
    /\ refused \subseteq Token

Refreshing(p) == pc[p] \in {"sealed", "post", "answered"}

\* Callers that arrive together share one token request, and callers that run
\* into one 401 share one refresh: while a call refreshes a slot, the slot is
\* empty, about to expire, or holds a token Google has refused.
NoWastedRequest ==
    \A p \in Calls : Refreshing(p) =>
        LET s == slot[job[p].arc] IN
        s = None \/ s.expires <= now + Skew \/ s.token \in refused

\* Once a reconnect is through, a call that asks for a token gets none that
\* was issued for a grant the reconnect has replaced, whatever requests were
\* under way meanwhile.
NoOldGrant ==
    \A p \in Calls : pc[p] = "send" => written[job[p].token.grant] >= job[p].floor

\* The skew makes up for the time the token response took to arrive: no call
\* is sent with a token whose hour is over.  A retry takes a token whatever its
\* hour, and relies on having waited for less than that.
HandedOutAlive ==
    \A p \in Calls : pc[p] = "send" => job[p].at < job[p].token.at + Life

\* A retry never presents the token that was just refused.
RetriesWithAnother ==
    \A p \in Calls : pc[p] = "send" => job[p].token # job[p].stale

\* Every call to Google comes to an end: it is retried once and no more, and
\* nobody waits for ever behind a slot's lock.
CallsEnd == \A p \in Calls : pc[p] # "idle" ~> pc[p] = "idle"

\* db/mod.rs of set_connection_grant: a reconnect brings "a clean bill of
\* health".  A healthy row is only marked when it is its own grant that Google
\* refused or that cannot be opened.
MarkedOnlyWhenRefused ==
    [][\A c \in Conns :
         Exists(c) /\ rows[c].status = "ok" /\ Exists(c)'
             /\ rows'[c].status = "needs_reauth" =>
           rows[c].grant \notin live \ Rotated]_vars

\* db/mod.rs of set_connection_status: `needs_reauth`, "or `ok` again once a
\* refresh works".
OkOnceARefreshWorks ==
    [][\A p \in Calls :
         LET c == job[p].conn IN
         pc[p] = "answered" /\ pc'[p] = "send" /\ Exists(c)
             /\ rows[c].grant = job[p].grant /\ job[p].grant \in live =>
           rows'[c].status = "ok"]_vars

\* client.rs of Client::forget: "Forget everything held for a connection", for
\* when an account is disconnected.  When nobody is at work on a connection
\* the portal has deleted, no token is held for it.
NothingHeldOnceDisconnected ==
    \A c \in Conns :
      rows[c] = Disconnected /\ (\A p \in Procs : job[p].conn # c) =>
        entries[c] = None \/ slot[entries[c]] = None

=============================================================================
