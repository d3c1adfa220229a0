------------------------------- MODULE Links --------------------------------
(***************************************************************************)
(* Download links: src/http/links.rs over the links table of src/db/mod.rs.  *)
(* A tool call mints one, for something at Google or for a staged file the   *)
(* store holds; whoever has the id may spend a use of it without any other   *)
(* permission; and both leave a row in the audit log, which, like the links  *)
(* themselves, refers to the connection by a foreign key.                   *)
(*                                                                          *)
(* A step is one database statement: the requests run at once, and with      *)
(* them the portal, the command line and the clock.                         *)
(***************************************************************************)
EXTENDS Naturals, FiniteSets

CONSTANTS
    Ids,        \* link ids (link::new_id is random: never twice)
    Conns,      \* ids of connections
    Calls,      \* tool calls that may run at once
    Hits,       \* downloads that may run at once
    Uses,       \* LINK_USES
    Ttl,        \* LINK_TTL_MINUTES, of a link and of a held file
    MaxTime,    \* bound: the clock stops here
    Lost,       \* a held file the process forgot when it ended
    None

ASSUME ConstantsAssumption ==
    /\ Uses \in Nat /\ Ttl \in Nat /\ MaxTime \in Nat
    /\ Calls \cap Hits = {}
    /\ None \notin Nat /\ None \notin Ids
    /\ None \notin [conn : Conns, expires : Nat]
    /\ None \notin [conn : Conns, kind : {"google", "upload"}, expires : Nat, uses : 0..Uses]

Procs == Calls \cup Hits

VARIABLES
    now,       \* Utc::now()
    conns,     \* the connections there are
    links,     \* the links table
    held,      \* Staging.held, by the link made for it: until when, or None
    pc,        \* how far each call and each download has come
    job,       \* what it is about, and the clock it read
    born,      \* history: the connection and the expiry each link was made with
    spent,     \* history: uses spent of each link
    unlogged   \* history: kinds of audit rows that could not be written

vars == <<now, conns, links, held, pc, job, born, spent, unlogged>>
history == <<born, spent, unlogged>>

Kinds == {"google", "upload"}
Link == [conn : Conns, kind : Kinds, expires : Nat, uses : 0..Uses]
Reasons == {"unknown", "expired", "exhausted"}

Job == [id : Ids \cup {None}, conn : Conns \cup {None}, kind : Kinds \cup {None},
        at : Nat, why : Reasons \cup {None}]

NoJob == [id |-> None, conn |-> None, kind |-> None, at |-> 0, why |-> None]

Init ==
    /\ now = 0
    /\ conns = Conns
    /\ links = [i \in Ids |-> None]
    /\ held = [i \in Ids |-> None]
    /\ pc = [p \in Procs |-> "idle"]
    /\ job = [p \in Procs |-> NoJob]
    /\ born = [i \in Ids |-> None]
    /\ spent = [i \in Ids |-> 0]
    /\ unlogged = {}

Goto(p, from, to, what) ==
    /\ pc[p] = from
    /\ pc' = [pc EXCEPT ![p] = to]
    /\ job' = [job EXCEPT ![p] = what]

\* audit::record: a row that names a connection no longer there breaks the
\* foreign key, and a row that cannot be written is only warned about.
Record(kind, c) ==
    unlogged' = IF c = None \/ c \in conns THEN unlogged ELSE unlogged \cup {kind}

-----------------------------------------------------------------------------
(* A tool call that mints a link: Gmcp::account, Staging::hold for a picture *)
(* on its way into a document, links::mint, and the row call_tool writes.    *)

Undrawn(i) == born[i] = None /\ \A p \in Procs : job[p].id # i

StartCall(p, c, i, kind) ==
    /\ c \in conns /\ Undrawn(i)
    /\ Goto(p, "idle", IF kind = "upload" THEN "hold" ELSE "sweep",
            [NoJob EXCEPT !.id = i, !.conn = c, !.kind = kind])
    /\ UNCHANGED <<now, conns, links, held, history>>

Hold(p) ==
    /\ Goto(p, "hold", "sweep", job[p])
    /\ held' = [held EXCEPT ![job[p].id] = now + Ttl]
    /\ UNCHANGED <<now, conns, links, history>>

\* The file is over the download cap, or the hold failed, or the call never
\* wanted a link after all.
NoLink(p) ==
    /\ \/ Goto(p, "hold", "answer", job[p])
       \/ Goto(p, "sweep", "answer", job[p])
    /\ UNCHANGED <<now, conns, links, held, history>>

\* Db::delete_expired_links.
Unexpired(t) == [i \in Ids |-> IF links[i] # None /\ links[i].expires > t
                               THEN links[i] ELSE None]

\* A sweep that fails is only warned about.
Sweep(p) ==
    /\ Goto(p, "sweep", "insert", [job[p] EXCEPT !.at = now])
    /\ links' = Unexpired(now) \/ UNCHANGED links
    /\ UNCHANGED <<now, conns, held, history>>

\* Mutant of MayRefer: the foreign key of the links table is not enforced.
Unchecked(c) == TRUE

MayRefer(c) == c \in conns

\* Db::create_link.
Insert(p) ==
    LET i == job[p].id
        until == job[p].at + Ttl IN
    /\ pc[p] = "insert" /\ MayRefer(job[p].conn)
    /\ Goto(p, "insert", "created", job[p])
    /\ links' = [links EXCEPT ![i] = [conn |-> job[p].conn, kind |-> job[p].kind,
                                      expires |-> until, uses |-> Uses]]
    /\ born' = [born EXCEPT ![i] = [conn |-> job[p].conn, expires |-> until]]
    /\ UNCHANGED <<now, conns, held, spent, unlogged>>

\* The foreign key, or the database for a reason of its own.
InsertFails(p) ==
    /\ Goto(p, "insert", "answer", job[p])
    /\ UNCHANGED <<now, conns, links, held, history>>

LogCreated(p) ==
    /\ Goto(p, "created", "answer", job[p])
    /\ Record("link_created", job[p].conn)
    /\ UNCHANGED <<now, conns, links, held, born, spent>>

\* Gmcp::call_tool, whatever became of the call.
LogCall(p) ==
    /\ Goto(p, "answer", "idle", NoJob)
    /\ Record("tool_call", job[p].conn)
    /\ UNCHANGED <<now, conns, links, held, born, spent>>

-----------------------------------------------------------------------------
(* A download.                                                              *)

\* An id that was handed out, or one nobody ever drew.
StartHit(p, i) ==
    /\ i # None => born[i] # None
    /\ Goto(p, "idle", "take", [NoJob EXCEPT !.id = i, !.at = now])
    /\ UNCHANGED <<now, conns, links, held, history>>

\* Mutant of Takeable: a link is good however often it was used.
TakeableAgain(i, t) == i # None /\ links[i] # None /\ links[i].expires > t

Takeable(i, t) ==
    /\ i # None /\ links[i] # None
    /\ links[i].expires > t
    /\ links[i].uses > 0

\* Db::take_link: the check and the decrement are one statement.
Take(p) ==
    LET i == job[p].id IN
    /\ pc[p] = "take" /\ Takeable(i, job[p].at)
    /\ Goto(p, "take", "stream",
            [job[p] EXCEPT !.conn = links[i].conn, !.kind = links[i].kind])
    /\ links' = [links EXCEPT ![i].uses = @ - 1]
    /\ spent' = [spent EXCEPT ![i] = @ + 1]
    /\ UNCHANGED <<now, conns, held, born, unlogged>>

NotTaken(p) ==
    /\ pc[p] = "take" /\ ~Takeable(job[p].id, job[p].at)
    /\ Goto(p, "take", "why", job[p])
    /\ UNCHANGED <<now, conns, links, held, history>>

\* Mutant of Why: the boundary is drawn one tick late.
WhyLate(i, t) ==
    IF i = None \/ links[i] = None THEN "unknown"
    ELSE IF links[i].expires < t THEN "expired" ELSE "exhausted"

\* The second lookup, which only decides what to report.
Why(i, t) ==
    IF i = None \/ links[i] = None THEN "unknown"
    ELSE IF links[i].expires <= t THEN "expired" ELSE "exhausted"

LookUp(p) ==
    /\ pc[p] = "why"
    /\ Goto(p, "why", "refused", [job[p] EXCEPT !.why = Why(job[p].id, job[p].at)])
    /\ UNCHANGED <<now, conns, links, held, history>>

\* refused() reads the row once more, for whom to log the hit against: nobody
\* when it is gone or cannot be read.
FindOwner(p) ==
    LET i == job[p].id
        known == IF i # None /\ links[i] # None THEN {links[i].conn} ELSE {} IN
    /\ \E c \in known \cup {None} :
         Goto(p, "refused", "log_refused", [job[p] EXCEPT !.conn = c])
    /\ UNCHANGED <<now, conns, links, held, history>>

LogRefused(p) ==
    /\ Goto(p, "log_refused", "idle", NoJob)
    /\ Record("link_refused", job[p].conn)
    /\ UNCHANGED <<now, conns, links, held, born, spent>>

Held(i) == held[i] \notin {None, Lost} /\ held[i] > now

\* Google answers, or it does not; a staged file is served while it is held.
Serve(p) ==
    /\ pc[p] = "stream"
    /\ job[p].kind = "upload" => Held(job[p].id)
    /\ Goto(p, "stream", "used", job[p])
    /\ UNCHANGED <<now, conns, links, held, history>>

ServeFails(p) ==
    /\ pc[p] = "stream"
    /\ job[p].kind = "upload" => ~Held(job[p].id)
    /\ Goto(p, "stream", "used", job[p])
    /\ UNCHANGED <<now, conns, links, held, history>>

\* Either way the hit leaves a row.
LogUsed(p) ==
    /\ Goto(p, "used", "idle", NoJob)
    /\ Record("link_used", job[p].conn)
    /\ UNCHANGED <<now, conns, links, held, born, spent>>

-----------------------------------------------------------------------------
(* Everyone else.                                                           *)

Cascade(c) == [i \in Ids |-> IF links[i] # None /\ links[i].conn = c
                             THEN None ELSE links[i]]

\* Db::delete_connection, from the portal or the command line.
DeleteConnection(c) ==
    /\ c \in conns
    /\ conns' = conns \ {c}
    /\ links' = Cascade(c)
    /\ UNCHANGED <<now, held, pc, job, history>>

\* `gmcp prune`, in a process of its own.
Prune ==
    /\ links' = Unexpired(now)
    /\ UNCHANGED <<now, conns, held, pc, job, history>>

\* A request is gone before it ends: its client left, or the statement that
\* was to take a use failed, which leaves no row in the log.
Dropped(p) ==
    /\ pc[p] # "idle"
    /\ Goto(p, pc[p], "idle", NoJob)
    /\ UNCHANGED <<now, conns, links, held, history>>

Tick ==
    /\ now < MaxTime
    /\ now' = now + 1
    /\ UNCHANGED <<conns, links, held, pc, job, history>>

\* The rows stay, the files held for them do not.
Restart ==
    /\ held' = [i \in Ids |-> IF held[i] = None THEN None ELSE Lost]
    /\ pc' = [p \in Procs |-> "idle"]
    /\ job' = [p \in Procs |-> NoJob]
    /\ UNCHANGED <<now, conns, links, history>>

Call(p) ==
    \/ \E c \in Conns, i \in Ids, kind \in Kinds : StartCall(p, c, i, kind)
    \/ Hold(p) \/ NoLink(p) \/ Sweep(p) \/ Insert(p) \/ InsertFails(p)
    \/ LogCreated(p) \/ LogCall(p)

Hit(p) ==
    \/ \E i \in Ids \cup {None} : StartHit(p, i)
    \/ Take(p) \/ NotTaken(p) \/ LookUp(p) \/ FindOwner(p) \/ LogRefused(p)
    \/ Serve(p) \/ ServeFails(p) \/ LogUsed(p)

Next ==
    \/ \E p \in Calls : Call(p)
    \/ \E p \in Hits : Hit(p)
    \/ \E p \in Procs : Dropped(p)
    \/ \E c \in Conns : DeleteConnection(c)
    \/ Prune \/ Tick \/ Restart

Spec == Init /\ [][Next]_vars

-----------------------------------------------------------------------------
(* Properties.                                                              *)

States == {"idle", "hold", "sweep", "insert", "created", "answer", "take",
           "why", "refused", "log_refused", "stream", "used"}

\* Every variable holds what its Rust type and its column allow.
TypeOK ==
    /\ now \in 0..MaxTime
    /\ conns \subseteq Conns
    /\ links \in [Ids -> Link \cup {None}]
    /\ held \in [Ids -> Nat \cup {None, Lost}]
    /\ pc \in [Procs -> States]
    /\ job \in [Procs -> Job]
    /\ born \in [Ids -> [conn : Conns, expires : Nat] \cup {None}]
    /\ spent \in [Ids -> Nat]
    /\ unlogged \subseteq {"tool_call", "link_created", "link_used", "link_refused"}

\* Uses are neither lost nor made: however many hits arrive at once, no more
\* than LINK_USES are served, and what a row has left is what was not.
UsesAddUp ==
    \A i \in Ids : /\ spent[i] <= Uses
                   /\ links[i] # None => spent[i] + links[i].uses = Uses

\* The log's reason is the true one: a hit is only called exhausted when every
\* use is spent, only called expired when the link's life is over, and only
\* called unknown when the link was never minted, has expired or has lost its
\* connection, although the reason is looked up after the link was refused.
RefusalIsTrue ==
    \A p \in Hits : pc[p] = "refused" =>
        LET i == job[p].id IN
        CASE job[p].why = "exhausted" -> spent[i] = Uses
          [] job[p].why = "expired" -> born[i].expires <= job[p].at
          [] OTHER -> i # None => born[i].expires <= now \/ born[i].conn \notin conns

\* A connection takes its links with it: there is no link to a connection that
\* is gone, even when a tool call that resolved it mints one meanwhile.
NoLinkOutlivesConnection ==
    \A i \in Ids : links[i] # None => links[i].conn \in conns

UsesLeft == [i \in Ids |-> IF links[i] # None THEN links[i].uses
                           ELSE IF born[i] # None THEN 0 ELSE None]

Promise == INSTANCE Capability WITH left <- UsesLeft

\* A link is a capability: an id is minted once, is worth LINK_USES hits at
\* most, and does not come back once it is spent, expired, pruned or gone with
\* its connection.
LinksAreCapabilities == Promise!Spec

\* mcp/mod.rs: "Every call is logged.  `call_tool` writes one `tool_call` row
\* around the whole call".
EveryCallIsLogged == "tool_call" \notin unlogged

=============================================================================
