------------------------------- MODULE Access -------------------------------
(***************************************************************************)
(* Who may use which account: the bearer tokens of src/http/auth.rs, the     *)
(* allowlists and connections of src/db/mod.rs they are resolved against,    *)
(* Gmcp::account, where every tool starts, and the portal's handlers and     *)
(* commands that make, change and remove what they read.                    *)
(*                                                                          *)
(* A call reads the token and the connection in two statements, a token and  *)
(* its allowlist are written in two, and a connection is checked and         *)
(* written in two: a step is one statement.  What a token's row says never   *)
(* changes but for its revocation, nor does the owner of a connection, so a  *)
(* read of these alone is no step of its own.  Whether a browser is logged   *)
(* in, whether a delegate's person has logged in of late, whether the token  *)
(* has the tool's scope and whether the connection is healthy and has the    *)
(* service can only refuse: a call or a request may be refused at any time.  *)
(***************************************************************************)
EXTENDS Naturals, FiniteSets

CONSTANTS
    Users,      \* people who have logged in
    Conns,      \* ids of connections (AUTOINCREMENT: never used twice)
    Tokens,     \* ids of tokens
    Labels,     \* what a connection may be called, case folded
    Accounts,   \* Google accounts
    Calls,      \* tool calls that may run at once
    Requests,   \* portal requests and commands that may run at once
    Gone,       \* a connection that was there
    None

Procs == Calls \cup Requests

VARIABLES
    conns,    \* the connections table
    tokens,   \* the api_tokens table
    allow,    \* the token_connections table
    pc,       \* how far each call and each request has come
    job,      \* what it was asked for and has found
    named,    \* history: the connections each token was asked for
    shown,    \* history: the tokens whose secret its maker was shown
    flagged   \* history: the connections somebody opened to the gateway

vars == <<conns, tokens, allow, pc, job, named, shown, flagged>>
database == <<conns, tokens, allow>>
history == <<named, shown, flagged>>

\* `account` is the row's google_email, `grant` the account whose refresh token
\* the row holds, `open` its delegate_ok.
Conn == [user : Users, label : Labels, account : Accounts, grant : Accounts, open : BOOLEAN]

\* A delegate token belongs to nobody.
ApiToken == [user : Users \cup {None}, all : BOOLEAN, revoked : BOOLEAN]

Job == [user : Users \cup {None}, token : Tokens \cup {None}, conn : Conns \cup {None},
        label : Labels \cup {None}, account : Accounts \cup {None},
        ids : SUBSET Conns, all : BOOLEAN]

NoJob == [user |-> None, token |-> None, conn |-> None, label |-> None, account |-> None,
          ids |-> {}, all |-> FALSE]

\* Rows are not ids, and no id of a row stands for its absence.
ASSUME ConstantsAssumption ==
    /\ Calls \cap Requests = {}
    /\ Gone # None
    /\ {None, Gone} \cap Conn = {}
    /\ None \notin ApiToken
    /\ None \notin Users \cup Tokens \cup Conns

Exists(c) == conns[c] \notin {None, Gone}

Mine(u) == {c \in Conns : Exists(c) /\ conns[c].user = u}

Init ==
    /\ conns = [c \in Conns |-> None]
    /\ tokens = [t \in Tokens |-> None]
    /\ allow = {}
    /\ pc = [p \in Procs |-> "idle"]
    /\ job = [p \in Procs |-> NoJob]
    /\ named = [t \in Tokens |-> {}]
    /\ shown = {}
    /\ flagged = {}

Goto(p, from, to, what) ==
    /\ pc[p] = from
    /\ pc' = [pc EXCEPT ![p] = to]
    /\ job' = [job EXCEPT ![p] = what]

Finish(p, from) == Goto(p, from, "idle", NoJob)

-----------------------------------------------------------------------------
(* A tool call: bearer and account.                                         *)

\* find_active_token.  A delegate token comes with the person X-Gmcp-User names.
FindToken(p, t, v, label) ==
    /\ tokens[t] # None /\ ~tokens[t].revoked
    /\ Goto(p, "idle", "account",
            [NoJob EXCEPT !.token = t, !.label = label,
                          !.user = IF tokens[t].user = None THEN v ELSE tokens[t].user])
    /\ UNCHANGED <<database, history>>

\* Mutant of Visible: the subquery on the allowlist does not ask which
\* connection a row is for.
VisibleIfListed(t, u) ==
    {c \in Mine(u) :
        IF tokens[t].user = None THEN conns[c].open
        ELSE tokens[t].all \/ \E r \in allow : r[1] = t}

\* visible_connections.
Visible(t, u) ==
    {c \in Mine(u) :
        IF tokens[t].user = None THEN conns[c].open
        ELSE tokens[t].all \/ <<t, c>> \in allow}

\* Gmcp::account.
Account(p) ==
    /\ pc[p] = "account"
    /\ \E c \in Visible(job[p].token, job[p].user) :
         /\ conns[c].label = job[p].label
         /\ Goto(p, "account", "acting", [job[p] EXCEPT !.conn = c, !.label = None])
    /\ UNCHANGED <<database, history>>

\* The call is refused, is done, or its client went away.
CallEnds(p) ==
    /\ pc[p] # "idle"
    /\ Finish(p, pc[p])
    /\ UNCHANGED <<database, history>>

-----------------------------------------------------------------------------
(* A token is made: tokens.rs, and `gmcp token create`.                      *)

\* Mutant of MayList: whatever is named is listed.
MayListAny(ids, u) == TRUE

\* check_allowlist.
MayList(ids, u) == ids \subseteq Mine(u)

\* token::validate, for a personal token: it has to reach something.
StartToken(p, u, ids, all) ==
    /\ all \/ ids # {}
    /\ MayList(ids, u)
    /\ Goto(p, "idle", "create",
            [NoJob EXCEPT !.user = u, !.ids = ids, !.all = all])
    /\ UNCHANGED <<database, history>>

\* A delegate token takes no allowlist and has nothing to check.
StartDelegate(p) ==
    /\ Goto(p, "idle", "create", NoJob)
    /\ UNCHANGED <<database, history>>

CreateToken(p) ==
    LET j == job[p] IN
    /\ pc[p] = "create"
    /\ \E t \in Tokens :
         /\ tokens[t] = None
         /\ tokens' = [tokens EXCEPT ![t] = [user |-> j.user, all |-> j.all,
                                             revoked |-> FALSE]]
         /\ named' = [named EXCEPT ![t] = j.ids]
         /\ IF j.ids # {} THEN Goto(p, "create", "set", [j EXCEPT !.token = t]) /\ UNCHANGED shown
            ELSE Finish(p, "create") /\ shown' = shown \cup {t}
    /\ UNCHANGED <<conns, allow, flagged>>

\* Mutant of Rows: the two ids are bound the wrong way round.
RowsSwapped(t, ids) == ids \X {t}

\* Mutant of Rows: the transaction is never committed.
NoRows(t, ids) == {}

Rows(t, ids) == {t} \X ids

\* Each row of set_token_connections refers to its connection, and one that
\* cannot undoes them all.
Listable(ids) == \A c \in ids : Exists(c)

\* The answer with the secret follows.
SetConnections(p) ==
    LET t == job[p].token IN
    /\ pc[p] = "set"
    /\ Listable(job[p].ids)
    /\ Finish(p, "set")
    /\ allow' = {r \in allow : r[1] # t} \cup Rows(t, job[p].ids)
    /\ shown' = shown \cup {t}
    /\ UNCHANGED <<conns, tokens, named, flagged>>

\* revoke_token, from the portal or the command line.
RevokeToken(t) ==
    /\ tokens[t] # None /\ ~tokens[t].revoked
    /\ tokens' = [tokens EXCEPT ![t].revoked = TRUE]
    /\ UNCHANGED <<conns, allow, pc, job, history>>

-----------------------------------------------------------------------------
(* Connections: connections.rs, and `gmcp connection`.                      *)

\* The Google callback of somebody who is logged in, for the label the consent
\* was started with and the account it was given by.
StartConnect(p, u, label, account) ==
    /\ \A c \in Mine(u) : conns[c].account # account
    /\ Goto(p, "idle", "insert", [NoJob EXCEPT !.user = u, !.label = label, !.account = account])
    /\ UNCHANGED <<database, history>>

\* Mutant of Unique: only the label has an index.
UniqueLabel(u, label, accounts, rest) ==
    \A c \in Mine(u) \ rest : conns[c].label # label

\* The UNIQUE indices of the connections table.
Unique(u, label, accounts, rest) ==
    \A c \in Mine(u) \ rest : conns[c].label # label /\ conns[c].account \notin accounts

\* create_connection.
InsertConnection(p) ==
    LET j == job[p] IN
    /\ pc[p] = "insert"
    /\ Unique(j.user, j.label, {j.account}, {})
    /\ Finish(p, "insert")
    /\ \E c \in Conns :
         /\ conns[c] = None
         /\ conns' = [conns EXCEPT ![c] = [user |-> j.user, label |-> j.label,
                                           account |-> j.account, grant |-> j.account,
                                           open |-> FALSE]]
    /\ UNCHANGED <<tokens, allow, history>>

\* Mutant of SameAccount: any account the person has will do.
AnyAccount(c, u, account) == Exists(c) /\ conns[c].user = u

SameAccount(c, u, account) ==
    Exists(c) /\ conns[c].user = u /\ conns[c].account = account

StartReconnect(p, u, c, account) ==
    /\ SameAccount(c, u, account)
    /\ Goto(p, "idle", "grant", [NoJob EXCEPT !.user = u, !.conn = c, !.account = account])
    /\ UNCHANGED <<database, history>>

\* set_connection_grant: of a row that is still there.
SetGrant(p) ==
    LET c == job[p].conn IN
    /\ pc[p] = "grant"
    /\ Exists(c)
    /\ Finish(p, "grant")
    /\ conns' = [conns EXCEPT ![c].grant = job[p].account]
    /\ UNCHANGED <<tokens, allow, history>>

\* A check fails, a constraint is broken, the database fails or the browser
\* goes away: whatever was written stays.
GivesUp(p) ==
    /\ pc[p] # "idle"
    /\ Finish(p, pc[p])
    /\ UNCHANGED <<database, history>>

\* update_connection, from the portal or the command line.
Update(c, label, open) ==
    /\ Exists(c)
    /\ Unique(conns[c].user, label, {}, {c})
    /\ conns' = [conns EXCEPT ![c].label = label, ![c].open = open]
    /\ flagged' = IF open THEN flagged \cup {c} ELSE flagged
    /\ UNCHANGED <<tokens, allow, pc, job, named, shown>>

\* delete_connection, from the portal or the command line.
DeleteConnection(c) ==
    /\ Exists(c)
    /\ conns' = [conns EXCEPT ![c] = Gone]
    /\ allow' = {r \in allow : r[2] # c}
    /\ UNCHANGED <<tokens, pc, job, history>>

Call(p) ==
    \/ \E t \in Tokens, v \in Users, label \in Labels : FindToken(p, t, v, label)
    \/ Account(p) \/ CallEnds(p)

Request(p) ==
    \/ \E u \in Users, ids \in SUBSET Conns, all \in BOOLEAN :
         StartToken(p, u, ids, all)
    \/ StartDelegate(p) \/ CreateToken(p) \/ SetConnections(p)
    \/ \E u \in Users, account \in Accounts :
         \/ \E label \in Labels : StartConnect(p, u, label, account)
         \/ \E c \in Conns : StartReconnect(p, u, c, account)
    \/ InsertConnection(p) \/ SetGrant(p)
    \/ GivesUp(p)

Next ==
    \/ \E p \in Calls : Call(p)
    \/ \E p \in Requests : Request(p)
    \/ \E t \in Tokens : RevokeToken(t)
    \/ \E c \in Conns :
         \/ \E label \in Labels, open \in BOOLEAN : Update(c, label, open)
         \/ DeleteConnection(c)

Spec == Init /\ [][Next]_vars

-----------------------------------------------------------------------------
(* Properties.                                                              *)

States == {"idle", "account", "acting", "create", "set", "insert", "grant"}

\* The tables hold what their columns allow, and requests what they carry.
TypeOK ==
    /\ conns \in [Conns -> Conn \cup {None, Gone}]
    /\ tokens \in [Tokens -> ApiToken \cup {None}]
    /\ allow \subseteq Tokens \X Conns
    /\ pc \in [Procs -> States]
    /\ job \in [Procs -> Job]
    /\ named \in [Tokens -> SUBSET Conns]
    /\ shown \subseteq Tokens
    /\ flagged \subseteq Conns

\* A tool works on an account only if it belongs to the person the call acts
\* for, and the token was made for it by id: for all of that person's, or with
\* it on the list; or somebody opened it to the gateway.  Labels given up and
\* taken over by another connection meanwhile reach nothing new.
WithinReach ==
    \A p \in Calls : pc[p] = "acting" =>
      LET t == job[p].token
          c == job[p].conn IN
      /\ Exists(c) => conns[c].user = job[p].user
      /\ IF tokens[t].user = None THEN c \in flagged
         ELSE tokens[t].user = job[p].user /\ (tokens[t].all \/ c \in named[t])

\* An allowlist names only connections that are there and are those of the
\* person the token acts as, although they are checked in one statement and
\* written two statements later.
AllowlistsAreOwn ==
    \A r \in allow : tokens[r[1]].user # None /\ r[2] \in Mine(tokens[r[1]].user)

\* A token whose secret was shown reaches what was asked for, and loses of it
\* only what has been removed: nobody is handed a token that was half made.
ShownTokensAreWhole ==
    \A t \in shown : \A c \in named[t] : Exists(c) => <<t, c>> \in allow

\* However callbacks and renames race, a person's label means one connection
\* and a person's account has one.
OneNameOneAccount ==
    \A c, d \in Conns :
      c # d /\ Exists(c) /\ Exists(d) /\ conns[c].user = conns[d].user =>
        conns[c].label # conns[d].label /\ conns[c].account # conns[d].account

\* "A reconnect must land on the account it already has: a different one would
\* silently repoint every token that names this label."
GrantOfItsAccount == \A c \in Conns : Exists(c) => conns[c].grant = conns[c].account

=============================================================================
