---------------------------- MODULE AccessProofs ----------------------------
(***************************************************************************)
(* What holds of Access for any number of people, connections, tokens, calls *)
(* and requests: the types, that a call works only within its token's reach, *)
(* that allowlists are their person's and those of a token that was shown    *)
(* are whole, that labels and accounts are unique, and that a grant is for   *)
(* its row's account.                                                       *)
(***************************************************************************)
EXTENDS Access, TLAPS

(* Somebody's connection when it was looked at, whatever came of it since.  *)
WasOf(c, u) == conns[c] # None /\ (Exists(c) => conns[c].user = u)

(* A call has a token that was made, and acts as its person if it has one;  *)
(* at work, it has looked at a connection the token was made for.           *)
CallInOrder(p) ==
    LET t == job[p].token
        c == job[p].conn
        u == job[p].user IN
    /\ pc[p] \in {"idle", "account", "acting"}
    /\ pc[p] # "idle" =>
         t \in Tokens /\ u \in Users /\ tokens[t] # None /\ tokens[t].user \in {None, u}
    /\ pc[p] = "acting" =>
         /\ c \in Conns /\ WasOf(c, u)
         /\ IF tokens[t].user = None THEN c \in flagged
            ELSE tokens[t].all \/ c \in named[t]

(* What a request is to list was its person's, and the token it lists for   *)
(* was made for just that.                                                  *)
ListInOrder(p) ==
    LET t == job[p].token
        u == job[p].user IN
    /\ pc[p] \in {"create", "set"} =>
         /\ job[p].ids # {} => u \in Users
         /\ \A c \in job[p].ids : WasOf(c, u)
    /\ pc[p] = "set" =>
         /\ t \in Tokens /\ job[p].ids # {} /\ named[t] = job[p].ids
         /\ tokens[t] # None /\ tokens[t].user = u

(* What a callback is to write is complete, and a grant is for the account  *)
(* of the row it goes to.                                                   *)
WriteInOrder(p) ==
    LET c == job[p].conn IN
    /\ pc[p] = "insert" =>
         job[p].user \in Users /\ job[p].label \in Labels /\ job[p].account \in Accounts
    /\ pc[p] = "grant" =>
         /\ c \in Conns /\ job[p].account \in Accounts /\ conns[c] # None
         /\ Exists(c) => conns[c].account = job[p].account

RequestInOrder(p) ==
    /\ pc[p] \in {"idle", "create", "set", "insert", "grant"}
    /\ ListInOrder(p) /\ WriteInOrder(p)

(* An allowlist lists what was asked for, and only what was there is.       *)
AsNamed ==
    /\ \A r \in allow : tokens[r[1]] # None /\ r[2] \in named[r[1]]
    /\ \A t \in Tokens : \A c \in named[t] : conns[c] # None

OpenWasFlagged == \A c \in Conns : Exists(c) /\ conns[c].open => c \in flagged

ShownWasMade == \A t \in shown : tokens[t] # None

Tables ==
    /\ AsNamed /\ OpenWasFlagged /\ ShownWasMade
    /\ AllowlistsAreOwn /\ ShownTokensAreWhole /\ OneNameOneAccount /\ GrantOfItsAccount

(* The inductive invariant.                                                 *)
InOrder ==
    /\ TypeOK /\ Tables
    /\ \A p \in Calls : CallInOrder(p)
    /\ \A p \in Requests : RequestInOrder(p)

(* What every step leaves to the requests it is not of: a row may go, but    *)
(* what it says of its person and account stays, and so does all a token's.  *)
Onward ==
    /\ \A c \in Conns : conns[c] # None =>
         /\ conns'[c] # None
         /\ Exists(c)' => /\ Exists(c) /\ conns'[c].user = conns[c].user
                          /\ conns'[c].account = conns[c].account
    /\ \A t \in Tokens : tokens[t] # None =>
         /\ tokens'[t] # None /\ named'[t] = named[t]
         /\ tokens'[t].user = tokens[t].user /\ tokens'[t].all = tokens[t].all
    /\ flagged \subseteq flagged'

-----------------------------------------------------------------------------
(* What the parts of a step do.                                             *)

LEMMA GotoTyped ==
    ASSUME TypeOK, NEW p \in Procs, NEW from, NEW to \in States, NEW what \in Job,
           Goto(p, from, to, what)
    PROVE  pc' \in [Procs -> States] /\ job' \in [Procs -> Job]
BY DEF TypeOK, Goto

LEMMA NoJobTyped == NoJob \in Job
BY DEF NoJob, Job

(* Requests a step is not of stay in order when it goes onward.             *)
LEMMA OthersStayInOrder ==
    ASSUME InOrder, Onward, NEW p \in Procs, pc'[p] = pc[p], job'[p] = job[p]
    PROVE  /\ p \in Calls => CallInOrder(p)'
           /\ p \in Requests => RequestInOrder(p)'
<1>1. \A u : \A c \in Conns : WasOf(c, u) => WasOf(c, u)'
  BY DEF Onward, WasOf
<1>2. ASSUME p \in Calls PROVE CallInOrder(p)'
  <2>1. CallInOrder(p)
    BY <1>2 DEF InOrder
  <2> QED BY <1>1, <2>1 DEF CallInOrder, Onward
<1>3. ASSUME p \in Requests PROVE RequestInOrder(p)'
  <2>1. RequestInOrder(p) /\ job[p] \in Job
    BY <1>3 DEF InOrder, TypeOK, Procs
  <2>2. ListInOrder(p)'
    BY <1>1, <2>1 DEF RequestInOrder, ListInOrder, Onward, Job
  <2>3. WriteInOrder(p)'
    BY <2>1 DEF RequestInOrder, WriteInOrder, Onward
  <2> QED BY <2>1, <2>2, <2>3 DEF RequestInOrder
<1> QED BY <1>2, <1>3

(* A step that only moves one request along needs that one in order.        *)
LEMMA MovesAlong ==
    ASSUME InOrder, NEW p \in Procs, NEW from, NEW to \in States, NEW what \in Job,
           Goto(p, from, to, what), UNCHANGED <<database, history>>,
           p \in Calls => CallInOrder(p)', p \in Requests => RequestInOrder(p)'
    PROVE  InOrder'
<1>1. TypeOK'
  BY GotoTyped DEF InOrder, TypeOK, database, history
<1>2. Onward
  BY DEF Onward, Exists, database, history
<1>3. \A q \in Procs : q # p => pc'[q] = pc[q] /\ job'[q] = job[q]
  BY DEF Goto, InOrder, TypeOK
<1>4. Tables'
  BY DEF InOrder, Tables, AsNamed, OpenWasFlagged, ShownWasMade, AllowlistsAreOwn,
     ShownTokensAreWhole, OneNameOneAccount, GrantOfItsAccount, Mine, Exists, database, history
<1>5. (\A q \in Calls : CallInOrder(q)') /\ (\A q \in Requests : RequestInOrder(q)')
  BY <1>2, <1>3, OthersStayInOrder DEF Procs
<1> QED BY <1>1, <1>4, <1>5 DEF InOrder

(* A step that writes needs the tables and its own request in order.        *)
LEMMA Writes ==
    ASSUME InOrder, NEW p \in Requests, TypeOK', Tables', Onward, Finish(p, pc[p])
    PROVE  InOrder'
<1>1. \A q \in Procs : q # p => pc'[q] = pc[q] /\ job'[q] = job[q]
  BY DEF Finish, Goto, InOrder, TypeOK, Procs
<1>2. RequestInOrder(p)'
  BY DEF Finish, Goto, InOrder, TypeOK, Procs, RequestInOrder, ListInOrder, WriteInOrder
<1>3. p \notin Calls
  BY ConstantsAssumption
<1> QED BY <1>1, <1>2, <1>3, OthersStayInOrder DEF InOrder, Procs

(* So does one that is of no request.                                       *)
LEMMA WritesAlone ==
    ASSUME InOrder, TypeOK', Tables', Onward, UNCHANGED <<pc, job>>
    PROVE  InOrder'
BY OthersStayInOrder DEF InOrder, Procs

-----------------------------------------------------------------------------
(* A tool call.                                                             *)

LEMMA FindTokenInOrder ==
    ASSUME InOrder, NEW p \in Calls, NEW t \in Tokens, NEW v \in Users, NEW label \in Labels,
           FindToken(p, t, v, label)
    PROVE  InOrder'
<1> DEFINE u == IF tokens[t].user = None THEN v ELSE tokens[t].user
           what == [NoJob EXCEPT !.token = t, !.label = label, !.user = u]
<1>1. tokens[t] \in ApiToken
  BY DEF InOrder, TypeOK, FindToken
<1>2. u \in Users
  BY <1>1 DEF ApiToken
<1>3. what \in Job /\ "account" \in States
  BY <1>2 DEF NoJob, Job, States
<1>4. pc'[p] = "account" /\ job'[p] = what
  BY DEF FindToken, Goto, InOrder, TypeOK, Procs
<1>5. CallInOrder(p)'
  BY <1>2, <1>4 DEF CallInOrder, FindToken, NoJob, database
<1>6. p \notin Requests
  BY ConstantsAssumption
<1> HIDE DEF what
<1> QED BY <1>3, <1>5, <1>6, MovesAlong DEF FindToken, Procs, what

LEMMA AccountInOrder ==
    ASSUME InOrder, NEW p \in Calls, Account(p)
    PROVE  InOrder'
<1>1. PICK c \in Visible(job[p].token, job[p].user) :
        Goto(p, "account", "acting", [job[p] EXCEPT !.conn = c, !.label = None])
  BY DEF Account
<1> DEFINE what == [job[p] EXCEPT !.conn = c, !.label = None]
           t == job[p].token
<1>2. c \in Conns /\ Exists(c) /\ conns[c].user = job[p].user
  BY <1>1 DEF Visible, Mine
<1>3. what \in Job /\ "acting" \in States
  BY <1>2 DEF InOrder, TypeOK, Procs, Job, States
<1>4. pc'[p] = "acting" /\ job'[p] = what
  BY <1>1 DEF Goto, InOrder, TypeOK, Procs
<1>5. what.conn = c /\ what.token = t /\ what.user = job[p].user
  BY DEF InOrder, TypeOK, Procs, Job
<1>6. CallInOrder(p) /\ pc[p] = "account" /\ t \in Tokens
  BY DEF InOrder, Account, CallInOrder
<1>7. IF tokens[t].user = None THEN c \in flagged ELSE tokens[t].all \/ c \in named[t]
  BY <1>1, <1>2 DEF Visible, InOrder, Tables, OpenWasFlagged, AsNamed
<1>8. CallInOrder(p)'
  <2> HIDE DEF what
  <2> QED BY <1>2, <1>4, <1>5, <1>6, <1>7
       DEF CallInOrder, WasOf, Exists, Account, database, history
<1>9. p \notin Requests
  BY ConstantsAssumption
<1> HIDE DEF what
<1> QED BY <1>1, <1>3, <1>8, <1>9, MovesAlong DEF Account, Procs, what

(* A call or a request that ends, wherever it is.                           *)
LEMMA EndInOrder ==
    ASSUME InOrder, NEW p \in Procs, Finish(p, pc[p]), UNCHANGED <<database, history>>
    PROVE  InOrder'
<1>1. pc'[p] = "idle"
  BY DEF Finish, Goto, InOrder, TypeOK
<1>2. CallInOrder(p)' /\ RequestInOrder(p)'
  BY <1>1 DEF CallInOrder, RequestInOrder, ListInOrder, WriteInOrder
<1>3. "idle" \in States
  BY DEF States
<1> QED BY <1>2, <1>3, NoJobTyped, MovesAlong DEF Finish

-----------------------------------------------------------------------------
(* A token is made and revoked.                                             *)

LEMMA StartTokenInOrder ==
    ASSUME InOrder, NEW p \in Requests, NEW u \in Users, NEW ids \in SUBSET Conns,
           NEW all \in BOOLEAN, StartToken(p, u, ids, all)
    PROVE  InOrder'
<1> DEFINE what == [NoJob EXCEPT !.user = u, !.ids = ids, !.all = all]
<1>1. what \in Job /\ "create" \in States
  BY DEF NoJob, Job, States
<1>2. pc'[p] = "create" /\ job'[p] = what
  BY DEF StartToken, Goto, InOrder, TypeOK, Procs
<1>3. RequestInOrder(p)'
  BY <1>2 DEF RequestInOrder, ListInOrder, WriteInOrder, NoJob, StartToken, MayList, Mine,
     WasOf, Exists, database
<1>4. p \notin Calls
  BY ConstantsAssumption
<1> HIDE DEF what
<1> QED BY <1>1, <1>3, <1>4, MovesAlong DEF StartToken, Procs, what

LEMMA StartDelegateInOrder ==
    ASSUME InOrder, NEW p \in Requests, StartDelegate(p)
    PROVE  InOrder'
<1>1. pc'[p] = "create" /\ job'[p] = NoJob
  BY DEF StartDelegate, Goto, InOrder, TypeOK, Procs
<1>2. RequestInOrder(p)'
  BY <1>1 DEF RequestInOrder, ListInOrder, WriteInOrder, NoJob
<1>3. p \notin Calls /\ "create" \in States
  BY ConstantsAssumption DEF States
<1> QED BY <1>2, <1>3, NoJobTyped, MovesAlong DEF StartDelegate, Procs

LEMMA CreateTokenInOrder ==
    ASSUME InOrder, NEW p \in Requests, CreateToken(p)
    PROVE  InOrder'
<1> DEFINE j == job[p]
<1>1. PICK t \in Tokens :
        /\ tokens[t] = None
        /\ tokens' = [tokens EXCEPT ![t] = [user |-> j.user, all |-> j.all, revoked |-> FALSE]]
        /\ named' = [named EXCEPT ![t] = j.ids]
        /\ IF j.ids # {} THEN Goto(p, "create", "set", [j EXCEPT !.token = t]) /\ UNCHANGED shown
           ELSE Finish(p, "create") /\ shown' = shown \cup {t}
  BY DEF CreateToken
<1>2. UNCHANGED <<conns, allow, flagged>> /\ pc[p] = "create"
  BY DEF CreateToken
<1>3. j \in Job /\ RequestInOrder(p)
  BY DEF InOrder, TypeOK, Procs
<1>4. [user |-> j.user, all |-> j.all, revoked |-> FALSE] \in ApiToken
  BY <1>3 DEF Job, ApiToken
<1>5. tokens'[t] # None /\ tokens'[t].user = j.user /\ named'[t] = j.ids
  BY <1>1, <1>4, ConstantsAssumption DEF InOrder, TypeOK
<1>6. \A s \in Tokens : s # t => tokens'[s] = tokens[s] /\ named'[s] = named[s]
  BY <1>1 DEF InOrder, TypeOK
<1>7. Onward
  BY <1>1, <1>2, <1>6 DEF Onward, Exists
<1>8. Tables'
  <2>1. AsNamed' /\ ShownWasMade'
    BY <1>1, <1>2, <1>3, <1>5, <1>6
    DEF InOrder, TypeOK, Tables, AsNamed, ShownWasMade, RequestInOrder, ListInOrder, WasOf
  <2>2. ShownTokensAreWhole'
    BY <1>1, <1>2, <1>5, <1>6 DEF InOrder, TypeOK, Tables, ShownTokensAreWhole, ShownWasMade, Exists
  <2>3. AllowlistsAreOwn'
    BY <1>1, <1>2, <1>6 DEF InOrder, TypeOK, Tables, AllowlistsAreOwn, AsNamed, Mine, Exists
  <2>4. OpenWasFlagged' /\ OneNameOneAccount' /\ GrantOfItsAccount'
    BY <1>2 DEF InOrder, Tables, OpenWasFlagged, OneNameOneAccount, GrantOfItsAccount, Exists
  <2> QED BY <2>1, <2>2, <2>3, <2>4 DEF Tables
<1>9. TypeOK'
  <2>1. [j EXCEPT !.token = t] \in Job /\ {"set", "idle"} \subseteq States
    BY <1>3 DEF Job, States
  <2>2. pc' \in [Procs -> States] /\ job' \in [Procs -> Job]
    BY <1>1, <2>1, NoJobTyped, GotoTyped DEF InOrder, Finish, Procs
  <2> QED BY <1>1, <1>2, <1>3, <1>4, <2>2 DEF InOrder, TypeOK, Job
<1>10. CASE j.ids = {}
  <2>1. Finish(p, pc[p])
    BY <1>1, <1>2, <1>10
  <2> QED BY <1>7, <1>8, <1>9, <2>1, Writes
<1>11. CASE j.ids # {}
  <2>1. pc'[p] = "set" /\ job'[p] = [j EXCEPT !.token = t]
    BY <1>1, <1>11 DEF Goto, InOrder, TypeOK, Procs
  <2>2. /\ job'[p].token = t /\ job'[p].user = j.user /\ job'[p].ids = j.ids
    BY <1>3, <2>1 DEF Job
  <2>3. RequestInOrder(p)'
    BY <1>2, <1>3, <1>5, <1>11, <2>1, <2>2
    DEF RequestInOrder, ListInOrder, WriteInOrder, WasOf, Exists
  <2>4. \A q \in Procs : q # p => pc'[q] = pc[q] /\ job'[q] = job[q]
    BY <1>1, <1>11 DEF Goto, InOrder, TypeOK
  <2>5. p \notin Calls
    BY ConstantsAssumption
  <2> QED BY <1>7, <1>8, <1>9, <2>3, <2>4, <2>5, OthersStayInOrder DEF InOrder, Procs
<1> QED BY <1>10, <1>11

LEMMA SetConnectionsInOrder ==
    ASSUME InOrder, NEW p \in Requests, SetConnections(p)
    PROVE  InOrder'
<1> DEFINE t == job[p].token
           ids == job[p].ids
           u == job[p].user
<1>1. /\ pc[p] = "set" /\ Finish(p, pc[p])
      /\ allow' = {r \in allow : r[1] # t} \cup ({t} \X ids)
      /\ shown' = shown \cup {t}
      /\ UNCHANGED <<conns, tokens, named, flagged>>
  BY DEF SetConnections, Rows
<1>2. /\ t \in Tokens /\ ids \subseteq Conns /\ named[t] = ids
      /\ tokens[t] # None /\ tokens[t].user = u /\ u \in Users
  BY <1>1 DEF InOrder, TypeOK, Procs, Job, RequestInOrder, ListInOrder
<1>3. \A c \in ids : c \in Mine(u)
  BY <1>1, <1>2 DEF InOrder, RequestInOrder, ListInOrder, WasOf, SetConnections, Listable, Mine
<1>4. Onward
  BY <1>1 DEF Onward, Exists
<1>5. \A r \in allow' : r \in allow \/ (r[1] = t /\ r[2] \in ids)
  BY <1>1
<1>6. Tables'
  <2>1. AsNamed' /\ ShownWasMade'
    BY <1>1, <1>2, <1>5 DEF InOrder, Tables, AsNamed, ShownWasMade
  <2>2. ShownTokensAreWhole'
    BY <1>1, <1>2 DEF InOrder, Tables, ShownTokensAreWhole, Exists
  <2>3. AllowlistsAreOwn'
    BY <1>1, <1>2, <1>3, <1>5, ConstantsAssumption
    DEF InOrder, Tables, AllowlistsAreOwn, Mine, Exists
  <2>4. OpenWasFlagged' /\ OneNameOneAccount' /\ GrantOfItsAccount'
    BY <1>1 DEF InOrder, Tables, OpenWasFlagged, OneNameOneAccount, GrantOfItsAccount, Exists
  <2> QED BY <2>1, <2>2, <2>3, <2>4 DEF Tables
<1>7. TypeOK'
  <2>1. pc' \in [Procs -> States] /\ job' \in [Procs -> Job]
    BY <1>1, NoJobTyped, GotoTyped DEF InOrder, Finish, Procs, States
  <2> QED BY <1>1, <1>2, <2>1 DEF InOrder, TypeOK
<1> QED BY <1>1, <1>4, <1>6, <1>7, Writes

LEMMA RevokeTokenInOrder ==
    ASSUME InOrder, NEW t \in Tokens, RevokeToken(t)
    PROVE  InOrder'
<1>1. /\ tokens[t] \in ApiToken
      /\ tokens' = [tokens EXCEPT ![t] = [tokens[t] EXCEPT !.revoked = TRUE]]
      /\ UNCHANGED <<conns, allow, pc, job, named, shown, flagged>>
  BY DEF InOrder, TypeOK, RevokeToken, history
<1>2. /\ tokens' \in [Tokens -> ApiToken \cup {None}]
      /\ \A s \in Tokens : /\ tokens'[s] = None <=> tokens[s] = None
                           /\ tokens'[s].user = tokens[s].user /\ tokens'[s].all = tokens[s].all
  <2>1. [tokens[t] EXCEPT !.revoked = TRUE] \in ApiToken
    BY <1>1 DEF ApiToken
  <2>2. /\ [tokens[t] EXCEPT !.revoked = TRUE].user = tokens[t].user
        /\ [tokens[t] EXCEPT !.revoked = TRUE].all = tokens[t].all
    BY <1>1 DEF ApiToken
  <2> QED BY <1>1, <2>1, <2>2, ConstantsAssumption DEF InOrder, TypeOK, RevokeToken
<1>3. TypeOK'
  BY <1>1, <1>2 DEF InOrder, TypeOK
<1>4. Onward
  BY <1>1, <1>2 DEF Onward, Exists
<1>5. Tables'
  <2>1. AsNamed' /\ ShownWasMade' /\ AllowlistsAreOwn'
    BY <1>1, <1>2
    DEF InOrder, TypeOK, Tables, AsNamed, ShownWasMade, AllowlistsAreOwn, Mine, Exists
  <2>2. OpenWasFlagged' /\ ShownTokensAreWhole' /\ OneNameOneAccount' /\ GrantOfItsAccount'
    BY <1>1 DEF InOrder, Tables, OpenWasFlagged, ShownTokensAreWhole, OneNameOneAccount,
       GrantOfItsAccount, Exists
  <2> QED BY <2>1, <2>2 DEF Tables
<1> QED BY <1>1, <1>3, <1>4, <1>5, WritesAlone

-----------------------------------------------------------------------------
(* Connections.                                                             *)

LEMMA StartConnectInOrder ==
    ASSUME InOrder, NEW p \in Requests, NEW u \in Users, NEW label \in Labels,
           NEW account \in Accounts, StartConnect(p, u, label, account)
    PROVE  InOrder'
<1> DEFINE what == [NoJob EXCEPT !.user = u, !.label = label, !.account = account]
<1>1. what \in Job /\ "insert" \in States
  BY DEF NoJob, Job, States
<1>2. pc'[p] = "insert" /\ job'[p] = what
  BY DEF StartConnect, Goto, InOrder, TypeOK, Procs
<1>3. RequestInOrder(p)'
  BY <1>2 DEF RequestInOrder, ListInOrder, WriteInOrder, NoJob
<1>4. p \notin Calls
  BY ConstantsAssumption
<1> HIDE DEF what
<1> QED BY <1>1, <1>3, <1>4, MovesAlong DEF StartConnect, Procs, what

LEMMA StartReconnectInOrder ==
    ASSUME InOrder, NEW p \in Requests, NEW u \in Users, NEW c \in Conns,
           NEW account \in Accounts, StartReconnect(p, u, c, account)
    PROVE  InOrder'
<1> DEFINE what == [NoJob EXCEPT !.user = u, !.conn = c, !.account = account]
<1>1. what \in Job /\ "grant" \in States
  BY DEF NoJob, Job, States
<1>2. pc'[p] = "grant" /\ job'[p] = what
  BY DEF StartReconnect, Goto, InOrder, TypeOK, Procs
<1>3. RequestInOrder(p)'
  BY <1>2 DEF RequestInOrder, ListInOrder, WriteInOrder, NoJob, StartReconnect, SameAccount,
     Exists, database
<1>4. p \notin Calls
  BY ConstantsAssumption
<1> HIDE DEF what
<1> QED BY <1>1, <1>3, <1>4, MovesAlong DEF StartReconnect, Procs, what

LEMMA InsertConnectionInOrder ==
    ASSUME InOrder, NEW p \in Requests, InsertConnection(p)
    PROVE  InOrder'
<1> DEFINE j == job[p]
           row == [user |-> j.user, label |-> j.label, account |-> j.account,
                   grant |-> j.account, open |-> FALSE]
<1>1. PICK c \in Conns : conns[c] = None /\ conns' = [conns EXCEPT ![c] = row]
  BY DEF InsertConnection
<1>2. /\ pc[p] = "insert" /\ Finish(p, pc[p])
      /\ Unique(j.user, j.label, {j.account}, {})
      /\ UNCHANGED <<tokens, allow, named, shown, flagged>>
  BY DEF InsertConnection, history
<1>3. row \in Conn
  BY <1>2 DEF InOrder, RequestInOrder, WriteInOrder, Conn
<1>4. /\ conns'[c] = row /\ Exists(c)'
      /\ \A d \in Conns : d # c => conns'[d] = conns[d] /\ (Exists(d)' <=> Exists(d))
  BY <1>1, <1>3, ConstantsAssumption DEF InOrder, TypeOK, Exists
<1>5. Onward
  BY <1>1, <1>2, <1>4 DEF Onward
<1>6. Tables'
  <2>1. AsNamed' /\ ShownWasMade' /\ OpenWasFlagged' /\ GrantOfItsAccount'
    BY <1>1, <1>2, <1>3, <1>4, ConstantsAssumption
    DEF InOrder, TypeOK, Tables, AsNamed, ShownWasMade, OpenWasFlagged, GrantOfItsAccount
  <2>2. ShownTokensAreWhole'
    BY <1>1, <1>2, <1>4
    DEF InOrder, TypeOK, Tables, AsNamed, ShownTokensAreWhole
  <2>3. AllowlistsAreOwn'
    BY <1>1, <1>2, <1>4 DEF InOrder, Tables, AllowlistsAreOwn, Mine, Exists
  <2>4. OneNameOneAccount'
    BY <1>1, <1>2, <1>4 DEF InOrder, Tables, OneNameOneAccount, Unique, Mine
  <2> QED BY <2>1, <2>2, <2>3, <2>4 DEF Tables
<1>7. TypeOK'
  <2>1. pc' \in [Procs -> States] /\ job' \in [Procs -> Job]
    BY <1>2, NoJobTyped, GotoTyped DEF InOrder, Finish, Procs, States
  <2> QED BY <1>1, <1>2, <1>3, <2>1 DEF InOrder, TypeOK
<1> QED BY <1>2, <1>5, <1>6, <1>7, Writes

LEMMA SetGrantInOrder ==
    ASSUME InOrder, NEW p \in Requests, SetGrant(p)
    PROVE  InOrder'
<1> DEFINE c == job[p].conn
           row == [conns[c] EXCEPT !.grant = job[p].account]
<1>1. /\ pc[p] = "grant" /\ Exists(c) /\ Finish(p, pc[p])
      /\ conns' = [conns EXCEPT ![c] = row]
      /\ UNCHANGED <<tokens, allow, named, shown, flagged>>
  BY DEF SetGrant, history
<1>2. /\ c \in Conns /\ job[p].account \in Accounts
      /\ conns[c].account = job[p].account /\ conns[c] \in Conn
  BY <1>1 DEF InOrder, TypeOK, RequestInOrder, WriteInOrder, Exists
<1>3. /\ row \in Conn /\ row.user = conns[c].user /\ row.label = conns[c].label
      /\ row.account = conns[c].account /\ row.open = conns[c].open
      /\ row.grant = row.account
  BY <1>2 DEF Conn
<1> HIDE DEF row
<1>4. /\ conns'[c] = row
      /\ \A d \in Conns : /\ d # c => conns'[d] = conns[d]
                          /\ Exists(d)' <=> Exists(d)
                          /\ conns'[d].user = conns[d].user /\ conns'[d].label = conns[d].label
                          /\ conns'[d].account = conns[d].account
                          /\ conns'[d].open = conns[d].open
                          /\ conns[d] # None => conns'[d] # None
  BY <1>1, <1>2, <1>3, ConstantsAssumption DEF InOrder, TypeOK, Exists
<1>5. Onward
  BY <1>1, <1>4 DEF Onward
<1>6. Tables'
  <2>1. AsNamed' /\ ShownWasMade' /\ OpenWasFlagged' /\ ShownTokensAreWhole'
    BY <1>1, <1>4
    DEF InOrder, TypeOK, Tables, AsNamed, ShownWasMade, OpenWasFlagged, ShownTokensAreWhole
  <2>2. AllowlistsAreOwn' /\ OneNameOneAccount'
    BY <1>1, <1>4
    DEF InOrder, Tables, AllowlistsAreOwn, OneNameOneAccount, Mine
  <2>3. GrantOfItsAccount'
    BY <1>3, <1>4 DEF InOrder, Tables, GrantOfItsAccount
  <2> QED BY <2>1, <2>2, <2>3 DEF Tables
<1>7. TypeOK'
  <2>1. pc' \in [Procs -> States] /\ job' \in [Procs -> Job]
    BY <1>1, NoJobTyped, GotoTyped DEF InOrder, Finish, Procs, States
  <2> QED BY <1>1, <1>2, <1>3, <2>1 DEF InOrder, TypeOK
<1> QED BY <1>1, <1>5, <1>6, <1>7, Writes

LEMMA UpdateInOrder ==
    ASSUME InOrder, NEW c \in Conns, NEW label \in Labels, NEW open \in BOOLEAN,
           Update(c, label, open)
    PROVE  InOrder'
<1> DEFINE row == [conns[c] EXCEPT !.label = label, !.open = open]
<1>1. /\ Exists(c) /\ Unique(conns[c].user, label, {}, {c})
      /\ conns' = [conns EXCEPT ![c] = row]
      /\ flagged' = IF open THEN flagged \cup {c} ELSE flagged
      /\ UNCHANGED <<tokens, allow, pc, job, named, shown>>
  BY DEF Update, InOrder, TypeOK
<1>2. conns[c] \in Conn
  BY <1>1 DEF InOrder, TypeOK, Exists
<1>3. /\ row \in Conn /\ row.user = conns[c].user /\ row.label = label /\ row.open = open
      /\ row.account = conns[c].account /\ row.grant = conns[c].grant
  BY <1>2 DEF Conn
<1> HIDE DEF row
<1>4. /\ conns'[c] = row
      /\ \A d \in Conns : /\ d # c => conns'[d] = conns[d]
                          /\ Exists(d)' <=> Exists(d)
                          /\ conns'[d].user = conns[d].user
                          /\ conns'[d].account = conns[d].account
                          /\ conns'[d].grant = conns[d].grant
                          /\ conns[d] # None => conns'[d] # None
  BY <1>1, <1>2, <1>3, ConstantsAssumption DEF InOrder, TypeOK, Exists
<1>5. Onward
  BY <1>1, <1>4 DEF Onward
<1>6. Tables'
  <2>1. AsNamed' /\ ShownWasMade' /\ ShownTokensAreWhole'
    BY <1>1, <1>4 DEF InOrder, TypeOK, Tables, AsNamed, ShownWasMade, ShownTokensAreWhole
  <2>2. OpenWasFlagged'
    BY <1>1, <1>3, <1>4 DEF InOrder, Tables, OpenWasFlagged
  <2>3. AllowlistsAreOwn' /\ GrantOfItsAccount'
    BY <1>1, <1>4 DEF InOrder, Tables, AllowlistsAreOwn, GrantOfItsAccount, Mine
  <2>4. OneNameOneAccount'
    BY <1>1, <1>3, <1>4 DEF InOrder, Tables, OneNameOneAccount, Unique, Mine
  <2> QED BY <2>1, <2>2, <2>3, <2>4 DEF Tables
<1>7. TypeOK'
  BY <1>1, <1>3 DEF InOrder, TypeOK
<1> QED BY <1>1, <1>5, <1>6, <1>7, WritesAlone

LEMMA DeleteConnectionInOrder ==
    ASSUME InOrder, NEW c \in Conns, DeleteConnection(c)
    PROVE  InOrder'
<1>1. /\ conns' = [conns EXCEPT ![c] = Gone]
      /\ allow' = {r \in allow : r[2] # c}
      /\ UNCHANGED <<tokens, pc, job, named, shown, flagged>>
  BY DEF DeleteConnection, history
<1>2. /\ ~Exists(c)' /\ conns'[c] # None
      /\ \A d \in Conns : d # c => conns'[d] = conns[d]
  BY <1>1, ConstantsAssumption DEF InOrder, TypeOK, Exists
<1>3. \A d \in Conns : Exists(d)' => d # c /\ Exists(d) /\ conns'[d] = conns[d]
  BY <1>2 DEF Exists
<1>4. Onward
  BY <1>1, <1>2, <1>3 DEF Onward
<1>5. Tables'
  <2>1. AsNamed' /\ ShownWasMade'
    BY <1>1, <1>2 DEF InOrder, TypeOK, Tables, AsNamed, ShownWasMade
  <2>2. OpenWasFlagged' /\ ShownTokensAreWhole' /\ OneNameOneAccount' /\ GrantOfItsAccount'
    BY <1>1, <1>3
    DEF InOrder, TypeOK, Tables, OpenWasFlagged, ShownTokensAreWhole, OneNameOneAccount,
        GrantOfItsAccount
  <2>3. AllowlistsAreOwn'
    BY <1>1, <1>2 DEF InOrder, TypeOK, Tables, AllowlistsAreOwn, Mine, Exists
  <2> QED BY <2>1, <2>2, <2>3 DEF Tables
<1>6. TypeOK'
  BY <1>1 DEF InOrder, TypeOK
<1> QED BY <1>1, <1>4, <1>5, <1>6, WritesAlone

-----------------------------------------------------------------------------
(* The theorems.                                                            *)

LEMMA InitInOrder == Init => InOrder
<1> SUFFICES ASSUME Init PROVE InOrder
  OBVIOUS
<1>1. TypeOK
  BY NoJobTyped DEF Init, TypeOK, States
<1>2. Tables
  BY DEF Init, Tables, AsNamed, OpenWasFlagged, ShownWasMade, AllowlistsAreOwn,
     ShownTokensAreWhole, OneNameOneAccount, GrantOfItsAccount, Exists
<1>3. (\A p \in Calls : CallInOrder(p)) /\ (\A p \in Requests : RequestInOrder(p))
  BY DEF Init, Procs, CallInOrder, RequestInOrder, ListInOrder, WriteInOrder
<1> QED BY <1>1, <1>2, <1>3 DEF InOrder

LEMMA NextInOrder == InOrder /\ [Next]_vars => InOrder'
<1> SUFFICES ASSUME InOrder, [Next]_vars PROVE InOrder'
  OBVIOUS
<1>1. ASSUME NEW p \in Calls, Call(p) PROVE InOrder'
  <2>1. CASE CallEnds(p)
    BY <2>1, EndInOrder DEF CallEnds, Procs
  <2> QED BY <1>1, <2>1, FindTokenInOrder, AccountInOrder DEF Call
<1>2. ASSUME NEW p \in Requests, Request(p) PROVE InOrder'
  <2>1. CASE GivesUp(p)
    BY <2>1, EndInOrder DEF GivesUp, Procs
  <2>2. CASE \/ \E u \in Users, ids \in SUBSET Conns, all \in BOOLEAN : StartToken(p, u, ids, all)
             \/ StartDelegate(p) \/ CreateToken(p) \/ SetConnections(p)
    BY <2>2, StartTokenInOrder, StartDelegateInOrder, CreateTokenInOrder, SetConnectionsInOrder
  <2>3. CASE \/ \E u \in Users, account \in Accounts :
                  \/ \E label \in Labels : StartConnect(p, u, label, account)
                  \/ \E c \in Conns : StartReconnect(p, u, c, account)
             \/ InsertConnection(p) \/ SetGrant(p)
    BY <2>3, StartConnectInOrder, StartReconnectInOrder, InsertConnectionInOrder, SetGrantInOrder
  <2> QED BY <1>2, <2>1, <2>2, <2>3 DEF Request
<1>3. CASE UNCHANGED vars
  <2>1. TypeOK' /\ Tables' /\ Onward /\ UNCHANGED <<pc, job>>
    BY <1>3 DEF vars, InOrder, TypeOK, Onward, Tables, AsNamed, OpenWasFlagged, ShownWasMade,
       AllowlistsAreOwn, ShownTokensAreWhole, OneNameOneAccount, GrantOfItsAccount, Mine, Exists
  <2> QED BY <2>1, WritesAlone
<1> QED BY <1>1, <1>2, <1>3, RevokeTokenInOrder, UpdateInOrder, DeleteConnectionInOrder DEF Next

LEMMA AlwaysInOrder == Spec => []InOrder
BY InitInOrder, NextInOrder, PTL DEF Spec

(* Every table and every request keeps its type (src/db/rows.rs).           *)
THEOREM TypeCorrect == Spec => []TypeOK
<1>1. InOrder => TypeOK
  BY DEF InOrder
<1> QED BY <1>1, AlwaysInOrder, PTL

(* A tool works on an account only if it is of the person the call acts for  *)
(* and within what its token was made for, whatever is renamed, removed,     *)
(* connected and revoked between the reads (Gmcp::account).                 *)
THEOREM CallsStayWithinReach == Spec => []WithinReach
<1>1. InOrder => WithinReach
  <2> SUFFICES ASSUME InOrder, NEW p \in Calls, pc[p] = "acting"
               PROVE  LET t == job[p].token
                          c == job[p].conn IN
                      /\ Exists(c) => conns[c].user = job[p].user
                      /\ IF tokens[t].user = None THEN c \in flagged
                         ELSE tokens[t].user = job[p].user /\ (tokens[t].all \/ c \in named[t])
    BY DEF WithinReach
  <2> QED BY DEF InOrder, CallInOrder, WasOf
<1> QED BY <1>1, AlwaysInOrder, PTL

(* An allowlist names only connections of its token's person that are there, *)
(* although it is checked and written in different statements.              *)
THEOREM AllowlistsStayOwn == Spec => []AllowlistsAreOwn
<1>1. InOrder => AllowlistsAreOwn
  BY DEF InOrder, Tables
<1> QED BY <1>1, AlwaysInOrder, PTL

(* Nobody is shown the secret of a token whose allowlist is half written     *)
(* (create_token).                                                          *)
THEOREM ShownTokensStayWhole == Spec => []ShownTokensAreWhole
<1>1. InOrder => ShownTokensAreWhole
  BY DEF InOrder, Tables
<1> QED BY <1>1, AlwaysInOrder, PTL

(* However callbacks and renames race, a label means one connection of a     *)
(* person's and an account is connected once (the connections table).       *)
THEOREM NamesStayUnique == Spec => []OneNameOneAccount
<1>1. InOrder => OneNameOneAccount
  BY DEF InOrder, Tables
<1> QED BY <1>1, AlwaysInOrder, PTL

(* A reconnect never gives a row another account's grant (connect).         *)
THEOREM GrantsStayWithTheirAccount == Spec => []GrantOfItsAccount
<1>1. InOrder => GrantOfItsAccount
  BY DEF InOrder, Tables
<1> QED BY <1>1, AlwaysInOrder, PTL

=============================================================================
