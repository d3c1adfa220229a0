------------------------------ MODULE Staging ------------------------------
(***************************************************************************)
(* The staging store of src/http/uploads.rs: the tickets minted for         *)
(* uploads, the files staged for a draft, a document or Drive, the files    *)
(* held for a download link, and the directory their bytes live in.         *)
(*                                                                          *)
(* The store is three maps, each behind a mutex of its own, and a           *)
(* directory behind none.  Every request that crosses two of them does so   *)
(* in several steps, and requests run at once on the runtime's threads: a   *)
(* step here is what the code does under one lock, or one file operation.   *)
(***************************************************************************)
EXTENDS Naturals, Sequences, FiniteSets, FiniteSetsExt

CONSTANTS
    Users,          \* people who may stage files
    Tickets,        \* ids Staging::mint may draw (link::new_id is random: never twice)
    Uploads,        \* ids Staging::store may draw; a file is named after its upload
    Holds,          \* ids Staging::hold may draw
    Requests,       \* requests that may be in the store at once
    Timer,          \* the background task of spawn_sweeper
    Sizes,          \* sizes a body may have
    AttachmentMax,  \* ATTACHMENT_MAX_BYTES
    MaxFiles,       \* bound: ids one take may name
    TicketTtl,      \* UPLOAD_TICKET_TTL_MINUTES
    UploadTtl,      \* UPLOAD_TTL_MINUTES
    LinkTtl,        \* LINK_TTL_MINUTES
    MaxTime,        \* bound: the clock stops here
    None

ASSUME ConstantsAssumption ==
    /\ TicketTtl \in Nat /\ UploadTtl \in Nat /\ LinkTtl \in Nat /\ MaxTime \in Nat
    /\ AttachmentMax \in Nat /\ MaxFiles \in Nat /\ Sizes \subseteq Nat
    /\ Timer \notin Requests
    /\ None \notin [user : Users, expires : Nat]
    /\ None \notin [user : Users, size : Sizes, expires : Nat]
    /\ None \notin [path : Uploads, expires : Nat]
    /\ None \notin [user : Users, ticket : Tickets]

Procs == Requests \cup {Timer}

VARIABLES
    now,       \* Utc::now()
    tickets,   \* Staging.tickets
    staged,    \* Staging.staged
    held,      \* Staging.held
    disk,      \* the files in Staging.dir, each named after its upload
    pc,        \* how far each request has come
    job,       \* what it was asked for, and the clock it read
    pos,       \* Staging::take: the file it reads next, 0 before it has any
    gone,      \* Staging::sweep: the files whose entries it took out
    used,      \* history: ticket and hold ids drawn so far
    born,      \* history: the ticket each upload id was drawn for
    consumed,  \* history: how often each upload reached each person
    leaked     \* history: files a failed read, write or removal left to nobody

vars == <<now, tickets, staged, held, disk, pc, job, pos, gone,
          used, born, consumed, leaked>>
store == <<tickets, staged, held, disk>>
history == <<used, born, consumed, leaked>>

Ticket == [user : Users, expires : Nat]
Staged == [user : Users, size : Sizes, expires : Nat]
Held == [path : Uploads, expires : Nat]

\* What a request carries from one step to the next; `then` is where a sweep
\* goes on to once it is done.
NoJob == [user |-> None, ticket |-> None, size |-> None, at |-> 0,
          ids |-> << >>, then |-> "idle"]

Names(p) == {job[p].ids[i] : i \in 1..Len(job[p].ids)}

IdLists == UNION {[1..n -> Uploads] : n \in 1..MaxFiles}

Init ==
    /\ now = 0
    /\ tickets = [t \in Tickets |-> None]
    /\ staged = [u \in Uploads |-> None]
    /\ held = [h \in Holds |-> None]
    /\ disk = {}
    /\ pc = [p \in Procs |-> "idle"]
    /\ job = [p \in Procs |-> NoJob]
    /\ pos = [p \in Procs |-> 0]
    /\ gone = [p \in Procs |-> {}]
    /\ used = {}
    /\ born = [u \in Uploads |-> None]
    /\ consumed = [u \in Uploads |-> [v \in Users |-> 0]]
    /\ leaked = {}

-----------------------------------------------------------------------------
(* Control flow of a request.                                              *)

Begin(p, where, what) ==
    /\ pc[p] = "idle"
    /\ pc' = [pc EXCEPT ![p] = where]
    /\ job' = [job EXCEPT ![p] = what]

Goto(p, from, to) ==
    /\ pc[p] = from
    /\ pc' = [pc EXCEPT ![p] = to]

\* The request answers: nothing of it is left.
Finish(p, from) ==
    /\ Goto(p, from, "idle")
    /\ job' = [job EXCEPT ![p] = NoJob]
    /\ pos' = [pos EXCEPT ![p] = 0]

-----------------------------------------------------------------------------
(* Staging::sweep.  It runs inside mint, inside hold and on the timer, and   *)
(* uses the clock its caller read: tickets, then staged, then held, then    *)
(* the files, one at a time.                                                *)

SweepTickets(p, then, user, ids) ==
    /\ Begin(p, "sweep_staged",
             [NoJob EXCEPT !.user = user, !.at = now, !.ids = ids, !.then = then])
    /\ tickets' = [t \in Tickets |->
                     IF tickets[t] # None /\ tickets[t].expires > now
                     THEN tickets[t] ELSE None]
    /\ UNCHANGED <<now, staged, held, disk, pos, gone, history>>

\* Mutant of Removed: the entries are copied out and left behind.
LeftBehind(S) == staged

\* staged.remove(id), for every id of S.
Removed(S) == [u \in Uploads |-> IF u \in S THEN None ELSE staged[u]]

PastStaged(t) == {u \in Uploads : staged[u] # None /\ staged[u].expires <= t}
PastHeld(t) == {h \in Holds : held[h] # None /\ held[h].expires <= t}

\* Mutants of HeldPaths: the files of held entries are forgotten; the key is
\* taken for the path.
NoPaths(H) == {}
KeysOf(H) == H

HeldPaths(H) == {held[h].path : h \in H}

SweepStaged(p) ==
    /\ Goto(p, "sweep_staged", "sweep_held")
    /\ gone' = [gone EXCEPT ![p] = PastStaged(job[p].at)]
    /\ staged' = Removed(PastStaged(job[p].at))
    /\ UNCHANGED <<now, tickets, held, disk, job, pos, history>>

SweepHeld(p) ==
    /\ Goto(p, "sweep_held", "unlink")
    /\ gone' = [gone EXCEPT ![p] = @ \cup HeldPaths(PastHeld(job[p].at))]
    /\ held' = [h \in Holds |-> IF h \in PastHeld(job[p].at) THEN None ELSE held[h]]
    /\ UNCHANGED <<now, tickets, staged, disk, job, pos, history>>

\* remove: a failure is only logged, and nobody comes back to the file.
Remove(u) ==
    \/ disk' = disk \ {u} /\ UNCHANGED leaked
    \/ leaked' = leaked \cup {u} /\ UNCHANGED disk

Unlink(p) ==
    /\ pc[p] = "unlink"
    /\ \E u \in gone[p] :
         /\ Remove(u)
         /\ gone' = [gone EXCEPT ![p] = @ \ {u}]
    /\ UNCHANGED <<now, tickets, staged, held, pc, job, pos, used, born, consumed>>

Swept(p) ==
    /\ gone[p] = {}
    /\ Goto(p, "unlink", job[p].then)
    /\ job' = IF job[p].then = "idle" THEN [job EXCEPT ![p] = NoJob] ELSE job
    /\ UNCHANGED <<now, store, pos, gone, history>>

\* sweep_every: one tick of the interval.
TimerFires == SweepTickets(Timer, "idle", None, << >>)

-----------------------------------------------------------------------------
(* A tool mints a ticket: Staging::mint.                                    *)

\* Bound: nothing starts here whose expiry the clock would never reach.
WithinClock(ttl) == now + ttl <= MaxTime

StartMint(p) == \E user \in Users : SweepTickets(p, "mint", user, << >>)

Mint(p) ==
    /\ Finish(p, "mint")
    /\ \E t \in Tickets \ used :
         /\ tickets' = [tickets EXCEPT
              ![t] = [user |-> job[p].user, expires |-> job[p].at + TicketTtl]]
         /\ used' = used \cup {t}
    /\ UNCHANGED <<now, staged, held, disk, gone, born, consumed, leaked>>

-----------------------------------------------------------------------------
(* POST /up/{id}: upload, take_ticket and store.                            *)

\* Mutant of Spent: the ticket is looked up and kept.
Unspent(t) == tickets

Spent(t) == [tickets EXCEPT ![t] = None]

\* take_ticket: the ticket is gone before a byte of the body is read.
SpendTicket(p) ==
    /\ WithinClock(UploadTtl)
    /\ \E t \in Tickets :
         /\ tickets[t] # None
         /\ tickets[t].expires > now
         /\ tickets' = Spent(t)
         /\ \E size \in Sizes :
              Begin(p, "body", [NoJob EXCEPT !.user = tickets[t].user, !.ticket = t,
                                             !.size = size, !.at = now])
    /\ UNCHANGED <<now, staged, held, disk, pos, gone, history>>

\* take_ticket removes an expired ticket as well, and answers 404.
RefuseTicket(p) ==
    /\ pc[p] = "idle"
    /\ \E t \in Tickets :
         /\ tickets[t] # None
         /\ tickets[t].expires <= now
         /\ tickets' = Spent(t)
    /\ UNCHANGED <<now, staged, held, disk, pc, job, pos, gone, history>>

\* Over the cap, empty, or the sender hung up: nothing is written.
RefuseBody(p) ==
    /\ Finish(p, "body")
    /\ UNCHANGED <<now, store, gone, history>>

Drawn(u, p) == [born EXCEPT ![u] = [user |-> job[p].user, ticket |-> job[p].ticket]]

\* store: the file is written before the map is touched.
WriteFile(p) ==
    /\ Goto(p, "body", "stage")
    /\ \E u \in Uploads :
         /\ born[u] = None
         /\ born' = Drawn(u, p)
         /\ disk' = disk \cup {u}
         /\ job' = [job EXCEPT ![p].ids = <<u>>]
    /\ UNCHANGED <<now, tickets, staged, held, pos, gone, used, consumed, leaked>>

\* store: create_dir or fs::write fails, with or without a partial file.
WriteFileFails(p) ==
    /\ Finish(p, "body")
    /\ \/ UNCHANGED <<disk, born, leaked>>
       \/ \E u \in Uploads :
            /\ born[u] = None
            /\ born' = Drawn(u, p)
            /\ disk' = disk \cup {u}
            /\ leaked' = leaked \cup {u}
    /\ UNCHANGED <<now, tickets, staged, held, gone, used, consumed>>

\* store: the entry lives from the moment the request came in, not from now.
Stage(p) ==
    /\ Finish(p, "stage")
    /\ staged' = [staged EXCEPT
         ![job[p].ids[1]] = [user |-> job[p].user, size |-> job[p].size,
                             expires |-> job[p].at + UploadTtl]]
    /\ UNCHANGED <<now, tickets, held, disk, gone, history>>

-----------------------------------------------------------------------------
(* Staging::take, for the draft tools and for Drive.                        *)

\* A mutant of Found: an id may be named twice.
FoundTwice(user, ids, at) ==
    \A i \in 1..Len(ids) :
      /\ staged[ids[i]] # None
      /\ staged[ids[i]].user = user
      /\ staged[ids[i]].expires > at

\* find: every id is the caller's, alive at `at`, and named once.
Found(user, ids, at) ==
    /\ \A i \in 1..Len(ids) :
         /\ staged[ids[i]] # None
         /\ staged[ids[i]].user = user
         /\ staged[ids[i]].expires > at
    /\ \A i, j \in 1..Len(ids) : ids[i] = ids[j] => i = j

SizeOf(u) == staged[u].size

\* The clock is read before the lock is taken.
StartTake(p) ==
    /\ \E user \in Users, ids \in IdLists :
         Begin(p, "take", [NoJob EXCEPT !.user = user, !.at = now, !.ids = ids])
    /\ UNCHANGED <<now, store, pos, gone, history>>

TakeRefused(p) ==
    /\ ~ /\ Found(job[p].user, job[p].ids, job[p].at)
         /\ MapThenSumSet(SizeOf, Names(p)) <= AttachmentMax
    /\ Finish(p, "take")
    /\ UNCHANGED <<now, store, gone, history>>

TakeEntries(p) ==
    /\ Found(job[p].user, job[p].ids, job[p].at)
    /\ MapThenSumSet(SizeOf, Names(p)) <= AttachmentMax
    /\ Goto(p, "take", "read")
    /\ staged' = Removed(Names(p))
    /\ pos' = [pos EXCEPT ![p] = 1]
    /\ UNCHANGED <<now, tickets, held, disk, job, gone, history>>

\* One file read and unlinked.
ReadFile(p) ==
    /\ pc[p] = "read"
    /\ pos[p] <= Len(job[p].ids)
    /\ job[p].ids[pos[p]] \in disk
    /\ Remove(job[p].ids[pos[p]])
    /\ pos' = [pos EXCEPT ![p] = @ + 1]
    /\ UNCHANGED <<now, tickets, staged, held, pc, job, gone, used, born, consumed>>

Unread(p) == {job[p].ids[i] : i \in pos[p]..Len(job[p].ids)}

\* TakeError::Io on one file: the loop returns, and the files it had not come
\* to are in no map.
ReadFileFails(p) ==
    /\ pos[p] <= Len(job[p].ids)
    /\ Finish(p, "read")
    /\ leaked' = leaked \cup Unread(p)
    /\ UNCHANGED <<now, store, gone, used, born, consumed>>

TakeDone(p) ==
    /\ pos[p] > Len(job[p].ids)
    /\ Finish(p, "read")
    /\ consumed' = [u \in Uploads |->
         IF u \in Names(p) THEN [consumed[u] EXCEPT ![job[p].user] = @ + 1]
                           ELSE consumed[u]]
    /\ UNCHANGED <<now, store, gone, used, born, leaked>>

-----------------------------------------------------------------------------
(* Staging::peek, which spends nothing.                                     *)

Peek(p) ==
    /\ \E user \in Users, u \in Uploads :
         /\ Found(user, <<u>>, now)
         /\ Begin(p, "peek", [NoJob EXCEPT !.user = user, !.ids = <<u>>])
    /\ UNCHANGED <<now, store, pos, gone, history>>

\* Bytes, or TakeError::Io when the file is gone by now.
PeekReads(p) ==
    /\ Finish(p, "peek")
    /\ UNCHANGED <<now, store, gone, history>>

-----------------------------------------------------------------------------
(* Staging::hold, for docs_insert_image, and Staging::held, for GET /dl/.  *)

StartHold(p) ==
    /\ WithinClock(LinkTtl)
    /\ \E user \in Users, u \in Uploads : SweepTickets(p, "hold", user, <<u>>)

HoldRefused(p) ==
    /\ ~ Found(job[p].user, job[p].ids, job[p].at)
    /\ Finish(p, "hold")
    /\ UNCHANGED <<now, store, gone, history>>

\* Out of `staged` ...
Unstage(p) ==
    /\ Found(job[p].user, job[p].ids, job[p].at)
    /\ Goto(p, "hold", "held")
    /\ staged' = Removed(Names(p))
    /\ UNCHANGED <<now, tickets, held, disk, job, pos, gone, history>>

\* ... and into `held` under a lock of its own, with the link's own life.
Hold(p) ==
    /\ Finish(p, "held")
    /\ \E h \in Holds \ used :
         /\ held' = [held EXCEPT
              ![h] = [path |-> job[p].ids[1], expires |-> job[p].at + LinkTtl]]
         /\ used' = used \cup {h}
    /\ consumed' = [consumed EXCEPT ![job[p].ids[1]][job[p].user] = @ + 1]
    /\ UNCHANGED <<now, tickets, staged, disk, gone, born, leaked>>

\* held: the entry is cloned under the lock and the file read after it.
Serve(p) ==
    /\ \E h \in Holds :
         /\ held[h] # None
         /\ held[h].expires > now
         /\ Begin(p, "serve", [NoJob EXCEPT !.ids = <<held[h].path>>])
    /\ UNCHANGED <<now, store, pos, gone, history>>

\* Bytes, or None when a sweep had the file first.
ServeReads(p) ==
    /\ Finish(p, "serve")
    /\ UNCHANGED <<now, store, gone, history>>

-----------------------------------------------------------------------------
(* The world.                                                               *)

Tick ==
    /\ now < MaxTime
    /\ now' = now + 1
    /\ UNCHANGED <<store, pc, job, pos, gone, history>>

\* The process dies and starts again: Staging::new empties the directory, but
\* for what it fails to remove, and every map and every request went with the
\* memory.
Restart ==
    /\ tickets' = [t \in Tickets |-> None]
    /\ staged' = [u \in Uploads |-> None]
    /\ held' = [h \in Holds |-> None]
    /\ disk' \in SUBSET disk
    /\ pc' = [p \in Procs |-> "idle"]
    /\ job' = [p \in Procs |-> NoJob]
    /\ pos' = [p \in Procs |-> 0]
    /\ gone' = [p \in Procs |-> {}]
    /\ leaked' = disk'
    /\ UNCHANGED <<now, used, born, consumed>>

Sweep(p) == SweepStaged(p) \/ SweepHeld(p) \/ Unlink(p) \/ Swept(p)

Upload(p) == RefuseBody(p) \/ WriteFile(p) \/ WriteFileFails(p) \/ Stage(p)

Take(p) == TakeRefused(p) \/ TakeEntries(p) \/ ReadFile(p) \/ ReadFileFails(p) \/ TakeDone(p)

HoldSteps(p) == HoldRefused(p) \/ Unstage(p) \/ Hold(p)

Start(p) ==
    \/ StartMint(p)
    \/ SpendTicket(p)
    \/ RefuseTicket(p)
    \/ StartTake(p)
    \/ Peek(p)
    \/ StartHold(p)
    \/ Serve(p)

Continue(p) ==
    \/ Sweep(p)
    \/ Mint(p)
    \/ Upload(p)
    \/ Take(p)
    \/ PeekReads(p)
    \/ HoldSteps(p)
    \/ ServeReads(p)

Next ==
    \/ \E p \in Requests : Start(p)
    \/ \E p \in Procs : Continue(p)
    \/ TimerFires
    \/ Tick
    \/ Restart

Spec == Init /\ [][Next]_vars

\* The runtime runs what can run and the interval keeps ticking.  A body that
\* never arrives is the sender's business, so nothing is assumed of it.
Runs(p) == pc[p] # "body" /\ Continue(p)

Fairness ==
    /\ WF_vars(Tick)
    /\ WF_vars(TimerFires)
    /\ \A p \in Procs : WF_vars(Runs(p))

FairSpec == Spec /\ Fairness

-----------------------------------------------------------------------------
(* What the store promises.                                                 *)

States == {"idle", "sweep_staged", "sweep_held", "unlink", "mint", "body", "stage",
           "take", "read", "peek", "hold", "held", "serve"}

Job == [user : Users \cup {None}, ticket : Tickets \cup {None},
        size : Sizes \cup {None}, at : Nat, ids : Seq(Uploads),
        then : {"idle", "mint", "hold"}]

\* The shape of the state: the three maps, the directory, and what each
\* request of uploads.rs carries between two of its steps.
TypeOK ==
    /\ now \in Nat
    /\ tickets \in [Tickets -> Ticket \cup {None}]
    /\ staged \in [Uploads -> Staged \cup {None}]
    /\ held \in [Holds -> Held \cup {None}]
    /\ disk \subseteq Uploads
    /\ pc \in [Procs -> States]
    /\ job \in [Procs -> Job]
    /\ pos \in [Procs -> Nat]
    /\ gone \in [Procs -> SUBSET Uploads]
    /\ used \subseteq Tickets \cup Holds
    /\ born \in [Uploads -> [user : Users, ticket : Tickets] \cup {None}]
    /\ consumed \in [Uploads -> [Users -> Nat]]
    /\ leaked \subseteq Uploads

\* The files a request has taken out of a map and not yet passed on.
InHand(p) ==
    CASE pc[p] \in {"stage", "held"} -> Names(p)
      [] pc[p] = "read" -> Unread(p)
      [] OTHER -> gone[p]

HeldAs(h, u) == held[h] # None /\ held[h].path = u

Kept(u) ==
    \/ staged[u] # None
    \/ \E h \in Holds : HeldAs(h, u)
    \/ \E p \in Procs : u \in InHand(p)

\* A file has one keeper at a time: the staged map, one held entry, or one
\* request between two of its steps.  A second keeper would be a sweep that
\* unlinks a file a draft or a download link is still owed (take, hold, sweep).
OneKeeper ==
    \A u \in Uploads :
      /\ staged[u] # None =>
           (\A h \in Holds : ~HeldAs(h, u)) /\ (\A p \in Procs : u \notin InHand(p))
      /\ \A h \in Holds : HeldAs(h, u) =>
           /\ \A g \in Holds : HeldAs(g, u) => g = h
           /\ \A p \in Procs : u \notin InHand(p)
      /\ \A p, q \in Procs : u \in InHand(p) /\ u \in InHand(q) => p = q

\* An upload id or a held id that can still be used has its bytes on disk, and
\* so has every file a request took out of a map to read or to pass on: no
\* order of sweeps, takes and holds unlinks a file something still names.
BytesOnDisk == \A u \in Uploads : Kept(u) => u \in disk

\* No file outlives its last keeper, except the ones a failed read, write or
\* removal abandoned: what is on disk some map or some request will still unlink.
NoStrays == \A u \in disk : Kept(u) \/ u \in leaked

\* "The file is used once and then forgotten": an upload reaches a draft or a
\* held link at most once, and only its owner's, whatever takes and holds race
\* for it and however often the server restarts.
UsedOnceByOwner ==
    \A u \in Uploads, v \in Users :
      consumed[u][v] > 0 => consumed[u][v] = 1 /\ born[u] # None /\ born[u].user = v

\* "Two POSTs with one ticket cannot both win": a ticket stages one upload.
TicketUsedOnce ==
    \A u, w \in Uploads :
      born[u] # None /\ born[w] # None /\ born[u].ticket = born[w].ticket => u = w

\* Every file on disk is unlinked in the end, by the draft that takes it, by a
\* sweep, or by a restart, unless a failed read, write or removal abandoned it.
FilesForgotten ==
    \A u \in Uploads : u \in disk ~> (u \notin disk \/ u \in leaked)

\* The doc of TakeError: "Nothing is taken when one of these is answered".
NothingTakenOnError ==
    [][\A p \in Procs : TakeRefused(p) \/ ReadFileFails(p) => pos[p] = 0]_vars

=============================================================================
