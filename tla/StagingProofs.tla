--------------------------- MODULE StagingProofs ---------------------------
(***************************************************************************)
(* Proofs about the staging store, for any number of people, uploads and    *)
(* requests and any lengths of life.                                        *)
(***************************************************************************)
EXTENDS Staging, TLAPS

Sweeping == {"sweep_staged", "sweep_held", "unlink"}

\* What a request carries is filled in by the time a step needs it.
JobOK(p) ==
    /\ pc[p] \in {"body", "stage"} =>
         job[p].user \in Users /\ job[p].ticket \in Tickets /\ job[p].size \in Sizes
    /\ pc[p] \in {"mint", "take", "read", "hold", "held"} => job[p].user \in Users
    /\ pc[p] \in Sweeping /\ job[p].then # "idle" => job[p].user \in Users
    /\ pc[p] \in {"stage", "hold", "held"} => Len(job[p].ids) = 1
    /\ pc[p] \in Sweeping /\ job[p].then = "hold" => Len(job[p].ids) = 1
    /\ pc[p] = "read" => pos[p] >= 1

Typed == TypeOK /\ \A p \in Procs : JobOK(p)

LEMMA IdListsAreSequences == IdLists \subseteq Seq(Uploads)
  BY ConstantsAssumption DEF IdLists

LEMMA NoJobTyped == NoJob \in Job
  BY DEF NoJob, Job

LEMMA TypedInit == Init => Typed
  BY NoJobTyped, ConstantsAssumption
     DEF Init, Typed, TypeOK, JobOK, States, Sweeping, NoJob

LEMMA Singleton == \A u \in Uploads : <<u>> \in Seq(Uploads) /\ Len(<<u>>) = 1
  OBVIOUS

\* A request that starts leaves the others where they were.
LEMMA BeginTyped ==
  ASSUME Typed, NEW p \in Procs, NEW w \in States, NEW j \in Job, Begin(p, w, j)
  PROVE  /\ pc' \in [Procs -> States]
         /\ job' \in [Procs -> Job]
         /\ pc'[p] = w
         /\ job'[p] = j
         /\ \A q \in Procs \ {p} : pc'[q] = pc[q] /\ job'[q] = job[q]
  BY DEF Begin, Typed, TypeOK

\* Any sweep starts with a job of the right shape.
LEMMA SweepTicketsTyped ==
  ASSUME Typed, NEW p \in Procs, NEW then \in {"idle", "mint", "hold"},
         NEW user \in Users \cup {None}, NEW ids \in Seq(Uploads),
         then # "idle" => user \in Users,
         then = "hold" => Len(ids) = 1,
         SweepTickets(p, then, user, ids)
  PROVE  Typed'
<1> DEFINE j == [NoJob EXCEPT !.user = user, !.at = now, !.ids = ids, !.then = then]
<1>1. /\ j \in Job
      /\ j.user = user
      /\ j.ids = ids
      /\ j.then = then
  BY DEF NoJob, Job, Typed, TypeOK
<1>2. Begin(p, "sweep_staged", j)
  BY DEF SweepTickets
<1> HIDE DEF j
<1>3. /\ pc' \in [Procs -> States]
      /\ job' \in [Procs -> Job]
      /\ pc'[p] = "sweep_staged"
      /\ job'[p] = j
      /\ \A q \in Procs \ {p} : pc'[q] = pc[q] /\ job'[q] = job[q]
  BY <1>1, <1>2, BeginTyped DEF States
<1>4. TypeOK'
  BY <1>3 DEF SweepTickets, Typed, TypeOK, history
<1>5. pos' = pos
  BY DEF SweepTickets
<1>6. ASSUME NEW q \in Procs PROVE JobOK(q)'
  BY <1>1, <1>3, <1>5 DEF Typed, JobOK, Sweeping
<1> QED
  BY <1>4, <1>6 DEF Typed

LEMMA TypedStep == Typed /\ [Next]_vars => Typed'
<1> SUFFICES ASSUME Typed, [Next]_vars PROVE Typed'
  OBVIOUS
<1> USE ConstantsAssumption, NoJobTyped DEF Typed, TypeOK, JobOK, States, Sweeping, Procs,
        store, history
<1>1. ASSUME NEW p \in Procs, SweepStaged(p) PROVE Typed'
  BY <1>1 DEF SweepStaged, Goto, Removed, PastStaged
<1>2. ASSUME NEW p \in Procs, SweepHeld(p) PROVE Typed'
  BY <1>2 DEF SweepHeld, Goto, HeldPaths, PastHeld, Held
<1>3. ASSUME NEW p \in Procs, Unlink(p) PROVE Typed'
  BY <1>3 DEF Unlink, Remove
<1>4. ASSUME NEW p \in Procs, Swept(p) PROVE Typed'
  BY <1>4 DEF Swept, Goto, Job
<1>5. ASSUME NEW p \in Procs, Mint(p) PROVE Typed'
  BY <1>5 DEF Mint, Finish, Goto, NoJob, Job, Ticket
<1>6. ASSUME NEW p \in Procs, RefuseBody(p) PROVE Typed'
  BY <1>6 DEF RefuseBody, Finish, Goto, NoJob
<1>7. ASSUME NEW p \in Procs, WriteFile(p) PROVE Typed'
  <2>1. PICK u \in Uploads : born' = Drawn(u, p) /\ disk' = disk \cup {u}
                          /\ job' = [job EXCEPT ![p].ids = <<u>>]
    BY <1>7 DEF WriteFile
  <2>2. /\ job' \in [Procs -> Job]
        /\ job'[p] = [job[p] EXCEPT !.ids = <<u>>]
        /\ Len(job'[p].ids) = 1
        /\ \A q \in Procs \ {p} : job'[q] = job[q]
    BY <2>1, Singleton DEF Job
  <2>3. job'[p].user = job[p].user /\ job'[p].ticket = job[p].ticket
        /\ job'[p].size = job[p].size
    BY <2>2 DEF Job
  <2>4. born' \in [Uploads -> [user : Users, ticket : Tickets] \cup {None}]
    BY <1>7, <2>1 DEF WriteFile, Goto, Drawn
  <2>5. TypeOK'
    BY <1>7, <2>2, <2>4 DEF WriteFile, Goto
  <2>6. ASSUME NEW q \in Procs PROVE JobOK(q)'
    BY <1>7 DEF WriteFile, Goto
  <2> QED
    BY <2>5, <2>6
<1>8. ASSUME NEW p \in Procs, WriteFileFails(p) PROVE Typed'
  <2>1. born' \in [Uploads -> [user : Users, ticket : Tickets] \cup {None}]
    BY <1>8 DEF WriteFileFails, Finish, Goto, Drawn
  <2>2. disk' \subseteq Uploads /\ leaked' \subseteq Uploads
    BY <1>8 DEF WriteFileFails
  <2>3. TypeOK'
    BY <1>8, <2>1 DEF WriteFileFails, Finish, Goto
  <2>4. ASSUME NEW q \in Procs PROVE JobOK(q)'
    BY <1>8 DEF WriteFileFails, Finish, Goto, NoJob
  <2> QED
    BY <2>3, <2>4
<1>9. ASSUME NEW p \in Procs, Stage(p) PROVE Typed'
  BY <1>9 DEF Stage, Finish, Goto, NoJob, Staged, Job
<1>10. ASSUME NEW p \in Procs, TakeRefused(p) PROVE Typed'
  BY <1>10 DEF TakeRefused, Finish, Goto, NoJob
<1>11. ASSUME NEW p \in Procs, TakeEntries(p) PROVE Typed'
  BY <1>11 DEF TakeEntries, Goto, Removed
<1>12. ASSUME NEW p \in Procs, ReadFile(p) PROVE Typed'
  BY <1>12 DEF ReadFile, Remove
<1>13. ASSUME NEW p \in Procs, ReadFileFails(p) PROVE Typed'
  <2>1. Unread(p) \subseteq Uploads
    BY <1>13 DEF ReadFileFails, Finish, Goto, Unread, Job
  <2>2. TypeOK'
    BY <1>13, <2>1 DEF ReadFileFails, Finish, Goto
  <2>3. ASSUME NEW q \in Procs PROVE JobOK(q)'
    BY <1>13 DEF ReadFileFails, Finish, Goto, NoJob
  <2> QED
    BY <2>2, <2>3
<1>14. ASSUME NEW p \in Procs, TakeDone(p) PROVE Typed'
  BY <1>14 DEF TakeDone, Finish, Goto, NoJob
<1>15. ASSUME NEW p \in Procs, PeekReads(p) PROVE Typed'
  BY <1>15 DEF PeekReads, Finish, Goto, NoJob
<1>16. ASSUME NEW p \in Procs, HoldRefused(p) PROVE Typed'
  BY <1>16 DEF HoldRefused, Finish, Goto, NoJob
<1>17. ASSUME NEW p \in Procs, Unstage(p) PROVE Typed'
  BY <1>17 DEF Unstage, Goto, Removed
<1>18. ASSUME NEW p \in Procs, Hold(p) PROVE Typed'
  BY <1>18 DEF Hold, Finish, Goto, NoJob, Held, Job
<1>19. ASSUME NEW p \in Procs, ServeReads(p) PROVE Typed'
  BY <1>19 DEF ServeReads, Finish, Goto, NoJob
<1>20. ASSUME NEW p \in Requests, StartMint(p) PROVE Typed'
  <2>1. << >> \in Seq(Uploads)
    OBVIOUS
  <2> QED
    BY <1>20, <2>1, SweepTicketsTyped DEF StartMint
<1>21. ASSUME NEW p \in Requests, SpendTicket(p) PROVE Typed'
  <2>1. PICK t \in Tickets, size \in Sizes :
          /\ tickets[t] # None
          /\ tickets' = Spent(t)
          /\ pos' = pos
          /\ Begin(p, "body", [NoJob EXCEPT !.user = tickets[t].user, !.ticket = t,
                                            !.size = size, !.at = now])
    BY <1>21 DEF SpendTicket
  <2> DEFINE j == [NoJob EXCEPT !.user = tickets[t].user, !.ticket = t,
                                !.size = size, !.at = now]
  <2>2. j \in Job /\ j.user \in Users /\ j.ticket \in Tickets /\ j.size \in Sizes
    BY <2>1 DEF NoJob, Job, Ticket
  <2>3. Begin(p, "body", j)
    BY <2>1
  <2> HIDE DEF j
  <2>4. TypeOK'
    BY <1>21, <2>2, <2>3, BeginTyped DEF SpendTicket, Spent
  <2>5. ASSUME NEW q \in Procs PROVE JobOK(q)'
    BY <2>1, <2>2, <2>3 DEF Begin
  <2> QED
    BY <2>4, <2>5
<1>22. ASSUME NEW p \in Requests, RefuseTicket(p) PROVE Typed'
  BY <1>22 DEF RefuseTicket, Spent
<1>23. ASSUME NEW p \in Requests, StartTake(p) PROVE Typed'
  <2>1. PICK user \in Users, ids \in IdLists : pos' = pos /\ Begin(p, "take", [NoJob EXCEPT !.user = user, !.at = now, !.ids = ids])
    BY <1>23 DEF StartTake
  <2>2. [NoJob EXCEPT !.user = user, !.at = now, !.ids = ids] \in Job
    BY Singleton, IdListsAreSequences DEF NoJob, Job, Ticket
  <2>3. TypeOK'
    BY <1>23, <2>1, <2>2, BeginTyped DEF StartTake
  <2>4. ASSUME NEW q \in Procs PROVE JobOK(q)'
    BY <2>1, <2>2 DEF Begin, NoJob
  <2> QED
    BY <2>3, <2>4
<1>24. ASSUME NEW p \in Requests, Peek(p) PROVE Typed'
  <2>1. PICK user \in Users, u \in Uploads : pos' = pos /\ Begin(p, "peek", [NoJob EXCEPT !.user = user, !.ids = <<u>>])
    BY <1>24 DEF Peek
  <2>2. [NoJob EXCEPT !.user = user, !.ids = <<u>>] \in Job
    BY Singleton, IdListsAreSequences DEF NoJob, Job, Ticket
  <2>3. TypeOK'
    BY <1>24, <2>1, <2>2, BeginTyped DEF Peek
  <2>4. ASSUME NEW q \in Procs PROVE JobOK(q)'
    BY <2>1, <2>2 DEF Begin, NoJob
  <2> QED
    BY <2>3, <2>4
<1>25. ASSUME NEW p \in Requests, StartHold(p) PROVE Typed'
  <2>1. PICK user \in Users, u \in Uploads : SweepTickets(p, "hold", user, <<u>>)
    BY <1>25 DEF StartHold
  <2> QED
    BY <2>1, Singleton, SweepTicketsTyped
<1>26. ASSUME NEW p \in Requests, Serve(p) PROVE Typed'
  <2>1. PICK h \in Holds : held[h] # None /\ pos' = pos /\ Begin(p, "serve", [NoJob EXCEPT !.ids = <<held[h].path>>])
    BY <1>26 DEF Serve
  <2>2. [NoJob EXCEPT !.ids = <<held[h].path>>] \in Job
    BY <2>1, Singleton DEF NoJob, Job, Held
  <2>3. TypeOK'
    BY <1>26, <2>1, <2>2, BeginTyped DEF Serve
  <2>4. ASSUME NEW q \in Procs PROVE JobOK(q)'
    BY <2>1, <2>2 DEF Begin, NoJob
  <2> QED
    BY <2>3, <2>4
<1>27. CASE TimerFires
  <2>1. << >> \in Seq(Uploads)
    OBVIOUS
  <2> QED
    BY <1>27, <2>1, SweepTicketsTyped DEF TimerFires
<1>28. CASE Tick
  BY <1>28 DEF Tick
<1>29. CASE Restart
  BY <1>29 DEF Restart, NoJob
<1>30. CASE UNCHANGED vars
  BY <1>30 DEF vars
<1> QED
  BY <1>1, <1>2, <1>3, <1>4, <1>5, <1>6, <1>7, <1>8, <1>9, <1>10, <1>11, <1>12,
     <1>13, <1>14, <1>15, <1>16, <1>17, <1>18, <1>19, <1>20, <1>21, <1>22, <1>23, <1>24, <1>25, <1>26, <1>27, <1>28, <1>29, <1>30
     DEF Next, Start, Continue, Sweep, Upload, Take, HoldSteps

\* The shape of the state holds throughout, with what each request carries.
LEMMA TypedInvariant == Spec => []Typed
  BY TypedInit, TypedStep, PTL DEF Spec

\* Type correctness of the staging store (uploads.rs): the three maps, the
\* directory and every request keep their shape, for any constants.
THEOREM TypeCorrect == Spec => []TypeOK
<1>1. Typed => TypeOK
  BY DEF Typed
<1> QED
  BY <1>1, TypedInvariant, PTL

-----------------------------------------------------------------------------
(* Tickets.                                                                 *)

\* A ticket is in the map, in the hands of the one request whose body is being
\* read, or behind one upload: never in two of these places.
TicketOnce ==
    /\ \A t \in Tickets : tickets[t] # None =>
         /\ t \in used
         /\ \A u \in Uploads : born[u] # None => born[u].ticket # t
         /\ \A p \in Procs : pc[p] = "body" => job[p].ticket # t
    /\ \A p \in Procs : pc[p] = "body" =>
         /\ job[p].ticket \in used
         /\ \A u \in Uploads : born[u] # None => born[u].ticket # job[p].ticket
         /\ \A q \in Procs : pc[q] = "body" /\ job[q].ticket = job[p].ticket => q = p
    /\ \A u \in Uploads : born[u] # None => born[u].ticket \in used
    /\ TicketUsedOnce

LEMMA TicketOnceInit == Init => TicketOnce
  BY DEF Init, TicketOnce, TicketUsedOnce

LEMMA TicketOnceStep == Typed /\ TicketOnce /\ [Next]_vars => TicketOnce'
<1> SUFFICES ASSUME Typed, TicketOnce, [Next]_vars PROVE TicketOnce'
  OBVIOUS
<1> USE ConstantsAssumption DEF Typed, TypeOK, TicketOnce, TicketUsedOnce, Procs, store, history
<1>1. ASSUME NEW p \in Procs, SweepStaged(p) PROVE TicketOnce'
  BY <1>1 DEF SweepStaged, Goto, Removed
<1>2. ASSUME NEW p \in Procs, SweepHeld(p) PROVE TicketOnce'
  BY <1>2 DEF SweepHeld, Goto
<1>3. ASSUME NEW p \in Procs, Unlink(p) PROVE TicketOnce'
  BY <1>3 DEF Unlink, Remove
<1>4. ASSUME NEW p \in Procs, Swept(p) PROVE TicketOnce'
  <2>1. job[p].then \in {"idle", "mint", "hold"}
    BY DEF Job
  <2> QED
    BY <1>4, <2>1 DEF Swept, Goto, NoJob
<1>5. ASSUME NEW p \in Procs, Mint(p) PROVE TicketOnce'
  BY <1>5 DEF Mint, Finish, Goto, NoJob
<1>6. ASSUME NEW p \in Procs, RefuseBody(p) PROVE TicketOnce'
  BY <1>6 DEF RefuseBody, Finish, Goto, NoJob
<1>7. ASSUME NEW p \in Procs, WriteFile(p) PROVE TicketOnce'
  BY <1>7 DEF WriteFile, Goto, Drawn
<1>8. ASSUME NEW p \in Procs, WriteFileFails(p) PROVE TicketOnce'
  <2>1. CASE born' = born
    BY <1>8, <2>1 DEF WriteFileFails, Finish, Goto, NoJob
  <2>2. CASE \E u \in Uploads : born[u] = None /\ born' = Drawn(u, p)
    BY <1>8, <2>2 DEF WriteFileFails, Finish, Goto, NoJob, Drawn
  <2> QED
    BY <1>8, <2>1, <2>2 DEF WriteFileFails
<1>9. ASSUME NEW p \in Procs, Stage(p) PROVE TicketOnce'
  BY <1>9 DEF Stage, Finish, Goto, NoJob
<1>10. ASSUME NEW p \in Procs, TakeRefused(p) PROVE TicketOnce'
  BY <1>10 DEF TakeRefused, Finish, Goto, NoJob
<1>11. ASSUME NEW p \in Procs, TakeEntries(p) PROVE TicketOnce'
  BY <1>11 DEF TakeEntries, Goto, Removed
<1>12. ASSUME NEW p \in Procs, ReadFile(p) PROVE TicketOnce'
  BY <1>12 DEF ReadFile, Remove
<1>13. ASSUME NEW p \in Procs, ReadFileFails(p) PROVE TicketOnce'
  BY <1>13 DEF ReadFileFails, Finish, Goto, NoJob
<1>14. ASSUME NEW p \in Procs, TakeDone(p) PROVE TicketOnce'
  BY <1>14 DEF TakeDone, Finish, Goto, NoJob
<1>15. ASSUME NEW p \in Procs, PeekReads(p) PROVE TicketOnce'
  BY <1>15 DEF PeekReads, Finish, Goto, NoJob
<1>16. ASSUME NEW p \in Procs, HoldRefused(p) PROVE TicketOnce'
  BY <1>16 DEF HoldRefused, Finish, Goto, NoJob
<1>17. ASSUME NEW p \in Procs, Unstage(p) PROVE TicketOnce'
  BY <1>17 DEF Unstage, Goto, Removed
<1>18. ASSUME NEW p \in Procs, Hold(p) PROVE TicketOnce'
  BY <1>18 DEF Hold, Finish, Goto, NoJob
<1>19. ASSUME NEW p \in Procs, ServeReads(p) PROVE TicketOnce'
  BY <1>19 DEF ServeReads, Finish, Goto, NoJob
<1>20. ASSUME NEW p \in Requests, StartMint(p) PROVE TicketOnce'
  BY <1>20 DEF StartMint, SweepTickets, Begin, NoJob
<1>21. ASSUME NEW p \in Requests, SpendTicket(p) PROVE TicketOnce'
  BY <1>21 DEF SpendTicket, Begin, Spent, NoJob
<1>22. ASSUME NEW p \in Requests, RefuseTicket(p) PROVE TicketOnce'
  BY <1>22 DEF RefuseTicket, Spent
<1>23. ASSUME NEW p \in Requests, StartTake(p) PROVE TicketOnce'
  BY <1>23 DEF StartTake, Begin, NoJob
<1>24. ASSUME NEW p \in Requests, Peek(p) PROVE TicketOnce'
  BY <1>24 DEF Peek, Begin, NoJob
<1>25. ASSUME NEW p \in Requests, StartHold(p) PROVE TicketOnce'
  BY <1>25 DEF StartHold, SweepTickets, Begin, NoJob
<1>26. ASSUME NEW p \in Requests, Serve(p) PROVE TicketOnce'
  BY <1>26 DEF Serve, Begin, NoJob
<1>27. CASE TimerFires
  BY <1>27 DEF TimerFires, SweepTickets, Begin, NoJob
<1>28. CASE Tick
  BY <1>28 DEF Tick
<1>29. CASE Restart
  BY <1>29 DEF Restart, NoJob
<1>30. CASE UNCHANGED vars
  BY <1>30 DEF vars
<1> QED
  BY <1>1, <1>2, <1>3, <1>4, <1>5, <1>6, <1>7, <1>8, <1>9, <1>10, <1>11, <1>12,
     <1>13, <1>14, <1>15, <1>16, <1>17, <1>18, <1>19, <1>20, <1>21, <1>22, <1>23, <1>24,
     <1>25, <1>26, <1>27, <1>28, <1>29, <1>30
     DEF Next, Start, Continue, Sweep, Upload, Take, HoldSteps

\* "Two POSTs with one ticket cannot both win" (upload, take_ticket), whatever
\* the requests and restarts.
THEOREM TicketsAreSpentOnce == Spec => []TicketUsedOnce
<1>1. TicketOnce => TicketUsedOnce
  BY DEF TicketOnce
<1> QED
  BY <1>1, TicketOnceInit, TicketOnceStep, TypedInvariant, PTL DEF Spec

-----------------------------------------------------------------------------
(* Files.                                                                   *)

\* The uploads a request has taken for itself, whether or not it has come to
\* their files yet.
Claims(p) == IF pc[p] \in {"stage", "read", "held"} THEN Names(p) ELSE {}

\* A take names each of its files once and has read some first part of them.
ReadsInOrder ==
    \A p \in Procs : pc[p] = "read" =>
      \A i, j \in 1..Len(job[p].ids) : job[p].ids[i] = job[p].ids[j] => i = j

SweepsOnly ==
    \A p \in Procs : pc[p] \notin {"sweep_held", "unlink"} => gone[p] = {}

\* OneKeeper, with everything a take will come to counted as its own.
StagedAlone ==
    \A u \in Uploads : staged[u] # None =>
      /\ \A h \in Holds : ~HeldAs(h, u)
      /\ \A p \in Procs : u \notin Claims(p) /\ u \notin gone[p]
HeldAlone ==
    \A u \in Uploads, h \in Holds : HeldAs(h, u) =>
      /\ \A g \in Holds : HeldAs(g, u) => g = h
      /\ \A p \in Procs : u \notin Claims(p) /\ u \notin gone[p]
HandsApart ==
    \A p, q \in Procs : p # q =>
      /\ Claims(p) \cap Claims(q) = {}
      /\ Claims(p) \cap gone[q] = {}
      /\ gone[p] \cap gone[q] = {}

\* Nothing is anywhere, and nothing was ever used, under an id not yet drawn.
DrawnFirst ==
    \A u \in Uploads : born[u] = None =>
      /\ u \notin disk
      /\ staged[u] = None
      /\ \A h \in Holds : ~HeldAs(h, u)
      /\ \A p \in Procs : u \notin Claims(p) /\ u \notin gone[p]
      /\ \A v \in Users : consumed[u][v] = 0

\* An upload that can still be used has not been, and is its owner's.
Fresh ==
    \A u \in Uploads :
      /\ staged[u] # None =>
           staged[u].user = born[u].user /\ \A v \in Users : consumed[u][v] = 0
      /\ \A p \in Procs : u \in Claims(p) =>
           job[p].user = born[u].user /\ \A v \in Users : consumed[u][v] = 0

\* A held entry's id has been drawn, so a new one overwrites none.
HeldDrawn == \A h \in Holds : held[h] # None => h \in used

Custody ==
    /\ ReadsInOrder
    /\ SweepsOnly
    /\ StagedAlone
    /\ HeldAlone
    /\ HandsApart
    /\ BytesOnDisk
    /\ DrawnFirst
    /\ Fresh
    /\ UsedOnceByOwner
    /\ HeldDrawn
    /\ NoStrays

ClaimStates == {"stage", "read", "held"}

\* A step of p that touches no file, claims none and lets go of none.
Idles(p) ==
    /\ pc[p] \notin ClaimStates /\ pc'[p] \notin ClaimStates
    /\ gone[p] = {}
    /\ UNCHANGED <<staged, held, disk, gone, born, consumed, leaked>>
    /\ used \subseteq used'
    /\ \A q \in Procs \ {p} : pc'[q] = pc[q] /\ job'[q] = job[q] /\ pos'[q] = pos[q]

LEMMA IdlesKeepsCustody ==
  ASSUME Typed, Custody, NEW p \in Procs, Idles(p)
  PROVE  Custody'
<1>1. \A q \in Procs : Claims(q)' = Claims(q)
  BY DEF Idles, Claims, ClaimStates, Names
<1>2. \A q \in Procs : InHand(q)' = InHand(q)
  BY DEF Idles, InHand, ClaimStates, Names, Unread
<1>3. \A q \in Procs, u \in Uploads : u \in Claims(q) => job'[q].user = job[q].user
  BY DEF Idles, Claims, ClaimStates
<1>4. ReadsInOrder' /\ SweepsOnly'
  BY DEF Idles, ClaimStates, Custody, ReadsInOrder, SweepsOnly
<1>5. StagedAlone' /\ HeldAlone' /\ HandsApart'
  BY <1>1 DEF Idles, Custody, StagedAlone, HeldAlone, HandsApart, HeldAs
<1>6. BytesOnDisk' /\ NoStrays' /\ HeldDrawn'
  BY <1>2 DEF Idles, Custody, BytesOnDisk, NoStrays, HeldDrawn, Kept, HeldAs
<1>7. DrawnFirst' /\ UsedOnceByOwner'
  BY <1>1 DEF Idles, Custody, DrawnFirst, UsedOnceByOwner, HeldAs
<1>8. Fresh'
  BY <1>1, <1>3 DEF Idles, Custody, Fresh
<1> QED
  BY <1>4, <1>5, <1>6, <1>7, <1>8 DEF Custody

LEMMA IdleSteps ==
  ASSUME Typed, Custody, NEW p \in Procs,
         \/ Swept(p)
         \/ Mint(p)
         \/ RefuseBody(p)
         \/ TakeRefused(p)
         \/ PeekReads(p)
         \/ HoldRefused(p)
         \/ ServeReads(p)
         \/ SweepTickets(p, "idle", None, << >>)
         \/ p \in Requests /\ (StartMint(p) \/ SpendTicket(p) \/ RefuseTicket(p) \/ StartTake(p) \/ Peek(p) \/ StartHold(p) \/ Serve(p))
  PROVE  Idles(p)
<1> USE DEF Typed, TypeOK, Custody, SweepsOnly, Idles, ClaimStates, store, history
<1>1. CASE Swept(p)
  BY <1>1 DEF Swept, Goto, NoJob, Job
<1>2. CASE Mint(p)
  BY <1>2 DEF Mint, Finish, Goto, NoJob
<1>3. CASE RefuseBody(p)
  BY <1>3 DEF RefuseBody, Finish, Goto, NoJob
<1>4. CASE TakeRefused(p)
  BY <1>4 DEF TakeRefused, Finish, Goto, NoJob
<1>5. CASE PeekReads(p)
  BY <1>5 DEF PeekReads, Finish, Goto, NoJob
<1>6. CASE HoldRefused(p)
  BY <1>6 DEF HoldRefused, Finish, Goto, NoJob
<1>7. CASE ServeReads(p)
  BY <1>7 DEF ServeReads, Finish, Goto, NoJob
<1>8. CASE SweepTickets(p, "idle", None, << >>)
  BY <1>8 DEF SweepTickets, Begin
<1>9. CASE p \in Requests /\ StartMint(p)
  BY <1>9 DEF StartMint, SweepTickets, Begin
<1>10. CASE p \in Requests /\ SpendTicket(p)
  BY <1>10 DEF SpendTicket, Begin
<1>11. CASE p \in Requests /\ RefuseTicket(p)
  BY <1>11 DEF RefuseTicket
<1>12. CASE p \in Requests /\ StartTake(p)
  BY <1>12 DEF StartTake, Begin
<1>13. CASE p \in Requests /\ Peek(p)
  BY <1>13 DEF Peek, Begin
<1>14. CASE p \in Requests /\ StartHold(p)
  BY <1>14 DEF StartHold, SweepTickets, Begin
<1>15. CASE p \in Requests /\ Serve(p)
  BY <1>15 DEF Serve, Begin
<1> QED
  BY <1>1, <1>2, <1>3, <1>4, <1>5, <1>6, <1>7, <1>8, <1>9, <1>10, <1>11, <1>12, <1>13, <1>14, <1>15

LEMMA OthersKeep ==
  ASSUME Typed, NEW p \in Procs,
         \A q \in Procs \ {p} :
           pc'[q] = pc[q] /\ job'[q] = job[q] /\ pos'[q] = pos[q] /\ gone'[q] = gone[q]
  PROVE  \A q \in Procs \ {p} : Claims(q)' = Claims(q) /\ InHand(q)' = InHand(q)
<1>1. SUFFICES ASSUME NEW q \in Procs \ {p}
               PROVE  Claims(q)' = Claims(q) /\ InHand(q)' = InHand(q)
  OBVIOUS
<1>2. pc'[q] = pc[q] /\ job'[q] = job[q] /\ pos'[q] = pos[q] /\ gone'[q] = gone[q]
  OBVIOUS
<1>3. Names(q)' = Names(q) /\ Unread(q)' = Unread(q)
  BY <1>2, Zenon DEF Names, Unread
<1>4. Claims(q)' = Claims(q)
  BY <1>2, <1>3 DEF Claims
<1>5. InHand(q)' = InHand(q)
  BY <1>2, <1>3, Zenon DEF InHand
<1> QED
  BY <1>4, <1>5

LEMMA OneName ==
  ASSUME Typed, NEW p \in Procs, Len(job[p].ids) = 1
  PROVE  Names(p) = {job[p].ids[1]} /\ job[p].ids[1] \in Uploads
  BY DEF Names, Typed, TypeOK, Job

\* What a request still has in hand it has claimed, or is about to unlink.
LEMMA InHandIsClaimed ==
  ASSUME Typed, Custody, NEW q \in Procs
  PROVE  /\ InHand(q) \subseteq Claims(q) \cup gone[q]
         /\ Claims(q) \subseteq Uploads
  BY DEF InHand, Claims, Names, Unread, Typed, TypeOK, JobOK, Job

LEMMA SweepStagedKeepsCustody ==
  ASSUME Typed, Custody, NEW p \in Procs, SweepStaged(p)
  PROVE  Custody'
<1>1. \A q \in Procs \ {p} :
        pc'[q] = pc[q] /\ job'[q] = job[q] /\ pos'[q] = pos[q] /\ gone'[q] = gone[q]
  BY DEF Typed, TypeOK, SweepStaged, Goto, store, history
<1>2. \A q \in Procs \ {p} : Claims(q)' = Claims(q) /\ InHand(q)' = InHand(q)
  BY <1>1, OthersKeep
<1>3. UNCHANGED <<held, disk, born, consumed, used, leaked>>
  BY DEF SweepStaged, store, history
<1>4. disk \subseteq Uploads /\ \A q \in Procs : Claims(q) \subseteq Uploads
  BY InHandIsClaimed DEF Typed, TypeOK
<1>5. Claims(p) = {} /\ Claims(p)' = {}
  BY DEF SweepStaged, Goto, Typed, TypeOK, Claims, InHand, Custody, SweepsOnly
<1>6. gone[p] = {} /\ InHand(p) = {} /\ gone'[p] \subseteq Uploads /\ InHand(p)' = gone'[p]
  BY DEF SweepStaged, Goto, PastStaged, Typed, TypeOK, Claims, InHand, Custody, SweepsOnly
<1>7. \A u \in Uploads :
        /\ u \in gone'[p] => staged[u] # None /\ staged'[u] = None
        /\ u \notin gone'[p] => staged'[u] = staged[u]
  BY DEF SweepStaged, Removed, PastStaged, Typed, TypeOK
<1>8. ReadsInOrder' /\ SweepsOnly'
  BY <1>1 DEF SweepStaged, Goto, Typed, TypeOK, JobOK, Custody, SweepsOnly, ReadsInOrder, store, history
<1>9. StagedAlone'
  BY <1>1, <1>2, <1>3, <1>5, <1>7 DEF Custody, StagedAlone, HeldAlone, HandsApart, DrawnFirst, HeldAs
<1>10. HeldAlone'
  BY <1>1, <1>2, <1>3, <1>5, <1>7 DEF Custody, StagedAlone, HeldAlone, HandsApart, DrawnFirst, HeldAs
<1>11. HandsApart'
  BY <1>1, <1>2, <1>5, <1>6, <1>7 DEF Custody, StagedAlone, HeldAlone, HandsApart, DrawnFirst
<1>12. BytesOnDisk'
  BY <1>2, <1>3, <1>6, <1>7 DEF Custody, BytesOnDisk, Kept, HeldAs
<1>13. DrawnFirst'
  BY <1>1, <1>2, <1>3, <1>5, <1>7 DEF Custody, DrawnFirst, HeldAs
<1>14. Fresh'
  BY <1>1, <1>2, <1>3, <1>5, <1>7 DEF Custody, Fresh, StagedAlone, HandsApart, DrawnFirst
<1>15. UsedOnceByOwner'
  BY <1>3 DEF Custody, UsedOnceByOwner, Fresh, DrawnFirst
<1>16. HeldDrawn'
  BY <1>3 DEF Custody, HeldDrawn
<1>17. NoStrays'
  BY <1>2, <1>3, <1>4, <1>6, <1>7 DEF Custody, NoStrays, Kept, HeldAs
<1> QED
  BY <1>8, <1>9, <1>10, <1>11, <1>12, <1>13, <1>14, <1>15, <1>16, <1>17 DEF Custody

LEMMA SweepHeldKeepsCustody ==
  ASSUME Typed, Custody, NEW p \in Procs, SweepHeld(p)
  PROVE  Custody'
<1>1. \A q \in Procs \ {p} :
        pc'[q] = pc[q] /\ job'[q] = job[q] /\ pos'[q] = pos[q] /\ gone'[q] = gone[q]
  BY DEF Typed, TypeOK, SweepHeld, Goto, store, history
<1>2. \A q \in Procs \ {p} : Claims(q)' = Claims(q) /\ InHand(q)' = InHand(q)
  BY <1>1, OthersKeep
<1>3. UNCHANGED <<staged, disk, born, consumed, used, leaked>>
  BY DEF SweepHeld, store, history
<1>4. disk \subseteq Uploads /\ \A q \in Procs : Claims(q) \subseteq Uploads
  BY InHandIsClaimed DEF Typed, TypeOK
<1>5. Claims(p) = {} /\ Claims(p)' = {}
  BY DEF SweepHeld, Goto, Typed, TypeOK, Claims, InHand, Custody, SweepsOnly
<1>6. gone'[p] = gone[p] \cup HeldPaths(PastHeld(job[p].at)) /\ InHand(p)' = gone'[p] /\ InHand(p) = gone[p]
  BY DEF SweepHeld, Goto, Typed, TypeOK, Claims, InHand, Custody, SweepsOnly
<1>7. \A u \in Uploads : u \in gone'[p] \ gone[p] => \E h \in Holds : HeldAs(h, u)
  BY <1>6 DEF HeldPaths, PastHeld, HeldAs
<1>8. \A h \in Holds, u \in Uploads : HeldAs(h, u)' => HeldAs(h, u) /\ h \notin PastHeld(job[p].at)
  BY DEF SweepHeld, HeldAs, Typed, TypeOK
<1>9. \A u \in Uploads, h \in Holds : u \in HeldPaths(PastHeld(job[p].at)) /\ HeldAs(h, u)' => FALSE
  BY <1>8 DEF HeldPaths, PastHeld, HeldAs, Custody, StagedAlone, HeldAlone, HandsApart
<1>10. gone'[p] \subseteq Uploads
  BY <1>6 DEF HeldPaths, PastHeld, Held, Typed, TypeOK
<1>11. \A h \in Holds : held'[h] # None => held[h] # None
  BY DEF SweepHeld, Typed, TypeOK
<1>12. \A h \in Holds, u \in Uploads : HeldAs(h, u) => HeldAs(h, u)' \/ u \in gone'[p]
  BY <1>6 DEF SweepHeld, HeldAs, HeldPaths, PastHeld, Typed, TypeOK
<1>13. ReadsInOrder' /\ SweepsOnly'
  BY <1>1, <1>2, <1>3, <1>4, <1>5 DEF SweepHeld, Goto, Typed, TypeOK, JobOK, Custody, SweepsOnly, ReadsInOrder, store, history
<1>14. StagedAlone'
  BY <1>1, <1>2, <1>3, <1>4, <1>5, <1>7, <1>8 DEF Custody, StagedAlone, HeldAlone, HandsApart, DrawnFirst
<1>15. HeldAlone'
  BY <1>1, <1>2, <1>3, <1>4, <1>5, <1>6, <1>8, <1>9 DEF Custody, StagedAlone, HeldAlone, HandsApart, DrawnFirst
<1>16. HandsApart'
  BY <1>1, <1>2, <1>3, <1>4, <1>5, <1>7, <1>10 DEF Custody, StagedAlone, HeldAlone, HandsApart, DrawnFirst
<1>17. BytesOnDisk'
  BY <1>1, <1>2, <1>3, <1>4, <1>5, <1>6, <1>7, <1>8 DEF Custody, BytesOnDisk, Kept
<1>18. DrawnFirst'
  BY <1>1, <1>2, <1>3, <1>4, <1>5, <1>7, <1>8 DEF Custody, DrawnFirst
<1>19. Fresh'
  BY <1>1, <1>2, <1>3, <1>4, <1>5 DEF Custody, Fresh, StagedAlone, HandsApart, DrawnFirst
<1>20. UsedOnceByOwner'
  BY <1>1, <1>2, <1>3, <1>4, <1>5 DEF Custody, UsedOnceByOwner, Fresh, DrawnFirst
<1>21. HeldDrawn'
  BY <1>1, <1>2, <1>3, <1>4, <1>5, <1>11 DEF Custody, HeldDrawn
<1>22. NoStrays'
  BY <1>1, <1>2, <1>3, <1>4, <1>5, <1>6, <1>12 DEF Custody, NoStrays, Kept
<1> QED
  BY <1>13, <1>14, <1>15, <1>16, <1>17, <1>18, <1>19, <1>20, <1>21, <1>22 DEF Custody

LEMMA UnlinkKeepsCustody ==
  ASSUME Typed, Custody, NEW p \in Procs, Unlink(p)
  PROVE  Custody'
<1>1. \A q \in Procs \ {p} :
        pc'[q] = pc[q] /\ job'[q] = job[q] /\ pos'[q] = pos[q] /\ gone'[q] = gone[q]
  BY DEF Typed, TypeOK, Unlink, store, history
<1>2. \A q \in Procs \ {p} : Claims(q)' = Claims(q) /\ InHand(q)' = InHand(q)
  BY <1>1, OthersKeep
<1>3. UNCHANGED <<staged, held, born, consumed, used>>
  BY DEF Unlink, store, history
<1>4. disk \subseteq Uploads /\ \A q \in Procs : Claims(q) \subseteq Uploads
  BY InHandIsClaimed DEF Typed, TypeOK
<1>5. Claims(p) = {} /\ Claims(p)' = {}
  BY DEF Unlink, Claims
<1>6. InHand(p)' = gone'[p] /\ InHand(p) = gone[p]
  BY DEF Unlink, InHand
<1>7. PICK u \in gone[p] :
        /\ gone'[p] = gone[p] \ {u}
        /\ disk' \subseteq disk /\ disk \ {u} \subseteq disk'
        /\ leaked \subseteq leaked' /\ (u \in disk' => u \in leaked')
  BY DEF Unlink, Remove, Typed, TypeOK
<1>8. ReadsInOrder' /\ SweepsOnly'
  BY <1>1 DEF Unlink, Typed, TypeOK, JobOK, Custody, SweepsOnly, ReadsInOrder, store, history
<1>9. StagedAlone'
  BY <1>1, <1>2, <1>3, <1>5, <1>7 DEF Custody, StagedAlone, HeldAlone, HandsApart, DrawnFirst, HeldAs
<1>10. HeldAlone'
  BY <1>1, <1>2, <1>3, <1>5, <1>7 DEF Custody, StagedAlone, HeldAlone, HandsApart, DrawnFirst, HeldAs
<1>11. HandsApart'
  BY <1>1, <1>2, <1>5, <1>7 DEF Custody, StagedAlone, HeldAlone, HandsApart, DrawnFirst
<1>12. BytesOnDisk'
  <2>1. ASSUME NEW w \in Uploads, Kept(w)' PROVE Kept(w) /\ w # u
    <3>1. CASE \E q \in Procs : w \in InHand(q)'
      BY <1>1, <1>2, <1>6, <1>7, InHandIsClaimed, <3>1 DEF Custody, StagedAlone, HeldAlone, HandsApart, Kept, HeldAs
    <3>2. CASE staged'[w] # None \/ \E h \in Holds : HeldAs(h, w)'
      BY <1>1, <1>2, <1>3, <3>2 DEF Custody, StagedAlone, HeldAlone, HandsApart, Kept, HeldAs
    <3> QED
      BY <2>1, <3>1, <3>2 DEF Kept
  <2> QED
    BY <1>1, <1>2, <1>3, <1>4, <1>5, <1>6, <1>7, <2>1 DEF Custody, BytesOnDisk
<1>13. DrawnFirst'
  BY <1>1, <1>2, <1>3, <1>5, <1>7 DEF Custody, DrawnFirst, HeldAs
<1>14. Fresh'
  BY <1>1, <1>2, <1>3, <1>5 DEF Custody, Fresh, StagedAlone, HandsApart, DrawnFirst
<1>15. UsedOnceByOwner'
  BY <1>3 DEF Custody, UsedOnceByOwner, Fresh, DrawnFirst
<1>16. HeldDrawn'
  BY <1>3 DEF Custody, HeldDrawn
<1>17. NoStrays'
  BY <1>2, <1>3, <1>6, <1>7 DEF Custody, NoStrays, Kept, HeldAs
<1> QED
  BY <1>8, <1>9, <1>10, <1>11, <1>12, <1>13, <1>14, <1>15, <1>16, <1>17 DEF Custody

LEMMA WriteFileKeepsCustody ==
  ASSUME Typed, Custody, NEW p \in Procs, WriteFile(p)
  PROVE  Custody'
<1>1. \A q \in Procs \ {p} :
        pc'[q] = pc[q] /\ job'[q] = job[q] /\ pos'[q] = pos[q] /\ gone'[q] = gone[q]
  BY DEF Typed, TypeOK, WriteFile, Goto, store, history
<1>2. \A q \in Procs \ {p} : Claims(q)' = Claims(q) /\ InHand(q)' = InHand(q)
  BY <1>1, OthersKeep
<1>3. UNCHANGED <<staged, held, gone, consumed, used, leaked>>
  BY DEF WriteFile, store, history
<1>4. disk \subseteq Uploads /\ \A q \in Procs : Claims(q) \subseteq Uploads
  BY InHandIsClaimed DEF Typed, TypeOK
<1>5. PICK u \in Uploads :
        born[u] = None /\ born' = Drawn(u, p) /\ disk' = disk \cup {u}
        /\ job' = [job EXCEPT ![p].ids = <<u>>]
  BY DEF WriteFile
<1>6. job'[p] = [job[p] EXCEPT !.ids = <<u>>]
  BY <1>5 DEF Typed, TypeOK
<1>7. job'[p].ids = <<u>> /\ job'[p].user = job[p].user
  BY <1>6 DEF Typed, TypeOK, Job
<1>8. Claims(p) = {} /\ Claims(p)' = {u}
  BY <1>7 DEF WriteFile, Goto, Typed, TypeOK, Claims, Names
<1>9. gone[p] = {} /\ InHand(p) = {} /\ InHand(p)' = Claims(p)'
  BY DEF WriteFile, Goto, Typed, TypeOK, Claims, InHand, Custody, SweepsOnly
<1>10. born'[u].user = job[p].user /\ born'[u] # None
  BY <1>5, ConstantsAssumption DEF Drawn, Typed, TypeOK, JobOK, WriteFile, Goto
<1>11. \A w \in Uploads \ {u} : born'[w] = born[w]
  BY <1>5 DEF Drawn, Typed, TypeOK
<1>12. ReadsInOrder' /\ SweepsOnly'
  BY <1>1, <1>2, <1>3, <1>4 DEF WriteFile, Goto, Typed, TypeOK, JobOK, Custody, SweepsOnly, ReadsInOrder, store, history
<1>13. StagedAlone'
  BY <1>1, <1>2, <1>3, <1>4, <1>5, <1>8 DEF Custody, StagedAlone, HeldAlone, HandsApart, DrawnFirst, HeldAs
<1>14. HeldAlone'
  BY <1>1, <1>2, <1>3, <1>4, <1>5, <1>8 DEF Custody, StagedAlone, HeldAlone, HandsApart, DrawnFirst, HeldAs
<1>15. HandsApart'
  BY <1>1, <1>2, <1>3, <1>4, <1>5, <1>8 DEF Custody, StagedAlone, HeldAlone, HandsApart, DrawnFirst
<1>16. BytesOnDisk'
  BY <1>1, <1>2, <1>3, <1>4, <1>5, <1>8, <1>9 DEF Custody, BytesOnDisk, Kept, HeldAs
<1>17. DrawnFirst'
  BY <1>1, <1>2, <1>3, <1>4, <1>5, <1>8, <1>10, <1>11 DEF Custody, DrawnFirst, HeldAs
<1>18. Fresh'
  BY <1>1, <1>2, <1>3, <1>4, <1>5, <1>8, <1>10, <1>11 DEF Custody, Fresh, StagedAlone, HandsApart, DrawnFirst
<1>19. UsedOnceByOwner'
  BY <1>1, <1>2, <1>3, <1>4, <1>5, <1>11 DEF Custody, UsedOnceByOwner, Fresh, DrawnFirst
<1>20. HeldDrawn'
  BY <1>1, <1>2, <1>3, <1>4 DEF Custody, HeldDrawn
<1>21. NoStrays'
  BY <1>1, <1>2, <1>3, <1>4, <1>5, <1>8, <1>9 DEF Custody, NoStrays, Kept, HeldAs
<1> QED
  BY <1>12, <1>13, <1>14, <1>15, <1>16, <1>17, <1>18, <1>19, <1>20, <1>21 DEF Custody

LEMMA WriteFileFailsKeepsCustody ==
  ASSUME Typed, Custody, NEW p \in Procs, WriteFileFails(p)
  PROVE  Custody'
<1>1. \A q \in Procs \ {p} :
        pc'[q] = pc[q] /\ job'[q] = job[q] /\ pos'[q] = pos[q] /\ gone'[q] = gone[q]
  BY DEF Typed, TypeOK, WriteFileFails, Finish, Goto, store, history
<1>2. \A q \in Procs \ {p} : Claims(q)' = Claims(q) /\ InHand(q)' = InHand(q)
  BY <1>1, OthersKeep
<1>3. UNCHANGED <<staged, held, gone, consumed, used>>
  BY DEF WriteFileFails, store, history
<1>4. disk \subseteq Uploads /\ \A q \in Procs : Claims(q) \subseteq Uploads
  BY InHandIsClaimed DEF Typed, TypeOK
<1>5. Claims(p) = {} /\ Claims(p)' = {}
  BY DEF WriteFileFails, Finish, Goto, Typed, TypeOK, Claims, InHand, Custody, SweepsOnly
<1>6. gone[p] = {} /\ InHand(p) = {} /\ InHand(p)' = {}
  BY DEF WriteFileFails, Finish, Goto, Typed, TypeOK, Claims, InHand, Custody, SweepsOnly
<1>7. disk \subseteq disk'
  BY DEF WriteFileFails
<1>8. \A u \in Uploads : born[u] # None => born'[u] = born[u]
  BY DEF WriteFileFails, Drawn, Typed, TypeOK
<1>9. \A u \in Uploads : u \in disk' => u \in disk \/ born'[u] # None
  BY ConstantsAssumption DEF WriteFileFails, Finish, Goto, Drawn, Typed, TypeOK, JobOK
<1>10. leaked \subseteq leaked' /\ disk' \subseteq disk \cup leaked'
  BY DEF WriteFileFails
<1>11. ReadsInOrder' /\ SweepsOnly'
  BY <1>1, <1>2, <1>3 DEF WriteFileFails, Finish, Goto, Typed, TypeOK, JobOK, Custody, SweepsOnly, ReadsInOrder, store, history
<1>12. StagedAlone'
  BY <1>1, <1>2, <1>3, <1>5 DEF Custody, StagedAlone, HeldAlone, HandsApart, DrawnFirst, HeldAs
<1>13. HeldAlone'
  BY <1>1, <1>2, <1>3, <1>5 DEF Custody, StagedAlone, HeldAlone, HandsApart, DrawnFirst, HeldAs
<1>14. HandsApart'
  BY <1>1, <1>2, <1>3, <1>5 DEF Custody, StagedAlone, HeldAlone, HandsApart, DrawnFirst
<1>15. BytesOnDisk'
  BY <1>1, <1>2, <1>3, <1>6, <1>7 DEF Custody, BytesOnDisk, Kept, HeldAs
<1>16. DrawnFirst'
  BY <1>1, <1>2, <1>3, <1>5, <1>8, <1>9 DEF Custody, DrawnFirst, HeldAs
<1>17. Fresh'
  BY <1>1, <1>2, <1>3, <1>5, <1>8 DEF Custody, Fresh, StagedAlone, HandsApart, DrawnFirst
<1>18. UsedOnceByOwner'
  BY <1>1, <1>2, <1>3, <1>8 DEF Custody, UsedOnceByOwner, Fresh, DrawnFirst
<1>19. HeldDrawn'
  BY <1>1, <1>2, <1>3 DEF Custody, HeldDrawn
<1>20. NoStrays'
  BY <1>1, <1>2, <1>3, <1>6, <1>10 DEF Custody, NoStrays, Kept, HeldAs
<1> QED
  BY <1>11, <1>12, <1>13, <1>14, <1>15, <1>16, <1>17, <1>18, <1>19, <1>20 DEF Custody

LEMMA StageKeepsCustody ==
  ASSUME Typed, Custody, NEW p \in Procs, Stage(p)
  PROVE  Custody'
<1>1. \A q \in Procs \ {p} :
        pc'[q] = pc[q] /\ job'[q] = job[q] /\ pos'[q] = pos[q] /\ gone'[q] = gone[q]
  BY DEF Typed, TypeOK, Stage, Finish, Goto, store, history
<1>2. \A q \in Procs \ {p} : Claims(q)' = Claims(q) /\ InHand(q)' = InHand(q)
  BY <1>1, OthersKeep
<1>3. UNCHANGED <<held, disk, gone, born, consumed, used, leaked>>
  BY DEF Stage, store, history
<1>4. disk \subseteq Uploads /\ \A q \in Procs : Claims(q) \subseteq Uploads
  BY InHandIsClaimed DEF Typed, TypeOK
<1>5. Names(p) = {job[p].ids[1]} /\ job[p].ids[1] \in Uploads
  BY OneName DEF Stage, Finish, Goto, Typed, JobOK
<1>6. Claims(p) = {job[p].ids[1]} /\ Claims(p)' = {}
  BY <1>5 DEF Stage, Finish, Goto, Typed, TypeOK, Claims, InHand, Custody, SweepsOnly
<1>7. gone[p] = {} /\ InHand(p) = {job[p].ids[1]} /\ InHand(p)' = {}
  BY <1>5 DEF Stage, Finish, Goto, Typed, TypeOK, Claims, InHand, Custody, SweepsOnly
<1>8. /\ staged'[job[p].ids[1]].user = job[p].user
      /\ staged'[job[p].ids[1]] # None
      /\ \A w \in Uploads \ {job[p].ids[1]} : staged'[w] = staged[w]
  BY <1>5, ConstantsAssumption DEF Stage, Finish, Goto, Typed, TypeOK, JobOK, Job
<1>9. ReadsInOrder' /\ SweepsOnly'
  BY <1>1 DEF Stage, Finish, Goto, Typed, TypeOK, JobOK, Custody, SweepsOnly, ReadsInOrder, store, history
<1>10. StagedAlone'
  BY <1>1, <1>2, <1>3, <1>6, <1>7, <1>8 DEF Custody, StagedAlone, HeldAlone, HandsApart, DrawnFirst, HeldAs
<1>11. HeldAlone'
  BY <1>1, <1>2, <1>3, <1>6 DEF Custody, StagedAlone, HeldAlone, HandsApart, DrawnFirst, HeldAs
<1>12. HandsApart'
  BY <1>1, <1>2, <1>3, <1>6 DEF Custody, StagedAlone, HeldAlone, HandsApart, DrawnFirst
<1>13. BytesOnDisk'
  BY <1>1, <1>2, <1>3, <1>7, <1>8 DEF Custody, BytesOnDisk, Kept, HeldAs
<1>14. DrawnFirst'
  BY <1>1, <1>2, <1>3, <1>6, <1>8 DEF Custody, DrawnFirst, HeldAs
<1>15. Fresh'
  BY <1>1, <1>2, <1>3, <1>6, <1>8 DEF Custody, Fresh, StagedAlone, HandsApart, DrawnFirst
<1>16. UsedOnceByOwner'
  BY <1>1, <1>3 DEF Custody, UsedOnceByOwner, Fresh, DrawnFirst
<1>17. HeldDrawn'
  BY <1>1, <1>3 DEF Custody, HeldDrawn
<1>18. NoStrays'
  BY <1>1, <1>2, <1>3, <1>4, <1>7, <1>8 DEF Custody, NoStrays, Kept, HeldAs
<1> QED
  BY <1>9, <1>10, <1>11, <1>12, <1>13, <1>14, <1>15, <1>16, <1>17, <1>18 DEF Custody

LEMMA TakeEntriesKeepsCustody ==
  ASSUME Typed, Custody, NEW p \in Procs, TakeEntries(p)
  PROVE  Custody'
<1>1. \A q \in Procs \ {p} :
        pc'[q] = pc[q] /\ job'[q] = job[q] /\ pos'[q] = pos[q] /\ gone'[q] = gone[q]
  BY DEF Typed, TypeOK, TakeEntries, Goto, store, history
<1>2. \A q \in Procs \ {p} : Claims(q)' = Claims(q) /\ InHand(q)' = InHand(q)
  BY <1>1, OthersKeep
<1>3. UNCHANGED <<held, disk, gone, born, consumed, used, leaked>>
  BY DEF TakeEntries, store, history
<1>4. disk \subseteq Uploads /\ \A q \in Procs : Claims(q) \subseteq Uploads
  BY InHandIsClaimed DEF Typed, TypeOK
<1>5. job'[p] = job[p] /\ Names(p)' = Names(p) /\ Unread(p)' = Names(p) /\ gone[p] = {}
  BY DEF TakeEntries, Goto, Names, Unread, Typed, TypeOK, Custody, SweepsOnly
<1>6. Claims(p) = {} /\ Claims(p)' = Names(p)
  BY <1>5 DEF TakeEntries, Goto, Typed, TypeOK, Claims, InHand, Custody, SweepsOnly
<1>7. InHand(p) = {} /\ InHand(p)' = Names(p)
  BY <1>5 DEF TakeEntries, Goto, Typed, TypeOK, Claims, InHand, Custody, SweepsOnly
<1>8. Names(p) \subseteq Uploads
  BY DEF Names, Typed, TypeOK, Job
<1>9. \A u \in Names(p) : staged[u] # None /\ staged[u].user = job[p].user
  BY DEF TakeEntries, Found, Names
<1>10. \A u \in Uploads : IF u \in Names(p) THEN staged'[u] = None ELSE staged'[u] = staged[u]
  BY DEF TakeEntries, Removed
<1>11. ReadsInOrder' /\ SweepsOnly'
  <2>1. \A i, j \in 1..Len(job[p].ids) : job[p].ids[i] = job[p].ids[j] => i = j
    BY DEF TakeEntries, Found
  <2>2. UNCHANGED <<job, gone>> /\ pc'[p] = "read"
    BY DEF TakeEntries, Goto, Typed, TypeOK
  <2> QED
    BY <1>1, <1>5, <2>1, <2>2 DEF Custody, SweepsOnly, ReadsInOrder
<1>12. StagedAlone'
  BY <1>1, <1>2, <1>3, <1>6, <1>10 DEF Custody, StagedAlone, HeldAlone, HandsApart, DrawnFirst, HeldAs
<1>13. HeldAlone'
  BY <1>1, <1>2, <1>3, <1>6, <1>9 DEF Custody, StagedAlone, HeldAlone, HandsApart, DrawnFirst, HeldAs
<1>14. HandsApart'
  BY <1>1, <1>2, <1>3, <1>6, <1>8, <1>9 DEF Custody, StagedAlone, HeldAlone, HandsApart, DrawnFirst
<1>15. BytesOnDisk'
  BY <1>1, <1>2, <1>3, <1>7, <1>9, <1>10 DEF Custody, BytesOnDisk, Kept, HeldAs
<1>16. DrawnFirst'
  BY <1>1, <1>2, <1>3, <1>6, <1>9, <1>10 DEF Custody, DrawnFirst, HeldAs
<1>17. Fresh'
  BY <1>1, <1>2, <1>3, <1>5, <1>6, <1>9, <1>10 DEF Custody, Fresh, StagedAlone, HandsApart, DrawnFirst
<1>18. UsedOnceByOwner'
  BY <1>1, <1>2, <1>3 DEF Custody, UsedOnceByOwner, Fresh, DrawnFirst
<1>19. HeldDrawn'
  BY <1>1, <1>2, <1>3 DEF Custody, HeldDrawn
<1>20. NoStrays'
  BY <1>1, <1>2, <1>3, <1>4, <1>7, <1>10 DEF Custody, NoStrays, Kept, HeldAs
<1> QED
  BY <1>11, <1>12, <1>13, <1>14, <1>15, <1>16, <1>17, <1>18, <1>19, <1>20 DEF Custody

LEMMA ReadFileKeepsCustody ==
  ASSUME Typed, Custody, NEW p \in Procs, ReadFile(p)
  PROVE  Custody'
<1>1. \A q \in Procs \ {p} :
        pc'[q] = pc[q] /\ job'[q] = job[q] /\ pos'[q] = pos[q] /\ gone'[q] = gone[q]
  BY DEF Typed, TypeOK, ReadFile, store, history
<1>2. \A q \in Procs \ {p} : Claims(q)' = Claims(q) /\ InHand(q)' = InHand(q)
  BY <1>1, OthersKeep
<1>3. UNCHANGED <<staged, held, gone, born, consumed, job, used>>
  BY DEF ReadFile, store, history
<1>4. disk \subseteq Uploads /\ \A q \in Procs : Claims(q) \subseteq Uploads
  BY InHandIsClaimed DEF Typed, TypeOK
<1>5. Claims(p)' = Claims(p) /\ gone[p] = {}
  BY DEF ReadFile, Claims, Names, Custody, SweepsOnly
<1>6. pc[p] = "read" /\ pos[p] \in 1..Len(job[p].ids) /\ pos'[p] = pos[p] + 1 /\ pc'[p] = "read"
  BY DEF ReadFile, Typed, TypeOK, JobOK, Job
<1>7. InHand(p) = Unread(p) /\ InHand(p)' = Unread(p)'
  BY <1>6 DEF InHand
<1>8. Unread(p)' = Unread(p) \ {job[p].ids[pos[p]]} /\ job[p].ids[pos[p]] \in Unread(p)
  BY <1>3, <1>6 DEF Unread, Typed, TypeOK, Job, Custody, ReadsInOrder
<1>9. /\ job[p].ids[pos[p]] \in Claims(p)
      /\ disk' \subseteq disk /\ disk \ {job[p].ids[pos[p]]} \subseteq disk'
      /\ leaked \subseteq leaked'
      /\ job[p].ids[pos[p]] \in disk' => job[p].ids[pos[p]] \in leaked'
  BY <1>6 DEF ReadFile, Remove, Claims, Names
<1>10. ReadsInOrder' /\ SweepsOnly'
  BY <1>1, <1>2 DEF ReadFile, Typed, TypeOK, JobOK, Custody, SweepsOnly, ReadsInOrder, store, history
<1>11. StagedAlone'
  BY <1>1, <1>2, <1>3, <1>5 DEF Custody, StagedAlone, HeldAlone, HandsApart, DrawnFirst, HeldAs
<1>12. HeldAlone'
  BY <1>1, <1>2, <1>3, <1>5 DEF Custody, StagedAlone, HeldAlone, HandsApart, DrawnFirst, HeldAs
<1>13. HandsApart'
  BY <1>1, <1>2, <1>3, <1>5 DEF Custody, StagedAlone, HeldAlone, HandsApart, DrawnFirst
<1>14. BytesOnDisk'
  <2>1. ASSUME NEW w \in Uploads, Kept(w)' PROVE Kept(w) /\ w # job[p].ids[pos[p]]
    <3>1. CASE \E q \in Procs : w \in InHand(q)'
      BY <1>1, <1>2, <1>3, <1>4, <1>7, <1>8, InHandIsClaimed, <3>1 DEF Custody, StagedAlone, HeldAlone, HandsApart, Kept, HeldAs
    <3>2. CASE staged'[w] # None \/ \E h \in Holds : HeldAs(h, w)'
      BY <1>1, <1>2, <1>3, <1>4, <1>9, <3>2 DEF Custody, StagedAlone, HeldAlone, HandsApart, Kept, HeldAs
    <3> QED
      BY <2>1, <3>1, <3>2 DEF Kept
  <2> QED
    BY <1>1, <1>2, <1>3, <1>4, <1>5, <1>6, <1>7, <1>8, <1>9, <2>1 DEF Custody, BytesOnDisk
<1>15. DrawnFirst'
  BY <1>1, <1>2, <1>3, <1>5, <1>9 DEF Custody, DrawnFirst, HeldAs
<1>16. Fresh'
  BY <1>1, <1>2, <1>3, <1>5 DEF Custody, Fresh, StagedAlone, HandsApart, DrawnFirst
<1>17. UsedOnceByOwner'
  BY <1>1, <1>2, <1>3 DEF Custody, UsedOnceByOwner, Fresh, DrawnFirst
<1>18. HeldDrawn'
  BY <1>1, <1>2, <1>3 DEF Custody, HeldDrawn
<1>19. NoStrays'
  BY <1>1, <1>2, <1>3, <1>7, <1>8, <1>9 DEF Custody, NoStrays, Kept, HeldAs
<1> QED
  BY <1>10, <1>11, <1>12, <1>13, <1>14, <1>15, <1>16, <1>17, <1>18, <1>19 DEF Custody

LEMMA ReadFileFailsKeepsCustody ==
  ASSUME Typed, Custody, NEW p \in Procs, ReadFileFails(p)
  PROVE  Custody'
<1>1. \A q \in Procs \ {p} :
        pc'[q] = pc[q] /\ job'[q] = job[q] /\ pos'[q] = pos[q] /\ gone'[q] = gone[q]
  BY DEF Typed, TypeOK, ReadFileFails, Finish, Goto, store, history
<1>2. \A q \in Procs \ {p} : Claims(q)' = Claims(q) /\ InHand(q)' = InHand(q)
  BY <1>1, OthersKeep
<1>3. UNCHANGED <<staged, held, disk, gone, born, consumed, used>>
  BY DEF ReadFileFails, store, history
<1>4. disk \subseteq Uploads /\ \A q \in Procs : Claims(q) \subseteq Uploads
  BY InHandIsClaimed DEF Typed, TypeOK
<1>5. Claims(p)' = {} /\ InHand(p)' = {} /\ gone[p] = {}
  BY DEF ReadFileFails, Finish, Goto, Typed, TypeOK, Claims, InHand, Custody, SweepsOnly
<1>6. leaked' = leaked \cup InHand(p)
  BY DEF ReadFileFails, Finish, Goto, InHand
<1>7. ReadsInOrder' /\ SweepsOnly'
  BY <1>1 DEF ReadFileFails, Finish, Goto, Typed, TypeOK, JobOK, Custody, SweepsOnly, ReadsInOrder, store, history
<1>8. StagedAlone'
  BY <1>2, <1>3, <1>5 DEF Custody, StagedAlone, HeldAlone, HandsApart, DrawnFirst, HeldAs
<1>9. HeldAlone'
  BY <1>2, <1>3, <1>5 DEF Custody, StagedAlone, HeldAlone, HandsApart, DrawnFirst, HeldAs
<1>10. HandsApart'
  BY <1>2, <1>3, <1>5 DEF Custody, StagedAlone, HeldAlone, HandsApart, DrawnFirst
<1>11. BytesOnDisk'
  BY <1>2, <1>3, <1>5 DEF Custody, BytesOnDisk, Kept, HeldAs
<1>12. DrawnFirst'
  BY <1>2, <1>3, <1>5 DEF Custody, DrawnFirst, HeldAs
<1>13. Fresh'
  BY <1>1, <1>2, <1>3, <1>5 DEF Custody, Fresh, StagedAlone, HandsApart, DrawnFirst
<1>14. UsedOnceByOwner'
  BY <1>3 DEF Custody, UsedOnceByOwner, Fresh, DrawnFirst
<1>15. HeldDrawn'
  BY <1>3 DEF Custody, HeldDrawn
<1>16. NoStrays'
  BY <1>2, <1>3, <1>6 DEF Custody, NoStrays, Kept, HeldAs
<1> QED
  BY <1>7, <1>8, <1>9, <1>10, <1>11, <1>12, <1>13, <1>14, <1>15, <1>16 DEF Custody

LEMMA TakeDoneKeepsCustody ==
  ASSUME Typed, Custody, NEW p \in Procs, TakeDone(p)
  PROVE  Custody'
<1>1. \A q \in Procs \ {p} :
        pc'[q] = pc[q] /\ job'[q] = job[q] /\ pos'[q] = pos[q] /\ gone'[q] = gone[q]
  BY DEF Typed, TypeOK, TakeDone, Finish, Goto, store, history
<1>2. \A q \in Procs \ {p} : Claims(q)' = Claims(q) /\ InHand(q)' = InHand(q)
  BY <1>1, OthersKeep
<1>3. UNCHANGED <<staged, held, disk, gone, born, used, leaked>>
  BY DEF TakeDone, store, history
<1>4. disk \subseteq Uploads /\ \A q \in Procs : Claims(q) \subseteq Uploads
  BY InHandIsClaimed DEF Typed, TypeOK
<1>5. Claims(p) = Names(p) /\ Claims(p)' = {} /\ InHand(p)' = {} /\ gone[p] = {}
  BY DEF TakeDone, Finish, Goto, Typed, TypeOK, Claims, InHand, Custody, SweepsOnly
<1>6. job[p].user \in Users
  BY DEF TakeDone, Finish, Goto, Typed, JobOK
<1>7. \A u \in Uploads, v \in Users :
        consumed'[u][v] = IF u \in Names(p) /\ v = job[p].user THEN consumed[u][v] + 1
                                                             ELSE consumed[u][v]
  BY <1>6 DEF TakeDone, Typed, TypeOK
<1>8. InHand(p) = {}
  BY DEF TakeDone, Finish, Goto, InHand, Unread, Typed, TypeOK, JobOK, Job
<1>9. ReadsInOrder' /\ SweepsOnly'
  BY <1>1 DEF TakeDone, Finish, Goto, Typed, TypeOK, JobOK, Custody, SweepsOnly, ReadsInOrder, store, history
<1>10. StagedAlone'
  BY <1>1, <1>2, <1>3, <1>5 DEF Custody, StagedAlone, HeldAlone, HandsApart, DrawnFirst, HeldAs
<1>11. HeldAlone'
  BY <1>1, <1>2, <1>3, <1>5 DEF Custody, StagedAlone, HeldAlone, HandsApart, DrawnFirst, HeldAs
<1>12. HandsApart'
  BY <1>1, <1>2, <1>3, <1>5 DEF Custody, StagedAlone, HeldAlone, HandsApart, DrawnFirst
<1>13. BytesOnDisk'
  BY <1>1, <1>2, <1>3, <1>5 DEF Custody, BytesOnDisk, Kept, HeldAs
<1>14. DrawnFirst'
  BY <1>1, <1>2, <1>3, <1>5, <1>7 DEF Custody, DrawnFirst, HeldAs
<1>15. Fresh'
  BY <1>1, <1>2, <1>3, <1>5, <1>7 DEF Custody, Fresh, StagedAlone, HandsApart, DrawnFirst
<1>16. UsedOnceByOwner'
  BY <1>1, <1>3, <1>5, <1>7 DEF Custody, UsedOnceByOwner, Fresh, DrawnFirst
<1>17. HeldDrawn'
  BY <1>1, <1>3 DEF Custody, HeldDrawn
<1>18. NoStrays'
  BY <1>1, <1>2, <1>3, <1>8 DEF Custody, NoStrays, Kept, HeldAs
<1> QED
  BY <1>9, <1>10, <1>11, <1>12, <1>13, <1>14, <1>15, <1>16, <1>17, <1>18 DEF Custody

LEMMA UnstageKeepsCustody ==
  ASSUME Typed, Custody, NEW p \in Procs, Unstage(p)
  PROVE  Custody'
<1>1. \A q \in Procs \ {p} :
        pc'[q] = pc[q] /\ job'[q] = job[q] /\ pos'[q] = pos[q] /\ gone'[q] = gone[q]
  BY DEF Typed, TypeOK, Unstage, Goto, store, history
<1>2. \A q \in Procs \ {p} : Claims(q)' = Claims(q) /\ InHand(q)' = InHand(q)
  BY <1>1, OthersKeep
<1>3. UNCHANGED <<held, disk, gone, born, consumed, job, used, leaked>>
  BY DEF Unstage, store, history
<1>4. disk \subseteq Uploads /\ \A q \in Procs : Claims(q) \subseteq Uploads
  BY InHandIsClaimed DEF Typed, TypeOK
<1>5. Names(p)' = Names(p) /\ gone[p] = {}
  BY DEF Unstage, Goto, Names, Typed, TypeOK, Custody, SweepsOnly
<1>6. Claims(p) = {} /\ Claims(p)' = Names(p)
  BY <1>5 DEF Unstage, Goto, Typed, TypeOK, Claims, InHand, Custody, SweepsOnly
<1>7. InHand(p) = {} /\ InHand(p)' = Names(p)
  BY <1>5 DEF Unstage, Goto, Typed, TypeOK, Claims, InHand, Custody, SweepsOnly
<1>8. Names(p) \subseteq Uploads
  BY DEF Names, Typed, TypeOK, Job
<1>9. \A u \in Names(p) : staged[u] # None /\ staged[u].user = job[p].user
  BY DEF Unstage, Found, Names
<1>10. \A u \in Uploads : IF u \in Names(p) THEN staged'[u] = None ELSE staged'[u] = staged[u]
  BY DEF Unstage, Removed
<1>11. ReadsInOrder' /\ SweepsOnly'
  BY <1>1, <1>2, <1>3, <1>7 DEF Unstage, Goto, Typed, TypeOK, JobOK, Custody, SweepsOnly, ReadsInOrder, store, history
<1>12. StagedAlone'
  BY <1>1, <1>2, <1>3, <1>6, <1>10 DEF Custody, StagedAlone, HeldAlone, HandsApart, DrawnFirst, HeldAs
<1>13. HeldAlone'
  BY <1>1, <1>2, <1>3, <1>6, <1>9 DEF Custody, StagedAlone, HeldAlone, HandsApart, DrawnFirst, HeldAs
<1>14. HandsApart'
  BY <1>1, <1>2, <1>3, <1>6, <1>8, <1>9 DEF Custody, StagedAlone, HeldAlone, HandsApart, DrawnFirst
<1>15. BytesOnDisk'
  BY <1>1, <1>2, <1>3, <1>7, <1>9, <1>10 DEF Custody, BytesOnDisk, Kept, HeldAs
<1>16. DrawnFirst'
  BY <1>1, <1>2, <1>3, <1>6, <1>9, <1>10 DEF Custody, DrawnFirst, HeldAs
<1>17. Fresh'
  BY <1>1, <1>2, <1>3, <1>6, <1>9, <1>10 DEF Custody, Fresh, StagedAlone, HandsApart, DrawnFirst
<1>18. UsedOnceByOwner'
  BY <1>1, <1>2, <1>3 DEF Custody, UsedOnceByOwner, Fresh, DrawnFirst
<1>19. HeldDrawn'
  BY <1>1, <1>2, <1>3 DEF Custody, HeldDrawn
<1>20. NoStrays'
  BY <1>1, <1>2, <1>3, <1>4, <1>7, <1>10 DEF Custody, NoStrays, Kept, HeldAs
<1> QED
  BY <1>11, <1>12, <1>13, <1>14, <1>15, <1>16, <1>17, <1>18, <1>19, <1>20 DEF Custody

LEMMA HoldKeepsCustody ==
  ASSUME Typed, Custody, NEW p \in Procs, Hold(p)
  PROVE  Custody'
<1>1. \A q \in Procs \ {p} :
        pc'[q] = pc[q] /\ job'[q] = job[q] /\ pos'[q] = pos[q] /\ gone'[q] = gone[q]
  BY DEF Typed, TypeOK, Hold, Finish, Goto, store, history
<1>2. \A q \in Procs \ {p} : Claims(q)' = Claims(q) /\ InHand(q)' = InHand(q)
  BY <1>1, OthersKeep
<1>3. UNCHANGED <<staged, disk, gone, born, leaked>>
  BY DEF Hold, store, history
<1>4. disk \subseteq Uploads /\ \A q \in Procs : Claims(q) \subseteq Uploads
  BY InHandIsClaimed DEF Typed, TypeOK
<1>5. Names(p) = {job[p].ids[1]} /\ job[p].ids[1] \in Uploads
  BY OneName DEF Hold, Finish, Goto, Typed, JobOK
<1>6. Claims(p) = {job[p].ids[1]} /\ Claims(p)' = {}
  BY <1>5 DEF Hold, Finish, Goto, Typed, TypeOK, Claims, InHand, Custody, SweepsOnly
<1>7. gone[p] = {} /\ InHand(p) = {job[p].ids[1]} /\ InHand(p)' = {}
  BY <1>5 DEF Hold, Finish, Goto, Typed, TypeOK, Claims, InHand, Custody, SweepsOnly
<1>8. job[p].user \in Users
  BY DEF Hold, Finish, Goto, Typed, JobOK
<1>9. PICK h \in Holds :
        h \notin used /\ used' = used \cup {h}
        /\ held' = [held EXCEPT ![h] = [path |-> job[p].ids[1], expires |-> job[p].at + LinkTtl]]
  BY DEF Hold
<1>10. \A g \in Holds, u \in Uploads : HeldAs(g, u)' => IF g = h THEN u = job[p].ids[1] ELSE HeldAs(g, u)
  BY <1>9 DEF HeldAs, Typed, TypeOK
<1>11. \A u \in Uploads, v \in Users :
        consumed'[u][v] = IF u = job[p].ids[1] /\ v = job[p].user THEN consumed[u][v] + 1
                                                             ELSE consumed[u][v]
  BY <1>5, <1>8 DEF Hold, Typed, TypeOK
<1>12. h \notin used /\ used' = used \cup {h}
  BY <1>9
<1>13. held'[h] = [path |-> job[p].ids[1], expires |-> job[p].at + LinkTtl] /\ job[p].at + LinkTtl \in Nat
  BY <1>9, ConstantsAssumption DEF Typed, TypeOK, Job
<1>14. \A u \in Uploads : u = job[p].ids[1] => HeldAs(h, u)'
  BY <1>13, ConstantsAssumption DEF HeldAs
<1>15. \A g \in Holds, u \in Uploads : g # h /\ HeldAs(g, u) => HeldAs(g, u)'
  BY <1>9 DEF HeldAs, Typed, TypeOK
<1>16. \A u \in Uploads : ~HeldAs(h, u)
  BY <1>12 DEF HeldAs, Custody, HeldDrawn
<1>17. \A g \in Holds : g # h => held'[g] = held[g]
  BY <1>9 DEF Typed, TypeOK
<1>18. ReadsInOrder' /\ SweepsOnly'
  BY <1>1, <1>2, <1>3, <1>4, <1>5, <1>6, <1>7, <1>8, <1>9, <1>10 DEF Hold, Finish, Goto, Typed, TypeOK, JobOK, Custody, SweepsOnly, ReadsInOrder, store, history
<1>19. StagedAlone'
  BY <1>1, <1>2, <1>3, <1>4, <1>5, <1>6, <1>7, <1>8, <1>9, <1>10 DEF Custody, StagedAlone, HeldAlone, HandsApart, DrawnFirst
<1>20. HeldAlone'
  BY <1>1, <1>2, <1>3, <1>4, <1>5, <1>6, <1>7, <1>8, <1>9, <1>10 DEF Custody, StagedAlone, HeldAlone, HandsApart, DrawnFirst
<1>21. HandsApart'
  BY <1>1, <1>2, <1>3, <1>4, <1>5, <1>6, <1>7, <1>8, <1>9, <1>10 DEF Custody, StagedAlone, HeldAlone, HandsApart, DrawnFirst
<1>22. BytesOnDisk'
  BY <1>1, <1>2, <1>3, <1>4, <1>5, <1>6, <1>7, <1>8, <1>9, <1>10 DEF Custody, BytesOnDisk, Kept
<1>23. DrawnFirst'
  BY <1>1, <1>2, <1>3, <1>4, <1>5, <1>6, <1>7, <1>8, <1>9, <1>10, <1>11 DEF Custody, DrawnFirst
<1>24. Fresh'
  BY <1>1, <1>2, <1>3, <1>4, <1>5, <1>6, <1>7, <1>8, <1>9, <1>10, <1>11 DEF Custody, Fresh, StagedAlone, HandsApart, DrawnFirst
<1>25. UsedOnceByOwner'
  BY <1>1, <1>2, <1>3, <1>4, <1>5, <1>6, <1>7, <1>8, <1>9, <1>10, <1>11 DEF Custody, UsedOnceByOwner, Fresh, DrawnFirst
<1>26. HeldDrawn'
  BY <1>1, <1>2, <1>3, <1>4, <1>5, <1>6, <1>7, <1>8, <1>9, <1>10 DEF Custody, HeldDrawn
<1>27. NoStrays'
  BY <1>1, <1>2, <1>3, <1>4, <1>5, <1>6, <1>7, <1>8, <1>9, <1>10, <1>14, <1>15, <1>16 DEF Custody, NoStrays, Kept
<1> QED
  BY <1>18, <1>19, <1>20, <1>21, <1>22, <1>23, <1>24, <1>25, <1>26, <1>27 DEF Custody

LEMMA CustodyInit == Init => Custody
<1> SUFFICES ASSUME Init PROVE Custody
  OBVIOUS
<1>1. \A p \in Procs : Claims(p) = {} /\ InHand(p) = {} /\ gone[p] = {} /\ pc[p] = "idle"
  BY DEF Init, Claims, InHand
<1>2. \A u \in Uploads : ~Kept(u) /\ staged[u] = None /\ \A h \in Holds : ~HeldAs(h, u)
  BY <1>1 DEF Init, Kept, HeldAs
<1> QED
  BY <1>1, <1>2 DEF Init, Custody, ReadsInOrder, SweepsOnly, StagedAlone, HeldAlone, HandsApart,
     BytesOnDisk, DrawnFirst, Fresh, UsedOnceByOwner, HeldDrawn, NoStrays

\* A restart keeps nothing but the record of which ids were drawn and used.
LEMMA RestartKeepsCustody ==
  ASSUME Typed, Custody, Restart
  PROVE  Custody'
<1>1. \A p \in Procs : Claims(p)' = {} /\ InHand(p)' = {} /\ gone'[p] = {} /\ pc'[p] = "idle"
  BY DEF Restart, Claims, InHand
<1>2. \A u \in Uploads : ~Kept(u)' /\ staged'[u] = None /\ \A h \in Holds : ~HeldAs(h, u)'
  BY <1>1 DEF Restart, Kept, HeldAs
<1>3. disk' \subseteq disk /\ leaked' = disk'
  BY DEF Restart
<1> QED
  BY <1>1, <1>2, <1>3 DEF Restart, Custody, ReadsInOrder, SweepsOnly, StagedAlone, HeldAlone, HandsApart,
     BytesOnDisk, DrawnFirst, Fresh, UsedOnceByOwner, HeldDrawn, NoStrays

LEMMA CustodyStep == Typed /\ Custody /\ [Next]_vars => Custody'
<1> SUFFICES ASSUME Typed, Custody, [Next]_vars PROVE Custody'
  OBVIOUS
<1>1. ASSUME NEW p \in Requests, Start(p) PROVE Custody'
  <2>1. Idles(p)
    BY <1>1, IdleSteps DEF Start, Procs
  <2> QED
    BY <2>1, IdlesKeepsCustody DEF Procs
<1>2. CASE TimerFires
  <2>1. Idles(Timer)
    BY <1>2, IdleSteps DEF TimerFires, Procs
  <2> QED
    BY <2>1, IdlesKeepsCustody DEF Procs
<1>3. ASSUME NEW p \in Procs, Continue(p) PROVE Custody'
  <2>1. CASE Swept(p) \/ Mint(p) \/ RefuseBody(p) \/ TakeRefused(p)
             \/ PeekReads(p) \/ HoldRefused(p) \/ ServeReads(p)
    <3>1. Idles(p)
      BY <2>1, IdleSteps
    <3> QED
      BY <3>1, IdlesKeepsCustody
  <2>2. CASE SweepStaged(p)
    BY <2>2, SweepStagedKeepsCustody
  <2>3. CASE SweepHeld(p)
    BY <2>3, SweepHeldKeepsCustody
  <2>4. CASE Unlink(p)
    BY <2>4, UnlinkKeepsCustody
  <2>5. CASE WriteFile(p)
    BY <2>5, WriteFileKeepsCustody
  <2>6. CASE WriteFileFails(p)
    BY <2>6, WriteFileFailsKeepsCustody
  <2>7. CASE Stage(p)
    BY <2>7, StageKeepsCustody
  <2>8. CASE TakeEntries(p)
    BY <2>8, TakeEntriesKeepsCustody
  <2>9. CASE ReadFile(p)
    BY <2>9, ReadFileKeepsCustody
  <2>10. CASE ReadFileFails(p)
    BY <2>10, ReadFileFailsKeepsCustody
  <2>11. CASE TakeDone(p)
    BY <2>11, TakeDoneKeepsCustody
  <2>12. CASE Unstage(p)
    BY <2>12, UnstageKeepsCustody
  <2>13. CASE Hold(p)
    BY <2>13, HoldKeepsCustody
  <2> QED
    BY <1>3, <2>1, <2>2, <2>3, <2>4, <2>5, <2>6, <2>7, <2>8, <2>9, <2>10, <2>11, <2>12, <2>13
       DEF Continue, Sweep, Upload, Take, HoldSteps
<1>4. CASE Restart
  BY <1>4, RestartKeepsCustody
<1>5. CASE Tick \/ UNCHANGED vars
  <2>1. UNCHANGED <<tickets, staged, held, disk, pc, job, pos, gone, used, born, consumed, leaked>>
    BY <1>5 DEF Tick, vars, store, history
  <2>2. \A q \in Procs : Claims(q)' = Claims(q) /\ InHand(q)' = InHand(q)
    BY <2>1 DEF Claims, InHand, Names, Unread
  <2>3. \A u \in Uploads : Kept(u)' = Kept(u) /\ \A h \in Holds : HeldAs(h, u)' = HeldAs(h, u)
    BY <2>1, <2>2 DEF Kept, HeldAs
  <2>4. ReadsInOrder' /\ SweepsOnly' /\ StagedAlone' /\ HeldAlone' /\ HandsApart'
    BY <2>1, <2>2, <2>3 DEF Custody, ReadsInOrder, SweepsOnly, StagedAlone, HeldAlone, HandsApart
  <2>5. BytesOnDisk' /\ HeldDrawn' /\ NoStrays'
    BY <2>1, <2>3 DEF Custody, BytesOnDisk, HeldDrawn, NoStrays, Typed, TypeOK
  <2>6. DrawnFirst' /\ Fresh' /\ UsedOnceByOwner'
    BY <2>1, <2>2, <2>3 DEF Custody, DrawnFirst, Fresh, UsedOnceByOwner
  <2> QED
    BY <2>4, <2>5, <2>6 DEF Custody
<1> QED
  BY <1>1, <1>2, <1>3, <1>4, <1>5 DEF Next

LEMMA CustodyInvariant == Spec => []Custody
  BY CustodyInit, CustodyStep, TypedInvariant, PTL DEF Spec

\* Every file has one keeper: no sweep, take or hold of uploads.rs, however
\* they interleave, can leave a file to two of them.
THEOREM FilesHaveOneKeeper == Spec => []OneKeeper
<1>1. Typed /\ Custody => OneKeeper
  BY InHandIsClaimed DEF Custody, StagedAlone, HeldAlone, HandsApart, OneKeeper
<1> QED
  BY <1>1, CustodyInvariant, TypedInvariant, PTL

\* Whatever the maps and the requests still name is on disk.
THEOREM KeptFilesAreOnDisk == Spec => []BytesOnDisk
<1>1. Custody => BytesOnDisk
  BY DEF Custody
<1> QED
  BY <1>1, CustodyInvariant, PTL

\* Whatever is on disk is still named, or a failed read or write left it.
THEOREM NoFileIsForgotten == Spec => []NoStrays
<1>1. Custody => NoStrays
  BY DEF Custody
<1> QED
  BY <1>1, CustodyInvariant, PTL

\* "The file is used once and then forgotten", and only by its owner.
THEOREM UploadsAreUsedOnce == Spec => []UsedOnceByOwner
<1>1. Custody => UsedOnceByOwner
  BY DEF Custody
<1> QED
  BY <1>1, CustodyInvariant, PTL

=============================================================================
