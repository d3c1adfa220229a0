----------------------------- MODULE DriveWrites -----------------------------
(***************************************************************************)
(* The three writes of src/mcp/drive.rs: drive_upload with its folder path,    *)
(* drive_create_folder and drive_update_file.  Every read and write of Drive  *)
(* is a request of its own, and people and other calls change Drive between   *)
(* any two of them.                                                        *)
(***************************************************************************)
EXTENDS ToolCalls

CONSTANTS
    Ids,            \* ids Drive gives to what is put in it, from 1 up
    InDrive,        \* what is in Drive to begin with, ids to items
    InVersions,     \* the versions its files have to begin with
    TypeOf,         \* the type of each upload
    Google,         \* the types whose files have no content of their own
    KeepMax,        \* KEEP_FOREVER_MAX
    RevisionsPage,  \* REVISIONS_PAGE: how many versions one read lists
    MaxVersions,    \* bound: versions of one file
    Names           \* what a person may call a folder

\* It gives them in order, so that a folder's is lower than those of what is in it.
ASSUME IdsFromOne == IsFiniteSet(Ids) /\ Ids = 1 .. Cardinality(Ids)

VARIABLES
    items,     \* Drive: folders and files
    binned,    \* those a person has put in the bin
    versions,  \* of each file, oldest first; the last one is the head
    job        \* what a call has found and made so far

drive == <<items, binned, versions>>
driveVars == <<drive, job>>

Root == 0

\* ours: this server may write to it.  by: the call that put it there.
Item(type, name, parent, ours, by) ==
    [type |-> type, name |-> name, parent |-> parent, ours |-> ours, by |-> by]
IsItem(r) == r = [f \in DOMAIN Item("", "", Root, FALSE, None) |-> r[f]]

\* kept: for ever.  gone: purged by Drive.  deleted: by a person.
Version(by) == [by |-> by, kept |-> FALSE, gone |-> FALSE, deleted |-> FALSE]
History(item) == IF item # None /\ item.type \notin Google THEN <<Version(item.by)>> ELSE <<>>

\* place: the folder it has come to.  missing: the names still to look up, then
\* to make.  made: the folders it tells of.  seen: the ids drawn when it looked.
\* head: the version it is to keep.  kept: those it was told are kept for ever.
NoJob == [place |-> Root, missing |-> <<>>, made |-> <<>>, seen |-> 0, head |-> 0, kept |-> {}]

\* What a call may ask for.
DriveUploadParam(upload, folder, path) == [tool |-> "upload", upload |-> upload, folder |-> folder, path |-> path]
DriveCreateFolderParam(name, folder) == [tool |-> "folder", name |-> name, folder |-> folder]
DriveUpdateFileParam(upload, file) == [tool |-> "update", upload |-> upload, file |-> file]
DocsCreateParam(title, folder) == [tool |-> "newDoc", title |-> title, folder |-> folder]

DriveInit ==
    /\ items = InDrive
    /\ binned = {}
    /\ versions = InVersions
    /\ job = [c \in Calls |-> NoJob]

Drawn == {i \in Ids : items[i] # None}
Fresh(i) == i \notin Drawn /\ \A j \in Ids : j < i => j \in Drawn

\* In the bin, itself or a folder around it.
InBin(i) ==
    LET bin[j \in Drawn] == j \in binned \/ (items[j].parent # Root /\ bin[items[j].parent])
    IN bin[i]

IsFolder(i) == i \in Drawn /\ items[i].type = "folder"

\* drive::folders_named
FoldersNamed(parent, name) ==
    {i \in Drawn : IsFolder(i) /\ items[i].name = name /\ items[i].parent = parent /\ ~InBin(i)}

\* Drive lets this server put things into the root and into a folder of its own.
Open(place) == place = Root \/ (place \in Drawn /\ items[place].ours)

-----------------------------------------------------------------------------
(* What a request to Drive comes to.                                       *)

Refuse(c) == Goto(c, "refused") /\ Unspent /\ UNCHANGED driveVars
Fail(c) == Goto(c, "failed") /\ Unspent /\ UNCHANGED driveVars

\* A read that worked: the handler goes on with what it found.
Read(c, to, found) ==
    /\ Goto(c, to)
    /\ job' = [job EXCEPT ![c] = found]
    /\ Unspent /\ UNCHANGED drive

\* Drive puts an item in; the reply tells its id, or is lost.
Put(c, i, item, to, found) ==
    /\ Fresh(i)
    /\ items' = [items EXCEPT ![i] = item]
    /\ versions' = [versions EXCEPT ![i] = History(item)]
    /\ UNCHANGED binned
    /\ \/ Goto(c, to) /\ job' = [job EXCEPT ![c] = found]
       \/ Goto(c, "failed") /\ UNCHANGED job
    /\ Unspent

-----------------------------------------------------------------------------
(* Where it goes: drive_upload and drive_create_folder.                     *)

\* path_segments refuses an empty name, "." and "..".
Segments(path) == \A k \in DOMAIN path : path[k] \notin {"", ".", ".."}

DriveUpload(c) ==
    LET o == op[c]
    IN /\ Under(c, "upload", "called")
       /\ IF \/ o.folder # None /\ o.path # <<>>
             \/ ~Segments(o.path)
             \/ ~Waiting({o.upload})
             \/ TypeOf[o.upload] \in Google
          THEN Refuse(c)
          ELSE Read(c, CASE o.folder # None -> "destination" [] o.path # <<>> -> "path" [] OTHER -> "planned",
                    [NoJob EXCEPT !.missing = o.path, !.seen = Cardinality(Drawn)])

DriveCreateFolder(c) ==
    LET o == op[c]
    IN /\ Under(c, "folder", "called")
       /\ IF o.name = "" THEN Refuse(c)
          ELSE Read(c, IF o.folder # None THEN "destination" ELSE "planned",
                    [NoJob EXCEPT !.missing = <<o.name>>])

\* Gmcp::destination: a folder this account can see and that is not in the bin.
Destination(c) ==
    LET folder == op[c].folder
    IN /\ pc[c] = "destination"
       /\ \/ Fail(c)
          \/ IF IsFolder(folder) /\ ~InBin(folder)
             THEN Read(c, "planned", [job[c] EXCEPT !.place = folder])
             ELSE Refuse(c)

\* One name further down the path; at its end, where the file is to go.
Inside(c, i) ==
    Read(c, IF Len(job[c].missing) = 1 THEN "planned" ELSE "path",
         [job[c] EXCEPT !.place = i, !.missing = Tail(job[c].missing)])

\* Mutant of LookUp: any folder of that name will do, wherever it is.
LookUpAnywhere(c) ==
    LET found == UNION {FoldersNamed(p, Head(job[c].missing)) : p \in Drawn \cup {Root}}
    IN /\ pc[c] = "path"
       /\ job[c].missing # <<>>
       /\ \/ Fail(c)
          \/ found = {} /\ Read(c, "planned", [job[c] EXCEPT !.seen = Cardinality(Drawn)])
          \/ \E i \in found : Inside(c, i)

\* Gmcp::plan_path: each name inside the folder before it, up to the first that
\* is missing; two folders of one name refuse the call.
LookUp(c) ==
    LET found == FoldersNamed(job[c].place, Head(job[c].missing))
    IN /\ pc[c] = "path"
       /\ job[c].missing # <<>>
       /\ \/ Fail(c)
          \/ Cardinality(found) > 1 /\ Refuse(c)
          \/ found = {} /\ Read(c, "planned", [job[c] EXCEPT !.seen = Cardinality(Drawn)])
          \/ /\ Cardinality(found) = 1
             /\ \E i \in found : Inside(c, i)

\* confirmed=false: the plan is shown, and the call is made again.
Preview(c) ==
    /\ pc[c] = "planned" /\ job[c].made = <<>>
    /\ Read(c, "called", NoJob)

\* Mutant of MakeFolder: only the last folder is told of.
MakeFolderUntold(c) ==
    LET name == Head(job[c].missing)
    IN /\ pc[c] = "planned"
       /\ job[c].missing # <<>>
       /\ \/ Fail(c)
          \/ ~Open(job[c].place) /\ Refuse(c)
          \/ /\ Open(job[c].place)
             /\ \E i \in Ids :
                   Put(c, i, Item("folder", name, job[c].place, TRUE, c),
                       IF op[c].tool = "folder" THEN "done" ELSE "planned",
                       [job[c] EXCEPT !.place = i, !.missing = Tail(job[c].missing), !.made = <<i>>])

\* Gmcp::make_path and the end of drive_create_folder: one folder, inside the
\* one before, and never anywhere else.
MakeFolder(c) ==
    LET name == Head(job[c].missing)
    IN /\ pc[c] = "planned"
       /\ job[c].missing # <<>>
       /\ \/ Fail(c)
          \/ ~Open(job[c].place) /\ Refuse(c)
          \/ /\ Open(job[c].place)
             /\ \E i \in Ids :
                   Put(c, i, Item("folder", name, job[c].place, TRUE, c),
                       IF op[c].tool = "folder" THEN "done" ELSE "planned",
                       [job[c] EXCEPT !.place = i, !.missing = Tail(job[c].missing),
                                      !.made = Append(job[c].made, i)])

\* One attempt, into the folder that was asked for and nowhere else.
Store(c) ==
    /\ Under(c, "upload", "planned")
    /\ job[c].missing = <<>>
    /\ \/ Fail(c)
       \/ ~Open(job[c].place) /\ Refuse(c)
       \/ /\ Open(job[c].place)
          /\ \E i \in Ids :
                Put(c, i, Item(TypeOf[op[c].upload], op[c].upload, job[c].place, TRUE, c), "stored", job[c])

\* Drive has it, so the upload is spent now and not before; one that is gone by
\* now is only logged.
Spend(c) ==
    /\ pc[c] = "stored"
    /\ Goto(c, "done")
    /\ Spent({op[c].upload})
    /\ UNCHANGED driveVars

-----------------------------------------------------------------------------
(* drive_update_file.                                                      *)

DriveUpdateFile(c) ==
    /\ Under(c, "update", "called")
    /\ IF Waiting({op[c].upload}) THEN Read(c, "revisable", NoJob) ELSE Refuse(c)

\* drive::revisable: the file and the version at its head, if Drive tells it.
ReadFile(c) ==
    LET file == op[c].file
    IN /\ pc[c] = "revisable"
       /\ \/ Fail(c)
          \/ Refuse(c)
          \/ /\ file \in Drawn /\ ~InBin(file)
             /\ items[file].type \notin Google
             /\ TypeOf[op[c].upload] = items[file].type
             /\ Read(c, "history", [job[c] EXCEPT !.head = Len(versions[file])])

KeptForever(file) == {v \in DOMAIN versions[file] : versions[file][v].kept /\ ~versions[file][v].deleted}

\* One read lists all the versions there are, or as many of them as are on a page.
Pages(file) ==
    LET listed == {v \in DOMAIN versions[file] : ~versions[file][v].gone /\ ~versions[file][v].deleted}
    IN IF Cardinality(listed) <= RevisionsPage THEN {listed}
       ELSE {page \in SUBSET listed : Cardinality(page) = RevisionsPage}

\* Mutant of ReadHistory: how many are kept is left for Drive to say.
ReadHistoryUncounted(c) ==
    /\ pc[c] = "history"
    /\ \/ Fail(c)
       \/ ~items[op[c].file].ours /\ Refuse(c)
       \/ \E page \in Pages(op[c].file) :
             Read(c, "pin", [job[c] EXCEPT !.kept = page \cap KeptForever(op[c].file)])

\* drive::kept_forever, before the preview too: a file at its limit is refused.
ReadHistory(c) ==
    /\ pc[c] = "history"
    /\ \/ Fail(c)
       \/ ~items[op[c].file].ours /\ Refuse(c)
       \/ \E page \in Pages(op[c].file) :
             LET kept == page \cap KeptForever(op[c].file)
             IN IF job[c].head \notin kept /\ Cardinality(kept) >= KeepMax THEN Refuse(c)
                ELSE Read(c, "pin", [job[c] EXCEPT !.kept = kept])

\* confirmed=false
PreviewUpdate(c) ==
    /\ pc[c] = "pin"
    /\ Read(c, "called", NoJob)

\* What Drive makes of the mark: it keeps a version that is still there, unless
\* as many are kept as it allows.
Markable(file, v) ==
    /\ items[file].ours
    /\ ~versions[file][v].gone /\ ~versions[file][v].deleted
    /\ Cardinality(KeptForever(file) \cup {v}) <= KeepMax

Mark(file, v) == versions' = [versions EXCEPT ![file][v].kept = TRUE]

\* Mutant of Pin: an answer without the mark is as good as one with it.
PinTrusted(c) ==
    LET file == op[c].file
        v == job[c].head
    IN /\ pc[c] = "pin"
       /\ Unspent /\ UNCHANGED <<items, binned, job>>
       /\ \/ UNCHANGED versions /\ \E to \in {"refused", "failed", "replace"} : Goto(c, to)
          \/ Markable(file, v) /\ Mark(file, v) /\ \E to \in {"failed", "replace"} : Goto(c, to)

\* drive::keep_forever: the answer has to say the version is kept.
Pin(c) ==
    LET file == op[c].file
        v == job[c].head
    IN /\ pc[c] = "pin"
       /\ Unspent /\ UNCHANGED <<items, binned, job>>
       /\ \/ UNCHANGED versions /\ \E to \in {"refused", "failed"} : Goto(c, to)
          \/ Markable(file, v) /\ Mark(file, v) /\ \E to \in {"failed", "replace"} : Goto(c, to)

\* drive::replace: the new content becomes the head, whatever the head is now.
Replace(c) ==
    LET file == op[c].file
    IN /\ pc[c] = "replace"
       /\ \/ Fail(c)
          \/ /\ items[file].ours
             /\ Len(versions[file]) < MaxVersions
             /\ versions' = [versions EXCEPT ![file] = Append(@, Version(c))]
             /\ \E to \in {"failed", "stored"} : Goto(c, to)
             /\ Unspent /\ UNCHANGED <<items, binned, job>>

-----------------------------------------------------------------------------
(* docs_create: Drive makes a Doc of the markdown, in one request.           *)

DocsCreate(c) ==
    LET o == op[c]
        place == IF o.folder = None THEN Root ELSE o.folder
    IN /\ Under(c, "newDoc", "called")
       /\ \/ o.title = "" /\ Refuse(c)
          \/ o.title # "" /\ Fail(c)
          \/ /\ o.title # "" /\ Open(place)
             /\ \E i \in Ids : Put(c, i, Item("doc", o.title, place, TRUE, c), "done", job[c])

DriveCall(c) ==
    \/ DriveUpload(c) \/ DriveCreateFolder(c) \/ Destination(c) \/ LookUp(c) \/ Preview(c)
    \/ MakeFolder(c) \/ Store(c) \/ Spend(c)
    \/ DocsCreate(c)
    \/ DriveUpdateFile(c) \/ ReadFile(c) \/ ReadHistory(c) \/ PreviewUpdate(c) \/ Pin(c) \/ Replace(c)

-----------------------------------------------------------------------------
(* People in Drive, and Drive itself.                                       *)

PersonMakes ==
    \E i \in Ids, name \in Names, parent \in Drawn \cup {Root} :
        /\ Fresh(i)
        /\ parent = Root \/ IsFolder(parent)
        /\ items' = [items EXCEPT ![i] = Item("folder", name, parent, FALSE, None)]
        /\ UNCHANGED <<binned, versions>>

PersonBins ==
    \E i \in Drawn \ binned :
        /\ binned' = binned \cup {i}
        /\ UNCHANGED <<items, versions>>

PersonWrites ==
    \E file \in Drawn :
        /\ versions[file] # <<>> /\ Len(versions[file]) < MaxVersions
        /\ versions' = [versions EXCEPT ![file] = Append(@, Version(None))]
        /\ UNCHANGED <<items, binned>>

\* Under Manage versions: any but the head, kept or not.
PersonDeletes ==
    \E file \in Drawn : \E v \in 1 .. Len(versions[file]) - 1 :
        /\ ~versions[file][v].deleted
        /\ versions' = [versions EXCEPT ![file][v].deleted = TRUE]
        /\ UNCHANGED <<items, binned>>

\* Thirty days after newer content: every version not kept for ever.
Purge ==
    \E file \in Drawn : \E v \in 1 .. Len(versions[file]) - 1 :
        /\ ~versions[file][v].kept /\ ~versions[file][v].gone
        /\ versions' = [versions EXCEPT ![file][v].gone = TRUE]
        /\ UNCHANGED <<items, binned>>
=============================================================================
