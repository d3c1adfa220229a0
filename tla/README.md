# gmcp in TLA+

A verification development of gmcp, the Rust server in this repository: TLA+
modules of its stateful core, TLC configurations that check them on small
instances, and TLAPS proofs of what matters most for every instance. Paths
below are relative to the repository (`src/` is the Rust crate).

1. [The system](#the-system)
2. [Plan](#plan)
3. [Modules](#modules)
4. [Runs and bounds](#runs-and-bounds)
5. [Where the code and its documents part](#where-the-code-and-its-documents-part)
6. [Proofs](#proofs)
7. [What is left out](#what-is-left-out)

## The system

gmcp is one process: an axum server on a multi-threaded tokio runtime, over
SQLite. It keeps the Google grants of a few people, hands out bearer tokens
scoped by service and level, and exposes Gmail, Drive, Docs, Sheets and
Calendar tools over MCP. A second process, the `gmcp` command line, works on
the same database. Nothing but the database survives a restart; the upload
directory is emptied by one.

| Component | State | Operations | Talks to | What is hard | What makes it correct |
|---|---|---|---|---|---|
| **Staging store** `src/http/uploads.rs` | three maps (`tickets`, `staged`, `held`), each behind its own mutex; a directory behind none | `mint`, `POST /up/{id}`, `take`, `peek`, `hold`, `held`, `sweep`, the sweeper task, `Staging::new` | tools mint, take, peek and hold; downloads read what is held | every operation crosses several locks and files; sweeps run inside `mint` and `hold` as well as on the timer; files fail; a restart forgets the maps | a file has one keeper at a time, is on disk while something names it and not afterwards; a ticket and an upload are used once, by their owner |
| **Token cache** `src/google/client.rs` | a map from connection to a slot behind an `Arc`, each slot a mutex over a token and its expiry | `access_token`, `refresh_after_401`, `refresh`, `forget`, `send` with its one retry | rows through `src/http/store.rs`, Google's token endpoint | forget takes the slot out of the map while a request still works on it; the row moves under a refresh; dropped callers | no token of an old grant after a reconnect, no dead token, no request too many, no endless retry, nobody waits for ever |
| **Connections** `src/http/handlers/connections.rs`, `src/google/oauth.rs`, `src/cli/connection.rs` | the `connections` table: label, address, sealed refresh token, status | connect, reconnect, disconnect, patch; `gmcp connection remove` | token cache (`forget`), Google (exchange, revoke) | exchange, write and forget are three steps; two callbacks race for a label or an account | a reconnect brings a good status and the new grant; one label and one account once per person |
| **Download links** `src/http/links.rs` | the `links` table | `mint`, `GET /dl/{id}`, `refused` | `create_link`, `take_link`, `delete_expired_links`; the staging store; the audit log | racing hits; the reason of a refusal is looked up later; rows go by sweep, prune and cascade | three uses and no more, no link to an account that is gone, the true reason in the log |
| **Database** `src/db/mod.rs`, `migrations/` | users, tokens, allowlists, connections, links, audit rows, sessions | one statement or one transaction each | everything | foreign keys, cascades, `UNIQUE` races, deletes in another process | statements check and change in one |
| **Audit log** `src/http/audit.rs`, `src/domain/audit.rs` | the `audit_log` table | `record`, pages, prune | every call | the row refers to rows that may be gone | every call leaves its row |
| **Authentication and tokens** `src/http/auth.rs`, `src/http/oidc.rs`, `src/domain/token.rs`, `src/http/handlers/tokens.rs`, `src/cli/token.rs` | users, sessions, tokens and their allowlists | login, bearer and delegate lookup, create, patch, revoke | database | a token is created in two writes; revocation races with calls; a delegate acts for whoever logged in lately | a call reaches only accounts its token lists and its person owns |
| **Scopes** `src/domain/scope.rs` | none | the registry of tools, implied scopes, what a principal may list and call | dispatch, token pages | two tables that must agree | a tool that is not listed cannot be called |
| **Tool dispatch** `src/mcp/mod.rs` | none | `list_tools`, `call_tool`, `account` | all tools | time between the check of the account and its use | every call is checked and logged |
| **Drive tools** `src/mcp/drive.rs`, `src/google/drive.rs` | at Google: files, folders, versions | `drive_upload` along a path, `drive_create_folder`, `drive_update_file` | staging (`peek` and `take`) | read, mark, replace and spend are four requests; a path is made one folder at a time; people and Drive's purge of old versions come in between; replies are lost | the content that was read is kept for ever before it is replaced; a file is where it was asked; an answer tells of what was done |
| **Gmail tools** `src/mcp/gmail.rs`, `src/google/gmail.rs` | at Google: drafts and labels; a send-as cache | create, reply, rewrite, attach, delete; change labels | staging (`take`) | a draft is read, rebuilt and written back whole; uploads are taken before the message is built; labels go one message at a time | an attach keeps what a draft is rebuilt from, a reply goes to the people of its conversation, an upload into one message |
| **Docs tools** `src/mcp/docs.rs`, `src/google/docs.rs` | at Google: a document and its revision | append, replace, insert, edit, style, code, table, picture, rows and columns, deletes | staging (`peek`, `take`, `hold`), links (`mint`) | indexes in UTF-16 units are computed on one reading and applied to another; a table takes two batches | an edit makes exactly the document that was asked for, of the document that was shown, or nothing |
| **Sheets and Calendar tools** `src/mcp/sheets.rs`, `src/mcp/calendar.rs` and their halves in `src/google/` | at Google: tabs and rows; events | append, overwrite, insert, delete, format, tabs, new spreadsheets; events made, changed, deleted | Drive (a spreadsheet is a file) | a tab is looked up by title and changed by id; rows count from 1 or from 0, in unsigned words that wrap; an event is read before it is patched | the rows named and no others, what is lost shown or counted first, no event with guests |
| **Sealing** `src/domain/seal.rs`, **text and images** `src/google/text.rs`, `src/domain/image.rs` | none | pure conversions | - | bounds and sizes | - |
| **Configuration, server, command line, frontend** | read once, or none | routing, printing | - | - | - |

`PROJECT.json` lists every component with its status, and under `hazards`
every place in this code that is hard to test, each at its line, with the
properties that would catch it going wrong.

## Plan

Done, in this order:

1. `Staging`, the most intricate state of the process, and its proofs.
2. `TokenCache`, on which every call to Google depends, and its proofs.
3. `Links` over `Capability`, the abstract promise of an id that is its own
   permission, and the proofs.
4. `Access`: who may use which account, whatever is connected, renamed,
   removed, minted and revoked meanwhile, and its proofs.
5. `Document`, `DocPlans`, `DocsEdit`: the Docs tools, from indexes to the
   batches Docs applies, and the proof that nothing is written over a document
   the caller was not shown.
6. `ToolCalls` with `DriveWrites`, `Drafts`, `Sheets`, `Calendar`, composed in
   `Tools`: every other tool that writes, two calls at a time over one staging
   area, and the proofs of what they do with uploads and with versions.

What would come next: that upload tickets are `Capability` with one use; the
send-as cache of `src/google/client.rs`; the filters and pages of the audit log; sessions.

## Modules

`MC*` modules only give the symmetry sets and views TLC uses. A definition of a
plausible bug stands just before the definition it is a bug of (`Mutant of ...`);
nothing in a specification refers to it. `PROJECT.json` maps every definition
that models code to its lines, and marks as external those that stand for
Google or for a person at work there.

### Staging

A step is what `uploads.rs` does under one lock, or one file operation. `pc`
says where a request has come, `job` what it was asked and the clock it read at
its beginning, which the code keeps using; `pos` is the loop counter of `take`,
`gone` the `Vec` of paths in `sweep`.

| Code | Actions |
|---|---|
| `Staging::sweep`, inside `mint`, `hold` and the timer | `SweepTickets`, `SweepStaged`, `SweepHeld`, `Unlink` (one file), `Swept` |
| `Staging::mint` | `StartMint`, sweep, `Mint` |
| `POST /up/{id}`: `take_ticket`, the body, `store` | `SpendTicket`, `RefuseTicket`, `RefuseBody`, `WriteFile`, `WriteFileFails`, `Stage` |
| `Staging::take` | `StartTake`, `TakeRefused`, `TakeEntries`, `ReadFile`, `ReadFileFails`, `TakeDone` |
| `Staging::peek`, `Staging::held` | `Peek`, `PeekReads`; `Serve`, `ServeReads` |
| `Staging::hold` | `StartHold`, sweep, `HoldRefused`, `Unstage`, `Hold` |
| `spawn_sweeper` | `TimerFires` |
| `Staging::new` after a restart | `Restart`, which may fail to remove some files |

File names, MIME types and contents are left out; a file is named after its
upload id as in the code, and sizes come from a small set, so that the total
cap of `take` bites. A removal that fails is only logged, and the file stays
(`leaked`); so do files a failed read or write leaves. `used`, `born`,
`consumed` and `leaked` are history. An upload counts as consumed when its
bytes reach the caller of `take` or it becomes a held file. Ids are
random in the code: the model never draws one twice.

### TokenCache

The map `entries` points at `Arcs`, and a request keeps the `Arc` it cloned
after `forget` took it out of the map: that is why slots are objects of their
own and not fields of a connection. `queue` is the slot's tokio mutex with its
fair queue. The two paths of a call, `access_token` and `refresh_after_401`,
differ only in what makes a cached token `Usable`.

| Code | Actions |
|---|---|
| `Client::send` | `StartCall`, `Answered`, `Unauthorized` (the one retry) |
| `TokenSource::entry`, and its lock | `Entry`, `UseCached`, `Refresh` |
| `TokenSource::refresh` | `OpenSeal`, `NoRow`, `TokenIssued`, `GrantRefused`, `TokenRequestFails`, `Store` |
| `Connections::mark_needs_reauth` | `Mark` |
| the portal's callback | `Exchange`, `Connect`, `FindRow`, `SetGrant`, `NotStored`, `ForgetOld` |
| `delete_connection` | `StartDelete`, `Revoke`, `ForgetDeleted`, `DeleteRow` |
| `gmcp connection remove` | `CliRemove` |
| a client that hangs up, anywhere | `Dropped` |
| Google | `GoogleRevokes`; `Unauthorized` at any time |

A token carries the grant it was issued for and when, a row's sealed token is
its grant, and `Rotated` are grants sealed under a secret no longer in use.
A slot's expiry counts from when the response arrived, Google's from when it
issued the token: `HandedOutAlive` is about the difference. `Tick` waits for
everything that runs without waiting for Google; that is the assumption under
which the skew of one minute covers a request of one minute at most.

### Links, Capability

A step of `Links` is one database statement, so that `take_link`'s check and
decrement are one step and the lookup of a refusal's reason is another, later
one. `Calls` mint (`Gmcp::account`, then `Staging::hold` for a picture, then
the sweep, the insert and the log rows), `Hits` download. `held` is the part of
the staging store a link depends on; the restart that loses it keeps the rows.
`Record` loses a row whose connection is gone, as the foreign key makes it.

`Capability` is the abstract specification: an id is drawn once, is good for
so many uses, may end at any time and never comes back. `Links` refines it
with `left <- UsesLeft`: what the row has left, 0 when the row has gone.

### Access

The tables of tokens, allowlists and connections, with the requests that read
and write them. A step is one statement, or several when all but one read what
never changes (a token's person and its `all_connections`, a connection's
person). Tokens list connections by id and calls name them by label, so a label
given up and taken by another connection is the case to watch. `named`, `shown`
and `flagged` are history: what a token was asked for, whose secret reached its
maker, and what somebody opened to the gateway.

| Code | Actions |
|---|---|
| `bearer`, `Gmcp::account` | `FindToken`, `Account`, `CallEnds` |
| `create_token`, `gmcp token create` | `StartToken` (`validate`, `check_allowlist`), `StartDelegate`, `CreateToken`, `SetConnections` |
| `revoke_token`, `gmcp token revoke` | `RevokeToken` |
| the portal's callback | `StartConnect`, `InsertConnection`; `StartReconnect`, `SetGrant` |
| `patch_connection`, `gmcp connection set-gateway` | `Update` |
| `delete_connection`, `gmcp connection remove` | `DeleteConnection` |
| a request refused, failed or dropped, anywhere | `GivesUp`, `CallEnds` |

Sessions, the age of a delegate's login, scopes, the services and the health of
a connection only ever refuse: `CallEnds` and `GivesUp` stand for all of it.
Labels are case folded, as the index of migration 0002 compares them, and
Google is taken to spell one address one way, as the byte-wise index on
`google_email` needs it to.

### Document, DocPlans, DocsEdit

`Document` is a Google Doc as the API counts it: a sequence of UTF-16 units,
paragraph ends, pictures and the opening and closing marks of tables, where the
index of a unit is its place in the sequence. `Batch` is what Docs makes of a
list of requests, all of them or none; `Accepts` is what it refuses (a table cut
through, the last paragraph end, text outside every paragraph, a row or a column
that is not there). `DocPlans` is
`src/google/docs.rs` from an outline to a batch, one operator per plan, with
the checks that refuse first. `DocsEdit` runs one call among other people's
edits: `named` is the revision the next batch names, `plan` the requests it holds,
`seen` those the caller was shown, `mine` the batches Docs has taken. The
properties are stated on `Elements`, the document as a person reads it, which
has no indexes to be wrong about.

| Code | Actions |
|---|---|
| `docs_list_paragraphs`, then any write tool | `Ask`, and the tool's own action: `DocsInsertText`, `DocsEditParagraph`, `DocsStyleParagraph`, `DocsInsertCode`, `DocsInsertTable`, `DocsInsertImage`, `DocsDeleteParagraphs`, `DocsDeleteTable`, `InsertRowOrColumn`, `DeleteRowOrColumn`, `DocsAppend`, `DocsReplaceText`: a preview, a refusal, or a plan |
| `batch`, `apply`, `stale` | `Write`, `WriteRefused` |
| the second read and batch of a table, a row or a column | `FindTable`, `FindLine`, `Fill`, `FillRefused` |
| `Staging::hold` and `links::mint` of a picture | `Hold`; its upload may expire (`Expire`) |
| people in the document | `Others` |

A reply that is lost leaves the batch taken and the call answered as failed.

### ToolCalls, DriveWrites, Drafts, Sheets, Calendar, Tools

`ToolCalls` is what handlers share: where each call has come, what it was asked
(`op`), and the uploads that wait, have been spent or have expired. `Staging`
says how the store keeps that promise; here an upload is there or it is not.
Each of the four services adds its data at Google, its handlers, one action for
every request they make, and the people who work in it. A request that fails
does so before or after Google has done what it was asked. `Tools` composes
them.

| Code | Actions |
|---|---|
| `drive_upload`, `drive_create_folder`, `docs_create` | `DriveUpload`, `DriveCreateFolder`, `DocsCreate`; `Destination`, `LookUp`, `MakeFolder` for a path; `Store`, `Spend` |
| `drive_update_file` | `DriveUpdateFile`, `PreviewUpdate`; `ReadFile`, `ReadHistory`, `Pin`, `Replace`, `Spend` |
| `gmail_create_draft`, `gmail_reply_draft`, `gmail_update_draft`, `gmail_attach_to_draft`, `gmail_delete_draft` | one action each; `Weigh`, `TakeFiles`, `WriteDraft` |
| `gmail_modify_labels` | `GmailModifyLabels`, and `Label` for each message |
| `sheets_append_rows`, `sheets_update_range`, `sheets_create` | one action each, with `Show` for what would be lost and `AddNextTab` |
| the structural Sheets tools | `SheetsInsertRows`, `SheetsDeleteRows`, `SheetsCopyFormat`, `SheetsAddTab`: find the tab (`FindTab`), show what goes (`PreviewRows`, by the title that was found), then `InsertRows`, `DeleteRows`, `CopyRowFormat`, `TabAdded` |
| `calendar_create_event`, `calendar_update_event`, `calendar_delete_event` | `CalendarCreateEvent`; `CalendarUpdateEvent`, `CalendarDeleteEvent` (read and refuse), `DraftEvent`, `PatchEvent`, `DeleteEvent` |
| the sweeper, people, Drive's purge of versions | `Sweep`, `Others` |

Row numbers are words of `Word` values: `rows + 1 - 1` in `u32` wraps in a
release build, which has no overflow checks.

Three conversions are modelled by what they do, since properties are about what
they lose.

* A draft that is attached to is taken apart and put together again
  (`parse_draft`, `build_mime`): `Rebuilt` keeps the lines of its text up to the
  last that is not blank, the reading of its HTML when it has no text, the first
  of its HTML bodies and the files that are no body. What else is listed as a
  body (`media`) and further headers (`more`: a second In-Reply-To, Reply-To,
  one nobody knows) are dropped.
* What a preview tells of a spreadsheet is capped: `RowsShown` prints the first
  `PreviewRowsMax` rows of those a delete takes, without the empty ones at their
  end and displayed rather than as formulas, and counts the others;
  `FormulasShown` names the first `PreviewFormulas` formulas and counts the
  others. Only the range given is read (`InRange`), while the values are written
  from its first cell on, however far they reach (`WrittenOver`).
* The history of a file is read one page at a time, and one page only
  (`Pages`): a version kept for ever may be on the next.

## Runs and bounds

| Run | Shows | Bounds |
|---|---|---|
| `staging` | `OneKeeper`, `BytesOnDisk`, `NoStrays`, `UsedOnceByOwner` and `TicketUsedOnce` under every order of two requests, the timer, failures and restarts | two tickets, uploads and requests, one held id. A race needs two requests beside the sweeper; a take of two ids, a duplicate id and a total over the cap need two uploads; two holds of one upload race up to the entry, and the proof covers any number |
| `staging_forgets` | `FilesForgotten`, with two people after one upload | one upload and request: the liveness is of one file. The clock reaches every expiry (`WithinClock`) and the timer fires for ever after |
| `token_cache` | `NoOldGrant` through reconnect, disconnect, removal, restart | two calls, one handler, two grants; the old and the new one is what the property is about. Time stands still: expiry is the next run's |
| `token_expiry` | `HandedOutAlive`, `NoWastedRequest`, `RetriesWithAnother` | two calls share a slot or race for it; six ticks are two lives of a token |
| `token_ends` | `CallsEnd` | two calls, one grant that cannot be opened and one that may be revoked |
| `links` | `UsesAddUp`, `RefusalIsTrue`, `NoLinkOutlivesConnection`, `LinksAreCapabilities` | one link: links do not interact but through sweeps and cascades, which treat each row by itself. Two hits, three uses, a life of two ticks out of three |
| `docs` | `DocsTakesEveryPlan`, `AnswersAreTrue`, `WritesAreExact`, `WrittenAsShown`, `FilledAsAsked` for every write tool | four small documents: surrogate pairs and a blank paragraph; a picture between two runs and a section break; a table of one empty cell; a table with a table in it; every paragraph, boundary and expectation of each; one edit of somebody else's at any point, which is enough to make a reading stale; tables of two rows and columns. 484,000 states |
| `tools` | `AnswersAreTrue`, `UploadsAccounted`, `StoredWhereAsked`, `FoldersAccounted`, `PinnedStays`, `RepliesReach`, `ChangesAreAsked`, `AttachOnlyAdds`, `ThreadsKept` | two calls, of one service or of two over one upload, and one step of a person's between theirs; two uploads; one version kept for ever is Drive's limit (`KeepMax`, 200 in the code) and two versions are a page of the history (`RevisionsPage`, 1000), so that the limit is met, and missed on a page; previews of one row and one formula (`PreviewRowsMax`, `PreviewFormulas`; 10 and 5), so that both count; a draft of two HTML bodies, a picture and a further header; words of eight values, so that row numbers wrap; a cap of three on a message's weight. 880,000 states |
| `access` | `WithinReach`, `AllowlistsAreOwn`, `ShownTokensAreWhole`, `OneNameOneAccount`, `GrantOfItsAccount` | two people, connections, labels and accounts, so that each can be taken for the other; two requests race, with one call and one token, which meet other tokens' rows nowhere |

Every module with a clock bounds it (`MaxTime`); the ids are the other bound.
Deadlock is checked but in `docs`, `tools` and the runs that expect a violation
of theirs: calls there are made once and end. Elsewhere a request can always
start, fail or restart.
`VIEW` leaves out history nothing in the run reads and clocks past their last use; `SYMMETRY` is used in
safety runs only.

**Fairness.** `Staging`: weak fairness of the clock, of the timer (an interval
that keeps ticking) and of every step of a request but the body of an upload,
which its sender may never finish; what follows the body is assumed to run, as
tokio runs a task that is ready. `TokenCache`: weak fairness of the steps of
calls alone: each is local work, or an answer of Google's or the 30 seconds'
timeout. Nothing is assumed of handlers, of the clock or of callers. `Links`,
`Access`, `DocsEdit` and `Tools` state no fairness: what they promise is about
what was done and answered, and their handlers have no loop that could go on
for ever.

## Where the code and its documents part

Three runs expect a violation, one property each; `findings` in `PROJECT.json`
quotes the lines.

* `token_marked`: `mark_needs_reauth` writes by connection id alone. A refresh
  that read the old refresh token and is refused after a reconnect marks the
  new grant, which works, as needing another one.
* `docs_picture`: an edit of the words right behind an inline picture deletes
  the picture. `index_at` answers the end of the run before it for an offset
  where two runs meet.
* `draft_refused`: a draft refused because an address is none has spent its
  uploads, for the message is built after the files are taken.

Others have a configuration and no run of their own; each of these finds its
property violated:

| Configuration | Property | The code |
|---|---|---|
| `tlc -config MCStagingTakeError.cfg MCStaging` | `NothingTakenOnError` | `take` spends every id before it reads the files, so a failed read answers `TakeError::Io` with all of them spent, where the comment of `TakeError` says that nothing is taken |
| `tlc -config MCTokenCacheHealed.cfg MCTokenCache` | `OkOnceARefreshWorks` | nothing writes `ok` once a refresh works, as the comment of `set_connection_status` says; only a reconnect does |
| `tlc -config MCTokenCacheHeld.cfg MCTokenCache` | `NothingHeldOnceDisconnected` | disconnecting forgets the cached token before it deletes the row; a call in between caches one again that nothing takes out |
| `tlc -config MCLinksLogged.cfg MCLinks` | `EveryCallIsLogged` | the audit row of a call whose connection is deleted while it runs breaks a foreign key and is lost, where the module's doc promises a row for every call |
| `tlc -config MCDocsWrongTable.cfg MCDocsEdit` | `TextInItsOwnTable` | `new_table` takes the table it made to be the one at its index; one that somebody puts there between the two batches is filled instead, where the comment of `apply_table` (2014) calls text in the wrong cells unacceptable |
| `tlc -config MCToolsUnsafe.cfg MCTools` | `ContentMadeSafe` | a version written between the reading of a file's history and its replacement goes under unmarked, where `mcp/drive.rs` (8, 783) says that only content made safe is replaced; the replacement is conditional on nothing |
| `tlc -config MCToolsAttached.cfg MCTools` | `AttachKeepsAll` | a draft with two HTML bodies, a picture beside them or a header the server has no field for is written back by `gmail_attach_to_draft` without them, where the tool's description (`mcp/gmail.rs` 682) has it keep everything else |
| `tlc -config MCToolsFormulas.cfg MCTools` | `FormulasTold` | rows written from a range of one cell replace a formula below it that the preview did not read, where `mcp/sheets.rs` (343) says that what is read is what an update touches; that Sheets takes such a range as the place to begin is how its API is known, and the model's `Break` stands for its refusing |
| `tlc -config MCToolsMeeting.cfg MCTools` | `MeetingsLeftAlone` | a guest invited between the reading of an event and its patch or deletion is not noticed, where `mcp/calendar.rs` (7) calls such events read-only |

Smaller things met on the way, which no property states: the notes after a
half-done table or row (`empty_table`, `empty_cells`) say that none of the text
was written even when only the second batch's reply was lost, and a failed
`drive_update_file` says that nothing else changed when its reply was; an upload
is stored twice by two calls that peek before either spends; two
`gmail_attach_to_draft` on one draft lose the files of one, as any two writers
of a whole draft do; a reply to all keeps the account's other aliases in copy.

Hazards without a property are in `PROJECT.json` with the reason. Files that a
failed read, write or removal leaves on disk, after a restart too, are exempted
from `NoStrays` (`leaked`). A callback dropped before `forget` leaves the old
token in the cache, of which `NoOldGrant`, counted from `ForgetOld`, says nothing.
A held file that a restart loses costs a link a use, which
`LinksAreCapabilities` counts as any other.

## Proofs

TLAPS proves, for all values of the constants that the named assumptions allow
(disjoint process sets, lengths of life in `Nat`, `None` and `Gone` outside the
types):

`StagingProofs`: `TypeCorrect`, `TicketsAreSpentOnce`, `FilesHaveOneKeeper`,
`KeptFilesAreOnDisk`, `NoFileIsForgotten`, `UploadsAreUsedOnce`.

* `Typed` is the type invariant with what a request carries by the time a step
  needs it: an owner once it writes, one id once it stages.
* `TicketOnce` strengthens `TicketUsedOnce`: a ticket is in the map, or in the
  hands of one request that has no upload yet, or named by one upload.
* `Custody` is the inductive invariant of the rest. `OneKeeper` alone is not
  inductive: it does not know that the ids a request is about to read are
  distinct, that what it holds was drawn, or that an upload no request has is
  still fresh. So `Custody` says where each file may be claimed (`StagedAlone`,
  `HeldAlone`, `HandsApart`, `SweepsOnly`, `ReadsInOrder`), that claimed files
  are on disk and drawn (`BytesOnDisk`, `DrawnFirst`, `HeldDrawn`), that a
  file still staged or claimed by a request has reached nobody (`Fresh`), and the
  two theorems' own statements. One lemma per action shows it is kept; actions
  that only end a request share one.

`LinksProofs`: `TypeCorrect`, `NoUseIsLostOrMade`, `ConnectionsTakeTheirLinks`,
and `LinksImplementCapability`, the refinement.

* `Keeping` is the inductive invariant: the types; `Drafts`, that a call about
  to insert has an id nobody else has and no row was made with; and `Table`,
  that every row was minted, adds up with what was spent, and has its
  connection. The refinement maps `Insert` to `Draw`, `Take` to `Use`, and
  sweeps, prunes, cascades to `End`; every other step stutters.

`AccessProofs`: `TypeCorrect`, `CallsStayWithinReach`, `AllowlistsStayOwn`,
`ShownTokensStayWhole`, `NamesStayUnique`, `GrantsStayWithTheirAccount`.

* `InOrder` is the inductive invariant: the types; `Tables`, the properties of
  the rows with what they need (a list names what its token was asked for, what
  is open was opened); and one predicate per request (`CallInOrder`,
  `RequestInOrder`) that says what its earlier reads still guarantee. The
  argument turns on `Onward`: whatever a step does, a row that goes stays gone
  and what it says of its person and account never changes. So every request
  the step is not of stays in order (`OthersStayInOrder`), and each action has
  only its own request and the tables it writes to answer for.

`TokenCacheProofs`: `TypeCorrect`, `NoOldTokenAfterReconnect`,
`RetriesDiffer`, `RequestsAreShared`, `SkewIsEnough`, `TokensArriveAlive`.

* `Typed` is the type invariant with what a call or a handler carries by the
  time a step needs it. `NamesAssumption` says that consents are finitely many,
  which counting them needs, and that `None` is no slot and no token.
* `GrantsInOrder` is the inductive invariant of the first two results. Grants
  are numbered as they are written; `floor` is what a connection's cache was
  last cleared to. `NoOldGrant` alone is not inductive, since it says nothing of
  a slot that two calls share across a reconnect. `ArcInOrder` does: the calls
  that share an `Arc` asked between the same two clearings, a slot still in the
  map belongs to the calls since the last one, and what it holds is new enough
  for all of them. `TablesInOrder` says that a row is never behind its cache and
  that a handler about to clear has a grant no newer than the row's.
* `LocksInOrder` is that of `RequestsAreShared`: who works on a slot heads its
  queue, so that two never do, and a retry avoids a token Google did refuse.
* `TimesInOrder` is that of `SkewIsEnough`, the first attempts' part of
  `HandedOutAlive`: a request takes no longer than `Timeout` (`TimeInOrder`), so a
  slot's expiry is at most that much late (`SlotsInOrder`), and the skew covers
  it. It assumes of the constants what the code has (`SkewCovers`: both
  `EXPIRY_SKEW_SECONDS` and `REQUEST_TIMEOUT` are 60 s) and nothing of how many
  calls there are.
* A retry takes what is in the slot whatever its hour, so that `HandedOutAlive`
  as a whole depends on how long calls wait for each other. `LifeIsLong` says how
  long is short enough: a token outlives `2 * N + 1` requests, for `N` calls at
  once; with the code's 60 s and Google's 3600 s, up to 29 of them. The
  assumption is not idle: with two calls, a handler and a `Life` of three
  requests (`MCTokenCacheExpiry.cfg` with `Handlers = {h1}`, `Grants = {k1, k2}`
  and `MaxTime = 5`), TLC finds a retry that is sent with a token whose time is
  up. Two calls have a slot each, for a reconnect
  came between them; both are refused, both turn to the newer slot, and the
  second waits there for a request of the first that fails.
  `TokensInOrder` is the inductive invariant of `TokensArriveAlive`. It follows
  the bound along the call: no place in a queue is further back than there are
  calls (`PlacesInOrder`, `NobodyTwice`), and each who is ahead holds the lock
  for one request (`InLine`, counted from when the holder's request began). So
  what the map has by now and the call has not is newer than `N` turns when the
  call's turn comes (`FirstInLine`), than `N + 1` while it is sent
  (`FirstSent`), than `N + 2` when it asks again (`AskingAgain`), and than
  `2 * N + 1` when its turn comes again (`AgainInLine`).

`LinksProofs` further has `RefusalsAreTrue`, from `Refusals`: a row that is gone
has had its time or lost its connection (`Recorded`), and what a hit was refused
for cannot be undone by any step (`Asked`).

`DocsProofs`: `AnswersHold`, `ShownIsWritten`, `DocumentStaysWhole`,
`TextPlansAreTaken`, `BatchesAreCounted`.

* For any set of documents, any writes asked for and any edits of others.
  `CallInOrder` counts the batches taken by how far the call has come;
  `PlanOfRevision` says that while the document has the revision a plan names,
  it is the document the plan was made of.
* `DocumentStaysWhole` is `TypeOK` from `DocumentInOrder`: a document is units
  that end in the newline a body never loses (`Whole`), and the plan held has only
  requests of the kinds Docs knows (`SoundPlan`). One lemma has what Docs makes of
  a document by one request it accepts (`ServedWhole`, over `PutWhole`,
  `CutWhole`, `PutLineWhole`, `CutLineWhole` and `ReplacedAllWhole`), one by a
  batch of any length (`BatchWhole`), one that every tool plans such requests
  (`PlannedSound`), and one that the second batch does, though it is made of a
  document read back (`FillRequestsSound`, with `NewTableIsOne` and
  `LineIsCounted`). The bound on the revision is a count: what others did is what
  is left of the revisions without those of the call, of which there are at most
  two.
* Requests, ranges, units and the places of a text are walked by recursive
  functions. That such a function is there (`StepByStep`, and `ReplacedAllWhole`
  for the one that recurses forward) and that what each step keeps holds to the
  end (`Climb`, `FlatKeeps`) is shown by a least counterexample.
* `TextPlansAreTaken` is `DocsTakesEveryPlan` for the tools that work on text
  (insert, edit, style, code, image, replace), and for an append that nobody
  overtook. Its invariant is `PlanStands`: while the document has the revision a
  call names, the plan held is the one this very document gives, and the tool's
  own checks passed on it. What is left is one lemma per tool, that Docs accepts
  every request of such a plan on a document of any length. They rest on where a
  paragraph of the outline lies (`ParagraphLies`), on lengths, which are counted
  by the units of a paragraph (`UnitsAreCounted`, `CharsAreCounted`,
  `ULenIsMore`), on `Paragraph::index_at`, which stays in its paragraph and never
  goes back as the offset grows (`IndexFound`, `IndexesGrow`), on where matches
  are found (`MatchesFound`), and on what a request before has moved: requests
  that work from the end backward leave what is in front (`StepsBack`), and what
  stood at an index is found again behind what was put in front of it
  (`PutPushes`).
* Assumed: that documents are whole to begin with (`DocumentsAreWhole`), that
  parameters have the types of the structs of `src/mcp/docs.rs` (`OpsAreTyped`),
  and that edits are counted. A character is a string; the letters and styles the
  model names are added to `STRING` (`Strings`), since a prover does not know
  that they are in it.

`ToolsProofs`: `UploadsStayAccounted`, `ThreadsStay`, `ContentStays`.

* `UploadsInOrder` is what `UploadsAccounted` needs: where each call stands with
  its upload or its files (`CallsInOrder`, `DraftsInOrder`), and `Accounted`.
  `PinsInOrder` is what `PinnedStays` needs: the versions of a file have an
  order (`VersionsInOrder`), a call that replaces knows a version it has seen
  (`JobsInOrder`), and that version is marked and there (`PinInOrder`), since
  histories only grow and a marked version is never purged (`HistoryKept`).
  That a call goes on only with room for its mark comes from the count in
  `ReadHistory` and no guard of Drive's: `PinInOrder` carries it (`Room`) to the
  preview and the mark, over steps that keep more versions, as long as the list
  the call read still names every kept one (`RoomFound`, `RoomIsRoom`). That
  Drive is never asked for more is not so, and not claimed: another update may
  keep a version in between.
  `ThreadsInOrder` is what `ThreadsKept` needs: a call that has read a draft and
  not yet written it holds the conversation that draft is in now, which stays so
  because no step moves a draft (`Lasting`), and a deleted or sent one is never
  a draft again. `ThreadsStay` has the hypothesis `NoneIsNoDraft`, that the value
  for "no draft" is none itself; it quantifies over all records, so that TLC
  cannot evaluate it, and in the runs `None` is a model value.
  The assumptions `MailboxHoldsDrafts`, `CallsAskForThings`, `DriveHoldsItems` and
  `FilesHaveVersions` say what is at Google to begin with.

`FoldersProofs`: `FilesStayWhereAsked`, `FoldersStayAccounted`.

* `FoldersInOrder` is the inductive invariant. Its `Forest` says that what is in
  Drive hangs from the root and that a parent is older than its children, so
  that the way down to an item is settled when it is made: `WaysStay` and
  `BinsStay` compare the recursive functions `Way` and `InBin` before and after
  a step. Where an induction over the depth would do, the proofs take the least
  item that is a counterexample (`First`, from the well-foundedness of `<`).
* `CallPlaces` says the rest, per call: the way to the folder it has reached
  followed by the names still missing is the path it was given (`Underway`); what it
  found to be missing, and so would make, was not there, or was in the bin, among
  the items Drive had when it looked (`Unmatched`, `Apart`); and at most one item it
  has put into Drive is not among those it tells of (`Tells`). Each action has
  only its own call to answer for, by `OthersStayPlaced`.
* `StationsInOrder`, where a call of each tool may be, is proved first and used
  by all of it. The assumptions `IdsFromOne`, `DriveHoldsItems` and
  `CallsAskForThings` say that ids count up, that what was in Drive has its parents there, and that
  a path is a sequence of names. `NoneIsNoItem` is to items what `NoneIsNoDraft`
  is to drafts.

`AnswersProofs`: `RepliesFindPeople`, `AnswersStayTrue`, `ToolsTyped`,
`AttachingOnlyAdds`, `ChangesStayAsked`.

* `MailInOrder` is the inductive invariant. `RepliesReach` speaks of the copies
  whose text is the call's own, and a copy read from Gmail may be anybody's: so
  `Kept` says that a draft with a call's text is of a call that is over
  (`Ended`), and `Holds` that what a call has read is its own, such a one's, or
  a person's. `Addressed` is whom a message may be written as and to; it is
  settled when the message is composed and nothing a call or a person does
  afterwards touches it. `Adds` says the same of `gmail_attach_to_draft`: the
  copy is the draft as it was read, rebuilt, with the files added, which are
  nobody's else; `RebuiltKeeps` is what the rebuilding keeps of any draft.
  `AliasesAreAddresses` says that `None` is no address and that what Gmail
  writes as by default is an address it has verified.
* `AnswersKept` is the inductive invariant of the other two: all of the above
  and `FoldersInOrder` together, and per service what an answer rests on. An
  answer tells of what was changed steps before it is given, and the property
  compares it with what is at Google when it is given and ever after. So
  `Reported` ties what a call has changed (`did`, history) to how far it has
  come; `BooksKept` says that a spreadsheet a call has made keeps the tabs it
  got, each title of the list being there, missing or still to come (`Adding`):
  no person works in it, since it was not there when the call began, and other
  calls delete no tab; `FilesKnown` with `WrittenBy` that a version a call wrote
  stays; `EventsInOrder` that what was read of an event is an event;
  `ToldInOrder` that the messages told of are the first `asked` of the list,
  each in one of the two sets (`Counted`).
* Each service answers for its own state by one lemma per step (`DriveReports`,
  `SheetsReport`, `MailReports`, `EventChanges`), and `ReportedStays` is what the
  other calls owe. The assumptions say what is at Google to begin with
  (`SheetsHoldTabs`, `CalendarHoldsEvents`), what a call is asked with
  (`CallsAskForThings`), and that the strings the sheets start with are strings
  (`LiteralsAreStrings`), which a prover does not know. `NoneIsNoEvent` is to
  events what `NoneIsNoDraft` is to drafts.
* `ToolsTyped` is `TypeOK` from `AnswersKept` and `RestInOrder`, which has what
  no answer rests on: the labels, the uploads whose hour is up, the steps of
  others.
* `AttachingOnlyAdds` follows from `MailInOrder` and one fact about weights: two
  sets that share no file weigh together what each weighs. `Weight` is a
  recursive function over the subsets of a set, and which file it takes first is
  a `CHOOSE`, so the proof first shows that such a function is there
  (`SumsThere`), that it is the same on a smaller set (`SumsAgree`) and that any
  file may come first (`AnyFirst`), each by a least counterexample (`Subsets`).
  `FilesWeigh` says that files are finitely many and weigh a natural number.
* `ChangesStayAsked` is about steps, and most of it about one: what each write
  makes of the rows of a tab, for rows and numbers of any size
  (`AppendsAsAsked`, `WritesAsAsked`, `DimensionsAsAsked`). The last takes in the
  arithmetic of a release build: an end that wraps comes out at or below its start
  whenever a call's rows fit a u32 (`RangeIs`, from `SheetsHoldTabs`), and Sheets
  takes no such range. That a write loses nothing its caller was neither
  shown nor told the number of compares the step with an earlier one. It rests on
  what a preview reads and prints of any rows (`DoomedIs`, `PrintedIs`) and on
  counting the formulas it does not name (`NamedOrCounted`), and needs `ShownInOrder`: rows that are
  named are rows (`Checked`), what was shown is of a tab of the title named
  (`Saw`), and no two tabs of a spreadsheet have one title, whoever adds, moves or
  renames them (`TitlesApart`), so that the tab shown is the tab changed. For
  events it needs `PatchesInOrder`: a call goes on only with an event it read
  without guests, and sends no field but those it was given.
  `NoneIsNoBook` and `NoneIsNoMoment` are to spreadsheets and times what
  `NoneIsNoDraft` is to drafts.

Only model-checked: liveness (`FilesForgotten`, `CallsEnd`), which under
fairness is out of the prover's reach; what a batch makes of the words of a
document (`WritesAreExact`, `FilledAsAsked`), which compares two documents
paragraph by paragraph and cell by cell through a batch of any length; and
`DocsTakesEveryPlan` for tables, rows, columns and deletions. Whether Docs takes
those depends on how the tables of a document are nested, and `DocumentsAreWhole`
says nothing of that: it would need a grammar of tables as a further assumption,
and an induction over their depth that every request preserves it.

## What is left out

* Contents, names, sizes beyond the cap, MIME types, wording of errors, HTTP
  headers, peers' addresses: no property is about them.
* SQLite itself. A statement or a transaction is one atomic step, and a failed
  one changes nothing; `busy_timeout` and the WAL are not modelled.
* The cipher and the randomness of ids: sealed tokens open or do not, ids are
  new.
* Mutex poisoning and panics. The code holds its locks for a map operation.
* Time within a tick. Two clock reads in one handler may differ by a tick
  where the code reads twice (`held` and `links`), and not otherwise.
* Tools that only read, and how they render what they read: they change nothing
  here or at Google. Time zones are a conversion of the Calendar tools' replies.
* Pure functions of one input: `src/google/text.rs`, `src/domain/image.rs`, the
  MIME and multipart encodings. They keep no state and meet nobody; their unit
  tests say more of them than a model would.
* The scope registry: constant tables, which a test of the repository already
  compares with the tools. A missing scope only ever refuses a call.
* The send-as cache: a list of addresses that is there or is not (`Aliases`).
* Configuration and routing, read once at the start; printing; the portal's
  pages, which keep nothing another component relies on.
