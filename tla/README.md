# A TLA+ model of VersionServer

VersionServer is an HTTP API for release artifacts: users sign in, admins enroll users, grant them
projects and upload files into versions of projects, clients list and download them.  A browser
client is served along with it.  This directory holds TLA+ modules of the parts that keep state,
TLC configurations that check them on small instances, and TLAPS proofs of every safety property the
passing configurations check.  Paths below are relative to the repository; `app.py` stands for
`versionserver/app.py`, `app.js` for `versionserver/static/ui/app.js`.

## The system

| part | state | operations | talks to |
| --- | --- | --- | --- |
| Account API (`app.py`, `tokens.py`) | none of its own but signed tokens in clients' hands | login, password change, enroll, delete, grant | one of the two databases |
| Artifact API (`app.py`) | none of its own | upload, list, download, archive, delete file, delete version | database, file store |
| JSON store (`database.py`, `models.py`) | `_state` in memory, one JSON file | mutations, `_persist`, `_load_or_seed`, queries | the file system |
| MongoDB store (`mongo.py`) | collections `users`, `grants`, `artifacts` | the same interface, one command or more each | a MongoDB server, shared by processes |
| File store (`files.py`) | a directory tree `{project}/{version}/{path}` | `store`, `delete`, `delete_version`, `list`, `open` | the file system |
| Startup synchronisation (`sync.py`) | - | gives every file on disk a row in the index | file store, database |
| Version list (`database.py`) | - | `version_summaries`: which version is the latest | rows of the index |
| Web client (`app.js`) | session, selection, the lists in the page, the upload queue | click handlers that await responses | the API |
| Server processes (`main.py`) | two uvicorn servers in one event loop, their signal handlers | start, bind, stop together | configuration, signals |
| Keys, configuration, TLS (`config.py`, `signing.py`, `pem.py`, `tls.py`) | read once at startup | what signs tokens, what HTTPS presents, what is refused | files, environment |
| Documentation pages (`docs.py`) | markdown files next to the code | serve, rewrite links | the file system |
| Access log, logging (`middleware.py`, `logging_config.py`) | - | turns an error in a response into 500, or cuts it off | - |
| Scripts (`scripts/`, `docker/`) | a JWT key pair on disk | provision, copy, run | docker |

**How they interact.**  All request handlers are coroutines on one event loop.  `JsonDatabase` and
`FilesystemFileStore` are synchronous, so what a handler does between two `await`s is one step for
every other handler.  The only awaits before a mutation are those that read the request's body; the
check of the caller comes *before* them (a dependency of the handler), the lookup and the mutation
*after*.  A response that streams a file is the exception: it hands each
read to a worker thread, and other handlers run in between.  A mutation of the JSON store changes
`_state`, then `_persist` writes the whole document
to a temporary file and renames it.  The account half and the artifact half share that document, so
either half's persist writes the other half too.  An upload or a deletion changes the file tree
first and the index second.

**What is hard.**

* A body that is awaited between the check of a caller and the change it asks for.
* A process that dies, or a write that raises, between memory and file, between file tree and
  index, in the middle of a copy or of an `rmtree`; and the retry of a request that ended in 500.
* A startup that must reconcile two stores, of which either may be ahead.
* On MongoDB: several processes, and handlers of several commands.
* In the browser: answers that arrive after the user has moved on; lists drawn for one user or one
  selection and used under another; loops that read shared state after each await.
* Time stamps that decide which version is the latest, while the migration of an old store stamps
  rows in the future and two uploads may read the clock alike.
* File names that several rules interpret: the store's, the listing's, the archive's, the browser's.
* Two servers in one event loop that take signals from each other, and a task that stops the one
  when the other was told to.

**What makes each part correct.**

* Accounts: an Admin always exists; no grant without its user; what was answered 2xx survives.
* Artifacts: an upload answered 201 is there, with its row, until something else is asked of it; a
  deletion answered 204 holds, for the bytes and for the row of its name; a file is listed without a
  time only if its upload failed or was spelled otherwise.
* Version list: the version marked latest holds the newest upload.
* MongoDB: the same promises as the JSON store, for as long as handlers that work on the same thing
  do not overlap on two servers and are not interrupted.
* Downloads: what a client receives in full is one file of one instant; no archive is left on disk.
* Paths: a name stays inside its version, and a listed name leads back to its file.
* Processes, keys, TLS: what the environment names is used or the start fails; one signal stops both
  servers and cuts no request off.
* Web client: what the page shows and what its buttons do agree with the selection and the user.

`PROJECT.json` lists the hazards of this kind, each at its line, with the properties that cover it.

## The modules

| module | models | extends, composes |
| --- | --- | --- |
| `JsonStore` | memory, file, `_persist` with its outcomes, crash, `_load_or_seed` | - |
| `Accounts` | the account half of the API over `JsonStore` | `JsonStore`; `Book == INSTANCE AccountBook` |
| `AccountBook` | the abstract specification of the account half | - |
| `Artifacts` | the artifact half over `JsonStore`, the file tree, the startup synchronisation | `JsonStore` |
| `Server` | both halves in one process over one document | `A == INSTANCE Accounts`, `R == INSTANCE Artifacts` |
| `VersionList` | `version_summaries` and the stamps that decide it | - |
| `Paths` | the path rules of the file store, listings, archive prefixes and entries | - |
| `DocPages` | which documentation pages are served, how links between them are rewritten | `Paths` |
| `Downloads` | `FileResponse` and archives while files change, temporary archives | - |
| `MongoAccounts` | users and grants in MongoDB, one step per command, several servers | `Book == INSTANCE AccountBook` |
| `MongoArtifacts` | the index in MongoDB next to the tree, several servers | - |
| `KeyMaterial` | what the environment names as keys, what signs and verifies tokens | - |
| `TlsMaterial` | PEM pairs, PKCS#12 and JKS files, the HTTPS port | `KeyMaterial` |
| `Serve` | the process: configuration, two servers, signals, the watching task | `TlsMaterial` |
| `WebSession` | the browser client's session, selection, lists and Delete buttons | - |
| `UploadQueue` | the browser client's upload queue | - |
| `AccountsProofs`, `ArtifactsProofs`, `MongoAccountsProofs`, `MongoArtifactsProofs`, `ServeProofs` | theorems and their proofs | the module they are about, `TLAPS` |
| `ReadingProofs` | the same for what readers get | `Downloads`, `DocPages` (and so `Paths`), `VersionList` |
| `ServerProofs` | the same for `Server` | `Server`; `AP == INSTANCE AccountsProofs`, `RP == INSTANCE ArtifactsProofs` |
| `WebClientProofs` | the same for the browser client | `WebSession`; `Queue == INSTANCE UploadQueue` |
| `MCReading` | `Downloads` and `VersionList` beside each other | both |
| `MCWebHasty` | `WebSession` and `UploadQueue` beside each other, of a user who waits for nothing | `UploadQueue`; `Page == INSTANCE WebSession` |
| other `MC...` | constants for TLC | the module they instantiate |

Definitions marked `Mutant` are variants of the definition that follows them, as a plausible bug
would change it; each property of a passing run is violated when its mutant takes the place of the
definition (`PROJECT.json`, "mutants").  No specification uses them.

### JsonStore

`mem` is `_state`, `disk` the store file, `up` whether `create_app` has returned.  `Persist(doc,
outcome)` is the end of a mutation: `"saved"` (renamed and answered), `"failed"` (the write or the
rename raised: the old file stays, the new document stays **in memory**, the client is told 500),
`"died"` (renamed, but the process is gone before the answer).  The rename is atomic, so a crash
before it is a crash before the mutation.  `LoadOrSeed` is `_load_or_seed`: a missing, blank or
user-less file gives the defaults, which are written out.  With `ReadErrors`, so does a file that
exists and cannot be read, because the code catches `OSError` around the read (`database.py:228`).
The document is left open: each half of the API instantiates it with the half it uses, and sees the
other half's writes as `OtherHalfPersisted` (`disk' = mem`, after which the process may die).  That
the two views fit together is what `Server` shows.

### Accounts and AccountBook

A request with a body is two steps: `Admit` (the token passed `require_user` or `require_admin`)
puts it into `pending`, and `EnrollUser`, `ChangePassword`, `GrantAccess` or `GrantAgain` resumes
it; `GiveUp` is every way it ends without effect (400, 401, 404, 409, a disconnected client).
`DeleteUser` has no body and is one step. Login awaits its body before it looks at anything and is
one step too. A token is its subject, because the server looks at nothing else that it names
(`app.py:87`): `tokens` is the set of subjects that hold one. Passwords are compared by digest; the
model compares the passwords. `told` and `toldGrants` are history variables: what the last answered
change of an account was, and which grants were answered 204.

`AccountBook` is what the account half promises: operations that take effect at once and as a
whole, on a book and its saved copy.  `Accounts` implements it with the document in force (memory,
or the file while the server is down) as the book and the file as the copy.  A delete that left the
last Admin, a grant to a user who is gone, a change of role, or a file that holds half an operation
would be no step of the book.

### Artifacts

`files` and `dirs` are the storage tree, per version; `mem` and `disk` hold the index.  Names are
what requests spell, `Norm` maps a name to its path (`_safe_relative_path`: backslashes become
slashes; a name that climbs out or is empty has none), `Inside` says which path lies below which
taken as a directory.  A handler that has begun is `running`: upload is `OpenForUpload`, `CopyDone`
or `CopyFails`, `AddArtifact`; file deletion is `Unlink`, `RemoveArtifact` or `RemoveNoArtifact`;
version deletion is `BeginRmtree`, one `RmtreeEntry` per entry, `RmtreeDone` or `RmtreeFails`,
`RemoveVersion` or `RemoveNoVersion`; the startup is `Start`, one `SyncFile` per file without a row,
`SyncDone`.  No other request runs in the middle of one, and a `Crash` may.  The tree goes by the
path, the index by the name: the code does the same (`app.py:367`, `:433`).  `told` is what the last
answered request said of a *name*; as soon as a request on a path begins, nothing is settled of any
name of that path.  `torn` are the files whose upload has ended in 500, and `unwritten` the rows
that left memory in a removal that failed to persist and that the file has still.

`ListFiles` is what `list_files` answers: each file with the stamp of the row under its path, or the
epoch.

Left out: authentication (in `Accounts`), downloads and archives (in `Downloads`), stamps beyond "by
an upload" and "from the mtime" (in `VersionList`).

### Server

One process, one document, one lock, one event loop: the account half (`book`, `bookFile`) and the
artifact half (`index`, `indexFile`) have one `up`, a persist of either writes both, a crash loses
both, a start loads or seeds both, and it seeds by whether the file has *users*.  Its actions are
those of `Accounts` and `Artifacts`, joined with what they do to the other half.  An account request
runs only while no artifact handler is between two of its changes.  An upload checks its caller and
then waits for its form (`forms`); the deletions check and go on at once.  `ServesAccounts` and
`ServesArtifacts` say that each half, looked at alone, sees no more than its own module allows, so
that what `Accounts` and `Artifacts` promise holds of the whole.  `ServerAssumption` is what the two
assume of their constants.

### VersionList

Rows are stamps in microseconds, as `timefmt.py` writes them; version names are numbers ordered like
the strings.  `SortsAfter`,
`LatestName` and `VersionSummaries` are `version_summaries`.  The stamps come from the migration of
an old store (`Load`, which puts `Second` units between two rows: two in the run, a million in the
code), from the synchronisation (`SyncFile`, an mtime not after now) and from
uploads (`AddArtifact`).  `SummariesRight` is the reference definition.  `Sorted` says what place a
name has in the sorted list, which is all that the proofs need to know of sorting.

### Paths and DocPages

A name is the sequence of segments between its slashes, empty ones and dots included. `Resolve`,
`List`, `ListAll`, `ArchivePrefix`, `MatchesArchivePrefix` and `ArchiveEntryName` are the functions
of `files.py` and `app.py` by what they do to such a sequence; `Walk` is where the operating system
ends up, and is the reference they are compared with. `Store` fills the tree with whatever the
rules let through. A file name without segments, a NUL byte and the case of letters are not told
apart. `DocPages` adds a reader who types paths and follows links: `RewriteDocLink` must lead where
`Walk` leads from the file that holds the link. `Walk` and `NormalizeRelativePath` go segment by
segment, by `Step` and by `AddPart`, as recursive functions.

### Downloads

`download_file` looks whether the file is there, and returns; `FileResponse` then stats, opens and
reads, each on a worker thread (`on = "thread"`), and the event loop sends what came back (`on =
"loop"`). Uploads truncate in place and copy piece by piece on the event loop, so a worker thread
sees a half-written file and a handler does not. A deletion unlinks: whoever has the file open
keeps its bytes (`file`). `began` are the bytes when the download began, `overwritten` that an
upload opened the same path since. An archive is written on the event loop (`WriteEntry` per file)
to a temporary file, which the background task of its response removes. How `FileResponse` and
uvicorn go about it is taken from their use; those definitions are marked external where no line of
the repository stands behind them.

### MongoAccounts and MongoArtifacts

A handler runs to its end within its server process, but each pymongo command is a step: `server`
says which command a server has come to, and `Act(s)` are the commands it may run next.
`_seed_if_empty` is `CountUsers` and one `SeedUser` per document (`insert_many` is unordered,
duplicates are skipped); enrollment is `Enroll` (lookup) and `InsertUser` or `InsertDuplicateUser`;
a grant is `Grant` (lookup) and `InsertGrant`; a deletion is `Delete` (the check of the caller),
`FindVictim`, `DeleteOneUser`, `DeleteManyGrants`. `Break` loses the process or the connection
inside a handler or a start. The waits for bodies are as in `Accounts` and are not repeated.
`overlapped` says that two servers were in the middle of something at once.

`MongoArtifacts` has the tree and the collection `artifacts`, both shared. What a server is in the
middle of is a record with the same fields everywhere (`Activity`: where it is, what it is about,
what is left to do, what it has found); `Begin` starts one, `GoOn` goes on with it. An upload is
`Store` and `UpsertArtifact`; a deletion is `Unlink`, `FindArtifact`, `DeleteArtifact`; a version's
is `DeleteVersion`, one `RmtreeFile` per file, `RmtreeDone` or `RmtreeRaises`, `DeleteArtifacts`; a
start lists the tree file by file and then looks up and adds row by row. `Break` ends a handler or
a start after any step. `alone` says that no handler of another server that could undo this one's
work has overlapped with it: uploads meet deletions of the same file, a start meets everything.

### KeyMaterial, TlsMaterial and Serve

The environment is a record with one field per variable; each value is unset, blank, a PEM text or
the path of a file; a certificate is named by the key it certifies. `LoadJwtSigning`, `SigningKey`,
`VerifyKey`, `LoadServerTls` and the functions under them decide, as the code does, what is
accepted. What the `cryptography` and `pyjks` libraries parse is given by the file's record.

`Serve` runs such an environment: `Configure` is `main` up to `_serve`, `Enter`, `Bind`, `Tick`,
`Drained` are the phases of a uvicorn server, `Watch` is `stop_https_when_http_stops`, `Signal` the
operating system.  A server that starts takes the signal handlers (`handler`) and remembers the ones
it found (`original`); when it returns it puts them back and raises the signals it caught again
(`Return`); what any number of signals does to a server is `HandleExits`, uvicorn's `handle_exit`
once for each.  A server that was told to stop before it bound its port returns without closing it
(`"adrift"`), as uvicorn does.

### WebSession and UploadQueue

`WebSession` has the client's `state` object, the cookie, and of the page what matters to its
buttons: whose Delete buttons the user list has, and of which project and version, and for which
role, the version list and the file list were drawn (`Versioned`, `Filed`). A handler of the page
that awaits a response is a task, given by its request. A click starts a task, a response goes on
with it, and between the two any other handler may run. With `Patient`, the user waits for the
answers to one selection before the next, but uses the panel of users and projects meanwhile
(`Waited`); without it, as in `MCWebHasty`, the user waits for nothing. Left out is that
`uploadPending` opens the project and the version again when it is done (`app.js:634`).
`UploadQueue` is the loop of `uploadPending`: it iterates over the queue as it was, reads the
project anew for each file, and clears the whole queue when it is done.

## The runs

| run | instance | shows |
| --- | --- | --- |
| `MCAccounts` | 2 users, 1 project, 2 passwords, 2 waiting requests, 1 failing persist | type, `HasAdmin`, `NoOrphanGrant`, `AnsweredAccountsKept`, `AnsweredGrantsKept`, `ImplementsBook` |
| `MCArtifacts` | 1 version, a path and a path below it, a second spelling of the latter, a name that climbs out, 2 faults | type, `UploadsKept`, `DeletedFilesAbsent`, `DeletedRowsGone`, `EpochExplained`, `HandlersEnd` |
| `MCServer` | 2 users, 1 project, 1 password, 1 task, 1 version, 1 path, 1 fault in each half | `ServesAccounts`, `ServesArtifacts` |
| `MCPaths` | names of 1 to 3 segments over `""`, `.`, `..`, `a`, `b`; trees of up to 2 files; 3 pages | `StaysInside`, `ListedNamesResolve`, `ArchivesUnpackWhole`, `LinksKeepTheirMeaning` |
| `MCReading` | 2 files, contents of different length, 1 request, 2 faults; 3 versions, 2 names, times 0 to 3, a store of an older release migrated in steps of 2 | `CompleteIsExact`, `ArchiveOfOneInstant`, `NoStrayArchives`, `SummariesRight`, `LastUploadIsLatest` |
| `MCMongo` | 2 servers, 2 users, 2 projects, 2 passwords, 1 interruption | `RemovedStayRemoved`, `AdminRemains`, `NoTakeover`, `ImplementsBook` |
| `MCMongoArtifacts` | 2 servers, 2 files in one version and 1 in another, 2 interruptions | `AnswersKept`, `StartHeals` |
| `MCServe` | the environments of three tables, 2 signals, 1 request at a time per server | `TokensAsConfigured`, `OneSignalCutsNothing`, `SignalsAreHeard`, `NeverHttpOnly`, `StopsWhenIdle` |
| `MCWebSession` | 2 admins, 1 client, 2 projects, 2 versions, 2 tasks of a patient user, failing requests | `PageAgreesWhenSettled`, `ShownUserIsCaller`, `DeletesWhatItShows` |
| `MCWebHasty` | an admin and a client, 1 project, 1 version, 2 tasks of a user who waits for nothing; 2 files, 2 projects, 2 uploads at once; failing requests | `NothingDoneSignedOut`, `BatchUploaded`, `ClearsOnlyUploaded` |
| `MCUnreadableStore` | `MCAccounts` with read errors | violates `AnsweredAccountsKept` |
| `MCRespelledDeletion` | 1 path of 2 spellings, no fault | violates `DeletionsComplete` |

A run that violates its property shows where the code does not do what the repository's own
documents say; see below.  `MCReading` and `MCWebHasty` hold two modules each that share no
variable, and no property is about both, so that one moves while the other is where it begins.

The type invariants of `MongoAccounts`, `MongoArtifacts`, `Downloads`, `Serve`, `WebSession` and
`UploadQueue` are a conjunct of `RemovedStayRemoved`, `AnswersKept`, `NoStrayArchives`,
`SignalsAreHeard`, `PageAgreesWhenSettled` and `BatchUploaded`. `Server` has those of its two
halves. `AnswersKept` stands for `UploadsIndexed` and `DeletionsKept`, `ArchivesUnpackWhole` for
`ArchiveComplete` and `EntriesUnpack`, `PageAgreesWhenSettled` for the three it is a conjunction
of.

**Bounds, and why they are enough.**  Two users are an admin and somebody to enroll, grant, promote
and delete; each may become an admin who deletes the other.  Two waiting requests are one whose
check has gone stale and one that made it so, or two that race.  One failing persist is what memory
running ahead of the file takes, and a crash, which is not counted, makes the difference visible;
the artifact half has two because there a copy and a persist may fail in one history.  A path below
another is what makes a file stand where a directory is needed, and a second spelling of one of them
is what keeps tree and index apart: `MCArtifacts` has both, and then one version has to do: that
what is done to a version leaves the others alone is in the theorems, which hold for any versions.
`MCServer` has the least of each half with which every action of both fires: what the halves do
among themselves is in their own runs, and here only what one does to the other counts.  In
`MCReading` every table of at most six stamps arises, with every tie.  Three segments are a project
or version that is a dot, a climb and a return, a file below a directory; two files are one that is
meant and one that may be hit.  Downloads touch each other only through the files and the event
loop, so one of them against uploads and deletions is enough; contents of two lengths let the
announced size be too large and too small, and two contents of one length let it be right and wrong.
Two servers and two users on MongoDB are two admins who delete each other, and a default user who is
seeded while being deleted; two interruptions in `MCMongoArtifacts` are a handler that is cut off
and a start that is.  The tables of `MCServe` hold, for each variable, the values that the code
tells apart: unset, blank, right, wrong, a file that is missing or damaged.  In the browser two
tasks are a selection and the panel beside it, and for a user who waits for nothing a handler under
way and the sign-out; the races of two selections are reported below.  The bounds on faults
(`MaxFaults`), time (`MaxTime`), signals (`MaxSignals`), requests (`MaxBusy`) and files (`MaxFiles`)
are guards of the model; nothing else is capped.  Symmetry is used where the values are
interchangeable and no liveness is checked.

`CHECK_DEADLOCK` is off in `MCServe`, whose process ends, and on elsewhere: there, something can
happen in every state.

**Conditions inside properties.**  Some promises hold only as long as nothing has gone wrong that
the code does not handle, and their properties say so:

* until a write has failed: `AnsweredGrantsKept` (after it, a repeated grant finds its work done in
  memory and is answered 204 without a persist);
* but for the rows in `unwritten`: `DeletedRowsGone` (a repeated deletion of such a row is answered
  204 from memory, and the row is back after a restart);
* about the row of the name that was deleted, not of other names of the path: `DeletedRowsGone`
  (`MCRespelledDeletion` shows why);
* unless the upload failed or the row is under another name: `EpochExplained`;
* until a handler was interrupted: `ImplementsBook` of `MongoAccounts`;
* until two servers have overlapped: `AdminRemains`, `RemovedStayRemoved` and `ImplementsBook` of
  `MongoAccounts` (`overlapped`), and per handler `AnswersKept` and `StartHeals` (`alone`);
* until an upload opens the path that is being downloaded: `CompleteIsExact` (`overwritten`);
* for one signal, sent when the servers listen: `OneSignalCutsNothing`; if the clients let the
  servers get idle: `StopsWhenIdle`;
* for a user who waits for the answers to a selection: the three of `MCWebSession` (`Patient`);
  until a request has failed: `DeletesWhatItShows` and `PageAgreesWhenSettled` (`lost`);
* for an upload during which the user left the page alone: `ClearsOnlyUploaded` (`alone`);
* unless the migration had stamped rows in the future: `LastUploadIsLatest`.

`Patient` is a constant that the run sets.  Of the others the bad event occurs in the run, so that
the condition is false in part of the states only.  The other constant that restricts what may
happen is `ReadErrors`: only `MCUnreadableStore` lets the read of a store file fail, since nothing
that was answered is kept after that.  The properties that are not listed, `NothingDoneSignedOut`
among them, have no condition beyond that.

**Fairness.**  `HandlersEnd` is checked under `FairSpec == Spec /\ WF_vars(Continue)`.  `Continue`
are the steps of a handler or a startup that has begun.  They run synchronously, take no lock that
another may hold across a wait, and wait for nobody, so that the thread of the event loop goes on
with them or dies: weak fairness is what an operating system gives a runnable thread.  `Serve` has
weak fairness of `Configure`, `Watch` and, for each server, of entering, of binding or failing to,
of its tick and of the end of its drain: these are coroutines of one event loop that wait for a
timer, the loop, or their connections, and the loop comes back to each.  No fairness is assumed of
requests, answers, signals, crashes or starts; that clients let a server get idle is a hypothesis of
`StopsWhenIdle`.

## Deviations found

With a run and a finding in `PROJECT.json`:

* A store file that exists and cannot be read is overwritten with the defaults (`database.py:228`;
  `MCUnreadableStore`).
* A file uploaded as `lib\bin` and deleted as `lib/bin` keeps its row and its version
  (`app.py:433`; `MCRespelledDeletion`).

Seen in runs of these models while they were written, not kept as runs:

*Accounts and artifacts.*

* A grant or a deletion that is repeated after its persist failed is answered 204 from memory; after
  a crash the grant is lost, and what was deleted is indexed again (`database.py:117`, `:187`,
  `:208`).
* A file uploaded as `lib\bin` is listed with the epoch as its time (`app.py:381`).
* The token of a deleted user works again once the id is enrolled again (`app.py:87`), where
  docs/specs/API-SYSTEM.md:63 says that existing tokens stop working.
* An enrollment or an upload whose caller is deleted while the body is awaited succeeds
  (`app.py:238`, `:309`).
* A crash during a re-upload leaves part of a file, which is served (`files.py:45`).
* The migration stamps rows in the future, so a later upload is not the latest (`database.py:235`).

*Downloads.*

* A download whose path is uploaded anew with as many bytes mixes the two (`app.py:423`).
* An error between the creation of a temporary archive and the end of its response leaves the file
  (`app.py:405`).

*MongoDB.*

* A deletion interrupted between its two commands leaves grants, which the next user with the id
  inherits (`mongo.py:53`).
* Two servers: a default user deleted before the other has seeded comes back (`mongo.py:157`); of
  two enrollments of one id, one is answered 400 and not 409 (`app.py:251`); a grant inserted after
  the deletion of its user stays; two Admins delete each other and none is left (`mongo.py:49`).
* Two servers: an upload and a deletion of one file that overlap leave a row without a file or a
  file without a row; a start indexes what is deleted meanwhile (`mongo.py:136`, `sync.py:30`).
* A deletion cut off after the unlink leaves a row without a file, which no start removes.

*Process, keys, TLS.*

* A signal before both ports are bound may cut requests off: uvicorn returns from a startup that was
  told to stop without closing its port.
* After a signal HTTPS stops first, and plain HTTP accepts requests until it has (`main.py:155`), so
  that one HTTPS request that hangs keeps plain HTTP up.
* `install_signal_handlers = lambda: None` has no effect on the uvicorn in use, which has no such
  method any more (`main.py:121`-`155`).
* A PEM file that is not UTF-8 ends the start with a traceback and no message (`pem.py`).
* docs/API.md:362 calls the alias that of the private key; the code accepts that of a further
  certificate of a PKCS#12 file, without effect, and only the first private key of a JKS file is
  looked at (`tls.py`).
* docs/API.md:29 says that tokens are HMAC-signed otherwise; with only one of the two JWT variables
  set the start is refused (`signing.py:71`). docs/API.md:124 says that existing tokens remain
  valid until the process restarts; they survive restarts.

*Browser.*

* With two answers under way: files of one version under the heading of another (`app.js:587`), the
  workspace back after a sign-out (`app.js:559`; it goes no further, see `NothingDoneSignedOut`), a
  Delete button that acts on the new selection
  (`app.js:527`), queued files cleared without an upload (`app.js:632`).
* The rest of an upload goes to the project that was opened meanwhile (`app.js:622`).
* Until the answer to the next request: Delete buttons drawn for the user before (`app.js:229`,
  `:570`).

## The proofs

TLC checks the instances above; TLAPS proves the following for every set of users, projects,
passwords, versions, paths, names, files and contents, any number of servers, waiting requests,
signals and faults.  The theorem modules use the assumptions of the modules they are about, and
nothing else:

* `StoreAssumption`, `AccountsAssumption`, `ValueAssumption`, `ArtifactsAssumption`,
  `IndexAssumption`, and `ServerAssumption`, which is those five for the two halves: the defaults
  include an Admin, marker values differ from data, a path spells itself;
* `MongoAssumption` (the defaults include an Admin), `MongoArtifactsAssumption` (each file is of one
  version);
* `DownloadsAssumption`, `IdleAssumption`: finitely many requests at once, contents have a size,
  marker values differ from data;
* `PathsAssumption`, `DocPagesAssumption`: names have at least one segment, the documentation is not
  the root of the file system, and a link ends in a file name, as the `.md` that `rewrite_doc_links`
  looks for makes it;
* `VersionListAssumption`: the rows of the old store are rows of versions, marker values differ from
  data;
* `KeyMaterialAssumption`, `ServeAssumption`: marker values are no keys, the bounds are numbers;
* `WebAssumption`, `QueueAssumption`: roles are roles, marker values differ from data.

Some theorems have a hypothesis on the constants besides, `~ReadErrors` or `Patient`.  They are
explained below; without it the statement is false.  The two about the upload queue state
`QueueAssumption` as a hypothesis because the module is instantiated.

| theorem | states |
| --- | --- |
| `AccountsProofs!TypeCorrect` | `Spec => []TypeOK` |
| `AccountsProofs!AdminRemains` | `Spec => []HasAdmin` |
| `AccountsProofs!GrantsGoWithUsers` | `Spec => []NoOrphanGrant` |
| `AccountsProofs!AnsweredChangesSurvive` | `~ReadErrors` implies `Spec => []AnsweredAccountsKept` |
| `AccountsProofs!AnsweredGrantsSurvive` | `~ReadErrors` implies `Spec => []AnsweredGrantsKept` |
| `AccountsProofs!ServerImplementsBook` | `~ReadErrors` implies `Spec => ImplementsBook` |
| `ArtifactsProofs!TypeCorrect` | `Spec => []TypeOK` |
| `ArtifactsProofs!AnsweredUploadsSurvive` | `~ReadErrors` implies `Spec => []UploadsKept` |
| `ArtifactsProofs!AnsweredDeletionsHold` | `Spec => []DeletedFilesAbsent` |
| `ArtifactsProofs!DeletedRowsStayGone` | `Spec => []DeletedRowsGone` |
| `ArtifactsProofs!ListedFilesAreStamped` | `Spec => []EpochExplained` |
| `ServerProofs!ServerServesAccounts` | `Spec => ServesAccounts` |
| `ServerProofs!ServerServesArtifacts` | `Spec => ServesArtifacts` |
| `ServerProofs!ServerKeepsItsInvariants` | `HasAdmin`, `NoOrphanGrant`, `DeletedFilesAbsent` always hold of the server |
| `ServerProofs!ServerKeepsItsAnswers` | `~ReadErrors` implies the same of `AnsweredAccountsKept`, `AnsweredGrantsKept`, `UploadsKept` |
| `ServerProofs!ServerKeepsItsIndex` | `DeletedRowsGone`, `EpochExplained` always hold of the server |
| `ServerProofs!ServerIsAnAccountBook` | `~ReadErrors` implies that the server implements `AccountBook` |
| `MongoAccountsProofs!TypeCorrect` | `Spec => []TypeOK` |
| `MongoAccountsProofs!RolesAreForLife` | `Spec => NoTakeover` |
| `MongoAccountsProofs!DeletedUsersStayDeleted` | `Spec => []RemovedStayRemoved` |
| `MongoAccountsProofs!AnAdminRemains` | `Spec => AdminRemains` |
| `MongoAccountsProofs!MongoIsAnAccountBook` | `Spec => ImplementsBook` |
| `MongoArtifactsProofs!AnswersAreKept` | `Spec => []AnswersKept` |
| `MongoArtifactsProofs!StartsHeal` | `Spec => StartHeals` |
| `ReadingProofs!CompleteDownloadsAreExact` | `Spec => []CompleteIsExact` |
| `ReadingProofs!ArchivesAreOfOneInstant` | `Spec => []ArchiveOfOneInstant` |
| `ReadingProofs!TempsDoNotPileUp` | `Spec => []NoStrayArchives` |
| `ReadingProofs!FilesStayInside` | `PathsSpec => []StaysInside` |
| `ReadingProofs!NamesAreApart` | two requests mean one file exactly if they differ in slashes around the name at most |
| `ReadingProofs!ListingsLeadBack` | `PathsSpec => []ListedNamesResolve` |
| `ReadingProofs!ArchivesAreWhole` | `PathsSpec => []ArchivesUnpackWhole` |
| `ReadingProofs!LinksLeadWhereMeant` | `DocSpec => []LinksKeepTheirMeaning` |
| `ReadingProofs!LastUploadCounts` | `ListSpec => []LastUploadIsLatest` |
| `ReadingProofs!SummariesAreRight` | `ListSpec => []SummariesRight` |
| `ServeProofs!NothingIsCutOff` | `Spec => []OneSignalCutsNothing` |
| `ServeProofs!SignalsAreAlwaysHeard` | `Spec => []SignalsAreHeard` |
| `ServeProofs!TokensAreAsConfigured` | `Spec => []TokensAsConfigured` |
| `ServeProofs!NamedTlsStarts` | `Spec => []NamedTlsIsStarted`, the safety part of `NeverHttpOnly` |
| `WebClientProofs!SignedOutAsksNothing` | `Spec => NothingDoneSignedOut` |
| `WebClientProofs!ShownUserCalls` | `Patient` implies `Spec => []ShownUserIsCaller` |
| `WebClientProofs!SettledPageAgrees` | `Patient` implies `Spec => []PageAgreesWhenSettled` |
| `WebClientProofs!ButtonsDeleteWhatTheyShow` | `Patient` implies `Spec => DeletesWhatItShows` |
| `WebClientProofs!WholeBatchArrives` | `Queue!Spec => Queue!BatchUploaded` |
| `WebClientProofs!QueueLosesNothing` | `Queue!Spec => Queue!ClearsOnlyUploaded` |

Each inductive invariant named below was also checked by TLC on the instance of its module's run.

*Accounts.* The argument goes through an abstraction of the steps. `StoreStep` says what any step
may do to the store: nothing, persist one of four `Mutation`s of the document in memory with one of
the three outcomes, persist for the other half, die, or load. `StepsOnTheStore` shows, action by
action, that `TypeOK /\ [Next]_vars => StoreStep`, and the invariants and the refinement are then
proved per kind of store step. A mutation keeps an Admin because a deletion's caller is an Admin
other than its victim *in the same step*; it keeps `GrantsTargetUsers` because a grant's target is
looked up in the step that adds it. Both must hold of memory and of the file, since either may
become the other: `HasAdmin` and `NoOrphanGrant` are inductive together with `TypeOK` for that
reason. `HasAdmin` is also needed for a restart: a file with an Admin has users, so it is loaded
and not replaced by the defaults. `~ReadErrors` is needed where the file must survive a restart;
without it the claims are false (`MCUnreadableStore`). `AnsweredGrantsKept` is inductive with
`MemoryIsSaved` (`GrantsKept`): until a persist fails memory *is* the file, which is why a repeated
grant may be answered from memory without a persist.

*Artifacts.* The inductive invariant is `Sound == TypeOK /\ JobOK`. `JobOK` says what a running
handler may rely on: the name of an upload has a path, whose file holds uploaded bytes when the
index is reached; the path or version that a deletion works on is `Absent` when the index is
reached; and no answer settles a path while bytes are copied to it, or its version is removed.
`UploadsKept` then follows from step to step (`AllKept`): a handler that is under way concerns a
path that is not settled, so what is settled is disturbed by none of its steps; a crash takes
memory, and the file holds the row; a synchronisation writes rows only where there are none. None
of the theorems restricts how names spell paths. For `DeletedRowsGone` the invariant is `RowsGone`,
which adds `MemoryAgrees`: a row that is not in memory is not in the file either, unless it is
`unwritten`, so that a restart brings back no other. For `EpochExplained` it is `FilesStamped`: a
file without a row under any of its names is one whose upload is under way or has failed, also in
the middle of a handler.

*Server.* `AccountsStep` shows, action by action, that a step of the server is a step of `Accounts`
or leaves its variables alone, given that `up` is a truth value, which `UpStep` shows to stay so.
Account requests are the actions of `Accounts` themselves. The persist at the end of an artifact
handler, or of the indexing of one file, is `ArtifactHandlerPersists` when it reaches the file and
a stutter when it raises (`IndexPersistIsAStep`); the other steps of artifact handlers do not touch
the document (`TreeSteps`). A start decides by the users of the file, as `Accounts` does.
`ServesArtifacts` needs more: the artifact half has no users to decide by. `HalvesAgree` says that
both halves have a file or neither has, and both when the server is up; and with `HasAdmin`,
carried over from `AccountsProofs`, a file that exists has users: so a start that seeds is one that
finds no file. The two refinements then carry the theorems about `Accounts` and `Artifacts` over to
the server, as instances.

*MongoAccounts.*  `NoTakeover` needs types only: every insert is of an id that is not there, and no
command writes the role of a document that is.  For `AdminRemains` and `RemovedStayRemoved` the
invariant is `Turns`: as long as no two servers have overlapped, at most one is in the middle of
something, the caller of a deletion it has come to is still an Admin, and nobody was removed while a
seed is under way.  For the refinement it is `Undisturbed` as well: before the defaults are in, the
server that inserts them has inserted exactly those it does not have left, and what a lookup told a
handler is so at its next command.  The refinement mapping is `Document`: the default accounts
until a seed is complete, afterwards the collections without the grants of deleted users.

*MongoArtifacts.*  `Sound` says that two servers whose work can undo each other's both know
(`MeetingsKnown`), what the place a server has come to tells of tree and rows if it is alone
(`PlacesKnow`), and that nobody deletes a file that was answered to be there or adds one that was
answered to be gone (`ThereForNow`, `GoneForNow`).  `StartHeals` is its conjunct for a start: every
file of the tree has a row or is on one of the two lists the start still has to go through.

*Downloads.*  In `Sound`, a download that no upload has spoilt has the first pieces of the file it
was asked for; that file is in its place unless the download has it open, or will find it gone
(`Exact`).  An archive holds the files as they are, because while it is written nothing else runs
(`ZipsExact`).  The temporary archives are counted: at most one for each archive under way, and for
each fault as many as there are requests (`TempsBounded`).

*Paths and DocPages.* A walk is a function over the segments of a name, and what it comes to is
shown for names of any length. The library's induction theorems cannot be used for that, but a set
of naturals that is not empty has a least member (`LeastNumber`, from the well-foundedness of `<`),
and with membership in a set in place of a predicate this is an induction (`CountingUp`). From it,
a recursive function over the segments has one trace, whose values are places (`TraceExists`,
`WalkStepwise`). A clean name leads to itself below where it starts (`CleanWalk`), with empty
segments around it too (`PaddedWalk`), and so `Resolve` is in closed form (`ResolveIs`): project,
version and what strip leaves of the name, if all are clean. The invariant of the tree is
`TreeSound`: every file is two levels down at least and under a clean path, and none is a directory
of another, which `store` leaves to the file system to enforce. Without the latter two files could
have the same entry in an archive that begins at one of them. For the links the invariant is
`PageSound`: the reader is on the index or on a clean page. Along a link, the parts that
`_normalize_relative_path` has collected are where the walk of the file system is, below the
documentation, until both leave it in the same step (`OneSegment`, `LinkMeaning`); a link ends in a
file name, so the result is never refused at the end.

*VersionList.*  `ListSound` says that stamps are within the bounds of the model, that the versions
with rows have a bound, so that they are finitely many, and that `last` is a version with a row that
no row is newer than.  Then the `CHOOSE` of `LatestName` has a value, the last by name of the newest
versions (`LatestIs`), from which both properties follow.  A list is sorted because more names come
before a greater one (`BeforeGrows`), and an injection between finite sets of one size is onto
(`SortedIs`).

*Serve.*  `Sound` is about the order of things: HTTPS starts after HTTP, returns before it, and the
one that has the signal handlers is the last that has not returned (`Ladder`); a signal is counted
once, with the server that caught it until that returns and with HTTP from then on (`Kept`); only a
signal stops a server and only a second one forces it (`Told`); and if no signal came before the
servers listened, none of them is adrift and HTTP is not told before HTTPS has returned (`InTime`).
`TokensAsConfigured` needs only that the configuration is what `LoadJwtSigning` made of the
environment, which no later step touches (`Configured`).  `NamedTlsIsStarted` needs the same of the
certificate, and that HTTPS is off until it is entered, where a pair that does not fit ends the
process (`CertificateChecked`, `OffUntilEntered`).

*Browser client.*  `Sound` of `WebSession` says that handlers which sign in or out run alone and of
two others one is at the panel of users and projects (`TakeTurns`), that token, user and requests
under way are those of the cookie (`CookieIsCaller`, `NotYetSignedIn`), and, until something is
lost, that handlers know the selection they are about (`HandlersKnow`) and that lists and buttons go
with selection, role and user (`PageKnows`, `ButtonsKnow`).  `Patient` is needed for `TakeTurns`:
without it an answer to a request for the projects arrives after a sign-out and shows the workspace
again.  `SignedOutAsksNothing` has no such hypothesis and does without `Sound`: the token in memory
is never another than the cookie's (`TokenIsCookie`), and a handler asks in the name of the one or
the other (`AsksAsCaller`), so that with the cookie gone it asks in nobody's.  Of the upload queue,
`QueueSound` says that an upload under way has its files with the server but for the one it sends
and the rest (`BatchSent`), and while it is left alone that they are where they were queued, and
that nothing else is queued (`LeftAlone`).

**Only model-checked.**

* `HandlersEnd`, `NeverHttpOnly` and `StopsWhenIdle`: liveness under fairness is beyond the prover.
* `LoadServerTls`, `LoadJwtSigning` and what they call are proved about only as far as
  `NamedTlsIsStarted` and `TokensAsConfigured` need: which alias of a keystore matches is left to
  the tables of `MCServe`.
* The counterexamples of the two runs that violate their property, which are a matter of TLC.

All invariants and all action properties that the passing runs check are theorems.

No module declares a RECURSIVE operator.

## Not modelled, and the plan

The modules were written in the order of importance: the accounts first, because every other
operation depends on who may act; then the artifacts, whose crashes concern two stores; their
composition; then the parts around them. The proofs followed the same order and cover every safety
property of the passing runs. What is left is the three liveness properties, whose proofs wait for
a prover that reasons about ENABLED.

Not modelled, and why:

* `scripts/` and `docker/`: sequential shell scripts around docker and openssl, run by hand.  What
  they hand to the server is an environment of `Serve`.
* The rendering of markdown to HTML and the style sheet (`docs.py`), what is written to the logs
  (`middleware.py`, `logging_config.py`), wording and layout of the page (`app.js`): no state
  depends on them.
* Parsing of PEM, PKCS#12 and JKS (libraries): the models take its result.  `subject_cn` of `tls.py`
  is called by a test only.
* `passwords.py` and `timefmt.py` are pure conversions that the models use by what they do: equal
  passwords have equal digests, formatted times keep their order.
* Downloads, toasts and the password form of the page, which hold no state the rest depends on; the
  walk of dropped directories, of which the queue takes the result.
* Two servers that upload one path at the same time may mix its bytes; `MongoArtifacts` says which
  files and rows there are and leaves bytes to `Artifacts` and `Downloads`, which have one process.
