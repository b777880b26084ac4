# TLA+ models of the MCP server

This directory holds models of the Rust server in this repository (the crate under `src/`),
TLC configurations that check them on small instances, and TLAPS proofs of theorems about
them. File references such as `bridge.rs:300` are to the Rust sources.

    tlc -workers 2 -config CodexBridge.cfg MCCodexBridge     # one run
    tlapm SearchIndexProofs.tla                              # one module's proofs

## 1. Inventory

The server answers MCP tool calls over HTTP. Calls are asynchronous tasks of one tokio
runtime and run concurrently; what they share are the stores below, each behind a mutex of
its own, and the files and child processes of the machine.

| Component | State it keeps | Operations | Model |
|---|---|---|---|
| **Codex bridge** `src/codex/` | `BridgeState`: stdin and kill sender of the app-server child, request ids, senders of pending replies, sessions | `start_session`, `send_message`, `stop_session`, `read_response`; per child a reader task and a monitor task; `close` | `CodexBridge` |
| **Managed processes** `src/process/` | `ProcessStore`: per process its state, stop sender, output | `process_start/read/stop`, a watcher task per process; `exec_process` | `ManagedProcess` |
| **Search index** `src/workspace/search/` | cache of `SearchIndex`: records, postings, dirty flag, watcher | `search_text_files`, refresh, watcher callback, eviction | `SearchIndex`, `Trigrams` |
| **Edits** `src/edit/`, `server/edit_tools.rs`, `server/coding_tools/edits.rs` | `EditStore` of previewed batches; the files | `preview_edit`, `confirm_edit`, `apply_patch` | `FileEdits`, `TextEdits` |
| **SQLite changes** `src/sqlite/` | `SqliteChangeStore` of previewed changes; the database | `sqlite_preview_change`, `sqlite_confirm_change`; `sqlite_select` and `sqlite_schema` only read | `SqliteChanges`, `SqliteRows` |
| **MCP sessions** `server/session.rs` | `last_used` times around the session table of rmcp | `create_session`, `has_session`, `close_session`, the calls that begin with `touch_active`, a cleanup task | `McpSessions` |
| **HTTP transport** `server/transport.rs`, `app.rs` | none | routing of a request to the stateful or the stateless service | not modelled: a decision about one request |
| **Workspaces** `workspace/registry.rs`, `paths.rs`, `search.rs`, `search/walker.rs`, `files.rs` | the registry: roots by id, ids by root; the files | `open`, `resolve`, `list_dir`, `read_file(s)`, `find_files`, `project_tree`, searches | `WorkspacePaths`, `WorkspaceReads` |
| **Configuration** `config.rs`, `main.rs` | read-only after start | `load_config` | `Configuration` |
| **Tool layer** `server/handler.rs`, `tool_metadata.rs`, `*_tools.rs`, `coding_tools/` | none | the tool list, schemas, argument checks, dispatch | `ToolSchema`, `ToolCalls` |
| **Command policy, project discovery** `process/runner.rs`, `project.rs` | none | `assert_process_allowed`, `select_project_check` | `CommandPolicy`, `ProjectChecks` |
| **Git, web, redaction** | none | runs of git, HTTP requests, text | not modelled but for the refusals of `web_search`: stateless |

How they interact. The tool layer (`server/handler.rs`) calls each component and holds none
of its locks across two of them. The bridge, the process store and the edits do not call
each other. Search and edits meet only in the files: an edit is, for the index, one of the
changes to files that `SearchIndex` allows at any time. A session of the transport owns no
state of the components: processes, previewed edits and delegated sessions outlive it and
can be used from another session. So the components are modelled one by one, each with an
environment that may do whatever the others, and other programs, could do.

What is hard, and what makes each component correct:

* **Bridge.** One mutex guards the state but is let go of at every await of a reply, so a
  decision and the write that follows from it are separate. Replies may be late, missing,
  or come from a server that has been replaced; ids start again at 1 after `close`; a server
  exits under everybody; a write can block with the mutex held. Correct: a waiting call has
  its sender registered and gets the reply to its own request; the limit on sessions holds
  under overlapping starts; a session is running only while something will finish it; stopped
  sessions stay stopped; every call returns; replaced servers die. Late replies break some of
  these, in ways the properties name exactly.
* **Processes.** `stop` looks at `running`, lets go, and writes later; the watcher writes the
  same fields; output ends when the last holder of a pipe closes it. Correct: what a caller
  was told of a finished process is never told otherwise; a verdict follows complete output;
  children are killed and reaped; processes end.
* **Search.** A flag set by a watcher decides whether the files are looked at; files change
  before, during and after the walk, and events come late. Correct: an index that trusts its
  flag is current, and a search misses nothing it could have been told of.
* **Edits.** Preview and apply are two calls with checks of their own; each change is a read,
  a check and a write without a lock; a batch may stop half-way. Correct: at most once, in
  order, exactly the changes before the first failure; a preview is borne out.
* **SQLite.** Rows are selected again at confirm time; the pending change is removed first.
  Correct: at most once; all of it or nothing; what changes is what was previewed, when
  `expected` is given.
* **Sessions.** `last_used` and the session table each have a lock, and no call holds both; a
  call whose client goes away is dropped between its steps. Correct: no session is in the
  table without a time; idle ones are closed in the end; a time without a session goes away.
* **Workspaces.** Paths may be written in many ways, with links in them; three walks over the
  same files, and the index, each have code of their own. Correct: one id for a directory;
  the walks agree; what they show can be read; the index only accelerates; an answer that is
  cut says so.
* **Tool layer, policy, configuration.** The same fact is written down in two places: a limit
  in a schema and in a handler, a command in `project.rs` and in the policy, a setting in the
  environment and in a file. Correct: the places agree.

The hazards, each at its line and with the properties that cover it, are listed in
`PROJECT.json`.

## 2. Modules and how they follow the code

Each component is a module, with pure functions in modules of their own; `MC<module>` extends
it with the definitions TLC needs. Proofs about a component are in `<module>Proofs`, but for
`ManagedProcess` and `McpSessions`, two small components with a background task whose proofs
share `BackgroundTaskProofs`; `FoldLemmas` holds what several of them need. `McpSessions`
therefore has names of its own for what modules usually call `Spec` and `TypeOK`
(`SessionsSpec`, `SessionsTypeOK`).

### CodexBridge

One action is one critical section of the state mutex, with the code up to the next await.

* `stdin`, `killTx`: which server generation the bridge's handles belong to (0: none).
  `nextId`, `pending`, `status`, `active`: the fields of `BridgeState`. `holder`: the task
  that keeps the mutex while `write_all` blocks.
* `server`, `reading`, `asked`, and `made`, `home`, `turns`, `running`: the app-servers
  (alive, dead, cleaned up after), whether their reader still reads, the requests they have
  not answered, and their threads and turns. They may answer any request with any outcome, in
  any order or never, report turns at any time, and exit at any time.
* `op`, `pc`, `req`, `answer`: where each client call is. `StartSession`, `SendMessage` and
  `StopSession` begin one; `ServerPresent`/`SpawnServer`/`SpawnFails` are `ensure_server`;
  `RequestWritten`, `RequestWriteFails`, `RequestBlocks` with `WriteCompletes`/`WriteBreaks`,
  `RequestNoServer`, `RequestTimesOut`, `RemoveExpired` and `RequestFails` are `request()`;
  `Initialized`, `InsertSession`, `TurnStarted`, `Steered`, `Interrupted`, `SetIdle`,
  `MarkSessionFailed`, `FinishStop`, `SessionGone` are what follows each reply; `Close` is
  `close()`.
* `HandleError`, `HandleDone`, `HandleThreadStarted`, `HandleTurnStarted`, `HandleSteered`,
  `TurnCompleted`, `ThreadClosed`, `ReplyBlocks`, `ReplyDone`, `ReaderEnds` are the reader;
  `ServerExits`, `KillServer`, `MonitorExit` the process and its monitor.
* History for the properties, which no action reads: `known`, ids a caller was given;
  `revived`, sessions that left Stopped through a call that was in flight; `overtaken`, turns
  that were over, or whose server's reader was gone, when they were made active; `outdated`,
  the servers spawned by the time `close` last started the ids again.

A reply is handled in two critical sections, the reader's and, later, the call's own. Much
can happen between them, and the code looks at none of it. What follows is in the model and
named by the properties as their exceptions; no document promises otherwise.

* `TurnStarted` (bridge.rs:357-366) makes the turn of its reply the active one and the session
  Running, although the turn may have been completed since, or its server be gone. Such a
  session is left running with nobody to finish it, and the next message is sent as a steer of
  a turn that is over. `RunningHasDriver` and `ActiveTurnRuns` ask that an active turn runs in
  its server and that a reader is there to see it end (`TurnAtWork`), or that it is one of
  `overtaken`, which only this step adds to: no other completion, failure, stop or exit has the
  same effect.
* After `close` the next server counts ids from 1 again, and the reader of the old one goes on
  until its end of file. The code then takes a late reply of the old server for the reply to
  the new request of the same id. `OwnAnswer` says that a reply is the call's own, or is from
  another server than it wrote to, one of `outdated`: no timeout, drain or failed write mixes
  replies up, nor does a restart after an exit, for which ids go on.
* A stop does not end the calls in flight on its session: a late reply sets it Running, a
  timeout Failed. `StoppedStays` lets these calls take it out of Stopped and nothing else.

### ManagedProcess, ProcessLifecycle

`running`, `finished`, `exit`, `timedOut`, `stopTx` are the fields of a process and its stop
sender; `child`, `code`, `held` the operating system's view (`held`: somebody else has the
child's pipes open); `watch`, `result` the watcher task. `Start`, `StartFails`, `Read`,
`StopFinished`, `StopSignals` and `StopRecords` are the store's calls, with the gap inside
`stop` between its two looks at the state; `SeesExit`, `SeesStop`, `SeesTimeout` the branches
of the watcher's `select!`, `Record` its end. `Exec` is `exec_process`, which shares the
waiting code. `finished` counts how often the finish time was written: two writes would be
two times. `ProcessLifecycle` is what callers see: running, then one verdict, repeated for
ever. The refinement maps its `report` to `seen`, the last snapshot a call returned.

### SearchIndex

One entry of the cache. `text` and `stamp` are the files (stamp: length and modification
time), `events` the notifications not yet handled, `record`, `posted`, `dirty`, `watched`,
`initialized` the index, `lock`, `todo`, `visiting`, `next` the refresh of the search that
holds the cache's mutex, `pc`, `cand`, `found` the searches. A refresh is `List`, then per
file `Stat` and, unless the record can be kept, `Read`, with changes to files between any two
of them, then `Finish`, which keeps or rebuilds the postings and picks the candidates;
`Scan` reads a candidate after the mutex was released. `SearchAll` is the search without an
index. `Evict` throws the entry out with its watcher. Which bytes a text has is abstracted to
two sets: `Match` (a search finds something) and `Grams` (every trigram of the pattern
occurs), `Match \subseteq Grams`: which is what `WorkspaceReadsProofs!IndexMissesNothing` proves
of bytes.

### TextEdits, FileEdits, TwoPhase

`TextEdits` gives, as functions of a text, when the preview accepts a change
(`PreviewAccepts`), when apply accepts it (`Applies`: other code), and the text it writes
(`Rewritten`). A text is a sequence of tokens one of which is the line break.

`FileEdits` is the calls. `PreviewEdit` or `ApplyPatch` submits a batch; `PreviewOne` and
`PreviewTarget` check a change (a rename reads two files, one after the other); `Confirm`
takes an action from the store; `ApplyOne` reads and checks, then `OpenToWrite` and `Fill`
(`fs::write` empties the file and then writes it), `RenameFile` or `Delete` change the file.
An open file follows a rename and is lost with a removal, as descriptors do. `OperationFails`
is an I/O error, `Foreign` a change by another program. `profile` and `AccessMode` are the
configuration: the legacy profile has preview_edit and confirm_edit, the coding profile
apply_patch. `TwoPhase` is what "two-phase writes" (README.md:159) promise of an action; the
refinement maps its phase to where the batch is: in the store, carried by a call, or over.

### SqliteRows, SqliteChanges

`SqliteRows` gives, as functions of a table, the rows a change may pick (`Selections`: the
SELECT has a limit and no order, so any of that many), what the preview shows of them
(`Shown`, with `set_json_path`), and what one UPDATE makes of them (`Updated`, external:
SQLite evaluates every right-hand side on the old row, and of two assignments to one column
keeps the last). A cell holds a scalar, a JSON object of one or two names, or text that is
not JSON.

`SqliteChanges` is the calls. `PreviewChange` stores a change and what it would show;
`Confirm` and `Take` remove it from the store, `BeginImmediate` takes SQLite's write lock,
`FetchTargets` picks the rows again, `VerifyExpected` compares them, `Write` and `Commit` (or
`OperationFails`, after which the transaction is rolled back) end it. `Foreign` is a write by
somebody else, which the lock excludes. Confirmations follow each other, since the tool keeps
the store's mutex to the end of each (sqlite_tools.rs:136-143). It refines `TwoPhase` too, with all or nothing in
place of a prefix.

### McpSessions

An action is one access to `last_used` (`Expire`, `Touch`, `Forget`) or to rmcp's table
(`CloseExpired`, `Create`, `Look`, `Drop`), by one of the calls or the cleanup task. A time is
an age that `Tick` raises. `Cancel` is a client that goes away: its call is dropped at
whichever await it had come to, and what the call still had to do something about
(`InHand`) is recorded in `orphans`, which only the properties read. Such a session stays in
the table for ever, for expiry goes by the times.

A comment (session.rs:19-21) says that expired ids are removed before a request is routed. A
call that expires them itself does that; but a session whose time another call has removed,
and not yet the session, is still found by `Look`, so a request may be routed to a
session that is about to be closed. The model has this step; no property forbids it.

### Configuration, CommandPolicy, ProjectChecks, ToolSchema, ToolCalls

Four modules of functions and the server that uses them.

* `Configuration` is `load_config_from`: `Configured` looks for a field in the environment and
  then under each of its names in the file, `Field` parses it with the parser of its kind,
  `Loads` says when all parsers accept. A value is a record of what the parsers read in it.
* `CommandPolicy` is `assert_process_allowed`: a command line is a sequence of tokens, a token
  a sequence of atoms (words and punctuation marks), so that splitting at blanks, at word
  boundaries or at bars are different walks over the same line, as in the code.
* `ProjectChecks` is `select_project_check`: from the files at the root of a project and the
  names of its scripts to a command line of `CommandPolicy`.
* `ToolSchema` has the tool list of a configuration and both tables of limits: those of
  `tool_metadata.rs` (`Advertised`) and those the handlers check (`Accepted`, made of one
  definition for each place in the handlers). Limits are ranges of numbers, sizes of lists and
  texts, and the words an argument may be.
* `ToolCalls` has a server, which is started in one of several environments (`Start`) and
  stopped, and the calls of a client. Each call is one action from its arguments to its
  answer, in the order in which its handler looks at mode, limits and policy.

### Trigrams

`TrigramsOf`, `FileRecord`, `IsIndexable` and `IsCandidate` are the index's functions of bytes;
`Occurs` and `Spells` the matcher, which is external: a pattern occurs as it is, or, without
case, as a spelling of it that differs in ASCII case or has a byte that is not ASCII (the
Kelvin sign is a k). A pattern with a `Newline` is not looked up in the index.

### WorkspacePaths, WorkspaceReads

`WorkspacePaths` has trees of files with links, the path functions of `paths.rs`
(`Normalized`, `Canonical`, `AssertAllowed`, `ResolveIn`, `Display`, `IsDenied`) and the walks
(`WalkFind`, `WalkTree`, `CollectFiles`). Each walk is a recursive function of a path, as it is
a recursive function in the code; `WalkFind` maps a path to a function from the results found
before it to the results after it, which is what the code's `&mut Vec` is. Loops over the
names of a path or a directory are functions of how far they have come (`Follow`,
`Normalized`, `InTurn`). `IsTree` is what a file system is: finite, everything in a
directory, links to paths without links.

A client sees texts, not paths. `Display` is `relative_display_path`: a backslash becomes a
slash and what is not UTF-8 a replacement character, so a name may be shown as another one or
as several. `ShownAs` has what stands between the slashes for such names; all others are shown
as they are. `Parse` is what becomes of a text that a client sends back. Deny globs and
patterns are matched against the text (`IsDenied`, `Matches`), as in the code; the answers in
the model keep the path, so that `ShownCanBeRead` can ask whether the text leads to that very
file.

`WorkspaceReads` has the registry (`workspaces`, `idByRoot`) and one action per tool that
reads. `Change` is somebody else who replaces the tree between calls; what happens when files
change during a search is `SearchIndex`. The index is a fresh one here: `Searched` picks the
files of the walk that are candidates. `ReadCapped` cuts a text at its limit, replaces a
character that the cut has left incomplete and appends `Marker`, the truncation marker.

## 3. Runs

| Run | Shows | Distinct states |
|---|---|---|
| `bridge_safety` | session limit, what runs and what will finish it, senders, own answers, active turns, finality of Stopped | 1,004,215 |
| `bridge_liveness` | every call returns and abandoned servers die, with writes that block, for a server that goes on reading | 48,895 |
| `bridge_limit`, `bridge_pipe` | findings, below | |
| `process_store` | life cycle (refinement), verdict after output, children reaped, processes end unless held | 5,795 |
| `search_safety` | postings follow records, a trusted flag, searches miss nothing they were told of | 1,375,696 |
| `edits_safety` | two-phase (refinement), an undisturbed batch is serial, previews are borne out | 650,532 |
| `sqlite_safety` | two-phase (refinement), a commit touches only what it found and may touch, previews are borne out | 224,908 |
| `sqlite_preview` | finding, below | |
| `workspace_reads` | one id for a directory, the walks agree, what is shown can be read, the index only accelerates, cut answers say so | 7,535 |
| `tool_calls` | configurations that load, advertised limits are accepted and listed tools enabled, picked checks are admitted, modes are nested, the environment wins | 20,770 |
| `sessions_safety` | no session is forgotten, idle ones are closed, times of sessions that are gone go | 17,159 |

**Bounds and why they are enough.**

* Bridge: two calls at a time and three in all, so that a call can overlap another and a
  third can meet what the two left; two server generations (one dies or is closed while the
  other serves), two threads with a limit of one session (the limit is reached and exceeded
  by one), two turns a thread (a turn ends while the next begins). The liveness run has one
  thread and one turn: what can keep a call from returning is the mutex, the pipe and the
  server, not a second session.
* Processes: two, because the store's mutex couples them in `stop`; each goes through its
  whole life.
* Search: two searches and two files with two changes after arbitrary initial contents:
  one change during the walk and one before or after it; three texts (match, trigrams
  without a match, neither).
* Edits: two clients, two files, two batches out of seven that between them have every
  kind of change, and one change by somebody else; every file operation may fail.
* SQLite: two changes out of seven (an insert, four updates of cells and paths, two deletes,
  with every operator, with and without `expected`, with limits that bind and that do not), a
  table of up to three rows, three initial tables, one foreign write.
* Sessions: two calls and the cleanup on one session: the races are about one session, and
  what is done for another touches other entries of both tables. The theorem has any number.
* Workspaces: thirteen trees below one allowed root, with links that lead inside, outside and
  to an ignored directory, denied and git-ignored names, directories that turn into files;
  seven ways to open a root and thirteen inputs, with `..`, absolute paths and aliases; two
  workspaces, one inside the other or the same; files shorter and longer than the read limit
  of five bytes, with matches before, at and beyond it and a character that is cut; two names
  with a backslash, one of which is shown as a path that is another file's and one as a path
  outside, and one that is not UTF-8. Names
  ignored by git are left out whether or not the tree is a repository (which the `ignore`
  crate asks for); links lead to paths without links. One call at a time: the registry's
  mutex and one state of the tree are all that reading calls share.
* Tool calls: every argument with a range at both ends of both ranges, one beyond each, and
  left out; texts at each limit in bytes and one beyond, empty ones and blank ones; six environments and six disks that between them have every kind of value and
  of error; eight projects for each kind of check; a command line for each branch of the
  policy in each mode.

Symmetry is used over clients, searches and files in runs of safety properties; the initial
states and next-state relations do not tell them apart (in `FileEdits`, only over clients:
the batches name files). The liveness runs use none. `CHECK_DEADLOCK FALSE`
stands in every configuration because the counters are bounded: when they are used up, and
nothing is under way, the system may stop.

**Fairness.** Safety runs have none. `CodexBridge`: the next step of a call is strongly fair:
the tokio mutex is first-come first-served and a woken task is polled, so a step that is
enabled again and again, whenever the mutex is free, is taken. A kill, the exit it causes,
the monitor's cleanup and the end of file are delivered. Nothing is assumed of the server: it
need not answer, nor read (`FairSpec`). `ReadingServerSpec` adds only that a blocked write
ends. `ManagedProcess`: a watcher whose branch is ready is polled, a stop call runs to its
end; the child and its descendants owe nothing. The timer elapses (`SeesTimeout`). `McpSessions`: the
clock goes on, the cleanup's interval fires again and its task is polled, and so is a call
that has not been dropped; the mutexes are held for one step only.

**Findings.** The runs that expect a violation each check a sentence of the repository.

* `bridge_limit`: a session stopped while its `turn/start` is in flight becomes Running or
  Failed again when the reply comes, after its slot was given away: more sessions than
  `CTM_CODEX_MAX_SESSIONS` (README.md:261). `SessionLimit` is what holds: the limit leaving
  such sessions aside.
* `bridge_pipe`: `write_all` blocks with the state mutex held, before the request timeout
  (README.md:262) begins.
* `sqlite_preview`: an update that sets two JSON paths of one column shows both in its
  preview; confirming it sets only the last, since `build_set_clause` (apply.rs:141-147)
  assigns the column twice.

Statements of the documents that the models show to hold only up to a condition, which the
property then names: process lifetimes are bounded (README.md:157-158) unless a descendant of
the child keeps its output open (`FinishesUnlessHeld`); the index hides no match
(README.md:287-289) once the events of all changes have come in, and but for a rewrite that
leaves length and time of a file as they were (`StampsTell`, an assumption of
`SearchIndex`); a confirmed change does what its preview showed (`PreviewBorneOut`) when the rows
are those of the preview, a limit leaves no choice among them,
every column is set once, and every path leads into a JSON object; the index answers as a walk
does but for a match that ends at byte `max_read_bytes` + 1, which the search reads and the
index does not (index.rs:251-257, in_process.rs:66; `IndexAccelerates`); the cap on output
(README.md:252) holds of the contents of one `read_files` but for what marks the cuts: each file
has its share of the cap, and then 18 bytes of marker (files.rs:48-49), so that two files of
5000 bytes under a cap of 2000 give 2036 (`ReadsTell`).

What the models show, where no document says otherwise or the exception is one the property
names:

* A check of format is never run where its line has the word `format` in it (`format:check`,
  `dart format`): the policy blocks the word (runner.rs:358-367), whatever the mode. A script
  `type-check` is picked and then refused in coding mode (`ChecksAdmitted`).
* A file with a backslash in its path, or bytes that are not UTF-8, is shown by a text that
  cannot be read back as that file: it may be another file's path (`a\b` is shown as `a/b`), one
  that leads out of the workspace, or nowhere (`ShownCanBeRead` names these names).
* With `maxOutputBytes` below 1000, `run_project_command` and `manage_process` refuse the
  default of `maxBytes` their schemas advertise (execution.rs:51-57); `exec_process` accepts
  values below the advertised 1000 (process_tools.rs:101-107).
* Handlers refuse what no schema rules out, and `Unadvertised` lists it: more than twenty
  changes of `preview_edit`; texts of edits beyond 32,000 bytes, or 120,000 in all; an empty
  anchor of `apply_patch`; an empty pattern of `search_code`; an empty statement of
  `sqlite_select`; a change of rows beyond 32,000 bytes, with a limit not in 1 to 100 or no
  column to set; a prompt that is blank or has more bytes than its schema allows characters;
  a mode of `codex_start_session` that
  is neither of the two. Nothing else is refused of what the schemas allow
  (`AdvertisedAccepted`).
* `apply_patch` is listed in review mode and then refused; `web_search` is listed without a
  provider (both are answers of their own in `ToolCalls`, not `limits` or `disabled`).
* Review mode lets a package manager run any script that its first argument `run` names,
  coding mode only safe ones (`ModesNested` names this exception).
* `project_tree` lists the names of denied files; no tool reads them.
* When the first turn of a start fails, the Failed session keeps its slot and its id is never
  returned (bridge.rs:113-117), so "Stop an old session first" (bridge.rs:61-64) cannot be
  followed. In review mode the legacy profile's `confirm_edit` writes files, as it never looks
  at the mode (edit_tools.rs:43-59), while README.md:152 calls that mode read-only. Both are
  one step long and follow from reading those lines; no run is spent on them.

## 4. Proofs

For every value of the constants that satisfies the modules' assumptions:

| Theorem | Says |
|---|---|
| `CodexBridgeProofs!TypeCorrect` | the bridge's type invariant |
| `CodexBridgeProofs!SendersKept` | a call that waits for a reply has its sender registered |
| `CodexBridgeProofs!AnswersOwn` | the reply a call gets is the reply to its own request, or comes from another server, one older than the last `close` |
| `CodexBridgeProofs!SessionsLimited` | no more sessions than the limit, the revived ones aside |
| `CodexBridgeProofs!TurnsRun` | a session with an active turn is Running, and the turn runs where a reader sees it end, unless it was over when its `turn/start` ran on |
| `CodexBridgeProofs!RunningDriven` | a Starting or Running session has such a turn, or a call at work on it |
| `CodexBridgeProofs!StoppedStay` | Stopped is left only with a start or a send still in flight on the session |
| `BackgroundTaskProofs!TypeCorrect` | the store's type invariant |
| `BackgroundTaskProofs!VerdictCorrect` | an exit code or timeout is published after complete output only |
| `BackgroundTaskProofs!LifecycleImplemented` | the store implements `ProcessLifecycle` |
| `SearchIndexProofs!TypeCorrect` | the index's type invariant, with one search at a time at its refresh |
| `SearchIndexProofs!PostingsCorrect` | postings that are kept are those of the records |
| `SearchIndexProofs!IndexCurrent` | a flag that is down, with no event on its way, can be trusted |
| `SearchIndexProofs!ToldSearchesMissNothing` | a search that was told of every change misses nothing |
| `FileEditsProofs!TypeCorrect` | the type invariant of the edits: what is made of a text is a text |
| `FileEditsProofs!TwoPhaseImplemented` | edits implement `TwoPhase`: at most once, by one call, in order |
| `FileEditsProofs!UndisturbedSerial` | a batch whose files nobody else wrote to leaves exactly its first changes |
| `FileEditsProofs!PreviewsPredict` | such a batch, with a file for each change, is not refused what its preview accepted |
| `SqliteChangesProofs!TypeCorrect` | the type invariant |
| `SqliteChangesProofs!CommitsAreGuarded` | a commit changes only rows it may, as they were found, and only if `expected` holds |
| `SqliteChangesProofs!TwoPhaseImplemented` | SQLite changes implement `TwoPhase` |
| `SqliteChangesProofs!PreviewsBorneOut` | a confirmed change does what its preview showed, when nobody wrote since, it picks all its rows and sets plainly |
| `BackgroundTaskProofs!SessionTypes` | the type invariant |
| `BackgroundTaskProofs!NoSessionForgotten` | a session in the table has a time, or a call that sees to it, or had its call cut short |
| `WorkspaceReadsProofs!RegistryIsOneToOne` | a directory has one id, and an id one directory, however the path is written |
| `WorkspaceReadsProofs!WalksAlwaysAgree` | `find_files` finds the open files, in order and up to its limit; the tree shows those within its depth; a search reads only them |
| `WorkspaceReadsProofs!ShownPathsCanBeRead` | the text that shows a file resolves to that file, unless a name on its path has a backslash or is not UTF-8 |
| `WorkspaceReadsProofs!ReadsTellAlways` | of UTF-8 texts: a read that is cut says so and shows a beginning; the files of a call outgrow the output by markers and replacements at the most |
| `WorkspaceReadsProofs!IndexMissesNothing` | a file in whose first bytes an indexable pattern occurs, in the case asked for, is a candidate |
| `WorkspaceReadsProofs!IndexOnlyAccelerates` | a search with the index answers as one without it, or leaves out a file whose only matches end beyond what the index read |
| `ToolCallsProofs!TypeCorrect` | a server that is up has a configuration its parsers accept |
| `ToolCallsProofs!EnvironmentKept` | the environment wins over the config file |
| `ToolCallsProofs!ModesNest` | what one access mode admits the wider ones admit, but for scripts |
| `ToolCallsProofs!ChecksAdmit` | the checks that are picked are admitted, with two exceptions |
| `ToolCallsProofs!OffersKept` | listed tools are enabled, and what keeps to the advertised limits is accepted but for what `Unadvertised` lists |

The assumptions are on the constants alone: finite sets, numbers that are numbers, marks that
are not values (the absent file is not a text). Those worth a look: `StampsTell` and
`Match \subseteq Grams` of `SearchIndex`; `Ascii` and `Lower` of `Trigrams`, the ASCII letters
and their folding; those of the workspaces, that a name has one place in the order of names
and is neither empty nor `.` or `..`, and that `ShownAs` gives parts of a path (`NamesAssumption`), limits are at least one (`ReadsAssumption`,
which the range checks of project.rs and handler.rs see to), the matcher's other forms of an
ASCII byte are its two cases or have a byte beyond ASCII (`FormsAssumption`), and what a file
system holds is a tree with texts of whole characters (`TreesAssumption`); the five of `ToolCalls`, that a number in the
environment or a file is a natural or none (`ValuesAssumption`), a command line is made of
texts (`LinesAssumption`), and prompts, edits and changes of rows have sizes and an edit is of
the kinds there are (`PromptsAssumption`, `BatchesAssumption`, `RowChangesAssumption`). TLC evaluates each on every run.

The arguments:

* *Senders.* `WaiterHasSender` is not inductive: a write that blocked registered its sender
  before the wait, and removing a late sender must not remove another's. `SenderInv` adds that
  a writing call holds the mutex and has its sender, that ids in `pending` are below
  `nextId`, and that no two senders share one. Every step then is one of a few kinds (no
  call moves, one call leaves, one registers, one sender is removed with its call answered,
  all are rejected), each with a lemma.
* *Own answers.* `IdInv`: of the servers that are not `outdated`, generation and id together
  name one call and its request, those a server has still to answer included, and their ids
  are below `nextId`, since a server that takes over from one that exited goes on counting.
  `close` starts ids again, and makes every server there has been outdated, so that the one to
  come has not been asked anything.
* *Sessions of the bridge.* What a call may do to a session depends on how it got to its step:
  `LocalInv` says for each step what the call's operation, request and answer can be. What it
  finds there depends on two facts about the others. `Owned`: sends and stops are for ids a
  caller was given, so nobody else knows the session of a start that is at work. `OneStart`
  (`session_start_lock`): one start at a time, so the room it found is still there when it
  inserts its session (`Limited`). `Driven` is `RunningHasDriver` with the call named that
  will end the state. Most steps only let sessions settle (`Settle`: no session, no turn and
  nothing that counts appears), which one lemma deals with. `TurnsAtWork` says of each active turn that
  it runs under a reader or was taken up too late; the steps that end a turn or a reader take
  it from the sessions concerned, and only `TurnStarted` gives one (`TurnSteps`).
* *Verdicts.* `VerdictInv` ties the watcher's step to the child: past the `select!` the child
  has been reaped and the result is the child's own; only the last step publishes, when
  nobody holds the pipes.
* *Life cycle.* `LifecycleInv` relates the fields to the last report: a running process has
  no finish time; one reported finished is not being stopped, and its fields are those
  reported. The gap inside `stop` is the interesting case: the caller in the gap has not
  been told yet, so what the watcher wrote meanwhile is what gets reported.
* *Index.* `IndexInv` is made of named parts. `StampInv`: stamps never lie ahead of the
  file's. `TruthInv`: a record with the file's present stamp has its text, the point of
  taking the stamp before the read. `NextInv`: an unchanged stamp in the new records means an
  unchanged text, which makes keeping the postings sound. `FlagInv`: without a watcher the
  flag is up. `FreshInv`: with the flag down and no event under way each file has been
  recorded, or the walk has still to come to it; a change during the walk breaks the
  hypothesis until its event puts the flag up. `SteadyInv`: where a search has the
  files that match all along: still to visit, recorded, among the candidates, found.
* *Paths.* `Follow` and `Normalized` are what they are at the next name, given what they were
  before it (`FollowAppend`, `NormalizedIs`). So what is followed has no link in it and is
  followed to itself, and a normalized path stays as it is. A path of a safe place
  resolves to that place (`SafePathIs`), and a text without a name of `ShownAs` is the path it
  shows (`ShownClear`): together `ShownPathsCanBeRead` for one file (`HitCanBeRead`).
* *Registry.* `TypeOK` is not inductive: that no path is in the table twice must be said of the
  list, not only of its ids, and `open` must have been given a path of names without a link
  (`ReadsInv`; `AllowedIsFollowed` is `assert_allowed_path`'s canonical answer).
* *Reads.* A cut leaves at most an incomplete character at its end, whatever the bytes before
  (`LossyShows`), because the text itself has none; what is shown of it is at most two bytes
  and the marker longer (`ReadCappedTells`). Files times their share is at most the output (`FairShareFits`).
* *Walks.* A recursive function must first be shown to exist. A path has a height, the
  greatest length in the tree less its own, and a walk calls itself only below directories, so
  on paths of less height; functions that satisfy the recursion up to a height exist for every
  height and agree (`FindExists`, `FilesExist`, `TreeExists`). By the same induction each walk
  finds, below a path, the files that are `Reached` from it: nothing on the way is a link,
  ignored, or denied. For `find_files` the statement has to be about any results found before
  (`ShowsHits`: there is one sequence of hits, without repetition, and the walk appends its
  first elements up to the limit), since the limit couples a directory's names (`FindTurn`).
  `OpenFilesAre` gives `OpenFiles`, which knows nothing of walks, in the same terms.
* *Answers.* The properties compare an answer with the present tree. `AnswerInv` says that the
  last answer of a walk is what the walk gives now; it holds because files change only when no
  answer is out (`Change`), a read of one state of the tree being what the model has.
* *Trigrams.* The trigrams of a part of a text are among those of the text; folding commutes
  with taking trigrams; a spelling without a byte beyond ASCII folds to what the pattern
  folds to, and one with such a byte makes the file a candidate whatever its trigrams. With
  it, the assumption `Match \subseteq Grams` of `SearchIndex` is that of a file within the read
  limit.
* *Index and walk.* Every spelling the matcher accepts spells the pattern (`SpellingsAre`), so
  a hit within the first `MaxRead` bytes is a candidate (`FoundIsCandidate`). What the index
  leaves out of the hits is then beyond that limit; and if none of the first hits up to the
  limit of matches is left out, the two answers begin with the same hits (`FirstShownKept`).
* *Two phases.* `CarriedInv`: no two calls have the same batch; the batch of a call is not
  in the store and not over; while it is carried out, the changes before the call's are the
  ones done; nothing was done of batches that wait. Each action is one of a few kinds by what
  it does to the batches; the kinds keep the invariant and map to steps of `TwoPhase`.
* *Texts.* The type invariant of the edits is about places: where a change cuts a text, in
  what order its ranges lie, and how much is left over, so that what is put together is a
  text again (`RewrittenIsText`). What an open descriptor writes to goes with its file
  (`FitOK`).
* *Undisturbed batches.* `UndisturbedIsSerial` says what is on the disk between two changes;
  `SerialInv` says it of each step between, where a file has been read, or emptied and not
  yet filled. A step of the batch's own call keeps it by the definitions (`SerialOwn`). A
  step of anybody else either writes to none of the batch's files, and then every fact about
  them stays (`ApartStays`), or it disturbs the batch, which then drops out (`Elsewhere`).
  `PreviewInv` adds that with a file for each change, a change that has still to come meets
  the text its preview met; that what the preview accepts of a text apply accepts of it is a
  lemma about the two functions of `TextEdits`.
* *Commits.* `LockedInv`: what a confirmation found out about the table stays true while it
  holds the write lock, for nobody else can write; so what was verified is what is committed.
  `StoreInv`: a change is in the store, with one call, or over, and never two of these.
* *Previews of rows.* `ShownInv`: what is shown of a change is what it makes of some rows it
  picked. A change within its limit picks all that match, at any time (`AllPicked`); and what
  assignments make of a row one after the other (a fold) is what they make of it all at once,
  when no column is set twice and paths lead into objects (`ShownIsUpdated`, by induction on
  the number of assignments made).
* *Sessions.* `SessionsKeepTimes` needs that a task has expired sessions in hand only while it
  closes them, so that no other step lets go of one, and that `has_session` drops a time only
  of a session that is gone, which it stays, because ids are not given twice.
* *Configurations.* `StartInv`: the configuration of a server that was started is one its
  parsers accept, and holds what its environment says. The environment's value is first in
  the list of what may be configured, so nothing in a file comes before it.
* *Limits.* `LimitsAgree` goes through the two tables, for a configuration with any numbers:
  a range is the same in both or one of two named cases, and the advertised default lies in
  it unless the output is capped below 1000 bytes. So a number that keeps to the list is
  refused only as `Unadvertised` says (`RefusedForLimits`), and each handler that checks texts
  has a lemma that says the same of its own checks (`OfSearch` to `OfProcess`). `ReplyInv` ties
  a reply to the tool list and the mode.
* *Policy.* A pattern blocks a line only if one of a few words is in one of its tokens
  (`BlockedHasRisky`), and of these words the lines of the checks have none but `format`
  (`ChecksChosen`, `PicksAdmitted`). Tokens and text of a line are folds over it, which neither
  add a word nor lose one (`TokensAreOfLine`, `TextHasWords`).

What the proofs changed in the models. `PreviewAccepts` had a CASE two of whose guards can
hold at once, so that the value of the expression was not determined; they are disjoint now.
The modules below `ToolCalls` say what they say with folds, sets of
places and records, where they had `SelectSeq` and functions put together with `@@`, of which
the prover knows nothing; TLC finds the same states. `WorkspacePaths` had recursive operators,
in whose presence the prover has no SMT; they are recursive functions now, and the walks' order
comes from `NameOrder` as a list with no name in it twice, which nothing had said. That texts
consist of whole characters had to be said too: of a text that ends in half a character a read
shows a replacement without being cut, and `ReadsTell` is false.

Numbers and sequences. The library states induction with an operator as a parameter, which the
provers cannot instantiate. But its order on the numbers is a set, and well-founded: a set of
numbers that is not empty has a least one (`Minimum`), so a set that holds 0, and with a number
the next, holds all (`Induction`). These two lemmas of `FoldLemmas` carry what `FoldLeft` and
recursive functions compute: that the function is there (`FoldExists`, and `RecursionExists` for
one that calls itself on what is lower), and what it collects.

**Only model-checked.** Liveness (`EveryCallReturns`, `LostServersDie`,
`FinishedProcessDies`, `FinishesUnlessHeld`, `IdleSessionsClose`, `LostTimesGo`), which is
beyond the prover. Every invariant and every refinement that a run checks is proved.

## 5. What is left out

* Bridge: `read_response`, which only reads; the text kept of replies (`response`,
  `events`, their caps), the stderr drain, and cancellation of a call by its client.
* Processes: capping of output.
* Search: limits on matches, output and file size; changes that notify itself loses (files
  in directories created a moment ago); reads that fail for a moment; context lines, binary
  detection, include and exclude globs.
* SQLite: LIKE, conversions between types, paths of more than one name, which statements
  `sqlite_select` takes for read-only.
* Sessions: what rmcp does for a session beyond its table, and `restore_session`, which needs
  a store of sessions this server does not have.
* Edits: directories, diffs, and the shapes of changes and their sizes in bytes (the sizes are in
  `ToolCalls`).
* Workspaces: texts that are not UTF-8 (they are shown with replacement characters, cut or
  not); patterns of `find_files` other than `*` and a name; redaction, the cap on the length of
  a whole answer, `open_project` and
  `project_state` (which put together what other tools answer), git.
* Configuration: `~` and relative paths, which are left as written; the macOS path of codex.
* Tool calls: arguments that are required for one action of `manage_process` only, the forms of
  SQLite's identifiers and values, and refusals for what a call then finds (a file, a row, a
  session), which the other modules have.
* Policy: the .exe, .cmd and .bat forms of names, which the lists of the code spell out; flags
  of `rm` with other letters in them.
* HTTP transport, the requests of the web tools, address checks, redaction: each is one
  decision about one input and keeps no state; address checks and redaction work on text
  and numbers of which a small instance says nothing.
* Poisoned std mutexes (a panic inside a critical section).

## 6. Plan

All components of the inventory that keep state are modelled, and what the runs check of them
is proved, liveness apart. What could follow:

1. The routing of the transport (`server/transport.rs`) over `McpSessions`.
2. A walk that overlaps with changes of the tree, name by name, over `WorkspaceReads`.
