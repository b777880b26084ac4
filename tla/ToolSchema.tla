----------------------------- MODULE ToolSchema -----------------------------
(***************************************************************************)
(* The tools of a configuration (src/server/handler.rs:433-443), the       *)
(* limits their schemas advertise (src/server/tool_metadata.rs) and the    *)
(* limits their handlers enforce, each in a place of its own.  Only        *)
(* arguments with limits are here; an argument is named tool.argument, its *)
(* value the number, or the number of entries of a list.                   *)
(***************************************************************************)
EXTENDS Integers, Sequences

CoreTools == {"local_status", "open_workspace", "list_dir", "read_file", "search_files",
              "find_files", "project_tree", "git_status", "git_diff", "preview_edit",
              "confirm_edit", "exec_process", "process_start", "process_read", "process_stop"}
CodingTools == {"open_project", "project_state", "search_code", "read_files", "apply_patch",
                "run_project_check", "run_project_command", "manage_process"}
CodexTools == {"codex_start_session", "codex_send_message", "codex_read_response",
               "codex_stop_session"}
SqliteTools == {"sqlite_schema", "sqlite_select", "sqlite_preview_change",
                "sqlite_confirm_change"}
WebTools == {"web_search", "web_fetch"}

\* tool_router: the optional tools of the legacy profile leave their status tools behind.
Listed(c) ==
    IF c.toolProfile = "coding"
    THEN CodingTools \cup (IF c.codexBridge THEN CodexTools ELSE {})
    ELSE CoreTools \cup {"sqlite_status", "web_status"}
         \cup (IF c.sqliteTools THEN SqliteTools ELSE {})
         \cup (IF c.webTools THEN WebTools ELSE {})

-----------------------------------------------------------------------------
\* Limits: a default, or None when the argument is required, and both ends of a range

None   == -1
NoEnd  == 10000         \* more than a call is tried with
L(d, lo, hi) == [default |-> d, min |-> lo, max |-> hi]

\* customize_schema
Advertised(c) == LET out == c.maxOutputBytes IN
    [search_files  |-> [contextLines |-> L(0, 0, 20), maxMatches |-> L(1000, 1, 5000)],
     find_files    |-> [maxResults |-> L(100, 1, 500)],
     project_tree  |-> [depth |-> L(3, 1, 5)],
     git_diff      |-> [maxBytes |-> L(out, 1, out)],
     exec_process  |-> [timeoutSeconds |-> L(30, 1, 300), maxBytes |-> L(out, 1000, out)],
     process_start |-> [timeoutSeconds |-> L(300, 1, 3600), maxBytes |-> L(out, 1000, out)],
     open_project  |-> [treeDepth |-> L(2, 1, 4)],
     search_code   |-> [contextLines |-> L(2, 0, 10), maxMatches |-> L(200, 1, 1000)],
     read_files    |-> [paths |-> L(None, 1, 20), maxBytesPerFile |-> L(50000, 1000, 100000)],
     apply_patch   |-> [changes |-> L(None, 1, 20)],
     preview_edit  |-> [changes |-> L(None, 1, NoEnd)],
     run_project_check   |-> [timeoutSeconds |-> L(300, 1, 900)],
     run_project_command |-> [timeoutSeconds |-> L(120, 1, 900), maxBytes |-> L(out, 1000, out)],
     manage_process      |-> [timeoutSeconds |-> L(600, 1, 3600), maxBytes |-> L(out, 1000, out)],
     sqlite_select |-> [limit |-> L(c.sqliteMaxRows, 1, c.sqliteMaxRows)],
     web_search    |-> [limit |-> L(5, 1, 10)],
     codex_read_response |-> [waitSeconds |-> L(30, 0, 60)]]

\* The handlers, file by file: search and trees, git, edits, processes, the coding tools,
\* SQLite, web, Codex.
SearchLimits  == [contextLines |-> L(0, 0, 20), maxMatches |-> L(1000, 1, 5000)]
FindLimits    == [maxResults |-> L(100, 1, 500)]
TreeLimits    == [depth |-> L(3, 1, 5)]
DiffLimits(c) == [maxBytes |-> L(c.maxOutputBytes, 1, c.maxOutputBytes)]
PreviewLimits == [changes |-> L(None, 1, 20)]
ProcessLimitsShort(c) ==
    [tool \in {"exec_process", "process_start"} |->
        [timeoutSeconds |-> L(30, 1, 300), maxBytes |-> L(c.maxOutputBytes, 1, c.maxOutputBytes)]]
ProcessLimits(c) ==
    LET bytes == L(c.maxOutputBytes, 1, c.maxOutputBytes) IN
    [exec_process  |-> [timeoutSeconds |-> L(30, 1, 300), maxBytes |-> bytes],
     process_start |-> [timeoutSeconds |-> L(300, 1, 3600), maxBytes |-> bytes]]
OpenLimits    == [treeDepth |-> L(2, 1, 4)]
CodeLimits    == [contextLines |-> L(2, 0, 10), maxMatches |-> L(200, 1, 1000)]
ReadLimits    == [paths |-> L(None, 1, 20), maxBytesPerFile |-> L(50000, 1000, 100000)]
PatchLimits   == [changes |-> L(None, 1, 20)]
CheckLimits   == [timeoutSeconds |-> L(300, 1, 900)]
CommandLimits(c) ==
    [timeoutSeconds |-> L(120, 1, 900), maxBytes |-> L(c.maxOutputBytes, 1000, c.maxOutputBytes)]
ManageLimits(c) ==
    [timeoutSeconds |-> L(600, 1, 3600), maxBytes |-> L(c.maxOutputBytes, 1000, c.maxOutputBytes)]
RowLimits(c)  == [limit |-> L(c.sqliteMaxRows, 1, c.sqliteMaxRows)]
WebLimits     == [limit |-> L(5, 1, 10)]
WaitLimits    == [waitSeconds |-> L(30, 0, 60)]

Accepted(c) ==
    [search_files  |-> SearchLimits,
     find_files    |-> FindLimits,
     project_tree  |-> TreeLimits,
     git_diff      |-> DiffLimits(c),
     exec_process  |-> ProcessLimits(c).exec_process,
     process_start |-> ProcessLimits(c).process_start,
     open_project  |-> OpenLimits,
     search_code   |-> CodeLimits,
     read_files    |-> ReadLimits,
     apply_patch   |-> PatchLimits,
     preview_edit  |-> PreviewLimits,
     run_project_check   |-> CheckLimits,
     run_project_command |-> CommandLimits(c),
     manage_process      |-> ManageLimits(c),
     sqlite_select |-> RowLimits(c),
     web_search    |-> WebLimits,
     codex_read_response |-> WaitLimits]

\* An argument that is left out takes the default.
Within(limit, value) == LET v == IF value = None THEN limit.default ELSE value
                        IN  v # None /\ limit.min <= v /\ v <= limit.max

\* A prompt's length is advertised in characters and enforced in bytes, and one of blanks only
\* is refused.  A session may start without one: a prompt of no bytes here.
PromptAdvertised(tool, p) ==
    IF p.bytes = 0 THEN tool = "codex_start_session" ELSE p.chars <= 32000
PromptAccepted(tool, p) ==
    IF p.bytes = 0 THEN tool = "codex_start_session" ELSE ~p.blank /\ p.bytes <= 32000

\* The changes apply_patch offers, and those its handler takes; preview_edit has three more.
EditKinds       == {"replace_text", "replace_range", "insert_before", "insert_after", "append",
                    "create", "overwrite", "delete", "rename"}
AdvertisedEdits == {"replace_text", "replace_range", "insert_before", "insert_after", "append", "create"}
AcceptedEdits   == EditKinds \ {"overwrite", "delete", "rename"}

\* The handlers also bound the bytes of each text of the changes and of all together, and
\* apply_patch takes no empty anchor; the schemas say nothing of either.
PreviewAccepted(changes) == changes.longest <= 32000 /\ changes.total <= 120000
PatchAccepted(changes) ==
    /\ changes.longest <= 32000 /\ changes.total <= 120000
    /\ changes.kinds \subseteq AcceptedEdits /\ ~changes.emptyAnchor

\* sqlite_preview_change bounds the bytes of a change before it looks at the database, and the
\* number of its rows and of its columns after; nothing of this is advertised.
ChangeTaken(change)    == change.bytes <= 32000
ChangeAccepted(change) == change.limit \in 1 .. 100 /\ change.columns > 0
=============================================================================
