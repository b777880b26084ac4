------------------------------ MODULE ToolCalls ------------------------------
(***************************************************************************)
(* A server and the calls of its client, from the configuration it starts  *)
(* with to the answer of a handler: the tools it lists, the limits their   *)
(* schemas advertise and those the handlers enforce, the check a project   *)
(* picks and the commands the policy admits.  What a call then does is the *)
(* subject of the other modules; here every workspace, directory, session  *)
(* and process a call names exists.                                        *)
(***************************************************************************)
EXTENDS Configuration, ToolSchema, ProjectChecks

CONSTANTS
    Environments,  \* the environments a server may start in
    Disks,         \* what may be at the paths of a config file
    Projects,      \* what may be at the root of the workspace
    Prompts,       \* the prompts a client sends to Codex: characters, bytes, blanks only
    Batches,       \* the changes of an edit: their kinds, the bytes of their longest text and
                   \* of all, and whether the anchor of an insertion is empty
    RowChanges,    \* the changes of rows: the bytes, the limit on the rows and the number of
                   \* columns set, 1 where a change has none
    Lines,         \* the command lines a client tries: <<command, arguments>>
    Databases      \* the database files that exist

\* A number is a u32 or none at all, in the environment and in the files; a line is made of
\* tokens; a prompt has a length.
IsNumber(value) == value.number \in Nat \cup {NoNumber}
ASSUME ValuesAssumption ==
    \A env \in Environments :
        /\ \A field \in Fields : IsNumber(env[field])
        /\ \A disk \in Disks : LET file == FileConfig(disk, ConfigPath(env)) IN
               \A section \in DOMAIN file : \A name \in DOMAIN file[section] : IsNumber(file[section][name])
ASSUME LinesAssumption   == Lines \subseteq Seq(STRING) \X Seq(Seq(STRING))
ASSUME PromptsAssumption == \A p \in Prompts : p.chars \in Nat /\ p.bytes \in Nat
ASSUME BatchesAssumption == \A b \in Batches : b.kinds \subseteq EditKinds /\ b.longest \in Nat /\ b.total \in Nat
ASSUME RowChangesAssumption == \A r \in RowChanges : r.bytes \in Nat /\ r.columns \in Nat

VARIABLES
    server,   \* whether one is up, with the environment and configuration of the last start
    reply     \* the last call: its tool, its arguments, its answer
vars == <<server, reply>>

Nothing == [tool |-> "none", values |-> <<>>, line |-> <<>>, answer |-> "none"]
Answered(tool, values, line, answer) ==
    reply' = [tool |-> tool, values |-> values, line |-> line, answer |-> answer]

config == server.config

Init ==
    LET env == [f \in Fields \cup {"CTM_CONFIG_PATH", "CONFIG_PATH"} |-> IF f \in Fields THEN Absent ELSE ""]
    IN  server = [up |-> FALSE, env |-> env, config |-> Load(env, <<>>)] /\ reply = Nothing

-----------------------------------------------------------------------------
\* main: the configuration is read once, and a server whose configuration is in error, or
\* whose port is no port, exits

Start ==
    /\ ~server.up /\ reply = Nothing
    /\ \E env \in Environments, disk \in Disks :
         LET path == ConfigPath(env)
             file == FileConfig(disk, path)
         IN  IF FileReads(disk, path) /\ Loads(env, file) /\ Field(env, file, "port") <= 65535
             THEN server' = [up |-> TRUE, env |-> env, config |-> Load(env, file)] /\ reply' = Nothing
             ELSE Answered("start", <<>>, <<>>, "failed") /\ UNCHANGED server

Stop == server.up /\ reply = Nothing /\ server' = [server EXCEPT !.up = FALSE] /\ UNCHANGED reply

\* The calls of a client share nothing here, so they are looked at one at a time.
Taken == reply # Nothing /\ reply' = Nothing /\ UNCHANGED server

-----------------------------------------------------------------------------
\* Calls: the tool is one of the list, and each of its arguments with limits has a value

Arguments(tool) ==
    CASE tool \in {"search_files", "search_code"} -> <<"contextLines", "maxMatches">>
      [] tool = "find_files"   -> <<"maxResults">>
      [] tool = "project_tree" -> <<"depth">>
      [] tool = "git_diff"     -> <<"maxBytes">>
      [] tool = "open_project" -> <<"treeDepth">>
      [] tool = "read_files"   -> <<"paths", "maxBytesPerFile">>
      [] tool \in {"apply_patch", "preview_edit"} -> <<"changes">>
      [] tool \in {"exec_process", "process_start", "run_project_command", "manage_process"} ->
            <<"timeoutSeconds", "maxBytes">>
      [] tool = "run_project_check" -> <<"timeoutSeconds">>
      [] tool \in {"sqlite_select", "web_search"} -> <<"limit">>
      [] tool = "codex_read_response" -> <<"waitSeconds">>
      [] OTHER -> <<>>
Limit(limits, tool, i) == limits[tool][Arguments(tool)[i]]

\* The ends of both ranges, one beyond each, and no value.
Tried(tool, i) ==
    LET ends == {Limit(Advertised(config), tool, i), Limit(Accepted(config), tool, i)} IN
    {None} \cup {n \in UNION {{l.min - 1, l.min, l.max, l.max + 1} : l \in ends} : n >= 0}

Values(tool) ==
    LET n == Len(Arguments(tool)) IN
    CASE n = 0 -> {<<>>}
      [] n = 1 -> {<<v>> : v \in Tried(tool, 1)}
      [] n = 2 -> Tried(tool, 1) \X Tried(tool, 2)

AllWithin(limits, tool, values) ==
    \A i \in DOMAIN values : Within(Limit(limits, tool, i), values[i])

\* A tool that only checks its arguments before it does its work.
Plain == {"search_files", "find_files", "project_tree", "git_diff", "open_project", "read_files",
          "codex_read_response"}
PlainCall(tool, values) ==
    Answered(tool, values, <<>>, IF AllWithin(Accepted(config), tool, values) THEN "done" ELSE "limits")

\* search_code takes no empty pattern; search_files does.
SearchCode(values) ==
    \E pattern \in {"", "x"} :
        Answered("search_code", values, <<pattern>>,
            IF pattern # "" /\ AllWithin(Accepted(config), "search_code", values)
            THEN "done" ELSE "limits")

\* A number of changes a batch can have: a change has two texts at most.
Changes(values) ==
    {b \in Batches : LET n == IF values[1] = None THEN 0 ELSE values[1] IN
                     /\ Cardinality(b.kinds) <= n /\ (b.kinds = {} <=> n = 0)
                     /\ b.total <= 2 * n * b.longest}

PreviewEdit(values) ==
    \E b \in Changes(values) :
        Answered("preview_edit", values, <<b>>,
            IF AllWithin(Accepted(config), "preview_edit", values) /\ PreviewAccepted(b)
            THEN "done" ELSE "limits")

\* The mode first, then the number of changes, their sizes and the shape of each.
ApplyPatch(values) ==
    \E b \in Changes(values) :
        Answered("apply_patch", values, <<b>>,
            IF config.accessMode = "review" THEN "review"
            ELSE IF AllWithin(Accepted(config), "apply_patch", values) /\ PatchAccepted(b)
            THEN "done" ELSE "limits")

\* parse_mode: a session is for review or for writing; a message has no mode.
CodexPrompt(tool, values) ==
    \E p \in Prompts, mode \in {"review", "write", "other"} :
        Answered(tool, values, <<p, mode>>,
            IF tool = "codex_start_session" /\ ~config.codexBridge THEN "disabled"
            ELSE IF (tool = "codex_start_session" => mode # "other") /\ PromptAccepted(tool, p)
            THEN "done" ELSE "limits")

WebSearch(values) ==
    Answered("web_search", values, <<>>,
        IF ~AllWithin(Accepted(config), "web_search", values) THEN "limits"
        ELSE IF ~config.webTools THEN "disabled"
        ELSE IF config.searchProvider = "searxng" /\ config.searxngUrl # "" THEN "done" ELSE "no provider")

\* resolve_allowed_db: the databases of the configuration are the only ones that are opened.
ResolveDb(path) ==
    LET allowed == config.sqliteAllowedDbs
        named   == IF path = "" /\ allowed # <<>> THEN allowed[1] ELSE path
    IN  IF ~config.sqliteTools THEN "disabled"
        ELSE IF allowed = <<>> \/ (path = "" /\ Len(allowed) > 1) \/ named \notin ToSet(allowed)
                \/ named \notin Databases
        THEN "no database" ELSE "done"

Paths == {""} \cup Databases \cup ToSet(config.sqliteAllowedDbs)

\* validate_read_only_sql_shape takes no empty statement.
SqliteSelect(values) ==
    \E path \in Paths, sql \in {"", "SELECT"} :
        Answered("sqlite_select", values, <<path, sql>>,
            IF AllWithin(Accepted(config), "sqlite_select", values) /\ sql # ""
            THEN ResolveDb(path) ELSE "limits")

SqlitePreview(values) ==
    \E path \in Paths, change \in RowChanges :
        Answered("sqlite_preview_change", values, <<change, path>>,
            IF ~ChangeTaken(change) THEN "limits"
            ELSE IF ResolveDb(path) # "done" THEN ResolveDb(path)
            ELSE IF ChangeAccepted(change) THEN "done" ELSE "limits")

-----------------------------------------------------------------------------
\* Commands

RunProjectCheck(values) ==
    \E project \in Projects, kind \in Kinds :
        LET check == SelectCheck(project, kind) IN
        Answered("run_project_check", values, <<check.command>> \o check.args,
            IF ~AllWithin(Accepted(config), "run_project_check", values) THEN "limits"
            ELSE IF ~check.ok THEN "no check"
            ELSE IF ProcessAllowed(check.command, check.args, config.accessMode) THEN "ran"
            ELSE "not allowed")

\* is_codex_executable and parse_legacy_codex_args
IsCodex(cmd) == BaseName(cmd) = W("codex")
LegacyAccepts(args) ==
    ToSet(args) \cap {<<"app", "-", "server">>, <<"-", "-", "listen">>, <<"stdio", ":", "/", "/">>,
        <<"-", "-", "dangerously", "-", "bypass", "-", "approvals", "-", "and", "-", "sandbox">>} = {}

RunProjectCommand(values) ==
    \E line \in Lines :
        Answered("run_project_command", values, <<line[1]>> \o line[2],
            IF ~AllWithin(Accepted(config), "run_project_command", values) THEN "limits"
            ELSE IF config.codexBridge /\ IsCodex(line[1])
            THEN IF LegacyAccepts(line[2]) THEN "delegated" ELSE "not accepted"
            ELSE IF ProcessAllowed(line[1], line[2], config.accessMode) THEN "ran" ELSE "not allowed")

\* manage_process looks at its limits before the command, exec_process and process_start after.
ManageProcess(values) ==
    \E line \in Lines :
        Answered("manage_process", values, <<line[1]>> \o line[2],
            IF ~AllWithin(Accepted(config), "manage_process", values) THEN "limits"
            ELSE IF ProcessAllowed(line[1], line[2], config.accessMode) THEN "ran" ELSE "not allowed")

ExecProcess(tool, values) ==
    \E line \in Lines :
        Answered(tool, values, <<line[1]>> \o line[2],
            IF ~ProcessAllowed(line[1], line[2], config.accessMode) THEN "not allowed"
            ELSE IF AllWithin(Accepted(config), tool, values) THEN "ran" ELSE "limits")

Call(tool) ==
    /\ server.up /\ reply = Nothing /\ tool \in Listed(config) /\ UNCHANGED server
    /\ \E values \in Values(tool) :
         \/ tool \in Plain /\ PlainCall(tool, values)
         \/ tool = "search_code"         /\ SearchCode(values)
         \/ tool = "preview_edit"        /\ PreviewEdit(values)
         \/ tool = "apply_patch"         /\ ApplyPatch(values)
         \/ tool \in {"codex_start_session", "codex_send_message"} /\ CodexPrompt(tool, values)
         \/ tool = "web_search"          /\ WebSearch(values)
         \/ tool = "sqlite_select"       /\ SqliteSelect(values)
         \/ tool = "sqlite_preview_change" /\ SqlitePreview(values)
         \/ tool = "run_project_check"   /\ RunProjectCheck(values)
         \/ tool = "run_project_command" /\ RunProjectCommand(values)
         \/ tool = "manage_process"      /\ ManageProcess(values)
         \/ tool \in {"exec_process", "process_start"} /\ ExecProcess(tool, values)

Tools == CoreTools \cup CodingTools \cup CodexTools \cup SqliteTools \cup WebTools
Next == Start \/ Stop \/ Taken \/ \E tool \in Tools : Call(tool)

Spec == Init /\ [][Next]_vars
-----------------------------------------------------------------------------
\* Properties

\* A server that is up has a configuration its parsers accept.
TypeOK ==
    /\ DOMAIN server = {"up", "env", "config"} /\ server.up \in BOOLEAN
    /\ \A f \in DOMAIN Enums : config[f] \in ToSet(Enums[f])
    /\ \A f \in DOMAIN Integers32 : config[f] \in Nat \ {0}
    /\ config.port <= 65535
    /\ \A f \in Booleans : config[f] \in BOOLEAN
    /\ reply.answer # "none" /\ reply.tool # "start" => reply.tool \in Listed(config)

\* A call that keeps to what the list says of its arguments.
Kept(limit, value) == IF value = None THEN limit.default # None
                      ELSE limit.min <= value /\ value <= limit.max
KeptTo(tool, values, line) ==
    /\ \A i \in DOMAIN values : Kept(Limit(Advertised(config), tool, i), values[i])
    /\ tool = "apply_patch" => line[1].kinds \subseteq AdvertisedEdits
    /\ tool \in {"codex_start_session", "codex_send_message"} => PromptAdvertised(tool, line[1])

\* The limits the handlers have and the list does not: the number of changes of preview_edit,
\* the bytes of their texts and of those of apply_patch, an empty anchor, pattern or statement,
\* the bytes of a prompt, a blank one, the mode of a session, all of sqlite_preview_change; and
\* the least maxBytes, which the default of a server with little output is below.
TooMany(values)   == values[1] > 20
TooLong(batch)    == batch.longest > 32000 \/ batch.total > 120000
TooMuch(change)   == change.bytes > 32000 \/ change.limit \notin 1 .. 100 \/ change.columns = 0
LittleOutput(c)   == c.maxOutputBytes < 1000
Unadvertised(tool, values, line) ==
    \/ tool = "search_code"  /\ line[1] = ""
    \/ tool = "preview_edit" /\ (TooMany(values) \/ TooLong(line[1]))
    \/ tool = "apply_patch"  /\ (TooLong(line[1]) \/ line[1].emptyAnchor)
    \/ /\ tool \in {"codex_start_session", "codex_send_message"}
       /\ line[1].blank \/ line[1].bytes > line[1].chars
    \/ tool = "codex_start_session" /\ line[2] = "other"
    \/ tool = "sqlite_select" /\ line[2] = ""
    \/ tool = "sqlite_preview_change" /\ TooMuch(line[1])
    \/ tool \in {"run_project_command", "manage_process"} /\ LittleOutput(config) /\ values[2] = None

\* What the tool list offers is there: no listed tool (src/server/handler.rs:433-443) is disabled,
\* and a client that keeps to the limits of the list (src/server/tool_metadata.rs: ranges of
\* numbers, sizes of lists and texts, the words an argument may be) is not refused for a limit
\* of the handlers, but for those the list does not have.
AdvertisedAccepted ==
    /\ reply.answer # "disabled"
    /\ reply.answer = "limits" =>
         \/ ~KeptTo(reply.tool, reply.values, reply.line)
         \/ Unadvertised(reply.tool, reply.values, reply.line)

\* Outside review mode the command run_project_check picks (src/project.rs) is one the
\* policy (src/process/runner.rs) admits, unless the line has the word format in it or, in
\* coding mode, the script is type-check.
ChecksAdmitted ==
    reply.tool = "run_project_check" /\ reply.answer = "not allowed" =>
        \/ config.accessMode = "review"
        \/ Word(Text(reply.line), "format")
        \/ config.accessMode = "coding" /\ <<"type", "-", "check">> \in ToSet(reply.line)

\* A command that ran in one access mode runs in the wider ones, whichever tool ran it; only
\* the scripts review mode lets a package manager run need not be safe in coding mode.
ModesNested ==
    LET cmd  == Head(reply.line)
        args == Tail(reply.line)
    IN  reply.answer = "ran" =>
            /\ ProcessAllowed(cmd, args, "full")
            /\ config.accessMode = "review" =>
                 \/ ProcessAllowed(cmd, args, "coding")
                 \/ BaseName(cmd) \in PackageManagers /\ First(args) = W("run")

\* What the environment sets is what the server gets, whatever is in the config file: two
\* starts that agree on a variable agree on its field.
EnvironmentWins ==
    [][\A f \in Fields :
         /\ server'.up /\ ~server.up
         /\ Says(server.env[f]) /\ server'.env[f] = server.env[f]
         => server'.config[f] = server.config[f]]_vars
=============================================================================
