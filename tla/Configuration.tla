--------------------------- MODULE Configuration ---------------------------
(***************************************************************************)
(* load_config_from (src/config.rs): the configuration a server starts     *)
(* with, from its environment and its config file.                         *)
(*                                                                         *)
(* A value is a record of what the parsers read in it: its JSON type, its  *)
(* text, its text trimmed and in lower case (word), the u32 the trimmed    *)
(* text spells (number, or NoNumber), and the entries of a list that are   *)
(* not blank.  An environment variable is named by the field it sets; a    *)
(* variable that is unset or empty is Absent.                              *)
(***************************************************************************)
EXTENDS Integers, Sequences, SequencesExt

NoNumber == -1
Value(type, text, word, number, items) ==
    [type |-> type, text |-> text, word |-> word, number |-> number, items |-> items]
Absent   == Value("absent", "", "", NoNumber, <<>>)
Null     == Value("null", "null", "null", NoNumber, <<>>)

-----------------------------------------------------------------------------
\* The fields, by the parser each goes through

\* The fallback first.
Enums == [accessMode     |-> <<"review", "coding", "full">>,
          toolProfile    |-> <<"legacy", "coding">>,
          searchProvider |-> <<"none", "searxng">>]
Integers32 == [port |-> 3333, codexMaxSessions |-> 4, codexRequestTimeoutMs |-> 120000,
               maxReadBytes |-> 200000, maxOutputBytes |-> 200000, webMaxBytes |-> 200000,
               webTimeoutMs |-> 15000, sqliteMaxRows |-> 100]
Strings  == [host |-> "127.0.0.1", codexCommand |-> "codex", searxngUrl |-> ""]
Lists    == [allowedRoots |-> <<"cwd">>, denyGlobs |-> <<"default deny globs">>,
             sqliteAllowedDbs |-> <<>>]
Booleans == {"statelessFallback", "codexBridge", "webTools", "sqliteTools"}
Fields   == DOMAIN Enums \cup DOMAIN Integers32 \cup DOMAIN Strings \cup DOMAIN Lists \cup Booleans

\* The names a field goes by in its section of the file, in the order they are tried.
JsonNames(field) ==
    CASE field = "codexBridge" -> <<"codexBridgeEnabled", "codexBridge">>
      [] field \in {"webTools", "sqliteTools"} -> <<"enabled">>
      [] field = "webMaxBytes"   -> <<"maxBytes">>
      [] field = "webTimeoutMs"  -> <<"timeoutMs">>
      [] field = "sqliteAllowedDbs" -> <<"allowedDbs">>
      [] field = "sqliteMaxRows" -> <<"maxRows">>
      [] OTHER -> <<field>>
Section(field) ==
    CASE field \in {"webTools", "searchProvider", "searxngUrl", "webMaxBytes", "webTimeoutMs"} -> "web"
      [] field \in {"sqliteTools", "sqliteAllowedDbs", "sqliteMaxRows"} -> "sqlite"
      [] OTHER -> "mcp"

-----------------------------------------------------------------------------
\* configured: the environment's value, else the file's first that says something

InFile(file, field, name) ==
    LET section == Section(field) IN
    IF section \in DOMAIN file /\ name \in DOMAIN file[section] THEN file[section][name] ELSE Absent

Says(value) == value.type \notin {"absent", "null"} /\ (value.type = "string" => value.text # "")

Written(file, field) ==
    [i \in DOMAIN JsonNames(field) |-> InFile(file, field, JsonNames(field)[i])]

FirstSaid(values) ==
    LET said == {i \in DOMAIN values : Says(values[i])}
    IN  IF said = {} THEN Absent ELSE values[Min(said)]

ConfiguredFileFirst(env, file, field) == FirstSaid(Written(file, field) \o <<env[field]>>)

Configured(env, file, field) == FirstSaid(<<env[field]>> \o Written(file, field))

\* A string no word of which says yes is a no, one of blanks too; so is a list.
ParseBoolean(value, fallback) ==
    CASE value.type = "absent" -> fallback
      [] value.type = "bool"   -> value.word = "true"
      [] value.type = "number" -> value.word \notin {"0", "0.0", "-0.0"}
      [] OTHER -> value.type = "string" /\ value.word \in {"1", "true", "yes", "on"}

Field(env, file, field) ==
    LET value == Configured(env, file, field)
    IN  CASE field \in DOMAIN Enums    -> IF value = Absent THEN Enums[field][1] ELSE value.text
          [] field \in DOMAIN Integers32 -> IF value = Absent THEN Integers32[field] ELSE value.number
          [] field \in DOMAIN Strings    -> IF value = Absent THEN Strings[field] ELSE value.text
          [] field \in DOMAIN Lists      -> IF value.items = <<>> THEN Lists[field] ELSE value.items
          [] field \in Booleans -> ParseBoolean(value,
                field = "codexBridge" /\ Configured(env, file, "toolProfile").text = "coding")

LoadsZero(env, file) ==
    /\ \A f \in DOMAIN Enums : Field(env, file, f) \in ToSet(Enums[f])
    /\ \A f \in DOMAIN Integers32 : Field(env, file, f) # NoNumber

\* parse_access_mode, parse_tool_profile, parse_search_provider and parse_integer may fail.
Loads(env, file) ==
    /\ \A f \in DOMAIN Enums : Field(env, file, f) \in ToSet(Enums[f])
    /\ \A f \in DOMAIN Integers32 : Field(env, file, f) >= 1

Load(env, file) == [f \in Fields |-> Field(env, file, f)]

-----------------------------------------------------------------------------
\* configured_config_path and read_file_config: a missing or blank file says nothing

ConfigPath(env) ==
    LET set == SelectSeq(<<env.CTM_CONFIG_PATH, env.CONFIG_PATH>>, LAMBDA path : path # "")
    IN  IF set = <<>> THEN "config.json" ELSE set[1]

\* What is at a path is a JSON value of a type: "missing" and "blank" files are two more.
FileReads(disk, path) == disk[path].type \in {"missing", "blank", "object"}
FileConfig(disk, path) == IF disk[path].type = "object" THEN disk[path].sections ELSE <<>>
=============================================================================
