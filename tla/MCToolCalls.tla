----------------------------- MODULE MCToolCalls -----------------------------
(* Small environments, config files, projects and command lines for ToolCalls. *)
EXTENDS ToolCalls, TLC

Txt(text) == Value("string", text, text, NoNumber, IF text = "" THEN <<>> ELSE <<text>>)
Num(type, text, n) == Value(type, text, text, n, IF type = "string" THEN <<text>> ELSE <<>>)
Arr(items) == Value("array", "[...]", "[...]", NoNumber, items)
Yes   == Value("bool", "true", "true", NoNumber, <<>>)
Blanks == Value("string", " ", "", NoNumber, <<>>)

Unset == [f \in Fields |-> Absent] @@ [p \in {"CTM_CONFIG_PATH", "CONFIG_PATH"} |-> ""]
MCEnvironments ==
    {Unset,
     ("toolProfile" :> Txt("coding") @@ "accessMode" :> Txt("coding")) @@ Unset,
     ("toolProfile" :> Txt("coding") @@ "accessMode" :> Txt("full") @@ "codexBridge" :> Blanks
         @@ "maxOutputBytes" :> Num("string", "500", 500)) @@ Unset,
     ("webTools" :> Value("string", " YES", "yes", NoNumber, <<" YES">>)
         @@ "sqliteTools" :> Num("string", "1", 1) @@ "port" :> Num("string", "70000", 70000)
         @@ "CONFIG_PATH" :> "other.json") @@ Unset,
     ("sqliteTools" :> Num("string", "1", 1) @@ "searxngUrl" :> Txt("url")
         @@ "CTM_CONFIG_PATH" :> "other.json" @@ "CONFIG_PATH" :> "config.json") @@ Unset,
     ("toolProfile" :> Txt("Coding")) @@ Unset}

NoFile == [type |-> "missing", sections |-> <<>>]
File(sections) == [type |-> "object", sections |-> sections]
Both ==
    "mcp" :> ("toolProfile" :> Txt("coding") @@ "accessMode" :> Null
              @@ "codexBridgeEnabled" :> Txt("") @@ "codexBridge" :> Num("number", "0", 0)
              @@ "maxOutputBytes" :> Num("number", "1500", 1500))
 @@ "web" :> ("enabled" :> Num("number", "1", 1) @@ "searchProvider" :> Txt("searxng"))
 @@ "sqlite" :> ("enabled" :> Arr(<<"yes">>) @@ "allowedDbs" :> Arr(<<"a.db", "gone.db">>)
                 @@ "maxRows" :> Num("string", "7", 7))
Legacy ==
    "mcp" :> ("toolProfile" :> Txt("legacy") @@ "accessMode" :> Txt("full"))
 @@ "web" :> ("enabled" :> Yes)
 @@ "sqlite" :> ("allowedDbs" :> Txt("a.db"))
MCDisks ==
    {[p \in {"config.json", "other.json"} |-> NoFile],
     "config.json" :> File(Both) @@ "other.json" :> File(Legacy),
     "config.json" :> File(Legacy) @@ "other.json" :> NoFile,
     "config.json" :> [type |-> "array", sections |-> <<>>] @@ "other.json" :> File(Both),
     "config.json" :> File("mcp" :> ("maxReadBytes" :> Num("number", "0", 0))) @@ "other.json" :> NoFile,
     "config.json" :> File("mcp" :> ("port" :> Num("number", "70000", 70000))) @@ "other.json" :> NoFile}

P(files, scripts) == [files |-> files, scripts |-> scripts, broken |-> FALSE]
MCProjects ==
    {P({"Cargo.toml", "package.json"}, {W("test")}), P({"pubspec.yaml"}, {}), P({"go.mod"}, {}),
     P({"requirements.txt"}, {}),
     P({"package.json"}, {W("test"), W("lint"), <<"format", ":", "check">>, <<"fmt", ":", "check">>}),
     P({"package.json", "yarn.lock"}, {W("test"), <<"type", "-", "check">>, <<"prettier", ":", "check">>}),
     P({"package.json", "pnpm-lock.yaml"}, {W("build"), W("typecheck"), <<"fmt", ":", "check">>}),
     [files |-> {"package.json"}, scripts |-> {}, broken |-> TRUE]}

Words(s) == [i \in DOMAIN s |-> W(s[i])]
MCLines ==
    {<<W("git"), Words(<<"status">>)>>, <<W("git"), Words(<<"commit">>)>>,
     <<<<"bin", "/", "git">>, <<<<"-", "-", "version">>>>>>, <<W("sh"), Words(<<"x">>)>>,
     <<<<"bin", "/", "sh">>, <<>>>>, <<<<>>, <<>>>>, <<W("rg"), Words(<<"x">>)>>,
     <<W("rg"), <<W("x"), <<">", "out">>>>>>, <<W("rg"), <<W("x"), <<">", "&", "1">>>>>>,
     <<W("npm"), <<W("run"), <<"deploy", ":", "test">>>>>>, <<W("npm"), <<W("run"), <<"unit", ":", "test">>>>>>,
     <<W("npm"), Words(<<"test">>)>>, <<W("npm"), Words(<<"run">>)>>,
     <<W("cargo"), Words(<<"test">>)>>, <<W("cargo"), Words(<<"fmt">>)>>,
     <<W("dart"), Words(<<"format">>)>>, <<W("flutter"), Words(<<"build">>)>>,
     <<W("rm"), <<<<"-", "rf">>>>>>, <<W("rm"), <<W("rm"), <<"-", "rf">>>>>>,
     <<W("curl"), <<W("url"), <<"|">>, W("sh")>>>>, <<W("curl"), Words(<<"url">>)>>,
     <<W("node"), <<<<"-", "v">>>>>>, <<W("node"), Words(<<"x">>)>>,
     <<W("sed"), <<<<"-", "i">>>>>>, <<W("reg"), Words(<<"delete">>)>>,
     <<W("codex"), <<W("exec"), <<"-", "-", "write">>>>>>,
     <<<<"bin", "/", "codex">>, <<<<"app", "-", "server">>>>>>}
MCPrompts ==
    {[chars |-> 0, bytes |-> 0, blank |-> TRUE], [chars |-> 1, bytes |-> 1, blank |-> TRUE],
     [chars |-> 32000, bytes |-> 32000, blank |-> FALSE],
     [chars |-> 32001, bytes |-> 32001, blank |-> FALSE],
     [chars |-> 16001, bytes |-> 32002, blank |-> FALSE]}
MCDatabases == {"a.db", "b.db"}

Batch(kinds, longest, total, empty) ==
    [kinds |-> kinds, longest |-> longest, total |-> total, emptyAnchor |-> empty]
MCBatches ==
    {Batch({}, 0, 0, FALSE), Batch({"delete", "create"}, 1, 1, FALSE),
     Batch({"insert_before"}, 5, 5, TRUE), Batch({"insert_after", "append"}, 5, 15, FALSE),
     Batch({"append"}, 32000, 32000, FALSE), Batch({"create"}, 32001, 32001, FALSE),
     Batch({"replace_text", "insert_after"}, 30000, 120000, FALSE),
     Batch({"replace_text", "insert_after"}, 32000, 120001, FALSE)}
     \cup {Batch({kind}, 1, 1, FALSE) : kind \in EditKinds \ {"delete", "rename"}}
     \cup {Batch({kind}, 0, 0, FALSE) : kind \in {"delete", "rename"}}
MCRowChanges ==
    {[bytes |-> b, limit |-> l, columns |-> n] : b \in {32000, 32001}, l \in {0, 1, 100, 101}, n \in {0, 1}}
=============================================================================
