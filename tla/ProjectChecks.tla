--------------------------- MODULE ProjectChecks ---------------------------
(***************************************************************************)
(* select_project_check (src/project.rs): the command run_project_check    *)
(* runs for a project and a kind of check.  A project is the set of marker *)
(* and lock files at its root and, for its package.json, the names of its  *)
(* scripts; "broken" stands for a package.json that is no JSON.            *)
(***************************************************************************)
EXTENDS CommandPolicy

Kinds == {"auto", "test", "check", "typecheck", "lint", "build", "format-check"}

Refused == [ok |-> FALSE, command |-> <<>>, args |-> <<>>]
Run(command, args) == [ok |-> TRUE, command |-> W(command), args |-> args]

\* The first marker in the code's order decides.
ProjectType(files) ==
    CASE "pubspec.yaml" \in files -> "flutter/dart"
      [] "pubspec.yaml" \notin files /\ "Cargo.toml" \in files -> "rust"
      [] files \cap {"pubspec.yaml", "Cargo.toml"} = {} /\ "package.json" \in files -> "node"
      [] OTHER -> IF files \cap {"pyproject.toml", "requirements.txt"} # {} THEN "python"
                  ELSE IF "go.mod" \in files THEN "go" ELSE "generic"

FmtCheck == <<W("fmt"), <<"-", "-", "all">>, <<"-", "-">>, <<"-", "-", "check">>>>
RustArgs(kind) ==
    CASE kind \in {"auto", "check", "typecheck"} -> <<W("check")>>
      [] kind = "test"         -> <<W("test")>>
      [] kind = "lint"         -> <<W("clippy"), <<"-", "-", "all", "-", "targets">>>>
      [] kind = "build"        -> <<W("build")>>
      [] kind = "format-check" -> FmtCheck

FlutterCheck(kind) ==
    CASE kind = "build" -> Refused
      [] kind = "test"  -> Run("flutter", <<W("test")>>)
      [] kind = "format-check" ->
            Run("dart", <<W("format"), <<"-", "-", "output", "=", "none">>,
                          <<"-", "-", "set", "-", "exit", "-", "if", "-", "changed">>, <<".">>>>)
      [] OTHER -> Run("flutter", <<W("analyze")>>)

NodeCandidates(kind) ==
    CASE kind = "auto" -> <<W("check"), W("typecheck"), W("test"), W("lint"), W("build")>>
      [] kind = "check"     -> <<W("check"), W("typecheck"), W("test")>>
      [] kind = "typecheck" -> <<W("typecheck"), <<"type", "-", "check">>>>
      [] kind = "format-check" ->
            <<<<"format", ":", "check">>, <<"fmt", ":", "check">>, <<"prettier", ":", "check">>>>
      [] OTHER -> <<W(kind)>>

PackageManager(files) ==
    IF "pnpm-lock.yaml" \in files THEN "pnpm"
    ELSE IF "yarn.lock" \in files THEN "yarn" ELSE "npm"

NodeCheck(project, kind) ==
    LET found   == {i \in DOMAIN NodeCandidates(kind) : NodeCandidates(kind)[i] \in project.scripts}
        script  == NodeCandidates(kind)[Min(found)]
        manager == PackageManager(project.files)
    IN  IF project.broken \/ found = {} THEN Refused
        ELSE IF manager = "npm" /\ script = W("test") THEN Run("npm", <<W("test")>>)
        ELSE Run(manager, <<W("run"), script>>)

SelectCheck(project, kind) ==
    LET type == ProjectType(project.files)
    IN  CASE type = "node"         -> NodeCheck(project, kind)
          [] type = "rust"         -> Run("cargo", RustArgs(kind))
          [] type = "flutter/dart" -> FlutterCheck(kind)
          [] type = "python" /\ kind \in {"auto", "test", "check"} -> Run("pytest", <<>>)
          [] OTHER -> Refused
=============================================================================
