--------------------------- MODULE CommandPolicy ---------------------------
(***************************************************************************)
(* assert_process_allowed (src/process/runner.rs): which command lines     *)
(* each access mode admits.  A token is a sequence of atoms, an atom a     *)
(* word or one punctuation mark, all in lower case; a command line is the  *)
(* executable's token and the arguments' tokens.  A word stands for        *)
(* itself with its .exe, .cmd or .bat form, which the lists spell out; a   *)
(* word of Unsafe for every text that contains it.                         *)
(***************************************************************************)
EXTENDS Naturals, Sequences, FiniteSets, SequencesExt

Modes == {"review", "coding", "full"}

W(word) == <<word>>
Shells == {W("sh"), W("bash"), W("pwsh"), W("powershell"), W("iex"), <<"invoke", "-", "expression">>}
Downloads == {"curl", "wget", "irm", "iwr"}

\* The executable without its directory.
BaseName(cmd) ==
    LET after == {i \in 1..Len(cmd) : \A j \in i..Len(cmd) : cmd[j] # "/"}
    IN  SubSeq(cmd, Len(cmd) + 1 - Cardinality(after), Len(cmd))

BlockedCommands ==
    {W(w) : w \in {"bash", "cmd", "format", "powershell", "pwsh", "reboot", "reg", "sc", "sh",
                   "shutdown"}}

-----------------------------------------------------------------------------
\* blocked_policy_pattern: the tokens of a line, and its text with blanks between them

Blank == " "
Tokens(line) == FoldLeft(LAMBDA kept, t : IF t = <<>> THEN kept ELSE Append(kept, t), <<>>, line)
Text(line)   == FoldLeft(LAMBDA text, t : text \o <<Blank>> \o t, <<>>, line)

HasSequence(tokens, first, second) ==
    \E i \in 1..(Len(tokens) - 1) : tokens[i] = first /\ tokens[i + 1] = second

\* The token after an rm is taken for its flags and not looked at again.
HasRmRecursiveForce(tokens) ==
    LET taken[i \in 0..Len(tokens)] ==   \* the i-th token was some rm's flags
            i > 1 /\ tokens[i - 1] = W("rm") /\ ~taken[i - 1]
    IN  \E i \in 1..Len(tokens) : taken[i] /\ tokens[i] \in {<<"-", "rf">>, <<"-", "fr">>}

\* A part of a text that starts at an atom.
PartAt(text, from, part) ==
    /\ from + Len(part) - 1 <= Len(text)
    /\ \A k \in DOMAIN part : text[from + k - 1] = part[k]

HasDelete(tokens) ==
    \E flag \in {<<"/", "s">>, <<"/", "q">>} : HasSequence(tokens, W("del"), flag)

Word(text, w) == \E i \in 1..Len(text) : text[i] = w

\* A needle with a hyphen is looked for in tokens stripped of other punctuation.
HasHyphenated(tokens, needle) ==
    \E i \in 1..Len(tokens) :
        \E from \in 1..Len(tokens[i]) : LET to == from + Len(needle) - 1 IN
            /\ PartAt(tokens[i], from, needle)
            /\ \A j \in (1..Len(tokens[i])) \ (from..to) : tokens[i][j] \in {".", ":", "/", "|", ">", "&", "="}

\* A download whose output is piped into a shell.
HasDownloadPipe(tokens, text) ==
    /\ \/ \E w \in Downloads : Word(text, w)
       \/ HasHyphenated(tokens, <<"invoke", "-", "webrequest">>)
    /\ \E i \in 1..Len(text), shell \in Shells : text[i] = "|" /\
         \E from \in (i + 1)..Len(text) : LET to == from + Len(shell) - 1 IN
            /\ \A j \in (i + 1)..(from - 1) : text[j] = Blank
            /\ PartAt(text, from, shell)
            /\ to = Len(text) \/ text[to + 1] \in {Blank, "|"}

HasRedirection(text) ==
    \E i \in 1..Len(text), j \in 1..Len(text) :
        /\ i < j /\ text[i] = ">" /\ text[j] \notin {Blank, "&"}
        /\ \A k \in (i + 1)..(j - 1) : text[k] = Blank

BlockedPattern(line) ==
    LET tokens == Tokens(line)
        text   == Text(line)
    IN  \/ HasRmRecursiveForce(tokens) \/ HasDelete(tokens)
        \/ \E pair \in {<<W("reg"), W("delete")>>, <<W("net"), W("user")>>,
                        <<W("sc"), W("delete")>>, <<W("sed"), <<"-", "i">>>>,
                        <<W("perl"), <<"-", "i">>>>} : HasSequence(tokens, pair[1], pair[2])
        \/ HasDownloadPipe(tokens, text) \/ HasRedirection(text)
        \/ HasHyphenated(tokens, <<"invoke", "-", "expression">>)
        \/ \E w \in {"format", "shutdown", "reboot", "iex", "tee"} : Word(text, w)

-----------------------------------------------------------------------------
\* What the modes allow

GitRead == {W(w) : w \in {"status", "diff", "log", "show", "branch"}} \cup
           {<<"rev", "-", "parse">>, <<"ls", "-", "files">>, <<"-", "-", "version">>}

PackageManagers == {W("npm"), W("pnpm"), W("yarn")}

Unsafe == {"deploy", "publish", "release", "migrat", "seed", "install", "upload", "ship", "prod"}

SafeScriptByName(script) ==
    Len(script) = 1 /\ script[1] \in {"test", "check", "typecheck", "lint", "build", "format", "fmt"}

\* A script one of whose parts between colons is a check, and no part of which is unsafe.
SafeScript(script) ==
    /\ \A i \in 1..Len(script) : script[i] \notin Unsafe
    /\ \E i \in 1..Len(script) :
         /\ script[i] \in {"test", "check", "typecheck", "lint", "build", "format", "fmt"}
         /\ i = 1 \/ script[i - 1] = ":"
         /\ i = Len(script) \/ script[i + 1] = ":"

First(args) == IF args = <<>> THEN <<>> ELSE args[1]

ReviewAllowed(exe, args) ==
    \/ exe = W("git") /\ First(args) \in GitRead
    \/ exe \in PackageManagers /\ First(args) \in {W("test"), W("run")}
    \/ /\ exe \in {W(w) : w \in {"node", "python", "python3", "py"}}
       /\ Len(args) = 1 /\ args[1] \in {<<"-", "-", "version">>, <<"-", "v">>}
    \/ exe \in {W("pytest"), W("rg"), W("grep"), W("where")}

CodingAllowed(exe, args) ==
    \/ /\ exe \in PackageManagers
       /\ \/ First(args) = W("test")
          \/ First(args) = W("run") /\ Len(args) > 1 /\ SafeScript(args[2])
    \/ /\ exe = W("cargo")
       /\ First(args) \in {W(w) : w \in {"build", "check", "clippy", "fmt", "test"}}
    \/ exe = W("flutter") /\ First(args) \in {W(w) : w \in {"analyze", "build", "test"}}
    \/ exe = W("dart") /\ First(args) \in {W(w) : w \in {"analyze", "format", "test"}}
    \/ exe \notin PackageManagers /\ ReviewAllowed(exe, args)

ProcessAllowedByPath(cmd, args, mode) ==
    /\ cmd # <<>>
    /\ BaseName(cmd) \notin BlockedCommands
    /\ ~BlockedPattern(<<cmd>> \o args)
    /\ CASE mode = "full"   -> TRUE
         [] mode = "coding" -> CodingAllowed(cmd, args)
         [] mode = "review" -> ReviewAllowed(BaseName(cmd), args)

ProcessAllowed(cmd, args, mode) ==
    /\ cmd # <<>>
    /\ BaseName(cmd) \notin BlockedCommands
    /\ ~BlockedPattern(<<cmd>> \o args)
    /\ CASE mode = "full"   -> TRUE
         [] mode = "coding" -> CodingAllowed(BaseName(cmd), args)
         [] mode = "review" -> ReviewAllowed(BaseName(cmd), args)
=============================================================================
