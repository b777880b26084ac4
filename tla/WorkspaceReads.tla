--------------------------- MODULE WorkspaceReads ---------------------------
(***************************************************************************)
(* The workspace registry (src/workspace/registry.rs) and the tools that   *)
(* read a workspace (src/server/handler.rs, src/server/coding_tools/       *)
(* project.rs): open, list, read, find, tree and search, over files that   *)
(* others change.  A call sees one state of the tree; SearchIndex has the  *)
(* searches that overlap with changes.  Answers hold paths and names as    *)
(* the file system has them: the text a client sees of a path is Display.  *)
(* Redaction, the cap on the length of an answer, the globs that a search  *)
(* includes and excludes and files that are not UTF-8 are left out.        *)
(***************************************************************************)
EXTENDS WorkspacePaths, Trigrams

CONSTANTS
    Trees,          \* what the file system may hold
    Roots, Cwd,     \* the allowed roots, the server's directory
    Opens, Inputs,  \* the inputs of open, and of the calls on a workspace
    Patterns, Needles, Forms,  \* globs, search patterns, and the forms of a byte in either case
    MaxRead, MaxOutput,        \* max_read_bytes, max_output_bytes
    MinShare,       \* 1000 bytes in the code
    Marker,         \* FILE_TRUNCATION_MARKER, 18 bytes in the code
    Limits,         \* the limits and depths tried
    MaxWorkspaces   \* bound on the workspaces opened

ASSUME ReadsAssumption ==
    /\ {MaxRead, MaxOutput, MinShare, MaxWorkspaces} \subseteq Nat \ {0} /\ Limits \subseteq Nat \ {0}
    /\ Marker \in Seq(STRING)
    /\ Roots \subseteq Paths /\ Cwd \in Paths
    /\ Opens \cup Inputs \subseteq [abs : BOOLEAN, names : Paths]
    /\ Needles \subseteq [pattern : Seq(Bytes), caseSensitive : BOOLEAN]

\* A form of an ASCII byte is that byte in either case, or a character beyond ASCII.
ASSUME FormsAssumption ==
    /\ Forms \in [Ascii -> SUBSET Seq(Bytes)]
    /\ \A byte \in Ascii : \A form \in Forms[byte] : Spells(form, <<byte>>)

VARIABLES
    tree,
    workspaces, idByRoot,  \* the roots by id, and the ids by root
    reply                  \* the last call and what it answered
vars == <<tree, workspaces, idByRoot, reply>>

Nothing == [call |-> "none", root |-> <<>>, path |-> <<>>, what |-> <<>>, limit |-> 0, out |-> <<>>]
Answer(call, root, path, what, limit, out) ==
    /\ reply' = [call |-> call, root |-> root, path |-> path, what |-> what, limit |-> limit, out |-> out]
    /\ UNCHANGED <<tree, workspaces, idByRoot>>
Fails == Answer("refused", <<>>, <<>>, <<>>, 0, <<>>)

Init == tree \in Trees /\ workspaces = <<>> /\ idByRoot = <<>> /\ reply = Nothing

\* Others change files, and the client takes an answer.
Change == reply = Nothing /\ tree' \in Trees /\ UNCHANGED <<workspaces, idByRoot, reply>>
Taken  == reply # Nothing /\ reply' = Nothing /\ UNCHANGED <<tree, workspaces, idByRoot>>

-----------------------------------------------------------------------------
\* WorkspaceRegistry: open, get and resolve, and the handlers' deny check

Open ==
    /\ reply = Nothing
    /\ \E input \in Opens : LET allowed == AssertAllowed(tree, input, Cwd, Roots)
                                root    == allowed.path
       IN IF ~allowed.ok \/ Metadata(tree, root).kind # "dir" THEN Fails
          ELSE IF root \in DOMAIN idByRoot
          THEN Answer("open", root, <<>>, <<>>, idByRoot[root], <<>>)
          ELSE /\ Len(workspaces) < MaxWorkspaces
               /\ workspaces' = Append(workspaces, root)
               /\ idByRoot' = [r \in DOMAIN idByRoot \cup {root} |->
                                  IF r = root THEN Len(workspaces) + 1 ELSE idByRoot[r]]
               /\ reply' = [Nothing EXCEPT !.call = "open", !.root = root, !.limit = Len(workspaces) + 1]
               /\ UNCHANGED tree

\* An id of no workspace is refused.
Resolve(id, input) ==
    LET found == IF id \in DOMAIN workspaces THEN ResolveIn(tree, workspaces[id], input) ELSE Refused
    IN  IF found.ok /\ ~IsDenied(workspaces[id], found.path) THEN found ELSE Refused

-----------------------------------------------------------------------------
\* Reads.  The Kelvin sign, a k in the eyes of the matcher, stands for every character of
\* more than one byte; one that is cut is shown as a replacement character, of three bytes.

Kelvin      == <<"K1", "K2", "K3">>
Replacement == <<"EF", "BF", "BD">>
Lossy(bytes) ==
    LET n == Len(bytes)
        cut == {i \in {n - 1, n} : i > 0 /\ bytes[i] = "K1"}
    IN  IF cut = {} THEN bytes
        ELSE SubSeq(bytes, 1, (CHOOSE i \in cut : TRUE) - 1) \o Replacement

\* A file system is a tree, and its files hold whole characters.
ASSUME TreesAssumption ==
    \A t \in Trees : /\ IsTree(t)
                     /\ \A path \in DOMAIN t :
                          t[path].text \in Seq(Bytes) /\ Lossy(t[path].text) = t[path].text

Content(text, max, truncated) == Lossy(Take(text, max)) \o (IF truncated THEN Marker ELSE <<>>)

ReadCappedFull(text, max) ==
    [text |-> Content(text, max, Len(text) >= max), truncated |-> Len(text) >= max]

ReadCapped(text, max) ==
    [text |-> Content(text, max, Len(text) > max), truncated |-> Len(text) > max]

ReadFile(id, input) ==
    LET at == Resolve(id, input) IN
    IF ~at.ok \/ Metadata(tree, at.path).kind # "file" THEN Fails
    ELSE Answer("read_file", workspaces[id], at.path, <<>>, MaxRead,
                <<ReadCapped(Metadata(tree, at.path).text, MaxRead)>>)

\* The files share the output; a path that is named twice is read once.
FairShare(n) == LET share == MaxOutput \div n IN IF share > MinShare THEN share ELSE MinShare
Once(seq) == FlattenSeq([i \in DOMAIN seq |->
                 IF \E j \in 1..(i - 1) : seq[j] = seq[i] THEN <<>> ELSE <<seq[i]>>])
ReadFiles(id, inputs, perFile) ==
    LET kept == Once(inputs)
        at   == [i \in DOMAIN kept |-> Resolve(id, kept[i])]
        cap  == CHOOSE m \in {perFile, MaxRead, FairShare(Len(kept))} :
                    \A n \in {perFile, MaxRead, FairShare(Len(kept))} : m <= n
    IN  IF \E i \in DOMAIN at : ~at[i].ok \/ Metadata(tree, at[i].path).kind # "file" THEN Fails
        ELSE Answer("read_files", workspaces[id], <<>>, [i \in DOMAIN at |-> at[i].path], cap,
                    [i \in DOMAIN at |-> ReadCapped(Metadata(tree, at[i].path).text, cap)])

ListDir(id, input) ==
    LET at == Resolve(id, input) IN
    IF ~at.ok \/ Metadata(tree, at.path).kind # "dir" THEN Fails
    ELSE Answer("list_dir", workspaces[id], at.path, <<>>, 0,
           LET names == Names(tree, at.path) IN
           [i \in DOMAIN names |->
               <<IF Entry(tree, at.path, names[i]).kind = "dir" THEN "dir" ELSE "file", names[i]>>])

-----------------------------------------------------------------------------
\* Walks.  A start that does not exist is refused.

Starts(id, input) == LET at == Resolve(id, input) IN at.ok /\ Exists(tree, at.path)

FindFiles(id, input, pattern, max) ==
    IF ~Starts(id, input) THEN Fails
    ELSE LET start == Resolve(id, input).path IN
         Answer("find_files", workspaces[id], start, pattern, max,
                WalkFind(tree, workspaces[id], start, pattern, max))

ProjectTree(id, input, depth) ==
    IF ~Starts(id, input) THEN Fails
    ELSE LET start == Resolve(id, input).path IN
         Answer("project_tree", workspaces[id], start, <<>>, depth,
                WalkTree(tree, workspaces[id], start, depth))

\* The matcher: the pattern, or without case one of its spellings, in what a search reads.
Joined(parts, forms) == {part \o form : part \in parts, form \in forms}
Spellings(pattern) ==
    LET upto[i \in 0..Len(pattern)] ==
            IF i = 0 THEN {<<>>} ELSE Joined(upto[i - 1], Forms[pattern[i]])
    IN  upto[Len(pattern)]
FindsIn(pattern, caseSensitive, bytes) ==
    \E part \in (IF caseSensitive THEN {pattern} ELSE Spellings(pattern)) : Occurs(part, bytes)

\* The files of the walk, or those of the index that was made from it.
Searched(root, start, needle, useIndex) ==
    LET files == CollectFiles(tree, root, start, NoGlob)
    IN  IF ~useIndex THEN files
        ELSE Kept(files, {f \in ToSet(files) :
            IsCandidate(FileRecord(Metadata(tree, f).text, MaxRead), needle.pattern, needle.caseSensitive)})

\* One match in each file, its lines apart; a search reads one byte more than the index.
SearchResult(root, start, needle, max, useIndex) ==
    LET files == Searched(root, start, needle, useIndex)
        hits  == Kept(files, {f \in ToSet(files) :
            FindsIn(needle.pattern, needle.caseSensitive, Take(Metadata(tree, f).text, MaxRead + 1))})
    IN  [i \in 1..(IF Len(hits) < max THEN Len(hits) ELSE max) |-> Relative(root, hits[i])]

SearchFiles(id, input, needle, max) ==
    IF ~Starts(id, input) THEN Fails
    ELSE LET start == Resolve(id, input).path IN
         Answer("search_files", workspaces[id], start, needle, max,
                SearchResult(workspaces[id], start, needle, max, IsIndexable(needle.pattern)))

Call ==
    /\ reply = Nothing
    /\ \E id \in 1..(Len(workspaces) + 1), input \in Inputs :
         \/ ReadFile(id, input)
         \/ \E other \in Inputs, perFile \in Limits : ReadFiles(id, <<input, other, input>>, perFile)
         \/ ListDir(id, input)
         \/ \E pattern \in Patterns, max \in Limits : FindFiles(id, input, pattern, max)
         \/ \E depth \in Limits : ProjectTree(id, input, depth)
         \/ \E needle \in Needles, max \in Limits : SearchFiles(id, input, needle, max)

Next == Open \/ Call \/ Change \/ Taken
Spec == Init /\ [][Next]_vars

-----------------------------------------------------------------------------
\* Properties

\* The two tables of the registry (src/workspace/registry.rs) are each other's inverse: a
\* directory has one id, however its path is written and whatever has become of it.
TypeOK ==
    /\ tree \in Trees
    /\ Len(workspaces) <= MaxWorkspaces
    /\ DOMAIN idByRoot = ToSet(workspaces)
    /\ \A id \in DOMAIN workspaces : idByRoot[workspaces[id]] = id
    /\ reply.call = "open" => /\ workspaces[reply.limit] = reply.root
                              /\ Follow(tree, reply.root) = reply.root

\* The files below the start that no link, no ignored directory and no deny glob cuts off.
OpenFiles(t, root, start) ==
    LET suffix(q) == SubSeq(q, Len(Follow(t, start)) + 1, Len(q))
        open(q) == \A n \in 0..Len(suffix(q)) :
            /\ IsSafePath(t, root, start \o Prefix(suffix(q), n))
            /\ n \in 1..(Len(suffix(q)) - 1) => suffix(q)[n] \notin IgnoredDirectories
    IN  {start \o suffix(q) :
            q \in {q \in DOMAIN t : IsInside(q, Follow(t, start)) /\ t[q].kind = "file" /\ open(q)}}
OpenPaths(t, r) == {Relative(r.root, p) : p \in OpenFiles(t, r.root, r.path)}

FindAgrees(t, r) ==
    LET wanted == {p \in OpenPaths(t, r) : Matches(r.what, Display(r.root, r.root \o p))} IN
    /\ ToSet(r.out) \subseteq wanted
    /\ Len(r.out) = Cardinality(ToSet(r.out))
    /\ Len(r.out) < r.limit => ToSet(r.out) = wanted
    /\ IsPrefix(r.out, WalkFind(t, r.root, r.path, r.what, Cardinality(wanted) + 1))
TreeAgrees(t, r) ==
    {p \in OpenPaths(t, r) : Len(p) <= Len(Relative(r.root, r.path)) + r.limit + 1}
        \subseteq {line.path : line \in ToSet(r.out)}
SearchAgrees(t, r) == ToSet(r.out) \subseteq OpenPaths(t, r)

\* The three walks (src/workspace/search.rs, src/workspace/search/walker.rs) agree: find_files
\* answers, in order and up to its limit, exactly the open files below its start; the tree of
\* a sufficient depth shows them all; a search reads none but them.
WalksAgree ==
    /\ reply.call = "find_files" => FindAgrees(tree, reply)
    /\ reply.call = "project_tree" => TreeAgrees(tree, reply)
    /\ reply.call = "search_files" => SearchAgrees(tree, reply)

\* The text with which find_files or a search shows a file (relative_display_path,
\* src/workspace/paths.rs:139-148) resolves in the workspace to that very file, unless a name
\* on its path has a backslash or is not UTF-8: such a file may be shown under the path of
\* another, or under one that leads nowhere.
ShownCanBeRead ==
    reply.call \in {"find_files", "search_files"} =>
        LET id == idByRoot[reply.root] IN
        \A path \in ToSet(reply.out) :
            LET file == reply.root \o path IN
            \/ /\ Resolve(id, Parse(Display(reply.root, file))) = Path(file)
               /\ Metadata(tree, file).kind = "file"
            \/ \E i \in DOMAIN path : path[i] \in DOMAIN ShownAs

\* An answer is that of the walk, or leaves out a file with no match in its first MaxRead bytes.
MissesOnlyBeyond(root, needle, out, walk) ==
    \/ out = walk
    \/ \E p \in ToSet(walk) \ ToSet(out) :
          ~FindsIn(needle.pattern, needle.caseSensitive,
                   Take(Metadata(tree, root \o p).text, MaxRead))

\* The index is "an accelerator rather than a correctness shortcut" (README.md:288-289): a
\* search with it answers what one without it does, but for a file whose only matches end at
\* the one byte beyond max_read_bytes that the search reads and the index does not.
IndexAccelerates ==
    reply.call = "search_files" =>
        MissesOnlyBeyond(reply.root, reply.what, reply.out,
                         SearchResult(reply.root, reply.path, reply.what, reply.limit, FALSE))

ReadPaths(r) == IF r.call = "read_file" THEN <<r.path>> ELSE r.what
ContentBytes(r) == Len(FlattenSeq([i \in DOMAIN r.out |-> r.out[i].text]))

\* A file that is not marked truncated is shown whole; one that is has more to it, of which
\* the answer shows a beginning, and the marker; and the files of one call go beyond the
\* output they share (src/server/coding_tools/project.rs:203-206), while it has MinShare
\* bytes for each of them, by their markers and replacement characters at the most.
ReadsTell ==
    reply.call \in {"read_file", "read_files"} =>
        LET paths == ReadPaths(reply)
            text(i) == Metadata(tree, paths[i]).text
            got(i)  == reply.out[i].text
        IN  /\ \A i \in DOMAIN paths :
                 IF reply.out[i].truncated
                 THEN /\ Len(text(i)) > reply.limit
                      /\ \E n \in 0..Len(text(i)), end \in {<<>>, Replacement} :
                            got(i) = (Take(text(i), n) \o end) \o Marker
                 ELSE got(i) = text(i)
            /\ reply.call = "read_files" /\ MinShare * Len(paths) <= MaxOutput =>
                 ContentBytes(reply) <= MaxOutput + (2 + Len(Marker)) * Len(paths)
=============================================================================
