--------------------------- MODULE WorkspacePaths ---------------------------
(***************************************************************************)
(* Paths in a tree of files (src/workspace/paths.rs) and the three walks   *)
(* over it (src/workspace/search.rs, src/workspace/search/walker.rs).      *)
(*                                                                         *)
(* A path is the sequence of names from the root directory.  A tree is a   *)
(* function from paths to nodes, [kind, to, text]: a directory, a file     *)
(* with its text, or a link with the path it leads to, which has no link   *)
(* in it.  What a client writes is an input, [abs, names], the text        *)
(* between its slashes: names, but also "", "." and "..".                  *)
(***************************************************************************)
EXTENDS Naturals, Sequences, SequencesExt, FiniteSets

CONSTANTS
    NameOrder,      \* every name, in the order the walks visit them
    DeniedNames,    \* names of the deny globs **/name
    DeniedDirs,     \* names of the deny globs **/name/**
    GitIgnored,     \* names a .gitignore leaves out
    ShownAs         \* what stands between the slashes for a name that is not shown as it is:
                    \* one with a backslash, which a slash replaces, or one that is not UTF-8

ASSUME NamesAssumption ==
    /\ NameOrder \in Seq(STRING \ {"", ".", ".."})
    /\ \A i, j \in DOMAIN NameOrder : NameOrder[i] = NameOrder[j] => i = j
    /\ ShownAs \in [DOMAIN ShownAs -> Seq(STRING)]

Paths == Seq(STRING)
Known == ToSet(NameOrder)

IgnoredDirectories == {"node_modules", "dist", ".git"}

None == [kind |-> "none", to |-> <<>>, text |-> <<>>]

-----------------------------------------------------------------------------
\* Trees: what is at a path, links followed

NodeAt(tree, path) == IF path \in DOMAIN tree THEN tree[path] ELSE None

\* The path without a link in it.
Follow(tree, path) ==
    LET upto[i \in 0..Len(path)] ==
            IF i = 0 THEN <<>>
            ELSE LET at == Append(upto[i - 1], path[i])
                 IN  IF NodeAt(tree, at).kind = "link" THEN NodeAt(tree, at).to ELSE at
    IN  upto[Len(path)]

Prefix(path, n) == SubSeq(path, 1, n)
NoLinks(tree, path) == \A n \in 0..Len(path) : NodeAt(tree, Prefix(path, n)).kind # "link"

\* What a file system holds: a finite tree of directories, with links and files in them.
IsTree(tree) ==
    /\ IsFiniteSet(DOMAIN tree) /\ DOMAIN tree \subseteq Seq(Known)
    /\ <<>> \in DOMAIN tree /\ tree[<<>>].kind = "dir"
    /\ \A path \in DOMAIN tree :
         /\ tree[path].kind \in {"dir", "file", "link"}
         /\ path # <<>> => Front(path) \in DOMAIN tree /\ tree[Front(path)].kind = "dir"
         /\ tree[path].kind = "link" => tree[path].to \in Seq(Known) /\ NoLinks(tree, tree[path].to)

Metadata(tree, path) == NodeAt(tree, Follow(tree, path))
Exists(tree, path)   == Metadata(tree, path).kind # "none"

\* The elements of a sequence that are in a set.
Kept(seq, set) == FlattenSeq([i \in DOMAIN seq |-> IF seq[i] \in set THEN <<seq[i]>> ELSE <<>>])

\* The names in a directory, and what a name there is, which may be a link.
Names(tree, dir) ==
    Kept(NameOrder, {n \in Known : NodeAt(tree, Append(Follow(tree, dir), n)).kind # "none"})
EntryFollowed(tree, dir, name) == Metadata(tree, Append(dir, name))
Entry(tree, dir, name) == NodeAt(tree, Append(Follow(tree, dir), name))

-----------------------------------------------------------------------------
\* Paths

IsInside(path, root) == IsPrefix(root, path)

\* normalize_path and absolute_path: "" and "." are dropped, ".." takes back a name, links
\* unread.
Normalized(names) ==
    LET upto[i \in 0..Len(names)] ==
            IF i = 0 THEN <<>>
            ELSE CASE names[i] \in {"", "."} -> upto[i - 1]
                   [] names[i] = ".."       -> IF upto[i - 1] = <<>> THEN <<>> ELSE Front(upto[i - 1])
                   [] OTHER                 -> Append(upto[i - 1], names[i])
    IN  upto[Len(names)]
Absolute(input, base) == Normalized(IF input.abs THEN input.names ELSE base \o input.names)

\* canonicalize_existing_prefix: the links of as much of the path as exists are followed.
Canonical(tree, path) ==
    LET n == CHOOSE n \in 0..Len(path) :
                 /\ Exists(tree, Prefix(path, n))
                 /\ \A m \in (n + 1)..Len(path) : ~Exists(tree, Prefix(path, m))
    IN  Follow(tree, Prefix(path, n)) \o SubSeq(path, n + 1, Len(path))

Refused == [ok |-> FALSE, path |-> <<>>]
Path(path) == [ok |-> TRUE, path |-> path]

AssertAllowedAsWritten(tree, input, cwd, roots) ==
    LET path == Absolute(input, cwd) IN
    IF \E r \in roots : IsInside(Canonical(tree, path), Canonical(tree, r)) THEN Path(path) ELSE Refused

AssertAllowed(tree, input, cwd, roots) ==
    LET path == Absolute(input, cwd) IN
    IF \E r \in roots : IsInside(Canonical(tree, path), Canonical(tree, r))
    THEN Path(IF Exists(tree, path) THEN Follow(tree, path) ELSE path)
    ELSE Refused

\* The path is inside the workspace as it is written and where it leads.
ResolveIn(tree, root, input) ==
    LET path == Absolute(input, root) IN
    IF /\ IsInside(path, root)
       /\ IsInside(Canonical(tree, path), Canonical(tree, root))
    THEN Path(path) ELSE Refused

\* relative_display_path: separators normalized and what is not UTF-8 replaced; an absolute
\* path begins with a slash.  Parse reads the text back as an input.
Parts(name) == IF name \in DOMAIN ShownAs THEN ShownAs[name] ELSE <<name>>
Shown(path) == FlattenSeq([i \in DOMAIN path |-> Parts(path[i])])
Relative(root, path) == SubSeq(path, Len(root) + 1, Len(path))

DisplayName(root, path) == IF path = root THEN <<>> ELSE Parts(Last(path))

Display(root, path) ==
    IF IsInside(path, root) THEN Shown(Relative(root, path)) ELSE <<"">> \o Shown(path)
Parse(text) == [abs |-> text # <<>> /\ Head(text) = "", names |-> text]

\* The deny globs, on what is shown of a path.
IsDenied(root, path) ==
    LET text == Display(root, path) IN
    \/ text # <<>> /\ Last(text) \in DeniedNames
    \/ ToSet(text) \cap DeniedDirs # {}

IsSafePath(tree, root, path) ==
    /\ ResolveIn(tree, root, [abs |-> TRUE, names |-> path]).ok
    /\ ~IsDenied(root, path)

-----------------------------------------------------------------------------
\* Walks.  A path they find is kept as it is, relative to the root; a client sees Display.

\* GlobMatcher, on what is shown of a path: a pattern is "*", which matches no slash, or a
\* name, and the last name is tried as well.  NoGlob stands for a pattern that is not given.
NoGlob == ""
FileName(text) ==
    LET names == SelectSeq(text, LAMBDA name : name \notin {"", "."}) IN
    IF names = <<>> \/ Last(names) = ".." THEN <<>> ELSE <<Last(names)>>
Matches(pattern, text) ==
    \/ pattern = NoGlob
    \/ pattern = "*" /\ (Len(text) <= 1 \/ FileName(text) # <<>>)
    \/ FileName(text) = <<pattern>>

\* The names that a walk goes on to: no links, no ignored directories.
Entered(tree, dir) ==
    Kept(Names(tree, dir), {n \in Known : LET entry == Entry(tree, dir, n).kind IN
                               entry # "link" /\ ~(entry = "dir" /\ n \in IgnoredDirectories)})

\* The names of a directory one after the other, each with what was found before it.
InTurn(walk, dir, names, results) ==
    LET upto[i \in 0..Len(names)] ==
            IF i = 0 THEN results ELSE walk[Append(dir, names[i])][upto[i - 1]]
    IN  upto[Len(names)]

WalkFind(tree, root, start, pattern, max) ==
    LET found[path \in Paths] == [results \in Seq(Paths) |->
            LET kind == Metadata(tree, path).kind IN
            IF Len(results) >= max \/ ~IsSafePath(tree, root, path) THEN results
            ELSE IF kind = "dir" THEN InTurn(found, path, Entered(tree, path), results)
            ELSE IF kind = "file" /\ Matches(pattern, Display(root, path))
            THEN Append(results, Relative(root, path))
            ELSE results]
    IN  found[start][<<>>]

\* The lines of a tree, each a directory or a file: the directories of a directory come
\* first, and its files are not looked at one by one.
TreeLine(kind, root, path) == [kind |-> kind, path |-> Relative(root, path)]
WalkTree(tree, root, start, max) ==
    LET lines[path \in Paths] ==
            LET depth == Len(path) - Len(start)
                dirs  == Kept(Entered(tree, path), {n \in Known : Entry(tree, path, n).kind = "dir"})
                files == Kept(Names(tree, path), {n \in Known : Entry(tree, path, n).kind = "file"})
            IN  IF depth > max \/ ~IsSafePath(tree, root, path) \/ ~Exists(tree, path) THEN <<>>
                ELSE IF Metadata(tree, path).kind # "dir" THEN <<TreeLine("file", root, path)>>
                ELSE (IF depth > 0 THEN <<TreeLine("dir", root, path)>> ELSE <<>>)
                     \o FlattenSeq([i \in DOMAIN dirs |-> lines[Append(path, dirs[i])]])
                     \o [i \in DOMAIN files |-> TreeLine("file", root, Append(path, files[i]))]
    IN  lines[start]

\* collect_files over the ignore crate's walk: its filter leaves the start alone.
CollectFiles(tree, root, start, include) ==
    LET files[path \in Paths] ==
            LET names == Kept(Entered(tree, path),
                              {n \in Known \ GitIgnored : IsSafePath(tree, root, Append(path, n))})
                kind == Metadata(tree, path).kind
            IN  IF kind = "dir" THEN FlattenSeq([i \in DOMAIN names |-> files[Append(path, names[i])]])
                ELSE IF /\ kind = "file" /\ IsSafePath(tree, root, path)
                        /\ Matches(include, Display(root, path))
                THEN <<path>> ELSE <<>>
    IN  files[start]
=============================================================================
