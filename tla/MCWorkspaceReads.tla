-------------------------- MODULE MCWorkspaceReads --------------------------
(* A small home directory for WorkspaceReads: a workspace with a denied file, an ignored     *)
(* directory, a file .gitignore leaves out and links, reached by two paths.                  *)
EXTENDS WorkspaceReads, TLC

\* Two names with a backslash, and one with the byte FF, which is no UTF-8.
MCNameOrder == <<".env", ".git", "\\c", "a", "a\\b", "alias", "app", "b", "bFF", "c", "dist", "etc",
                 "home", "lnk", "log", "src">>
MCShownAs   == "\\c" :> <<"", "c">> @@ "a\\b" :> <<"a", "b">> @@ "bFF" :> <<"b?">>

Dir       == [kind |-> "dir", to |-> <<>>, text |-> <<>>]
File(t)   == [kind |-> "file", to |-> <<>>, text |-> t]
Link(p)   == [kind |-> "link", to |-> p, text |-> <<>>]
App(path) == <<"home", "app">> \o path

Kab == <<"k", "a", "b">>
TextsA == {Kab, <<"a", "a", "a", "k", "a", "b">>, <<"a", "b", "K", "a", "b", "a">>}
TextsB == {<<"K1", "K2", "K3", "a", "b">>, <<"a", "a", "a">> \o Kelvin, <<"b">>}
Base ==
    <<>> :> Dir @@ <<"etc">> :> Dir @@ <<"etc", "b">> :> File(Kab)
    @@ <<"home">> :> Dir @@ <<"home", "app">> :> Dir @@ <<"home", "alias">> :> Link(App(<<>>))
    @@ App(<<".env">>) :> File(Kab) @@ App(<<"dist">>) :> Dir @@ App(<<"dist", "c">>) :> File(Kab)
    @@ App(<<"log">>) :> File(Kab)
MCTrees ==
    {App(<<"a">>) :> File(ta) @@ App(<<"src">>) :> Dir @@ App(<<"src", "b">>) :> File(tb) @@ Base :
        ta \in TextsA, tb \in TextsB}
    \cup {App(<<"src">>) :> Dir @@ App(<<"src", "b">>) :> File(Kab) @@ App(<<"src", ".git">>) :> Dir
            @@ App(<<"src", ".git", "c">>) :> File(Kab) @@ App(<<"lnk">>) :> Link(to) @@ Base :
        to \in {App(<<"src">>), App(<<"dist">>), <<"etc">>}}
    \cup {App(<<"a">>) :> Dir @@ App(<<"a", "b">>) :> File(Kab) @@ App(<<"src">>) :> File(Kab)
            @@ App(<<"a\\b">>) :> File(Kab) @@ App(<<"\\c">>) :> File(Kab) @@ App(<<"bFF">>) :> File(Kab)
            @@ Base}

Rel(names) == [abs |-> FALSE, names |-> names]
Abs(names) == [abs |-> TRUE, names |-> names]
MCOpens ==
    {Abs(App(<<>>)), Abs(<<"home", "alias">>), Abs(App(<<"src", "..", ".">>)), Rel(<<"app", "src">>),
     Abs(<<"etc">>), Abs(App(<<"a">>)), Abs(<<"home", "gone">>)}
MCInputs ==
    {Rel(<<".">>), Rel(<<"a">>), Rel(<<"src", "b">>), Rel(<<"src", "..", "a">>), Rel(<<"src">>),
     Rel(<<"..", "app", "a">>), Rel(<<"lnk">>), Rel(<<"lnk", "b">>), Rel(<<"dist">>), Rel(<<".env">>),
     Rel(<<"src", ".git", "c">>), Abs(<<"home", "alias", "a">>), Abs(App(<<"b">>))}
MCMarker   == <<"~">>
MCRoots    == {<<"home">>}
MCCwd      == <<"home">>
MCPatterns == {"*", "b"}
MCNeedles  == {[pattern |-> p, caseSensitive |-> c] : p \in {Kab, <<"a", "b">>}, c \in BOOLEAN}
MCBytes    == {"a", "b", "k", "K", "K1", "K2", "K3", "LF"}
MCAscii    == {"a", "b", "k", "K", "LF"}
MCLower    == [byte \in MCBytes |-> IF byte = "K" THEN "k" ELSE byte]
MCForms    == [byte \in MCAscii |->
                  IF byte \in {"k", "K"} THEN {<<"k">>, <<"K">>, Kelvin} ELSE {<<byte>>}]
=============================================================================
