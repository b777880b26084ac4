---------------------------- MODULE MCFileEdits ----------------------------
(***************************************************************************)
(* FileEdits with two files and batches that between them have every kind  *)
(* of change, for TLC.                                                     *)
(***************************************************************************)
EXTENDS FileEdits

CONSTANTS f1, f2, a, b

At(p, type)           == [type |-> type, path |-> p]
Put(p, type, new)     == [type |-> type, path |-> p, new |-> new]
Replace(p, old, new)  == [type |-> "replace_text", path |-> p, old |-> old, new |-> new]
Lines(p, m, n, new)   == [type |-> "replace_range", path |-> p, from |-> m, to |-> n, new |-> new]
Near(p, type, x, new) == [type |-> type, path |-> p, anchor |-> x, new |-> new]
Move(p, q)            == [type |-> "rename", path |-> p, target |-> q]

TwoFiles == {f1, f2}
AllTokens == {a, b, Newline}
TwoTexts == {<<a>>, <<a, Newline, b>>}

AllBatches == {
    <<Replace(f1, <<a>>, <<b, b>>)>>,
    <<Replace(f2, <<>>, <<a>>)>>,
    <<Lines(f1, 2, 2, <<a, b>>), Put(f2, "append", <<b>>)>>,
    <<Put(f1, "create", <<a>>), Near(f2, "insert_after", <<a>>, <<b>>)>>,
    <<Put(f2, "overwrite", <<b>>), Near(f2, "insert_before", <<b>>, <<a>>)>>,
    <<At(f2, "delete"), Near(f2, "insert_after", <<a>>, <<b>>)>>,
    <<Move(f2, f1), Put(f1, "append", <<b>>)>> }

Symmetric == Permutations(Clients)
=============================================================================
