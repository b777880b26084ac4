----------------------------- MODULE TextEdits -----------------------------
(***************************************************************************)
(* What one change of preview_edit, confirm_edit or apply_patch asks of    *)
(* the text of its file and makes of it (src/edit/preview.rs,              *)
(* src/edit/apply.rs), as pure functions.  Preview and apply each check    *)
(* the text they read, in code of their own.                               *)
(*                                                                         *)
(* A text is a sequence of tokens, one of which is the line break; a file  *)
(* that is not there has the text Missing.  The diffs shown for a change   *)
(* are left out.                                                           *)
(***************************************************************************)
EXTENDS Integers, FiniteSets, SequencesExt

CONSTANTS
    Tokens, Newline,    \* what texts are made of
    Missing             \* no text

Texts == Seq(Tokens)

\* The changes to files in fs, by type.
Changes(fs) ==
    [type : {"replace_text"}, path : fs, old : Texts, new : Texts]
      \cup [type : {"replace_range"}, path : fs, from : Nat, to : Nat, new : Texts]
      \cup [type : {"insert_before", "insert_after"}, path : fs, anchor : Texts, new : Texts]
      \cup [type : {"append", "create", "overwrite"}, path : fs, new : Texts]
      \cup [type : {"rename"}, path : fs, target : fs]
      \cup [type : {"delete"}, path : fs]

Holds(t, part) == part \in SubSeqs(t)

\* split('\n'): a text has one line more than it has line breaks.
Breaks(t)    == {i \in 1 .. Len(t) : t[i] = Newline}
LineCount(t) == Cardinality(Breaks(t)) + 1

\* Where line m begins, and where line n ends, its line break not counted.
LineStart(t, m) ==
    CHOOSE i \in 1 .. Len(t) + 1 :
        /\ i = 1 \/ i - 1 \in Breaks(t)
        /\ Cardinality({b \in Breaks(t) : b < i}) = m - 1
LineEnd(t, n) == IF n = LineCount(t) THEN Len(t) ELSE LineStart(t, n + 1) - 2

\* checked_range
RangeOK(t, m, n) == m \in 1 .. LineCount(t) /\ n \in m .. LineCount(t)

\* What a change says of the text of its path: preview_one, which for a rename goes on to
\* look at the target.
\* For mutation: only whether there is a file is looked at.
PreviewLooksForFile(ch, t) == t = Missing <=> ch.type = "create"
PreviewAccepts(ch, t) ==
    CASE ch.type = "create" -> t = Missing
      [] ch.type \in {"append", "overwrite"} -> TRUE
      [] ch.type = "replace_text" -> IF t = Missing THEN ch.old = <<>> ELSE Holds(t, ch.old)
      [] ch.type = "replace_range" -> t # Missing /\ RangeOK(t, ch.from, ch.to)
      [] ch.type \in {"insert_before", "insert_after"} -> t # Missing /\ Holds(t, ch.anchor)
      [] ch.type \in {"delete", "rename"} -> t # Missing

-----------------------------------------------------------------------------
\* apply_one, for the changes that read a text and write another

Rewrites == {"replace_text", "replace_range", "insert_before", "insert_after", "append", "create"}

Applies(ch, t) ==
    CASE ch.type = "append" -> TRUE
      [] ch.type = "create" -> t = Missing
      [] ch.type = "replace_text" ->
           IF t = Missing THEN ch.old = <<>> ELSE ch.old = <<>> \/ Holds(t, ch.old)
      [] ch.type = "replace_range" -> t # Missing /\ RangeOK(t, ch.from, ch.to)
      [] ch.type \in {"insert_before", "insert_after"} -> t # Missing /\ Holds(t, ch.anchor)

\* replace_text of nothing leaves a file that is there as it is.
WritesNothing(ch, t) == ch.type = "replace_text" /\ ch.old = <<>> /\ t # Missing

Insert(t, i, part) == SubSeq(t, 1, i - 1) \o part \o SubSeq(t, i, Len(t))

Appended(t, part) ==
    IF t = Missing THEN part
    ELSE IF t = <<>> \/ Last(t) = Newline THEN t \o part
    ELSE t \o <<Newline>> \o part

Rewritten(ch, t) ==
    CASE ch.type = "create" -> ch.new
      [] ch.type = "append" -> Appended(t, ch.new)
      [] ch.type = "replace_text" ->
           IF t = Missing THEN ch.new ELSE ReplaceFirstSubSeq(ch.new, ch.old, t)
      [] ch.type = "replace_range" ->
           SubSeq(t, 1, LineStart(t, ch.from) - 1) \o ch.new
               \o SubSeq(t, LineEnd(t, ch.to) + 1, Len(t))
      [] ch.type = "insert_before" -> Insert(t, IndexFirstSubSeq(ch.anchor, t), ch.new)
      [] ch.type = "insert_after" ->
           Insert(t, IndexFirstSubSeq(ch.anchor, t) + Len(ch.anchor), ch.new)
=============================================================================
