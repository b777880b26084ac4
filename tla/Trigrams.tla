------------------------------ MODULE Trigrams ------------------------------
(***************************************************************************)
(* What the search index knows of a file (src/workspace/search/index.rs):  *)
(* the trigrams of its bytes, as they are and in lower case, and whether   *)
(* one of them is not ASCII.  A pattern is a sequence of bytes.            *)
(***************************************************************************)
EXTENDS Naturals, Sequences

CONSTANTS
    Bytes, Ascii,   \* the bytes files hold; those below 128
    Newline,        \* the byte that ends a line
    Lower           \* to_ascii_lowercase

ASSUME BytesAssumption ==
    /\ Ascii \subseteq Bytes
    /\ Lower \in [Bytes -> Bytes]

Take(bytes, n) == SubSeq(bytes, 1, IF Len(bytes) < n THEN Len(bytes) ELSE n)
Fold(bytes)    == [i \in DOMAIN bytes |-> Lower[bytes[i]]]

TrigramsOf(bytes) == {<<bytes[i], bytes[i + 1], bytes[i + 2]>> : i \in 1..(Len(bytes) - 2)}
HasNonAscii(bytes) == \E i \in DOMAIN bytes : bytes[i] \notin Ascii

\* FileRecord::read: one byte more than the limit is read, and dropped again.
FileRecord(bytes, limit) ==
    LET kept == Take(bytes, limit)
    IN  [original |-> TrigramsOf(kept), folded |-> TrigramsOf(Fold(kept)),
         nonAscii |-> HasNonAscii(kept)]

\* is_indexable: only such patterns are looked up in the index.
IsIndexable(pattern) ==
    /\ Len(pattern) >= 3 /\ ~HasNonAscii(pattern)
    /\ \A i \in DOMAIN pattern : pattern[i] # Newline

IsCandidateAscii(record, pattern, caseSensitive) ==
    IF caseSensitive THEN TrigramsOf(pattern) \subseteq record.original
    ELSE TrigramsOf(Fold(pattern)) \subseteq record.folded

\* candidates: whether a file with this record is picked for the pattern.
IsCandidate(record, pattern, caseSensitive) ==
    IF caseSensitive THEN TrigramsOf(pattern) \subseteq record.original
    ELSE record.nonAscii \/ TrigramsOf(Fold(pattern)) \subseteq record.folded

-----------------------------------------------------------------------------
\* The matcher: grep_regex finds the pattern, or one of its spellings in other cases.  A
\* spelling differs from the pattern in case, or has a byte that is not ASCII.

OccursAt(part, bytes, k) ==
    /\ k + Len(part) <= Len(bytes)
    /\ \A i \in 1..Len(part) : bytes[k + i] = part[i]
Occurs(part, bytes) == \E k \in 0..Len(bytes) : OccursAt(part, bytes, k)

Spells(part, pattern) == HasNonAscii(part) \/ Fold(part) = Fold(pattern)
=============================================================================
