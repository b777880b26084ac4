--------------------------- MODULE MCSearchIndex ---------------------------
(***************************************************************************)
(* SearchIndex with interchangeable searches and files, for TLC.           *)
(***************************************************************************)
EXTENDS SearchIndex, TLC

Symmetric == Permutations(Searches) \cup Permutations(Files)
=============================================================================
