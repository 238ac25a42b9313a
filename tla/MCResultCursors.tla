-------------------------- MODULE MCResultCursors --------------------------
(* A small instance of ResultCursors.  Tabs and results are interchangeable. *)
EXTENDS ResultCursors

Interchangeable == Permutations(Tab) \cup Permutations(Result)
=============================================================================
