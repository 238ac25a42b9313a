---------------------------- MODULE MCResultGrid ----------------------------
(* A small instance of ResultGrid: rows and values are interchangeable.     *)
EXTENDS ResultGrid

Interchangeable == Permutations(Rowid) \cup Permutations(Value)
=============================================================================
