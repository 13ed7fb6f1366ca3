----------------------------- MODULE MCDefaults -----------------------------
(* Small instances of Defaults for TLC. *)
EXTENDS Defaults, TLC

Interchangeable == Permutations(Requests) \union Permutations(Rows)
=============================================================================
