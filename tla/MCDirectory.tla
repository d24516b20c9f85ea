----------------------------- MODULE MCDirectory -----------------------------
(* Small instances of Directory for TLC. *)
EXTENDS Directory, TLC

Symmetry == Permutations(Reader) \cup Permutations(Updater) \cup Permutations(Holder)
=============================================================================
