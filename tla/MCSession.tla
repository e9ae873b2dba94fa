----------------------------- MODULE MCSession -----------------------------
(* Session with interchangeable handlers. *)
EXTENDS Session, TLC

Symmetry == Permutations(Audio) \cup Permutations(Socket)
=============================================================================
