------------------------------- MODULE MCTokens -------------------------------
(* Tokens on a small instance.                                             *)
EXTENDS Tokens, TLC

Symmetry == Permutations(Procs) \cup Permutations(Logins)

=============================================================================
