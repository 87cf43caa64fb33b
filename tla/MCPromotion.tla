----------------------------- MODULE MCPromotion -----------------------------
(* Promotion on small instances: symmetric slots, requests and processes. *)
EXTENDS Promotion, TLC

Symmetry ==
  Permutations(Slots) \cup Permutations(Triggers) \cup Permutations(Calls) \cup
  Permutations(Servers)

=============================================================================
