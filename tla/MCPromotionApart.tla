--------------------------- MODULE MCPromotionApart ---------------------------
(* PromotionApart on small instances: symmetric slots, requests and processes. *)
EXTENDS PromotionApart, TLC

Symmetry ==
  Permutations(Slots) \cup Permutations(Triggers) \cup Permutations(Calls) \cup
  Permutations(Servers)

=============================================================================
