----------------------------- MODULE MCEnrollment -----------------------------
(* Enrollment on small instances.  Names are made of a stem and halves.     *)
EXTENDS Enrollment, TLC

Stem == {<<"SWE">>}
Symmetry ==
  Permutations(Classes) \cup Permutations(Students) \cup Permutations(Requests)
    \cup Permutations(Procs)

=============================================================================
