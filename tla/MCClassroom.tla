------------------------------ MODULE MCClassroom ------------------------------
(* Classroom on a small instance: two blocks that overlap.                 *)
EXTENDS Classroom, TLC

TwoBlocks == {<<8, 10>>, <<9, 11>>}

Symmetry == Permutations(Procs) \cup Permutations(Years) \cup Permutations(Slots)
              \cup Permutations(Sessions) \cup Permutations(Marks)

=============================================================================
