--------------------------- MODULE MCEnrollmentApart ---------------------------
(* EnrollmentApart on small instances.                                      *)
EXTENDS EnrollmentApart, MCEnrollment

=============================================================================
