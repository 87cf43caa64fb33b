------------------------------- MODULE MCAccess -------------------------------
(* Access on a small instance: one role has a code of its own.             *)
EXTENDS Access

TwoRoles == {"lecturer", "hod"}
OneCode == {"course:read"}
HodReads == [r \in TwoRoles |-> IF r = "hod" THEN OneCode ELSE {}]

=============================================================================
