----------------------------- MODULE MCDeployment -----------------------------
(* Instances for TLC: the databases that a release may find.                *)
EXTENDS Deployment

\* The database after migrations 1 .. m; schools of an earlier release are
\* there from the first migration on.
RECURSIVE Chain(_, _, _)
Chain(dbs, m, to) ==
  IF m > to THEN dbs
  ELSE Chain(UNION {Up(m, IF m = 2 THEN [d EXCEPT !.schools = {"a school"}] ELSE d) : d \in dbs}, m + 1, to)

Released(m) == [db |-> CHOOSE d \in Chain({EmptyDatabase}, 1, m) : TRUE, recorded |-> 1..m]

\* Tables with a school_id of type text, which migrations 9, 10 and 13 repair.
WithText(d) ==
  [d EXCEPT !.tables = [t \in DOMAIN @ |->
     IF t \in Range(HealedTables) \cup {"school_memberships"} /\ "school_id" \in @[t].cols
     THEN [@[t] EXCEPT !.cols = (@ \ {"school_id"}) \cup {"school_id:text"}] ELSE @[t]]]

\* Tables of permissions linked by uuid, which migration 15 repairs.
WithUuid(d) ==
  [d EXCEPT !.tables["role_permissions"] =
       [cols |-> {"id", "role_id", "permission_id:uuid", "created_at"}, refs |-> {"roles", "permissions"}],
     !.tables["user_permissions"].cols = (@ \ {"permission_id"}) \cup {"permission_id:uuid"},
     !.tables["user_roles"].cols = @ \ RoleIdColumns,
     !.grants = {}]

AllBases ==
  { Released(0), [Released(4) EXCEPT !.db.schools = {"a school"}],
    [Released(8) EXCEPT !.db = WithText(@)], [Released(14) EXCEPT !.db = WithUuid(@)] }

ReleasedBase == { Released(22) }
=============================================================================
