------------------------------- MODULE Upgrades -------------------------------
(***************************************************************************)
(* What deployments make of a database, without the containers: migrations *)
(* that run one after the other, are repeated and are undone, and schools  *)
(* that come while a release serves.                                       *)
(*                                                                         *)
(* A stage of an upgrade is the database, the migrations that are          *)
(* recorded, those that some container may still run (they were missing    *)
(* once), how many were undone, and the permissions that are due.  There   *)
(* are only some thousand stages, which TLC computes and examines; that    *)
(* containers, however many and however they interleave, bring a database  *)
(* to no other stage is proved.                                            *)
(***************************************************************************)
EXTENDS Deployment

CONSTANT Stages(_)  \* all that upgrades of a set of databases reach

Stage(d, done, missed, undone, due) ==
  [db |-> d, recorded |-> done, missed |-> missed, undone |-> undone, owed |-> due]

FirstStage(base) == Stage(base.db, base.recorded, (1..Count) \ base.recorded, 0, {})

Missing(e) == (1..Count) \ e.recorded

\* Of the missing migrations the first; any other only as a repetition.
Runnable(e) == {m \in e.missed : m \in e.recorded \/ \A n \in Missing(e) : m <= n}

Run(e) ==
  UNION { {Stage(new, e.recorded \cup {m}, e.missed, e.undone, e.owed \cup Owed(e.db, m)) : new \in Up(m, e.db)} :
          m \in Runnable(e) }

\* Whichever migration was recorded last.
Undo(e) ==
  IF Missing(e) = {} /\ e.undone < MaxFaults
  THEN UNION { {Stage(old, e.recorded \ {m}, e.missed \cup {m}, e.undone + 1, {o \in e.owed : o[2] < m}) :
                old \in Down(m, e.db)} : m \in e.recorded }
  ELSE {}

\* A container serves when all migrations are there or one was undone since.
Enter(e) ==
  LET requests == (Missing(e) = {} \/ e.undone > 0) /\ Takes(e.db, {School, SchoolMembership})
      script == Missing(e) = {} /\ Takes(e.db, SeedNeeds)
      entering == (IF requests THEN NewSchools \ e.db.schools ELSE {}) \cup (IF script THEN {DemoSchool} ELSE {})
  IN  {Stage([e.db EXCEPT !.schools = @ \cup {s}], e.recorded, e.missed, e.undone, e.owed) : s \in entering}

Following(e) == Run(e) \cup Undo(e) \cup Enter(e)

\* Upgrades of the databases that the release may find stay among their stages;
\* an upgraded database fits the release, and in all of them the permissions
\* that are due are granted and the lists of who may do what agree.
ASSUME StagesAssumption ==
  LET reached == Stages(Bases) IN
    /\ \A base \in Bases : FirstStage(base) \in reached
    /\ \A e \in reached : Following(e) \subseteq reached
    /\ \A e \in reached : Missing(e) = {} => Takes(e.db, ReleaseNeeds)
    /\ \A e \in reached : GrantsConsistent(e.db, e.owed)
=============================================================================
