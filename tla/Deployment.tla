------------------------------ MODULE Deployment ------------------------------
(***************************************************************************)
(* Starting the containers of a release: each waits for the database,      *)
(* runs the migrations that are missing and then serves requests.          *)
(*                                                                         *)
(* Two containers overlap in a rolling update and after restarts, and      *)
(* nothing keeps them from migrating together.  TypeORM's executor         *)
(* (external) reads the table of executed migrations once, then runs each  *)
(* missing one in a transaction of its own that also records it, in the    *)
(* order of the timestamps; revert undoes the one recorded last and        *)
(* removes it by name.                                                     *)
(***************************************************************************)
EXTENDS Migrations, Seeds, Capabilities, FiniteSets

CONSTANTS
  Replicas,    \* containers
  Bases,       \* databases a release may find: [db, recorded]
  NewSchools,  \* schools that requests create
  MaxRetries,  \* MAX_RETRIES of the entrypoint
  MaxFaults    \* crashes, outages and reverts by an operator

ASSUME BoundsAssumption == /\ MaxRetries \in Nat \ {0}
                           /\ MaxFaults \in Nat
\* An earlier release ran its migrations to the last.
ASSUME BasesAssumption == \A base \in Bases : \E n \in 0..Count : base.recorded = 1..n

VARIABLES
  db,         \* the database
  recorded,   \* typeorm_migrations: the migrations that have a row,
  recent,     \* and of the rows with the highest ids, as many as can be reverted
  replica,    \* [pc, attempt, plan] of each container
  reachable,  \* the database answers
  seeded,     \* the seed scripts that completed
  timetable,  \* the slots they created
  faults,
  outdated,   \* history: containers that a revert left behind
  owed        \* history: <<school, migration>>, the school was there when the
              \* seeds of permissions ran

vars == <<db, recorded, recent, replica, reachable, seeded, timetable, faults, outdated, owed>>

Pending == (1..Count) \ recorded

Latest(rows) == IF Len(rows) > MaxFaults THEN SubSeq(rows, Len(rows) - MaxFaults + 1, Len(rows)) ELSE rows

\* A migration can have two rows, of which the later counts; removing it by
\* name removes both.
Unlisted(m) ==
  IF \E i \in DOMAIN recent : recent[i] = m
  THEN RemoveAt(recent, CHOOSE i \in DOMAIN recent : recent[i] = m)
  ELSE recent

\* Mutant: the rows of all that remains to be done are written with the first.
RecordBatch(m) ==
  /\ recorded' = recorded \cup {n \in 1..Count : n >= m}
  /\ recent' = Latest(Append(Unlisted(m), m))

Record(m) ==
  /\ recorded' = recorded \cup {m}
  /\ recent' = Latest(Append(Unlisted(m), m))

Unrecord(m) ==
  /\ recorded' = recorded \ {m}
  /\ recent' = Unlisted(m)

Seeds == {12, 15, 17}

Stopped == [pc |-> "down", attempt |-> 0, plan |-> {}]

Init ==
  /\ \E base \in Bases : db = base.db /\ recorded = base.recorded
  /\ recent = Latest([i \in 1..Cardinality(recorded) |-> i])
  /\ replica = [r \in Replicas |-> Stopped]
  /\ reachable = TRUE
  /\ seeded = {} /\ timetable = {}
  /\ faults = 0
  /\ outdated = {}
  /\ owed = {}

At(r, pc) == replica[r].pc = pc
Become(r, state) == replica' = [replica EXCEPT ![r] = state]

-----------------------------------------------------------------------------
(* The entrypoint.                                                          *)

\* The restart policy starts a container that stopped.
Start(r) ==
  /\ At(r, "down")
  /\ Become(r, [pc |-> "waiting", attempt |-> 1, plan |-> {}])
  /\ outdated' = outdated \ {r}
  /\ UNCHANGED <<db, recorded, recent, reachable, seeded, timetable, faults, owed>>

\* Mutant: the bound on the retries is left out.
ProbeForever(r) ==
  /\ At(r, "waiting")
  /\ Become(r, IF reachable THEN [replica[r] EXCEPT !.pc = "ready"]
               ELSE [replica[r] EXCEPT !.attempt = @ + 1])
  /\ UNCHANGED <<db, recorded, recent, reachable, seeded, timetable, faults, outdated, owed>>

\* until node ...; do ... done
Probe(r) ==
  /\ At(r, "waiting")
  /\ Become(r, IF reachable THEN [replica[r] EXCEPT !.pc = "ready"]
               ELSE IF replica[r].attempt >= MaxRetries THEN Stopped
               ELSE [replica[r] EXCEPT !.attempt = @ + 1])
  /\ UNCHANGED <<db, recorded, recent, reachable, seeded, timetable, faults, outdated, owed>>

\* runMigrations: a connection of its own, and the list of what is missing.
Plan(r) ==
  /\ At(r, "ready")
  /\ Become(r, IF reachable THEN [replica[r] EXCEPT !.pc = "migrating", !.plan = Pending] ELSE Stopped)
  /\ UNCHANGED <<db, recorded, recent, reachable, seeded, timetable, faults, outdated, owed>>

Next1(plan) == CHOOSE m \in plan : \A n \in plan : m <= n

Owed(d, m) == IF m \in Seeds THEN d.schools \X {m} ELSE {}

\* Mutant: the rows that a migration grants are lost when it commits.
MigrateTables(r) ==
  LET m == Next1(replica[r].plan)
  IN  /\ At(r, "migrating") /\ replica[r].plan # {} /\ reachable
      /\ \E new \in Up(m, db) : db' = [new EXCEPT !.grants = db.grants]
      /\ Record(m)
      /\ owed' = owed \cup Owed(db, m)
      /\ Become(r, [replica[r] EXCEPT !.plan = @ \ {m}])
      /\ UNCHANGED <<reachable, seeded, timetable, faults, outdated>>

\* One migration with its record.
Migrate(r) ==
  LET m == Next1(replica[r].plan)
  IN  /\ At(r, "migrating") /\ replica[r].plan # {} /\ reachable
      /\ \E new \in Up(m, db) : db' = new
      /\ Record(m)
      /\ owed' = owed \cup Owed(db, m)
      /\ Become(r, [replica[r] EXCEPT !.plan = @ \ {m}])
      /\ UNCHANGED <<reachable, seeded, timetable, faults, outdated>>

\* Mutant: the entrypoint starts the application although a migration failed.
FailureIgnored(r) ==
  /\ At(r, "migrating") /\ replica[r].plan # {}
  /\ ~reachable \/ Up(Next1(replica[r].plan), db) = {}
  /\ Become(r, [replica[r] EXCEPT !.plan = {}])
  /\ UNCHANGED <<db, recorded, recent, reachable, seeded, timetable, faults, outdated, owed>>

\* A migration that fails is rolled back: process.exit(1).
MigrationFails(r) ==
  /\ At(r, "migrating") /\ replica[r].plan # {}
  /\ ~reachable \/ Up(Next1(replica[r].plan), db) = {}
  /\ Become(r, Stopped)
  /\ UNCHANGED <<db, recorded, recent, reachable, seeded, timetable, faults, outdated, owed>>

\* exec node dist/main.js, with migrationsRun: false.
Serve(r) ==
  /\ At(r, "migrating") /\ replica[r].plan = {}
  /\ Become(r, [replica[r] EXCEPT !.pc = "serving"])
  /\ UNCHANGED <<db, recorded, recent, reachable, seeded, timetable, faults, outdated, owed>>

-----------------------------------------------------------------------------
(* What goes wrong, and the operator.                                       *)

Crash(r) ==
  /\ faults < MaxFaults /\ ~At(r, "down")
  /\ Become(r, Stopped)
  /\ faults' = faults + 1
  /\ UNCHANGED <<db, recorded, recent, reachable, seeded, timetable, outdated, owed>>

LoseDatabase ==
  /\ faults < MaxFaults /\ reachable
  /\ reachable' = FALSE
  /\ faults' = faults + 1
  /\ UNCHANGED <<db, recorded, recent, replica, seeded, timetable, outdated, owed>>

RestoreDatabase ==
  /\ ~reachable
  /\ reachable' = TRUE
  /\ UNCHANGED <<db, recorded, recent, replica, seeded, timetable, faults, outdated, owed>>

\* pnpm migration:revert, of a release that was deployed.  What a container
\* that is up believes is then wrong.  The migration recorded last need not be
\* the latest: a container may repeat an early one after the others are done.
\* To undo it takes what the later ones built on it, and seeded, although they
\* stay recorded.
Revert ==
  LET m == recent[Len(recent)]
  IN  /\ faults < MaxFaults /\ reachable
      /\ Pending = {} /\ recent # <<>>
      /\ \E old \in Down(m, db) : db' = old
      /\ Unrecord(m)
      /\ faults' = faults + 1
      /\ outdated' = {r \in Replicas : replica[r].pc \in {"migrating", "serving"}}
      /\ owed' = {o \in owed : o[2] < m}
      /\ UNCHANGED <<replica, reachable, seeded, timetable>>

-----------------------------------------------------------------------------
(* Rows that are written once the release serves.                           *)

Takes(d, needs) == \A n \in needs : Fits(n, d)
Writable(needs) == Takes(db, needs)

\* SchoolsService.create: the school and the membership of its creator.
CreateSchool(r, s) ==
  /\ At(r, "serving") /\ reachable
  /\ s \notin db.schools
  /\ Writable({School, SchoolMembership})
  /\ db' = [db EXCEPT !.schools = @ \cup {s}]
  /\ UNCHANGED <<recorded, recent, replica, reachable, seeded, timetable, faults, outdated, owed>>

\* pnpm seed and pnpm seed:venues, "Run after migrations".
SeedDemo ==
  /\ reachable /\ Pending = {}
  /\ "demo" \notin seeded
  /\ Writable(SeedNeeds)
  /\ db' = [db EXCEPT !.schools = @ \cup {DemoSchool}]
  /\ seeded' = seeded \cup {"demo"}
  /\ UNCHANGED <<recorded, recent, replica, reachable, timetable, faults, outdated, owed>>

SeedVenues ==
  /\ reachable /\ Pending = {}
  /\ DemoSchool \in db.schools /\ "venues" \notin seeded
  /\ Writable(VenueSeedNeeds)
  /\ seeded' = seeded \cup {"venues"}
  /\ timetable' = SeededSlots
  /\ UNCHANGED <<db, recorded, recent, replica, reachable, faults, outdated, owed>>

-----------------------------------------------------------------------------
Boot(r) == Start(r) \/ Probe(r) \/ Plan(r) \/ Migrate(r) \/ MigrationFails(r) \/ Serve(r)

Work == \/ \E r \in Replicas, s \in NewSchools : CreateSchool(r, s)
        \/ SeedDemo \/ SeedVenues

Next == \/ \E r \in Replicas : Boot(r) \/ Crash(r)
        \/ LoseDatabase \/ RestoreDatabase \/ Revert
        \/ Work

Spec == Init /\ [][Next]_vars

\* Containers run by themselves, and outages end.
Fairness == /\ \A r \in Replicas : WF_vars(Boot(r))
            /\ WF_vars(RestoreDatabase)

FairSpec == Spec /\ Fairness

-----------------------------------------------------------------------------
(* Properties.                                                              *)

\* Shape of the state.
TypeOK ==
  /\ recorded \subseteq 1..Count
  /\ recent \in Seq(recorded) /\ Len(recent) <= MaxFaults
  /\ replica \in [Replicas -> [pc : {"down", "waiting", "ready", "migrating", "serving"},
                              attempt : 0..MaxRetries, plan : SUBSET (1..Count)]]
  /\ reachable \in BOOLEAN
  /\ seeded \subseteq {"demo", "venues"}
  /\ faults \in 0..MaxFaults
  /\ outdated \subseteq Replicas

\* A container that serves has every migration of its release in the
\* database, however many of them migrated at once or died on the way,
\* unless an operator reverted one behind its back.
ServingMigrated == \A r \in Replicas \ outdated : At(r, "serving") => Pending = {}

\* Then every entity and every statement that the requests of the release and
\* create-super-admin.ts rely on finds its tables, columns and values, whatever database the
\* release was started on.
ReleaseNeeds == EntityNeeds \cup QueryNeeds \cup SuperAdminNeeds
ServingFits == \A r \in Replicas \ outdated : At(r, "serving") => Writable(ReleaseNeeds)

SeedMapping(m) == CASE m = 12 -> BackendDefaults [] m = 15 -> FrontendDefaults [] m = 17 -> ClassDefaults

\* A school that was there when the permissions of roles were seeded keeps
\* them all: no later change of the tables, no repetition of a migration and
\* no revert of a later one takes them away.
OwedGranted(d, due) ==
  \A o \in due : LET mapping == SeedMapping(o[2]) IN
    \A role \in DOMAIN mapping : \A code \in mapping[role] : <<o[1], role, code>> \in d.grants

\* The two seeds give a school what the application would give a new one:
\* the list in PermissionsService and the lists of the migrations agree.
SeededLikeNew(d, due) ==
  \A o \in due : o[2] = 12 /\ <<o[1], 15>> \in due =>
    {g \in d.grants : g[1] = o[1] /\ g[3] \notin ClassCodes} = InitialGrants(o[1])

\* A role may do the same by the code, which the guards ask first, and by the
\* rows that the migrations give it, which clients are shown.
RolesAgree(d, due) ==
  \A o \in due : o[2] = 15 /\ <<o[1], 17>> \in due =>
    \A role \in DOMAIN ROLE_CAPABILITIES :
      {g[3] : g \in {h \in d.grants : h[1] = o[1] /\ h[2] = role}} \cap (FrontendCodes \cup ClassCodes)
        = ROLE_CAPABILITIES[role] \cap (FrontendCodes \cup ClassCodes)

GrantsConsistent(d, due) == OwedGranted(d, due) /\ SeededLikeNew(d, due) /\ RolesAgree(d, due)

\* The week that seed-venues.ts describes is created in full, in its venues,
\* and gives no venue and no class two slots at a time.
SeededWeek ==
  "venues" \in seeded =>
    /\ timetable = SlotDefs
    /\ \A s \in timetable : s[6] \in Venues /\ s[5] > s[4]
    /\ \A s, t \in timetable :
         s # t /\ s[3] = t[3] /\ s[4] < t[5] /\ t[4] < s[5] => s[6] # t[6] /\ s[2] # t[2]

\* What the migrations and scripts seed is whole and says the same as the code:
\* nothing is granted and taken away again by a later migration, its repetition
\* or its revert; the four lists of who may do what agree; the week fits.
SeedsConsistent == GrantsConsistent(db, owed) /\ SeededWeek

\* Every container serves in the end, also when they race, crash, wait for the
\* database or follow a revert.
EventuallyServing == <>[](\A r \in Replicas : At(r, "serving"))

\* The documented endpoints that the statements in BrokenNeeds serve answer.
BrokenFit == \A r \in Replicas \ outdated : At(r, "serving") => Writable(BrokenNeeds)

=============================================================================
