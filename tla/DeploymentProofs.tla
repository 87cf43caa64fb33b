--------------------------- MODULE DeploymentProofs ---------------------------
(***************************************************************************)
(* A container serves only a database that has every migration, for any    *)
(* number of containers, faults and kinds of databases.                    *)
(*                                                                         *)
(* The invariant is about the plan that a container took when it started:  *)
(* whatever is missing from the database is in the plan of every container *)
(* that migrates, since nothing but a revert takes a migration away, and a *)
(* revert marks the containers that are up as outdated until they start    *)
(* again.                                                                  *)
(*                                                                         *)
(* From this follows that the containers take the database through the     *)
(* stages of Upgrades and no others, and from what TLC finds about those   *)
(* stages, that a container serves a database which fits its statements.   *)
(***************************************************************************)
EXTENDS Upgrades, FiniteSetTheorems, SequenceTheorems, WellFoundedInduction, TLAPS

Phases == {"down", "waiting", "ready", "migrating", "serving"}

States == [pc : Phases, attempt : 0..MaxRetries, plan : SUBSET (1..Count)]

Containers == [Replicas -> States]

\* What a container that migrates or serves knows of the database.
Informed(r) ==
  /\ At(r, "migrating") => Pending \subseteq replica[r].plan
  /\ At(r, "serving") => Pending = {}

Inv == /\ replica \in Containers
       /\ \A r \in Replicas \ outdated : Informed(r)

\* At first nothing is up.
LEMMA InitInv == Init => Inv
<1> SUFFICES ASSUME Init PROVE Inv
  OBVIOUS
<1>1. replica \in Containers
  BY BoundsAssumption DEF Init, Containers, States, Phases, Stopped
<1>2. \A r \in Replicas : replica[r].pc = "down"
  BY DEF Init, Stopped
<1> QED
  BY <1>1, <1>2 DEF Inv, Informed, At

\* A container that moves on keeps its type and is informed, and the others
\* keep what they know, if the log is as it was.
LEMMA Moves ==
  ASSUME Inv, NEW r \in Replicas,
         replica'[r] \in States, replica' = [replica EXCEPT ![r] = replica'[r]],
         recorded' = recorded,
         outdated' = outdated \/ (outdated' = outdated \ {r} /\ replica'[r].pc = "waiting"),
         replica'[r].pc = "migrating" => (Pending \subseteq replica'[r].plan \/ r \in outdated),
         replica'[r].pc = "serving" => (Pending = {} \/ r \in outdated)
  PROVE  Inv'
<1>1. replica' \in Containers
  BY DEF Inv, Containers
<1>2. Pending' = Pending
  BY DEF Pending
<1>3. \A q \in Replicas \ {r} : replica'[q] = replica[q]
  BY DEF Inv, Containers
<1>4. ASSUME NEW q \in Replicas \ outdated' PROVE Informed(q)'
  <2>1. CASE q = r
    BY <1>2, <2>1, <1>4 DEF Informed, At
  <2>2. CASE q # r
    BY <1>2, <1>3, <2>2, <1>4 DEF Informed, At, Inv
  <2> QED
    BY <2>1, <2>2
<1> QED
  BY <1>1, <1>4 DEF Inv

\* Actions of others that take no migration from the log.
LEMMA Keeps ==
  ASSUME Inv, UNCHANGED <<replica, recorded, outdated>>
  PROVE  Inv'
BY DEF Inv, Informed, At, Pending

\* A container records one migration: less is missing for all of them.
LEMMA MigrateKeeps ==
  ASSUME Inv, NEW r \in Replicas, Migrate(r)
  PROVE  Inv'
<1> DEFINE m == Next1(replica[r].plan)
           s == [replica[r] EXCEPT !.plan = @ \ {m}]
<1>1. /\ At(r, "migrating")
      /\ recorded' = recorded \cup {m}
      /\ replica' = [replica EXCEPT ![r] = s]
      /\ outdated' = outdated
  BY DEF Migrate, Record, Become
<1> HIDE DEF m
<1>2. s \in States
  BY DEF Inv, Containers, States
<1>3. s.pc = "migrating" /\ s.plan = replica[r].plan \ {m}
  BY <1>1 DEF Inv, Containers, States, At
<1> HIDE DEF s
<1>4. replica' \in Containers
  BY <1>1, <1>2 DEF Inv, Containers
<1>5. Pending' = Pending \ {m}
  BY <1>1 DEF Pending
<1>6. \A q \in Replicas : replica'[q] = IF q = r THEN s ELSE replica[q]
  BY <1>1 DEF Inv, Containers
<1>7. ASSUME NEW q \in Replicas \ outdated' PROVE Informed(q)'
  <2>1. Informed(q)
    BY <1>1, <1>7 DEF Inv
  <2>2. CASE q = r
    BY <1>1, <1>3, <1>5, <1>6, <2>1, <2>2 DEF Informed, At
  <2>3. CASE q # r
    BY <1>5, <1>6, <2>1, <2>3 DEF Informed, At
  <2> QED
    BY <2>2, <2>3
<1> QED
  BY <1>4, <1>7 DEF Inv

\* A revert puts whoever is up among the outdated.
LEMMA RevertKeeps ==
  ASSUME Inv, Revert
  PROVE  Inv'
<1>1. replica' = replica
  BY DEF Revert
<1>2. outdated' = {r \in Replicas : replica[r].pc \in {"migrating", "serving"}}
  BY DEF Revert
<1>3. \A r \in Replicas \ outdated' : Informed(r)'
  BY <1>1, <1>2 DEF Informed, At
<1> QED
  BY <1>1, <1>3 DEF Inv

\* The other steps of the entrypoint.
LEMMA BootKeeps ==
  ASSUME Inv, NEW r \in Replicas, Boot(r)
  PROVE  Inv'
<1>1. replica[r] \in States
  BY DEF Inv, Containers
<1>2. \A s \in States : replica' = [replica EXCEPT ![r] = s] =>
        replica'[r] = s /\ replica' = [replica EXCEPT ![r] = replica'[r]]
  BY DEF Inv, Containers
<1>0. Stopped \in States /\ Stopped.pc = "down"
  BY BoundsAssumption DEF Stopped, Phases, States
<1>3. CASE Start(r)
  <2> DEFINE s == [pc |-> "waiting", attempt |-> 1, plan |-> {}]
  <2>0. 1 \in 0..MaxRetries
    BY BoundsAssumption
  <2>1. s \in States /\ s.pc = "waiting"
    BY <2>0 DEF Phases, States
  <2>2. /\ replica' = [replica EXCEPT ![r] = s] /\ recorded' = recorded
        /\ outdated' = outdated \ {r}
    BY <1>3 DEF Start, Become
  <2> HIDE DEF s
  <2> QED
    BY <1>2, <2>1, <2>2, Moves
<1>4. CASE Probe(r)
  <2> DEFINE s == IF reachable THEN [replica[r] EXCEPT !.pc = "ready"]
                  ELSE IF replica[r].attempt >= MaxRetries THEN Stopped
                  ELSE [replica[r] EXCEPT !.attempt = @ + 1]
  <2>1. /\ At(r, "waiting") /\ replica' = [replica EXCEPT ![r] = s] /\ recorded' = recorded
        /\ outdated' = outdated
    BY <1>4 DEF Probe, Become
  <2>2. replica[r].attempt < MaxRetries => replica[r].attempt + 1 \in 0..MaxRetries
    BY <1>1, BoundsAssumption DEF States
  <2>3. s \in States /\ s.pc \in {"ready", "down", "waiting"}
    BY <1>0, <1>1, <2>1, <2>2, BoundsAssumption DEF Phases, States, At
  <2> HIDE DEF s
  <2> QED
    BY <1>2, <2>1, <2>3, Moves
<1>5. CASE Plan(r)
  <2> DEFINE s == IF reachable THEN [replica[r] EXCEPT !.pc = "migrating", !.plan = Pending] ELSE Stopped
  <2>1. /\ replica' = [replica EXCEPT ![r] = s] /\ recorded' = recorded
        /\ outdated' = outdated
    BY <1>5 DEF Plan, Become
  <2>2. s \in States /\ (s.pc = "down" \/ (s.pc = "migrating" /\ s.plan = Pending))
    BY <1>0, <1>1 DEF Phases, States, Pending
  <2> HIDE DEF s
  <2> QED
    BY <1>2, <2>1, <2>2, Moves
<1>6. CASE Migrate(r)
  BY <1>6, MigrateKeeps
<1>7. CASE MigrationFails(r)
  BY <1>0, <1>2, <1>7, Moves DEF MigrationFails, Become
<1>8. CASE Serve(r)
  <2> DEFINE s == [replica[r] EXCEPT !.pc = "serving"]
  <2>1. /\ At(r, "migrating") /\ replica[r].plan = {}
        /\ replica' = [replica EXCEPT ![r] = s] /\ recorded' = recorded
        /\ outdated' = outdated
    BY <1>8 DEF Serve, Become
  <2>2. s \in States /\ s.pc = "serving"
    BY <1>1 DEF Phases, States
  <2>3. Pending = {} \/ r \in outdated
    BY <2>1 DEF Inv, Informed
  <2> HIDE DEF s
  <2> QED
    BY <1>2, <2>1, <2>2, <2>3, Moves
<1> QED
  BY <1>3, <1>4, <1>5, <1>6, <1>7, <1>8 DEF Boot

LEMMA StepInv == Inv /\ [Next]_vars => Inv'
<1> SUFFICES ASSUME Inv, [Next]_vars PROVE Inv'
  OBVIOUS
<1>1. ASSUME NEW r \in Replicas, Crash(r) PROVE Inv'
  <2>1. Stopped \in States /\ Stopped.pc = "down"
    BY BoundsAssumption DEF Stopped, Phases, States
  <2>2. replica' = [replica EXCEPT ![r] = Stopped] /\ recorded' = recorded /\ outdated' = outdated
    BY <1>1 DEF Crash, Become
  <2>3. replica'[r] = Stopped
    BY <2>2 DEF Inv, Containers
  <2> QED
    BY <2>1, <2>2, <2>3, Moves
<1>2. CASE LoseDatabase \/ RestoreDatabase
  BY <1>2, Keeps DEF LoseDatabase, RestoreDatabase
<1>3. CASE Work
  BY <1>3, Keeps DEF Work, CreateSchool, SeedDemo, SeedVenues
<1>4. CASE UNCHANGED vars
  BY <1>4, Keeps DEF vars
<1> QED
  BY <1>1, <1>2, <1>3, <1>4, BootKeeps, RevertKeeps DEF Next

\* What the containers know stays true in every reachable state.
THEOREM InvariantHolds == Spec => []Inv
<1> QED
  BY InitInv, StepInv, PTL DEF Spec

\* A container that serves has every migration of its release in the database,
\* however many of them migrated at once, unless one was reverted behind its back.
THEOREM MigratedBeforeServing == Spec => []ServingMigrated
<1>1. Inv => ServingMigrated
  BY DEF Inv, Informed, ServingMigrated
<1> QED
  BY <1>1, InvariantHolds, PTL

-----------------------------------------------------------------------------
(* The shape of the state, and of the log that a revert follows.            *)

\* The log lists no migration twice.
Once(rows) == \A i, j \in DOMAIN rows : rows[i] = rows[j] => i = j

Log(rows, ms) == rows \in Seq(ms) /\ Len(rows) <= MaxFaults /\ Once(rows)

TypeInv ==
  /\ Inv
  /\ recorded \subseteq 1..Count
  /\ Log(recent, recorded)
  /\ reachable \in BOOLEAN
  /\ seeded \subseteq {"demo", "venues"}
  /\ faults \in 0..MaxFaults
  /\ outdated \subseteq Replicas

LEMMA LatestIsLog ==
  ASSUME NEW ms, NEW rows \in Seq(ms), Once(rows)
  PROVE  Log(Latest(rows), ms)
<1>0. MaxFaults \in Nat /\ Len(rows) \in Nat
  BY BoundsAssumption
<1>1. CASE Len(rows) <= MaxFaults
  BY <1>0, <1>1 DEF Latest, Log
<1>2. CASE Len(rows) > MaxFaults
  <2> DEFINE k == Len(rows) - MaxFaults
             last == SubSeq(rows, k + 1, Len(rows))
  <2>1. /\ last \in Seq(ms) /\ Len(last) = MaxFaults
        /\ \A i \in 1..MaxFaults : last[i] = rows[k + i]
    BY <1>0, <1>2
  <2>2. Once(last)
    BY <1>0, <1>2, <2>1 DEF Once
  <2>3. QED
    BY <1>0, <1>2, <2>1, <2>2 DEF Latest, Log
<1>3. QED
  BY <1>0, <1>1, <1>2

\* Without the row of m the log lists what is left of the table.
LEMMA UnlistedIsLog ==
  ASSUME Log(recent, recorded), NEW m
  PROVE  Log(Unlisted(m), recorded \ {m})
<1>0. recent \in Seq(recorded) /\ Once(recent) /\ Len(recent) <= MaxFaults /\ MaxFaults \in Nat
  BY BoundsAssumption DEF Log
<1>1. CASE \E i \in DOMAIN recent : recent[i] = m
  <2>1. PICK i \in DOMAIN recent : recent[i] = m /\ Unlisted(m) = RemoveAt(recent, i)
    BY <1>1 DEF Unlisted
  <2>2. i \in 1..Len(recent) /\ Len(recent) \in Nat
    BY <1>0, <2>1
  <2> DEFINE front == SubSeq(recent, 1, i - 1)
             back == SubSeq(recent, i + 1, Len(recent))
             rest == front \o back
  <2>3. /\ front \in Seq(recorded) /\ Len(front) = i - 1
        /\ \A j \in 1..(i - 1) : front[j] = recent[j]
    BY <1>0, <2>2
  <2>4. /\ back \in Seq(recorded) /\ Len(back) = Len(recent) - i
        /\ \A j \in 1..(Len(recent) - i) : back[j] = recent[i + j]
    BY <1>0, <2>2
  <2>r. Unlisted(m) = rest
    BY <2>1 DEF RemoveAt
  <2> HIDE DEF front, back
  <2>c. /\ rest \in Seq(recorded) /\ Len(rest) = Len(front) + Len(back)
        /\ \A j \in 1..(Len(front) + Len(back)) :
             rest[j] = IF j <= Len(front) THEN front[j] ELSE back[j - Len(front)]
    BY <2>3, <2>4, ConcatProperties
  <2> HIDE DEF rest
  <2>5. /\ rest \in Seq(recorded) /\ Len(rest) = Len(recent) - 1
        /\ \A j \in 1..(Len(recent) - 1) :
             rest[j] = recent[IF j < i THEN j ELSE j + 1]
    <3>1. rest \in Seq(recorded) /\ Len(rest) = Len(recent) - 1
      BY <2>2, <2>3, <2>4, <2>c
    <3>2. ASSUME NEW j \in 1..(Len(recent) - 1), j < i PROVE rest[j] = recent[j]
      BY <2>2, <2>3, <2>4, <2>c, <3>2
    <3>3. ASSUME NEW j \in 1..(Len(recent) - 1), ~(j < i) PROVE rest[j] = recent[j + 1]
      <4>0. /\ j \in 1..(Len(front) + Len(back)) /\ ~(j <= Len(front))
            /\ j - (i - 1) \in 1..(Len(recent) - i)
        BY <2>2, <2>3, <2>4, <3>3
      <4>1. rest[j] = back[j - (i - 1)]
        BY <2>3, <2>c, <4>0
      <4>2. i + (j - (i - 1)) = j + 1
        BY <2>2
      <4>3. QED
        BY <2>4, <4>0, <4>1, <4>2
    <3>4. QED
      BY <3>1, <3>2, <3>3
  <2>k. \A j \in 1..(Len(recent) - 1) : /\ (IF j < i THEN j ELSE j + 1) \in DOMAIN recent
                                        /\ (IF j < i THEN j ELSE j + 1) # i
    BY <1>0, <2>2
  <2>6. \A j \in 1..Len(rest) : rest[j] \in recorded /\ rest[j] # m
    BY <1>0, <2>1, <2>5, <2>k DEF Once
  <2>7. rest \in Seq(recorded \ {m})
    BY <2>2, <2>5, <2>6
  <2>8. Once(rest)
    <3>1. ASSUME NEW j \in 1..Len(rest), NEW k \in 1..Len(rest), rest[j] = rest[k]
          PROVE  (IF j < i THEN j ELSE j + 1) = (IF k < i THEN k ELSE k + 1)
      BY <1>0, <2>5, <2>k, <3>1 DEF Once
    <3>2. ASSUME NEW j \in 1..Len(rest), NEW k \in 1..Len(rest), rest[j] = rest[k]
          PROVE  j = k
      BY <2>2, <3>1, <3>2
    <3>3. DOMAIN rest = 1..Len(rest)
      BY <2>5
    <3>4. QED
      BY <3>2, <3>3 DEF Once
  <2>9. QED
    BY <1>0, <2>2, <2>5, <2>7, <2>8, <2>r DEF Log
<1>2. CASE ~\E i \in DOMAIN recent : recent[i] = m
  <2>1. Unlisted(m) = recent
    BY <1>2 DEF Unlisted
  <2>2. recent \in Seq(recorded \ {m})
    BY <1>0, <1>2
  <2>3. QED
    BY <1>0, <2>1, <2>2 DEF Log
<1>3. QED
  BY <1>1, <1>2

LEMMA RecordLogs ==
  ASSUME Log(recent, recorded), NEW m, Record(m)
  PROVE  Log(recent, recorded)'
<1> DEFINE rows == Append(Unlisted(m), m)
<1>1. /\ Unlisted(m) \in Seq(recorded \ {m}) /\ Once(Unlisted(m))
  BY UnlistedIsLog DEF Log
<1>2. rows \in Seq(recorded \cup {m})
  BY <1>1
<1>3. Once(rows)
  BY <1>1 DEF Once
<1>4. Log(Latest(rows), recorded \cup {m})
  BY <1>2, <1>3, LatestIsLog
<1>5. recent' = Latest(rows) /\ recorded' = recorded \cup {m}
  BY DEF Record
<1>6. QED
  BY <1>4, <1>5 DEF Log, Once

\* The migration that comes next is the first of the plan.
LEMMA NextIsFirst ==
  ASSUME NEW plan \in SUBSET (1..Count), plan # {}
  PROVE  Next1(plan) \in plan /\ \A n \in plan : Next1(plan) <= n
<1>1. plan \subseteq Nat
  BY DEF Count
<1> DEFINE Less == {nn \in Nat \X Nat : nn[1] < nn[2]}
<1>w. IsWellFoundedOn(Less, Nat)
  BY NatLessThanWellFounded DEF OpToRel
<1> HIDE DEF Less
<1>2. PICK m \in plan : \A n \in plan : <<n, m>> \notin Less
  BY <1>1, <1>w, WFMin
<1>3. ASSUME NEW n \in plan PROVE m <= n
  <2>1. m \in Nat /\ n \in Nat /\ <<n, m>> \notin Less
    BY <1>1, <1>2
  <2>2. <<n, m>> \in Nat \X Nat /\ <<n, m>>[1] = n /\ <<n, m>>[2] = m
    BY <2>1
  <2>3. ~(n < m)
    BY <2>1, <2>2, Zenon DEF Less
  <2>4. QED
    BY <2>1, <2>3
<1>4. QED
  BY <1>3 DEF Next1

LEMMA InitTypes == Init => TypeInv
<1> SUFFICES ASSUME Init PROVE TypeInv
  OBVIOUS
<1>1. PICK n \in 0..Count : recorded = 1..n
  BY BasesAssumption DEF Init
<1>2. n \in Nat /\ Cardinality(recorded) = n
  <2>1. n \in Nat /\ n \in Int /\ 1 \in Int
    BY <1>1 DEF Count
  <2>2. Cardinality(1..n) = IF 1 > n THEN 0 ELSE n - 1 + 1
    BY <2>1, FS_Interval
  <2>3. QED
    BY <1>1, <2>1, <2>2
<1> DEFINE rows == [i \in 1..n |-> i]
<1>3. rows \in Seq(1..n) /\ Once(rows)
  BY <1>2 DEF Once
<1>4. recent = Latest(rows)
  BY <1>2 DEF Init
<1>5. Log(recent, recorded)
  BY <1>1, <1>3, <1>4, LatestIsLog
<1>6. recorded \subseteq 1..Count
  BY <1>1 DEF Count
<1>7. reachable \in BOOLEAN /\ seeded = {} /\ faults \in 0..MaxFaults /\ outdated = {}
  BY BoundsAssumption DEF Init
<1>8. QED
  BY <1>5, <1>6, <1>7, InitInv DEF TypeInv

LEMMA StepTypes == TypeInv /\ [Next]_vars => TypeInv'
<1> SUFFICES ASSUME TypeInv, [Next]_vars PROVE TypeInv'
  OBVIOUS
<1>0. /\ recorded \subseteq 1..Count /\ Log(recent, recorded) /\ reachable \in BOOLEAN
      /\ seeded \subseteq {"demo", "venues"} /\ faults \in 0..MaxFaults /\ outdated \subseteq Replicas
      /\ replica \in Containers
  BY DEF TypeInv, Inv
<1>1. Inv'
  BY StepInv DEF TypeInv
<1>a. ASSUME UNCHANGED <<recorded, recent>> PROVE recorded' \subseteq 1..Count /\ Log(recent, recorded)'
  BY <1>0, <1>a DEF Log, Once
<1>b. faults < MaxFaults => faults + 1 \in 0..MaxFaults
  BY <1>0, BoundsAssumption
<1>2. ASSUME NEW r \in Replicas, Migrate(r) PROVE TypeInv'
  <2> DEFINE m == Next1(replica[r].plan)
  <2>1. replica[r].plan \in SUBSET (1..Count) /\ replica[r].plan # {}
    BY <1>0, <1>2 DEF Migrate, Containers, States
  <2>2. m \in 1..Count
    BY <2>1, NextIsFirst
  <2>3. Record(m) /\ UNCHANGED <<reachable, seeded, faults, outdated>>
    BY <1>2 DEF Migrate
  <2> HIDE DEF m
  <2>4. recorded' \subseteq 1..Count
    BY <1>0, <2>2, <2>3 DEF Record
  <2>5. QED
    BY <1>0, <1>1, <2>3, <2>4, RecordLogs DEF TypeInv
<1>3. ASSUME Revert PROVE TypeInv'
  <2> DEFINE m == recent[Len(recent)]
  <2>1. /\ Unrecord(m) /\ UNCHANGED <<reachable, seeded>>
        /\ faults < MaxFaults /\ faults' = faults + 1 /\ outdated' \subseteq Replicas
    BY <1>3 DEF Revert
  <2> HIDE DEF m
  <2>2. recorded' = recorded \ {m} /\ recent' = Unlisted(m)
    BY <2>1 DEF Unrecord
  <2>3. Log(Unlisted(m), recorded \ {m})
    BY <1>0, UnlistedIsLog
  <2>4. Log(recent, recorded)'
    BY <2>2, <2>3 DEF Log, Once
  <2>5. QED
    BY <1>0, <1>1, <1>b, <2>1, <2>2, <2>4 DEF TypeInv
<1>4. ASSUME NEW r \in Replicas,
             Start(r) \/ Probe(r) \/ Plan(r) \/ MigrationFails(r) \/ Serve(r) \/ Crash(r)
      PROVE TypeInv'
  <2>1. /\ UNCHANGED <<recorded, recent, reachable, seeded>>
        /\ outdated' \subseteq outdated
        /\ faults' = faults \/ (faults < MaxFaults /\ faults' = faults + 1)
    BY <1>4 DEF Start, Probe, Plan, MigrationFails, Serve, Crash
  <2>2. QED
    BY <1>0, <1>1, <1>a, <1>b, <2>1 DEF TypeInv
<1>5. CASE LoseDatabase \/ RestoreDatabase \/ Work
  <2>1. /\ UNCHANGED <<recorded, recent, outdated>>
        /\ reachable' \in BOOLEAN
        /\ seeded' = seeded \/ seeded' = seeded \cup {"demo"} \/ seeded' = seeded \cup {"venues"}
        /\ faults' = faults \/ (faults < MaxFaults /\ faults' = faults + 1)
    BY <1>0, <1>5 DEF LoseDatabase, RestoreDatabase, Work, CreateSchool, SeedDemo, SeedVenues
  <2>2. seeded' \subseteq {"demo", "venues"}
    BY <1>0, <2>1
  <2>3. QED
    BY <1>0, <1>1, <1>a, <1>b, <2>1, <2>2 DEF TypeInv
<1>6. CASE UNCHANGED vars
  BY <1>0, <1>1, <1>6, <1>a DEF TypeInv, vars
<1>7. QED
  BY <1>2, <1>3, <1>4, <1>5, <1>6 DEF Next, Boot

\* The state keeps its shape; above all, the log that a revert follows lists
\* only migrations that are recorded, whoever recorded them and how often.
THEOREM TypeCorrect == Spec => []TypeOK
<1>1. TypeInv => TypeOK
  BY DEF TypeInv, TypeOK, Inv, Containers, States, Phases, Log
<1>2. QED
  BY <1>1, InitTypes, StepTypes, PTL DEF Spec

-----------------------------------------------------------------------------
(* The order of the migrations.                                             *)

\* A container that is not outdated runs a migration when all earlier ones are
\* in the database, whoever ran them; so the statements of migration m find
\* what 1 .. m - 1 have built.
InOrder ==
  \A r \in Replicas \ outdated :
    Migrate(r) => 1..(Next1(replica[r].plan) - 1) \subseteq recorded

MigratesInOrder == [][InOrder]_vars

\* Migrations are applied in the order of their timestamps, however many
\* containers race, die and start again: nothing that is missing is earlier than
\* what a container runs next, since all that is missing is in its plan.
THEOREM MigrationsInOrder == Spec => MigratesInOrder
<1>1. TypeInv => InOrder
  <2> SUFFICES ASSUME TypeInv, NEW r \in Replicas \ outdated, Migrate(r),
                      NEW n \in 1..(Next1(replica[r].plan) - 1), n \notin recorded
               PROVE  FALSE
    BY DEF InOrder
  <2> DEFINE plan == replica[r].plan
  <2>1. plan \in SUBSET (1..Count) /\ plan # {}
    BY DEF TypeInv, Inv, Containers, States, Migrate
  <2>2. Next1(plan) \in 1..Count /\ \A m \in plan : Next1(plan) <= m
    BY <2>1, NextIsFirst
  <2>3. n \in Pending /\ n < Next1(plan)
    BY <2>2 DEF Pending, Count
  <2>4. Pending \subseteq plan
    BY DEF TypeInv, Inv, Informed, Migrate
  <2>5. QED
    BY <2>2, <2>3, <2>4 DEF Count
<1>2. QED
  BY <1>1, InitTypes, StepTypes, PTL DEF Spec, MigratesInOrder

-----------------------------------------------------------------------------
(* What the containers make of the database.                                *)

\* The database is at stage e of an upgrade, and no container has a migration
\* in its plan that was not missing once.
AtStage(e) ==
  /\ e.db = db /\ e.recorded = recorded /\ e.owed = owed
  /\ e.undone \in 0..faults
  /\ outdated # {} => e.undone > 0
  /\ Pending \subseteq e.missed
  /\ \A r \in Replicas : replica[r].plan \subseteq e.missed

\* A container that a revert left behind runs what is missing or repeats what
\* is there, since only what was reverted is missing.
UpgradeInv ==
  /\ TypeInv
  /\ \E e \in Stages(Bases) : AtStage(e)
  /\ outdated # {} => \A m, n \in Pending : m = n

LEMMA StagesFollow ==
  ASSUME NEW e \in Stages(Bases), NEW x \in Following(e)
  PROVE  x \in Stages(Bases)
BY StagesAssumption

LEMMA InitUpgrade == Init => UpgradeInv
<1> SUFFICES ASSUME Init PROVE UpgradeInv
  OBVIOUS
<1>1. PICK base \in Bases : db = base.db /\ recorded = base.recorded
  BY DEF Init
<1>2. FirstStage(base) \in Stages(Bases)
  BY StagesAssumption
<1>3. outdated = {} /\ owed = {} /\ faults = 0 /\ \A r \in Replicas : replica[r].plan = {}
  BY DEF Init, Stopped
<1>4. AtStage(FirstStage(base))
  BY <1>1, <1>3 DEF AtStage, FirstStage, Stage, Pending
<1>5. QED
  BY <1>2, <1>3, <1>4, InitTypes DEF UpgradeInv

\* A container runs the first of the missing migrations, or repeats one.
LEMMA RunsRunnable ==
  ASSUME UpgradeInv, NEW r \in Replicas, Migrate(r),
         NEW e \in Stages(Bases), AtStage(e)
  PROVE  Next1(replica[r].plan) \in Runnable(e)
<1> DEFINE plan == replica[r].plan
           m == Next1(plan)
<1>1. plan \in SUBSET (1..Count) /\ plan # {} /\ plan \subseteq e.missed
  BY DEF UpgradeInv, TypeInv, Inv, Containers, States, Migrate, AtStage
<1>2. m \in plan /\ (\A n \in plan : m <= n) /\ m \in 1..Count
  BY <1>1, NextIsFirst
<1>3. Missing(e) = Pending
  BY DEF AtStage, Missing, Pending
<1>4. CASE m \in recorded
  BY <1>1, <1>2, <1>4 DEF Runnable, AtStage
<1>5. CASE m \notin recorded
  <2>1. m \in Pending
    BY <1>2, <1>5 DEF Pending
  <2>2. ASSUME NEW n \in Pending PROVE m <= n
    <3>1. CASE r \in outdated
      BY <1>2, <2>1, <3>1 DEF UpgradeInv, Count
    <3>2. CASE r \notin outdated
      BY <1>2, <3>2 DEF UpgradeInv, TypeInv, Inv, Informed, Migrate
    <3>3. QED
      BY <3>1, <3>2
  <2>3. QED
    BY <1>1, <1>2, <1>3, <2>2 DEF Runnable
<1>6. QED
  BY <1>4, <1>5

LEMMA MigrateUpgrades ==
  ASSUME UpgradeInv, NEW r \in Replicas, Migrate(r), TypeInv'
  PROVE  UpgradeInv'
<1>m. PICK m : m = Next1(replica[r].plan)
  OBVIOUS
<1>1. PICK e \in Stages(Bases) : AtStage(e)
  BY DEF UpgradeInv
<1>2. m \in Runnable(e)
  BY <1>1, <1>m, RunsRunnable
<1>3. PICK new \in Up(m, db) : db' = new
  BY <1>m DEF Migrate
<1>4. /\ recorded' = recorded \cup {m} /\ owed' = owed \cup Owed(db, m)
      /\ faults' = faults /\ outdated' = outdated
  BY <1>m DEF Migrate, Record
<1>5. \A q \in Replicas : replica'[q].plan \subseteq replica[q].plan
  BY DEF Migrate, Become, UpgradeInv, TypeInv, Inv, Containers, States
<1> DEFINE x == Stage(new, e.recorded \cup {m}, e.missed, e.undone, e.owed \cup Owed(e.db, m))
<1>6. x \in Stages(Bases)
  <2>1. new \in Up(m, e.db)
    BY <1>1, <1>3 DEF AtStage
  <2>2. x \in {Stage(d, e.recorded \cup {m}, e.missed, e.undone, e.owed \cup Owed(e.db, m)) : d \in Up(m, e.db)}
    BY <2>1
  <2> HIDE DEF x
  <2>3. x \in Run(e)
    BY <1>2, <2>2 DEF Run
  <2>4. QED
    BY <2>3, StagesFollow DEF Following
<1>7. /\ x.db = new /\ x.recorded = e.recorded \cup {m} /\ x.missed = e.missed
      /\ x.undone = e.undone /\ x.owed = e.owed \cup Owed(e.db, m)
  BY DEF Stage
<1> HIDE DEF x
<1>8. Pending' \subseteq Pending
  BY <1>4 DEF Pending
<1>9. AtStage(x)'
  <2>1. x.db = db' /\ x.recorded = recorded' /\ x.owed = owed'
    BY <1>1, <1>3, <1>4, <1>7 DEF AtStage
  <2>2. QED
    BY <1>1, <1>4, <1>5, <1>7, <1>8, <2>1 DEF AtStage
<1>10. QED
  BY <1>4, <1>6, <1>8, <1>9 DEF UpgradeInv

\* A revert undoes a migration that is recorded, and it alone is missing then.
LEMMA RevertUpgrades ==
  ASSUME UpgradeInv, Revert, TypeInv'
  PROVE  UpgradeInv'
<1>m. PICK m : m = recent[Len(recent)]
  OBVIOUS
<1>1. PICK e \in Stages(Bases) : AtStage(e)
  BY DEF UpgradeInv
<1>2. PICK old \in Down(m, db) : db' = old
  BY <1>m DEF Revert
<1>3. /\ recorded' = recorded \ {m} /\ owed' = {o \in owed : o[2] < m}
      /\ faults < MaxFaults /\ faults' = faults + 1 /\ replica' = replica /\ Pending = {}
  BY <1>m DEF Revert, Unrecord
<1>4. m \in recorded
  BY <1>m DEF Revert, UpgradeInv, TypeInv, Log
<1>0. faults \in 0..MaxFaults /\ MaxFaults \in Nat
  BY BoundsAssumption DEF UpgradeInv, TypeInv
<1> DEFINE x == Stage(old, e.recorded \ {m}, e.missed \cup {m}, e.undone + 1, {o \in e.owed : o[2] < m})
<1>5. x \in Stages(Bases)
  <2>1. old \in Down(m, e.db) /\ m \in e.recorded
    BY <1>1, <1>2, <1>4 DEF AtStage
  <2>2. Missing(e) = {} /\ e.undone < MaxFaults
    BY <1>0, <1>1, <1>3 DEF AtStage, Missing, Pending
  <2>3. x \in {Stage(d, e.recorded \ {m}, e.missed \cup {m}, e.undone + 1, {o \in e.owed : o[2] < m}) :
               d \in Down(m, e.db)}
    BY <2>1
  <2> HIDE DEF x
  <2>4. x \in Undo(e)
    BY <2>1, <2>2, <2>3 DEF Undo
  <2>5. QED
    BY <2>4, StagesFollow DEF Following
<1>6. /\ x.db = old /\ x.recorded = e.recorded \ {m} /\ x.missed = e.missed \cup {m}
      /\ x.undone = e.undone + 1 /\ x.owed = {o \in e.owed : o[2] < m}
  BY DEF Stage
<1> HIDE DEF x
<1>7. Pending' \subseteq {m}
  BY <1>3 DEF Pending
<1>8. x.undone \in 0..faults' /\ x.undone > 0
  BY <1>0, <1>1, <1>3, <1>6 DEF AtStage
<1>9. AtStage(x)'
  <2>1. x.db = db' /\ x.recorded = recorded' /\ x.owed = owed'
    BY <1>1, <1>2, <1>3, <1>6 DEF AtStage
  <2>2. QED
    BY <1>1, <1>3, <1>6, <1>7, <1>8, <2>1 DEF AtStage
<1>10. QED
  BY <1>5, <1>7, <1>9 DEF UpgradeInv

\* A school enters when a container serves, which is when the database is
\* upgraded, or it was and one migration was reverted since.
LEMMA EnterUpgrades ==
  ASSUME UpgradeInv, TypeInv',
         SeedDemo \/ \E r \in Replicas, s \in NewSchools : CreateSchool(r, s)
  PROVE  UpgradeInv'
<1>1. PICK e \in Stages(Bases) : AtStage(e)
  BY DEF UpgradeInv
<1>2. Missing(e) = Pending /\ e.db = db
  BY <1>1 DEF AtStage, Missing, Pending
<1>3. UNCHANGED <<recorded, replica, faults, outdated, owed>>
  BY DEF SeedDemo, CreateSchool
<1>4. PICK s : /\ db' = [db EXCEPT !.schools = @ \cup {s}]
               /\ [e.db EXCEPT !.schools = @ \cup {s}] = [db EXCEPT !.schools = @ \cup {s}]
               /\ Stage([e.db EXCEPT !.schools = @ \cup {s}], e.recorded, e.missed, e.undone, e.owed) \in Enter(e)
  <2>1. CASE SeedDemo
    <3>1. Pending = {} /\ Takes(e.db, SeedNeeds) /\ db' = [db EXCEPT !.schools = @ \cup {DemoSchool}]
      BY <1>2, <2>1 DEF SeedDemo, Writable
    <3>2. Stage([e.db EXCEPT !.schools = @ \cup {DemoSchool}], e.recorded, e.missed, e.undone, e.owed) \in Enter(e)
      BY <1>2, <3>1 DEF Enter
    <3>3. QED
      BY <1>2, <3>1, <3>2
  <2>2. ASSUME NEW r \in Replicas, NEW s \in NewSchools, CreateSchool(r, s)
        PROVE  /\ db' = [db EXCEPT !.schools = @ \cup {s}]
               /\ Stage([e.db EXCEPT !.schools = @ \cup {s}], e.recorded, e.missed, e.undone, e.owed) \in Enter(e)
    <3>1. /\ At(r, "serving") /\ s \notin e.db.schools /\ Takes(e.db, {School, SchoolMembership})
          /\ db' = [db EXCEPT !.schools = @ \cup {s}]
      BY <1>2, <2>2 DEF CreateSchool, Writable
    <3>2. Missing(e) = {} \/ e.undone > 0
      BY <1>1, <1>2, <3>1 DEF AtStage, UpgradeInv, TypeInv, Inv, Informed
    <3>3. QED
      BY <3>1, <3>2 DEF Enter
  <2>3. QED
    BY <1>2, <2>1, <2>2
<1> DEFINE x == Stage([e.db EXCEPT !.schools = @ \cup {s}], e.recorded, e.missed, e.undone, e.owed)
<1>5. x \in Stages(Bases)
  BY <1>4, StagesFollow DEF Following
<1>6. /\ x.db = db' /\ x.recorded = e.recorded /\ x.missed = e.missed
      /\ x.undone = e.undone /\ x.owed = e.owed
  BY <1>4 DEF Stage
<1> HIDE DEF x
<1>7. Pending' = Pending
  BY <1>3 DEF Pending
<1>8. AtStage(x)'
  BY <1>1, <1>3, <1>6, <1>7 DEF AtStage
<1>9. QED
  BY <1>3, <1>5, <1>7, <1>8 DEF UpgradeInv

\* Everything else leaves the database at its stage.
LEMMA OthersUpgrade ==
  ASSUME UpgradeInv, TypeInv', UNCHANGED <<db, recorded, owed>>,
         faults' \in Nat, faults <= faults', outdated' \subseteq outdated,
         \A r \in Replicas : replica'[r].plan \subseteq replica[r].plan \cup Pending
  PROVE  UpgradeInv'
<1>1. PICK e \in Stages(Bases) : AtStage(e)
  BY DEF UpgradeInv
<1>2. Pending' = Pending
  BY DEF Pending
<1>3. e.undone \in 0..faults'
  BY <1>1 DEF AtStage, UpgradeInv, TypeInv
<1>4. AtStage(e)'
  BY <1>1, <1>2, <1>3 DEF AtStage
<1>5. QED
  BY <1>2, <1>4 DEF UpgradeInv

LEMMA StepUpgrade == UpgradeInv /\ [Next]_vars => UpgradeInv'
<1> SUFFICES ASSUME UpgradeInv, [Next]_vars PROVE UpgradeInv'
  OBVIOUS
<1>1. TypeInv'
  BY StepTypes DEF UpgradeInv
<1>2. faults \in Nat /\ replica \in Containers
  BY BoundsAssumption DEF UpgradeInv, TypeInv, Inv
<1>3. ASSUME NEW r \in Replicas,
             Start(r) \/ Probe(r) \/ Plan(r) \/ MigrationFails(r) \/ Serve(r) \/ Crash(r)
      PROVE UpgradeInv'
  <2>1. /\ UNCHANGED <<db, recorded, owed>> /\ outdated' \subseteq outdated
        /\ faults' = faults \/ faults' = faults + 1
    BY <1>3 DEF Start, Probe, Plan, MigrationFails, Serve, Crash
  <2>2. \A q \in Replicas : replica'[q].plan \subseteq replica[q].plan \cup Pending
    <3>1. \A s : replica' = [replica EXCEPT ![r] = s] /\ s.plan \subseteq replica[r].plan \cup Pending
            => \A q \in Replicas : replica'[q].plan \subseteq replica[q].plan \cup Pending
      BY <1>2 DEF Containers
    <3>2. replica[r] \in States
      BY <1>2 DEF Containers
    <3>3. \E s : replica' = [replica EXCEPT ![r] = s] /\ s.plan \subseteq replica[r].plan \cup Pending
      <4>1. CASE Start(r)
        <5> DEFINE s == [pc |-> "waiting", attempt |-> 1, plan |-> {}]
        <5>1. s.plan \subseteq replica[r].plan \cup Pending
          BY <3>2 DEF States, Stopped
        <5>2. replica' = [replica EXCEPT ![r] = s]
          BY <4>1 DEF Start, Become
        <5> HIDE DEF s
        <5>3. QED
          BY <5>1, <5>2
      <4>2. CASE Probe(r)
        <5> DEFINE s == IF reachable THEN [replica[r] EXCEPT !.pc = "ready"]
                        ELSE IF replica[r].attempt >= MaxRetries THEN Stopped
                        ELSE [replica[r] EXCEPT !.attempt = @ + 1]
        <5>1. s.plan \subseteq replica[r].plan \cup Pending
          BY <3>2 DEF States, Stopped
        <5>2. replica' = [replica EXCEPT ![r] = s]
          BY <4>2 DEF Probe, Become
        <5> HIDE DEF s
        <5>3. QED
          BY <5>1, <5>2
      <4>3. CASE Plan(r)
        <5> DEFINE s == IF reachable THEN [replica[r] EXCEPT !.pc = "migrating", !.plan = Pending] ELSE Stopped
        <5>1. s.plan \subseteq replica[r].plan \cup Pending
          BY <3>2 DEF States, Stopped
        <5>2. replica' = [replica EXCEPT ![r] = s]
          BY <4>3 DEF Plan, Become
        <5> HIDE DEF s
        <5>3. QED
          BY <5>1, <5>2
      <4>4. CASE MigrationFails(r) \/ Crash(r)
        BY <4>4 DEF MigrationFails, Crash, Become, Stopped
      <4>5. CASE Serve(r)
        <5> DEFINE s == [replica[r] EXCEPT !.pc = "serving"]
        <5>1. s.plan \subseteq replica[r].plan \cup Pending
          BY <3>2 DEF States, Stopped
        <5>2. replica' = [replica EXCEPT ![r] = s]
          BY <4>5 DEF Serve, Become
        <5> HIDE DEF s
        <5>3. QED
          BY <5>1, <5>2
      <4>6. QED
        BY <1>3, <4>1, <4>2, <4>3, <4>4, <4>5
    <3>4. QED
      BY <3>1, <3>3
  <2>3. QED
    BY <1>1, <1>2, <2>1, <2>2, OthersUpgrade
<1>4. CASE LoseDatabase \/ RestoreDatabase \/ SeedVenues \/ UNCHANGED vars
  <2>1. /\ UNCHANGED <<db, recorded, owed, replica, outdated>>
        /\ faults' = faults \/ faults' = faults + 1
    BY <1>4 DEF LoseDatabase, RestoreDatabase, SeedVenues, vars
  <2>2. QED
    BY <1>1, <1>2, <2>1, OthersUpgrade
<1>5. QED
  BY <1>1, <1>3, <1>4, MigrateUpgrades, RevertUpgrades, EnterUpgrades DEF Next, Boot, Work

\* Whatever the containers do, the database is one that an upgrade by a single
\* container reaches: their races, crashes and repetitions make no other.
THEOREM UpgradeHolds == Spec => []UpgradeInv
<1> QED
  BY InitUpgrade, StepUpgrade, PTL DEF Spec

\* Every statement of the release finds its tables, columns and values in the
\* database of a container that serves.
THEOREM StatementsFit == Spec => []ServingFits
<1>1. UpgradeInv => ServingFits
  <2> SUFFICES ASSUME UpgradeInv, NEW r \in Replicas \ outdated, At(r, "serving")
               PROVE  Writable(ReleaseNeeds)
    BY DEF ServingFits
  <2>1. PICK e \in Stages(Bases) : AtStage(e)
    BY DEF UpgradeInv
  <2>2. Pending = {}
    BY DEF UpgradeInv, TypeInv, Inv, Informed
  <2>3. Missing(e) = {}
    BY <2>1, <2>2 DEF AtStage, Missing, Pending
  <2>4. Takes(e.db, ReleaseNeeds)
    BY <2>3, StagesAssumption
  <2>5. QED
    BY <2>1, <2>4 DEF AtStage, Writable
<1>2. QED
  BY <1>1, UpgradeHolds, PTL

-----------------------------------------------------------------------------
(* What the scripts seed.                                                   *)

\* Every slot of the week has a course that a lecturer was assigned to.
LEMMA WeekIsWhole == SeededSlots = SlotDefs
<1>1. ASSUME NEW s \in SlotDefs PROVE <<s[1], s[2]>> \in AssignmentDefs \cup DemoAssignments
  BY DEF SlotDefs, AssignmentDefs, DemoAssignments
<1>2. \A a \in AssignmentDefs : a[1] \in ExtraCourses
  BY DEF AssignmentDefs, ExtraCourses
<1>3. QED
  BY <1>1, <1>2 DEF SeededSlots

LEMMA WeekFits ==
  /\ \A s \in SlotDefs : s[6] \in Venues /\ s[5] > s[4]
  /\ \A s, t \in SlotDefs :
       s # t /\ s[3] = t[3] /\ s[4] < t[5] /\ t[4] < s[5] => s[6] # t[6] /\ s[2] # t[2]
<1>1. \A s \in SlotDefs : s[6] \in Venues /\ s[5] > s[4]
  BY DEF SlotDefs, Venues
<1>2. \A s, t \in SlotDefs :
        s # t /\ s[3] = t[3] /\ s[4] < t[5] /\ t[4] < s[5] => s[6] # t[6] /\ s[2] # t[2]
  BY DEF SlotDefs
<1>3. QED
  BY <1>1, <1>2

WeekInv == "venues" \in seeded => timetable = SeededSlots

LEMMA StepWeek == WeekInv /\ [Next]_vars => WeekInv'
<1> SUFFICES ASSUME WeekInv, [Next]_vars PROVE WeekInv'
  OBVIOUS
<1>1. CASE SeedVenues
  BY <1>1 DEF SeedVenues, WeekInv
<1>2. CASE SeedDemo
  BY <1>2 DEF SeedDemo, WeekInv
<1>3. ASSUME UNCHANGED <<seeded, timetable>> PROVE WeekInv'
  BY <1>3 DEF WeekInv
<1>4. ASSUME NEW r \in Replicas, Boot(r) \/ Crash(r) PROVE UNCHANGED <<seeded, timetable>>
  BY <1>4 DEF Boot, Start, Probe, Plan, Migrate, MigrationFails, Serve, Crash
<1>5. CASE LoseDatabase \/ RestoreDatabase \/ Revert \/ UNCHANGED vars
  BY <1>3, <1>5 DEF LoseDatabase, RestoreDatabase, Revert, vars
<1>6. ASSUME NEW r \in Replicas, NEW s \in NewSchools, CreateSchool(r, s) PROVE WeekInv'
  BY <1>3, <1>6 DEF CreateSchool
<1>7. QED
  BY <1>1, <1>2, <1>3, <1>4, <1>5, <1>6 DEF Next, Work

\* Permissions that were granted once are kept until the migration that granted
\* them, or an earlier one, is reverted; the lists of who may do what agree; and
\* the seeded week is whole and fits its venues.
THEOREM SeedsStayConsistent == Spec => []SeedsConsistent
<1>1. UpgradeInv => GrantsConsistent(db, owed)
  BY StagesAssumption DEF UpgradeInv, AtStage
<1>2. Init => WeekInv
  BY DEF Init, WeekInv
<1>3. Spec => []WeekInv
  BY <1>2, StepWeek, PTL DEF Spec
<1>4. WeekInv => SeededWeek
  BY WeekIsWhole, WeekFits DEF WeekInv, SeededWeek
<1>5. UpgradeInv /\ WeekInv => SeedsConsistent
  BY <1>1, <1>4 DEF SeedsConsistent
<1>6. QED
  BY <1>3, <1>5, UpgradeHolds, PTL

=============================================================================
