# EduTrack API: a verification project

TLA+ models of the EduTrack school-management API (NestJS, TypeORM, PostgreSQL),
TLC configurations that check them on small instances, and TLAPS proofs of what
holds for every size. Paths below are relative to `src/` of the repository root
unless they say `docs/`.

1. [The system](#1-the-system)
2. [How the models relate to the code](#2-how-the-models-relate-to-the-code)
3. [Modules](#3-modules)
4. [Runs](#4-runs)
5. [Proofs](#5-proofs)
6. [What the code does not guarantee](#6-what-the-code-does-not-guarantee)
7. [Not modelled, and the plan](#7-not-modelled-and-the-plan)

## 1. The system

One server process (or several) answers HTTP requests and runs cron jobs against
one PostgreSQL database at READ COMMITTED. There are no row locks, no version
columns and no queues, and nothing keeps two processes from running the same cron
job at the same time. A request handler is a sequence of awaited statements; a
few handlers put several statements into one transaction. So the hard behaviours
are those of check-then-act: what was read before an `await` is acted on after
it, whatever other requests and jobs have committed meanwhile, and an error or a
crash between two statements leaves the first one done.

A recurring detail decides several of them: `dataSource.query('UPDATE … RETURNING')`
returns `[rows, count]`, so the code's `const [x] = …; if (!x) throw` never
throws. Guards written that way are not guards.

| Component | State | Operations | Interacts with | Hard behaviour | What makes it correct |
|---|---|---|---|---|---|
| Timetable promotion, requests (`modules/promotion/application/promotion.service.ts`) | `promotion_cycles`, `slot_promotions` | trigger a cycle; confirm, modify, reschedule or cancel for a slot | sessions and timetable by calls | none of its handlers is a transaction; two triggers; answers against the reset | whoever waits can be answered; answers and closed cycles stay |
| Timetable promotion, jobs (`promotion-scheduler.service.ts`) | the same, and local variables of a run | Sunday reset, daily repair of orphaned resets, reminders | the same | stale lists, errors swallowed on purpose, crashes, several cycles and several processes at a time | every cycle closes; every reset is finished; outcome matches what was reset |
| Sessions (`modules/sessions`) | `sessions` | create, start, end, cancel, and the public operations the promotion uses | attendance, timetable, promotion | guarded UPDATEs whose result is not examined | status order; no audit of what did not happen |
| Attendance, results, transcripts (`modules/attendance`) | `attendance_records`, grades | bulk mark, submit grades | sessions | marking without looking at the session; cancellation deletes records | no records of sessions that were not held |
| Timetable, class timetable (`modules/timetable`) | `timetable_slots` | create (generates a year of sessions), update, remove | venues, academic years, sessions | conflict check before insert; update does not regenerate | no venue booked twice; sessions lie on their slot's day |
| Classes, enrollment, transfers (`modules/academic/application/classes.service.ts`) | `classes`, `class_enrollment_requests`, `class_transfer_logs`, `students.class_id` | create, edit, delete, split; request, approve, reject, transfer | students, audit | splits, approvals and transfers of the same students overlap; automatic splits | groups hold sub-classes only; the log tells where a student is; approval means enrollment |
| Students (`modules/students`) | `students` | create, import, remove | classes | cascades | |
| Staff invitations (`modules/invitations`) | `staff_invitations` | create, resend, cancel, validate, complete registration | users, roles, audit | double submission, expiry, cancellation during registration, compensation instead of a transaction | accepted means registered; nothing stuck; used once |
| Staff, users (`modules/staff`, `modules/users`) | `user_roles`, `school_memberships`, `users` | change role, remove, create in school, reset password | permission cache | role checks outside the transaction | one role replaces another; removal is complete |
| Roles and permissions (`modules/roles`) | `role_permissions`, `user_permissions`, a cache in each process | grant, revoke, list, default permissions of a new school | guards, events | cache filled from an old read; writers that do not invalidate; servers that are not told; a listener that swallows errors | a revoked permission stops working |
| Authentication (`modules/auth`) | `refresh_tokens` | log in, refresh, log out, change password | users | rotation is five statements | one usable token per login; a crash never takes the last one |
| Academic years, semesters (`modules/academic`) | `academic_years`, `semesters` | create, update | timetable, promotion | two activations at once | one active year; dates nest |
| Courses, departments, programs, course assignments (`modules/academic`) | rows of their own | create, edit, remove | keys | checks repeated by unique keys | keys |
| Import jobs (`modules/imports`) | `import_jobs` | create, commit, cancel | students | status not in the column's enum: no job can be created | |
| Schools, venues, schedule configuration (`modules/schools`), organizations, profiles, specialties | rows of their own | create, edit, remove | event `school.created` | single statements | keys |
| Schema, migrations, seeds, entrypoint (`src/database`, `docker-entrypoint.sh`) | the schema, `typeorm_migrations`, seeded rows | migrate at start, revert, seed | every statement of every module | several containers migrate at once; databases of earlier releases; failures half way | who serves has the schema its statements need; every container serves in the end |
| Audit log, reminders | append-only rows | insert | none | | |
| Guards, filters, interceptors (`common`) | none | refuse or decorate a call | roles | | a refused call writes nothing |

`PROJECT.json` lists every component with its status, and under `hazards` the
places in this code where these behaviours bite, with their lines and the
properties that would catch them going wrong; section 6 has what does go wrong.

## 2. How the models relate to the code

* **One action per awaited statement or transaction.** A handler that reads,
  checks, awaits and writes is several actions, and what it read is kept in the
  record of its process (`call[c]`, `trigger[t]`, `proc[p]`), so every
  interleaving of the code's statements is a behaviour. Local computation
  between two awaits belongs to the action of the first. A transaction whose
  early reads matter because they grow stale is split at those reads.
* **Rows are functions** from ids (or from the columns of a unique key) to
  statuses or records. Ids are used once, which bounds the instances: when they
  are used up nothing more can happen. That is why the runs say
  `CHECK_DEADLOCK FALSE`.
* **Keys, cascades and enums** that the migrations declare are part of the
  actions: a violated unique key is an error path, a deleted class sets
  references to null or deletes their rows.
* **Failures.** Where a model has faults, any statement under way may fail and
  the process may die anywhere; the code's `try/catch` decides what follows. The
  bound (`MaxFaults`, or the switch `Failures`) is a constant.
* **Handlers of other modules** that write the same rows are included as single
  actions (`SessionMove`, `TimetableCreate`, `TimetableRemove`, `UserCreate`,
  `StaffRemove`, `StudentRemove`, `TeachingRemove`), so that a module is checked in
  the environment the program gives it. Section 7 names the writers that are left
  out of a module.
* **Exceptions are history variables.** Where the code guarantees something only
  while requests do not overlap, the module records when they do (`contended`,
  `excused`, `missed`, `hasty`, `stopped`), and the property names exactly that exception.
  So each such property says both what holds and where it ends.
* **Permissions** of the caller are left out: a call that a guard or a role check
  refuses writes nothing. Texts, formats, geography and reports are left out.
* **Mutants.** A definition preceded by `Mutant:` is a plausible mistake in the
  definition after it (a dropped guard, a swapped order, a missing reset). It is
  not part of any specification; each property of a passing run is violated when
  its mutant replaces the definition, which shows the property has teeth.

## 3. Modules

### Promotion

`Promotion.tla` is the weekly promotion of one school. An HoD *triggers* a cycle
for a week: every slot with scheduled sessions in the week gets a `pending` slot
promotion, then those sessions become `pending_confirmation`. Lecturers
*confirm* (the sessions go back to `scheduled`), *modify*, *reschedule* or
*cancel*. On Sunday the *reset* job marks what is still pending as `reset`,
cancels the sessions, deletes the slot, and closes the cycle. A daily *repair*
job finishes resets that stopped half way.

| State | Code |
|---|---|
| `cycle[w]`, `promo[w][s]` | `promotion_cycles.status`, `slot_promotions.status`; the unique keys make week, and week with slot, the identity |
| `slotRow[s]`, `session[x]` | `timetable_slots`, `sessions` (link to the slot, week, status) |
| `trigger[t]`, `call[c]` | a `POST promotion-cycles` request, a request on a slot promotion |
| `reset[p]`, `recon[p]` | the locals of `handleWeeklyReset`/`executeReset` and `reconcileOrphanedResets` in process `p` |
| `contested` | history: the weeks whose active cycle two runs of the reset have listed |

Actions: `Trigger*` (`triggerPromotion`), `Call*` (`assertSlotPromotionAccess`
and the four answers), `Reset*`, `Recon*` (the jobs with their inner error
handling), `TimetableCreate`, `TimetableRemove`, `SessionMove` (the other
modules), `Crash` of a process. Each process runs both jobs, as often as their crons fire, and the runs of
two processes overlap freely: `ActiveCycles` is a plain read and `ResetClose` an
UPDATE by id (`promotion.repository.ts:106-121`).

`PromotionLifecycle.tla` is the abstract promise: a slot promotion is proposed
once, answered while its cycle is active or lapses, and a cycle closes with
nothing pending, as expired exactly when it is remembered that something in it
lapsed; a failure may lose that memory and nothing else.
`PromotionApart.tla` restricts only *when* handlers run (one at a time, or the
trigger not beside the reset), never what they do, and shows what then holds:
that the handlers refine `PromotionLifecycle`, and properties that overlapping
handlers break.

### Enrollment

`Enrollment.tla` is the classes of one school and year and who is in them.

| State | Code |
|---|---|
| `class[c]` | `classes`: name, capacity, parent, `is_group` |
| `student[s]` | `students.class_id` |
| `request[r]` | `class_enrollment_requests` |
| `lastMove[s]` | the newest `class_transfer_logs` row of a student |
| `audited` | history: requests with an approval in `audit_logs` |
| `proc[p]`, `calls` | requests under way, and how many were made |

Actions follow the methods of `ClassesService`: `Delete*`, `Split*` (with
`AutoSplit`, the split an approval ends with), `Enroll*`, `Approve*`, `Reject*`,
`Transfer*` and `Join*` (the automatic choice of a sub-class), single actions
for edits, and `Fail`. Names are sequences of parts, so that `name + ' A'` is
what it does: it may clash with a class of that name, which is refused or, at
the commit, an error. "newest" is by commit: `transferred_at` is the start of the
transaction, which for overlapping transactions can differ. `EnrollmentApart.tla`
restricts when handlers run to one at a time, and states what the checks of the
handlers then achieve; its history variable `stopped` holds the requests whose
approval failed between the enrollment and the mark.

### Invitations

`Invitations.tla` is the staff invitations of a school.

| State | Code |
|---|---|
| `status[i]`, `offer[i]`, `overdue` | `staff_invitations`: status, e-mail with role, whether `expires_at` has passed |
| `accounts`, `staff` | `users`; `user_roles` with the membership |
| `registered[i]` | history: `invitation:completed` rows of `audit_logs` |
| `proc[p]`, `calls`, `faults` | requests under way and the two bounds |
| `contended` | history: invitations on which two requests have worked at a time |

`completeRegistration` writes `processing`, runs the registration in a
transaction, writes `accepted`, and on any error writes `pending` from a `catch`
that also covers the acceptance. `updateStatus` writes a row by id, whatever its
status has become, and reads it back; an error of that reading after the
acceptance sends the invitation to the rollback, so `CompleteReturn` is an
action of its own.

### Deployment and the schema

A release starts by waiting for the database, running the missing migrations and
then serving. These modules ask whether the schema that results fits the code.

| Module | What it is |
|---|---|
| `Schema` | a database as tables with columns, references, constraint names, enumerated values and seeded rows, and each SQL statement as a function from a database to the set of databases after it (empty: an error) |
| `Migrations` | the 24 migrations, up and down, as sequences of statements; `Up`, `Down` run one as a transaction |
| `Entities` | what the ORM needs of each table, from the `*.entity.ts` files |
| `Queries` | what the hand-written SQL of each service needs; `BrokenNeeds` are the statements the schema refuses |
| `Seeds` | the lists of default permissions in `permissions.service.ts`, and the three seed scripts with the week of `seed-venues.ts` |
| `Capabilities` | `role-capabilities.ts` |
| `Deployment` | containers: `Start`, `Probe`, `Plan`, `Migrate`, `MigrationFails`, `Serve` (`docker-entrypoint.sh` and TypeORM's executor, which reads the executed migrations once), `Crash`, `LoseDatabase`, `Revert`, and the writers of seeded rows |
| `Upgrades` | the same seen from the database, without containers: the stages that migrations run one after the other, repetitions, reverts and new schools bring a database to (`Stage`, `Following`), and what must hold at each (`StagesAssumption`) |

The databases that a release may find (`Bases`) are the empty one, one of four
migrations with a school, one of eight with `school_id` as text, and one of
fourteen with permissions linked by uuid: the last two are those that migrations
9, 10, 13 and 15 say they repair.

### Access

`Access.tla` is roles, memberships and extra permissions of the users of a
school, and the cache that the guards answer from.

| State | Code |
|---|---|
| `roles[u]`, `members`, `grants[u]` | `user_roles`, `school_memberships`, `user_permissions` |
| `cache[s][u]` | the entry `user_permissions:u` in the memory of process `s` |
| `proc[p]`, `calls`, `faults` | requests under way and the bounds |
| `removed`, `contended`, `excused` | history, see the comments of the module |

`listUserPermissions` is four actions (look up, codes, roles, store).
`assignToUser`, `revokeFromUser`, `assignRole`, `revokeRole` and `assignToRole`
write first and delete the entry later, in their own process; `changeRole`,
`removeStaff`, `createInSchool`, `removeFromSchool` and `completeRegistration` (for
an account that was there before) do not. `Restart` stops a
process, `Fails` any statement, `Expire` is the time to live.

### Tokens

`Tokens.tla` is login, refresh and logout, one action for each awaited statement
(`RefreshUser`, `RefreshResolve`, `RefreshIssue`, `RefreshRevoke`), with tokens
that expire, accounts that are deactivated, handlers that die and answers that
are lost. `known` is what clients hold; a row nobody was told of is not.
`LoginChain.tla` is what rotation promises: one token at a time carries a login
on, and no token is handed out twice. `Tokens` implements it with the mapping
`LoginState`/`Holder`: a new token counts from the moment its client has it.

### Calendar and Classroom

`Calendar.tla` is academic years and timetable slots: activation of a year
(`YearActivate` switches off the others it sees, `YearCommit` commits), creation
and update of slots with the conflict check before the write, the promotion's
unchecked edit. `Classroom.tla` extends it with sessions, attendance and grades:
`Start*`, `End`, `Cancel*` (`sessions.service.ts`), `Enter`, `Upsert`,
`EnterCommit`, `EnterAbort` (`bulkMark` and `submitGrades`, transactions with row
locks that may deadlock), `TimetableInsert` and `TimetableRemove` (which compose
the steps of `Calendar` with what they do to sessions), the promotion's moves, and
the deletions: `StudentRemove` takes the marks of a student (`gone`), and
`TeachingRemove`, the deletion of a course or a class, takes slots and sessions of
any status with their attendance, and a course's grades (`erased`).

### Proof and model-checking modules

`PromotionProofs`, `PromotionApartProofs`, `EnrollmentProofs`, `InvitationsProofs`,
`DeploymentProofs`, `AccessProofs`, `TokensProofs` and `ClassroomProofs` extend the
component they are about. The `MC*` modules hold only the symmetry sets and constant values of the
runs.

## 4. Runs

Passing runs:

| Run | Question | Bounds |
|---|---|---|
| `promotion_race` | Under every interleaving of two triggers, an answer, both jobs on two processes, timetable and session edits: can whoever waits be answered (`PendingHasPromotion`), do settled sessions (`SettledSessionsKept`) and closed cycles (`CycleFinal`) stay? | 1 slot, 1 week, 2 processes, 1 fault; 2.5 million states |
| `promotion_serial` | One handler at a time: do they implement the life cycle (`FollowsLifecycle`), and does every waiting session of a living slot wait for an answer that can be given (`PendingIsAnswerable`)? | 1 slot, 2 weeks, 2 processes, 2 faults; 0.7 million states |
| `promotion_trigger_apart` | Trigger and reset do not overlap, all else does, two runs of the reset too: does a closed cycle leave nothing pending whatever fails, and is `completed` never said of a cycle with a reset, unless something failed or two runs had listed it (`ClosedIsSettled`)? | 1 slot, 1 week, 2 processes, 2 calls, 2 faults; 1.2 million states |
| `promotion_liveness` | Does every open cycle close (`EveryCycleCloses`), and does a reset slot leave (`ResetSlotsLeave`)? | 1 slot, 2 processes, 1 fault; 0.4 million states |
| `enrollment_race` | Do sub-classes hang on groups (`ParentsAreGroups`), does the log tell a student's class (`LogTellsClass`), is `approved` an enrollment (`ApprovedIsAudited`)? | 3 classes, 2 students, 1 request row, 2 handlers, 3 calls, any may fail |
| `enrollment_serial` | One handler at a time, do the checks suffice: one pending request each and rejected students stay out, unless an approval stopped half way (`RequestsDecidedOnce`), a split class is empty and keeps its halves (`GroupsAreWhole`), and does a class get more students than its capacity only where the code counts no seats (`SeatsAreCounted`)? | 3 classes, 3 students, 2 requests, 3 calls, any may fail |
| `invitations_race` | Does accepted mean registered, is nothing stuck, and does an invitation that one request at a time uses follow its life cycle and register once? | 2 invitations, 2 people, 2 handlers, 5 calls, 1 fault; 1.2 million states |
| `deployment` | Does whoever serves have every migration (`ServingMigrated`) and a schema that all its statements fit (`ServingFits`), do the four lists of permissions and the seeded week agree (`SeedsConsistent`), and does every container serve in the end (`EventuallyServing`)? | 2 containers, 4 databases, 2 schools, 2 retries, 1 crash, outage or revert; 0.15 million states, and 6 thousand stages of `Upgrades` |
| `access` | Is a cached list the one the database would give (`CachedIsCurrent`), does a removed user stay out (`RemovedStaysOut`), does a role change replace (`ChangeReplaces`)? | 2 users, 2 roles, 2 servers, 2 handlers, 3 calls, 1 fault; 470 thousand states |
| `tokens` | Is a refresh one step to its clients (`KeepsOneToken`), does a fault leave the client a token (`LoginSurvives`), does a deactivated account get none (`InactiveGetNone`)? | 2 logins, 4 tokens, 2 handlers, 1 fault; 1.4 million states |
| `classroom` | One active year (`OneActiveYear`), no double booking (`NoDoubleBooking`), submissions that do not mix (`MarksWhole`), attendance that goes only with its session or student (`AttendanceKept`), a true audit log (`AuditIsTrue`)? | 3 years, 2 slots, 1 venue, 2 sessions, 2 students, 2 handlers, 3 calls, 1 fault; 1.4 million states |

Why the bounds suffice. The rows of different slots, weeks, students or
invitations meet only where a list is read (the reset's list of slots, a class's
roster, the pending invitations of an address), so one row shows the races on a
row, and two show those on a list. Two processes are what every race needs,
since a handler holds what it read of one row until it writes it; in the
promotion's runs both jobs of both server processes come on top. A fault while two
processes run the jobs lets a repair fail and the other process make up for it. Three
classes are a class and the two halves a split makes, and two seats are enough
for a class to be full with students on both sides of the split. Three calls
are, for example, a filing, a split and an approval; in `access` a listing, a
change that overtakes it and a second listing; in `classroom` an entry of
attendance, a start and a cancellation, or an entry of attendance and two deletions,
or two slots and an update of one. Four
tokens are a login with two rotations beside another login, or a rotation that
dies and is repeated. Three years let two be activated while a third is active.
Two containers are what a rolling update overlaps. The proofs of section 5
remove the bounds for most of the safety properties.

One run shows the code disagreeing with its documents: `queries_fit` checks
`BrokenFit`, which says that the statements of some documented endpoints
find their columns and values in the fully migrated schema. They do not; the
findings in `PROJECT.json` quote the documents.

**Fairness.** `FairSpec` of `Promotion` assumes that a request or job under way
is served (the event loop runs every continuation) and that the cron starts each
job again while it has work (`@Cron`, every half hour around Sunday noon for the
reset, daily for the repair). No request is assumed ever to be made, and faults
are not fair. `EveryCycleCloses` therefore assumes a server that is up on enough
Sundays and a school whose `status` stays `active`, since
`findAllSchoolTimezones` lists no other (`promotion-read.repository.ts:40-44`), and
no more. `FairSpec` of `Deployment` assumes that each container
runs by itself and is restarted by the restart policy of the deployment, and
that an outage of the database ends; crashes, reverts and seeding are not fair.
All other specifications are safety only.

## 5. Proofs

All theorems are for every value of the constants, from `TypeOK` and the
`ASSUME`s of the modules: weeks are natural numbers, null is no slot or class,
a missing row is no mark, bounds are natural numbers. One assumption is more than
a condition on constants: `StagesAssumption` of `Upgrades` is a computation that
TLC does in the run `deployment` (see Deployment below).

* **Promotion.** `TypeCorrect`; `InvariantHolds` (`IInv`);
  `PendingAlwaysHasPromotion`, `ClosedCyclesStayClosed`, `SettledSessionsStay`.
  `PendingHasPromotion` is not inductive: it needs what processes know between
  their statements. A trigger that is about to move sessions has inserted the
  slot promotions of all it moves (`TriggersKnow`), a call has one
  (`CallsKnow`), promotions have cycles and unborn slots have no sessions. Of the
  reset (`ResetKnows`) it says what the code lets a run know of a cycle that it has
  listed (`Held`): that it exists; and that it is still active and held by no other
  run only if no two runs have listed it (`contested`). From this `CycleFinal`
  follows with its exception: who closes a contested week may overwrite its end.
* **Promotion, handlers apart** (`PromotionApartProofs`). While no trigger overlaps
  the reset: `ApartHolds`, `ClosedCyclesAreSettled`. A trigger under way holds a
  cycle that is active (`TriggersOwn`), since only the reset closes one; each run of
  the reset that is about to close a cycle has every pending slot promotion of it
  on its list (`ResetTakesAll`), since answers and the marks of other runs only take
  some away; and while nothing has failed, some run remembers what is reset in an
  active cycle (`ResetRemembered`): if the week is not contested that is the one
  which closes it. One handler at a time: `SerialHolds`,
  `WaitingSessionsAreAnswerable` and the refinement `LifecycleIsFollowed`. What
  the one handler has read is still so (`TriggerFresh`, `CallFresh`, `ResetFresh`),
  and each session that waits although its slot promotion is answered or its
  cycle not active is one that this handler is on its way to release
  (`WaitingAttended`); this holds until something fails, since a trigger, an
  answer or a reset that stops half way leaves sessions that nobody answers for.
  The refinement holds whatever fails. Its mapping reads the abstract `lapsing`
  off the reset where it stands (`Lapsing`: after a mark, or `hadResets`), and a
  failure or crash is the abstract `Fail`, which may empty it: the next run does
  not know what its predecessor has reset. `CyclesEndAsTheyWent` is what follows
  from the life cycle alone and so holds of the handlers: `expired` is never said
  of a cycle without a reset, and `completed` of one with a reset only after a
  failure.
* **Enrollment.** `TypeCorrect`; `InvariantHolds`; `SubClassesHaveGroups`,
  `LogKeepsUp`, `ApprovalsEnroll`. The invariant adds that absent students have
  no log, that a request under review has a row, and that an approval that has
  enrolled its student is already in the audit log (`MarkersAudited`): the mark
  comes last, and only from there.
  One handler at a time: `RequestsAreDecidedOnce`, `GroupsStayWhole`,
  `SeatsCounted`, from `SerialInvariantHolds`. `RunFresh` says what
  the busy handler has read and nobody has changed: the roster a split divides,
  the children a deletion looked for, the absence of a duplicate, the request
  that is still pending, the capacity and the free seat. It is inductive because a
  student without a row has no class (`GoneUnclassed`): the roster a split reads
  is otherwise not everybody who has that class. All three hold with
  failures. An approval that stops between the enrollment and the mark leaves its
  request pending, and it may then be rejected: `stopped` holds these requests,
  and `RequestsDecidedOnce` excepts them and no others. `UndecidedUnaudited` is
  the invariant behind it: an undecided request that is in the audit log is being
  approved at this moment, or its approval stopped. `SeatsAreCounted` names the ways
  past a capacity: a changed capacity, a new student, a transfer, an override, and
  halves of more than twice as many students (`HalvesFit` is why any other half
  fits); its proof adds that students are in classes that exist (`Housed`). From the same invariant follows
  `DecisionsStay`, which no run states: who marks a request still finds it pending,
  so a decision is never overwritten.
* **Invitations.** `TypeCorrect`; `InvariantHolds`; `AcceptanceIsReal`,
  `NothingStuck`, `OneRegistration`, and the action property `LifecycleHolds`.
  No statement that writes a status looks at the present one, so nothing about
  statuses is inductive alone. An invitation that is not contended has at most
  one worker (`OneWorker`), and what that worker has read or written is still so
  (`WorkersKnow`, `WorkersRegister`, `AcceptersRegistered`): the status is one
  of `HeldStatus` of its program counter, and `registered` counts exactly the
  commit it has passed. The proof has one lemma per kind of step.
* **Deployment.** `TypeCorrect`; `InvariantHolds`; `MigratedBeforeServing`;
  `MigrationsInOrder`: for every number of containers, crashes, outages and
  reverts, whatever the migrations do. What a container knows (`Informed`) is
  inductive: what is missing is still in its plan, unless a revert has left it
  behind, and so nothing is missing when it serves, and nothing earlier is missing
  when it runs a migration. `TypeCorrect` carries the log that a revert follows:
  it lists recorded migrations only, none of them twice (`Log`, `Once`), although
  containers record them in any order and more than once. It assumes that an
  earlier release ran its migrations to the last (`BasesAssumption`).

  `UpgradeHolds`, `StatementsFit` and `SeedsStayConsistent` are about what the
  migrations make of the database. What 24 sequences of statements do to a schema
  is computed by a fold, which a prover would have to unfold by induction; but it
  is the same for any number of containers, because the database only ever is at
  a stage that upgrades by a single container reach. That is what is proved:
  `UpgradeInv` says that the database, the log and the permissions that are due
  are those of a stage (`AtStage`), and each action of a container is a step of
  `Following` or leaves the stage alone. The lemma behind it is `RunsRunnable`: a
  container that no revert has left behind runs the first of the missing
  migrations or repeats one, and one that was left behind has only the reverted
  migration before it. Schools come when a container serves, so only to upgraded
  databases, or to such with a migration reverted since. The stages themselves are
  `StagesAssumption`, which TLC evaluates: it computes the closure of the four
  databases under `Following` (`AllStages` of `MCUpgrades`) and examines each of
  its stages. So these theorems hold for every set of containers, every
  interleaving of their steps with crashes, outages and requests, and for the
  databases, new schools and number of reverts of the run. The seeded week is
  proved outright (`WeekIsWhole`, `WeekFits`).
* **Access.** `TypeCorrect`; `InvariantHolds`; `RemovedStayOut`, `CacheIsCurrent`,
  `ChangesReplace`. Two arguments. A user who is not contended has at most one
  worker (`OneWorker`), so what `changeRole` has found is still so when it
  commits (`ChangeIsFresh`) and nobody works on a user who is removed
  (`NobodyWorksOnRemoved`). An entry that is not excused is `Fresh`: it is
  current unless somebody is about to delete it, and so is every list under way
  as far as it has been put together; the lemmas `FreshKept`, `FreshTold` and
  `FreshChanged` are the three ways in which a step keeps that.
* **Tokens.** `TypeCorrect`; `RequestsKnow` (`Knowing`); `LoginsSurvive`,
  `InactiveGetNothing` and the refinement `ImplementsLoginChain`. `Knowing` says
  what a request may rely on: the token presented to it is one a client has, the
  one it has stored is nobody's yet and of the same login, different requests
  have stored different ones, and whom it has admitted is active or in `late`.
  The refinement needs `Chained` besides: a login that is not contended has at
  most one usable token, and the request that it was presented to is alone with
  it, so that a token which is revoked is the one that `LoginChain` calls the
  holder. Each kind of step has a lemma (`QuietSees`, `EndSees`, `TimeSees`,
  `PresentSees`, `LoginSees`, `RotateSees`) that names the abstract step it is.
* **Classroom** (with `Calendar`). `TypeCorrect`; `OneYear`, `OneBooking`,
  `AuditTrue`, `AttendanceStays`, `SubmissionsWhole`. Four arguments. Every year
  that a pending activation will not switch off has been stored since it looked
  (`YearsInv`); every slot that clashes with a row about to be written has been
  written since the check (`SlotsInv`). A session that is not contended has at
  most one worker (`OneWorker`), which finds it as it left it (`WorkerKnows`), and
  its audit rows are true between the statements too (`RoomInv`): that carries
  both the audit log and the attendance, because a cancellation that erases
  attendance still has the session before its beginning. Both leave out a session
  whose course or class was deleted (`Late`): a start that finds it gone is
  audited all the same. `MarksWhole` is inductive alone; it is about the students
  whose rows are there, since a deletion takes the marks of one student from
  every sheet.

Only model-checked: `EveryCycleCloses`, `ResetSlotsLeave` and `EventuallyServing`,
which are liveness under fairness. Every other property of a passing run is a
theorem; what `StatementsFit` and `SeedsStayConsistent` leave to TLC is said above.

## 6. What the code does not guarantee

Properties that look natural and were found *false* in the models. They are
recorded here so that nobody relies on them; the properties of the runs name
their exceptions accordingly.

Promotion
* A lecturer's confirmation that is written between the reset's mark and its
  deletion does not save the slot
  (`docs/timetable-promotion-integration-guide.md:71`: confirmed slots survive).
  The confirmation overwrites the mark: `reset` is not final, and the cycle may
  be `expired` with nothing reset.
* With two open cycles the later week's reset deletes the slot and unlinks the
  earlier week's sessions, which then wait for ever (the same guide, line 79).
* If the reset's cancellation fails, its deletion of the slot removes the link
  by which the repair looks for the sessions
  (`modules/promotion/application/promotion-scheduler.service.ts:126`).
* A trigger that overlaps the Sunday job inserts slot promotions into a cycle
  that the job closes: they stay pending in a closed cycle.
* Two server processes run the Sunday job at the same moment, without a lock: the
  second run of a cycle finds the marks of the first in place, had no resets itself
  and writes `completed` over `expired`, or the reverse
  (`promotion-scheduler.service.ts:66-79`, `promotion.repository.ts:106-121`).
* The Sunday job skips a school that is not active: its open cycles stay open.
* If the reset dies after a mark, the next run begins with `hadResets = false`
  and may call the cycle `completed`.
* A confirmation between the trigger's insert and its transition of the sessions
  leaves confirmed slots with waiting sessions.
* A trigger that dies after creating the cycle leaves an empty active cycle;
  repeating the request returns it as it is.
* Two concurrent triggers: one fails on the unique key with a server error,
  where the guide calls the request idempotent. A second cancellation returns
  200 where line 586 of the guide has 422.
* `weekStart` need not be a Monday; overlapping weeks are outside the model.

Enrollment
* A group receives a student by an approval of a request filed before the split
  (`docs/role-permissions-requirements.md:110`), and a sub-class can be split
  again (line 111): `splitClass` never looks at `parentClassId`.
* An approval that dies before its mark leaves the request of an enrolled student
  pending: approving it again logs the student once more, and it may be rejected.
* An approval and a rejection both find the request pending: a rejected request
  may have enrolled its student.
* Two requests for one class may be pending, two approvals may share the last
  seat, a class may be deleted just after it became a group, and a student who
  joins between the reading of the roster and the split stays in the group.
* Only approvals look at a capacity: `transferStudent` and the creation of a
  student take a class beyond it, also far beyond, and a capacity may be lowered
  below the number of students (`classes.service.ts:385-444`, `:63`).
* A rename between two overlapping splits lets both succeed: four sub-classes.
* `approveEnrollment` reads a student's previous class after overwriting it, so
  an approval logs a move from a class to itself.

Invitations, when two requests work on one
* A link submitted twice: one submission registers the account and is accepted,
  the other fails on the unique address and its rollback sets the invitation
  back to `pending` (`docs/class-and-staff-management-integration.md:663` calls
  it "Already used").
* A cancellation that read `pending` overwrites `accepted` (the same document,
  line 631: "Only works on `pending`").
* Even one at a time, an expired invitation that is sent again while a new one
  is pending gives two pending for one address and role, which the comment
  `modules/invitations/application/invitations.service.ts:121` means to prevent.
* A crash during a registration leaves `processing`, which only `resend` leaves.

Deployment
* Statements of documented endpoints name what the schema lacks (`BrokenNeeds`):
  columns that the attendance summary and the attendance trend read
  (`sessions.academic_year_id`, `attendance.service.ts:58` and `:83`), import
  statuses outside their enum, `audit_logs.created_at`, `organizations.status`.
* The `down` of migration 1 leaves five tables of permissions, so that the
  release can never start on that database again. Those of 9, 10, 13 and 21
  always fail and those of 3 and 6 are refused by foreign keys: of a released
  database only migrations 24, 23 and 22 can be reverted.
* Migrations that may run twice can be recorded twice by two containers; a
  revert then removes both records.
* A slow container may repeat migration 5 after the others are done. It is then
  the one recorded last, a revert drops the tables of permissions with everything
  that 12, 15 and 17 granted, and these stay recorded: nobody seeds them again.
  `SeedsConsistent` holds a migration's grants until it or an earlier one is
  reverted.
* A container that planned before the rename of `results` creates an empty
  `results` beside `academic_results`.
* A school created after the seeds gets its permissions from nobody: nothing
  emits the event `school.created` that `permissions.service.ts:92` waits for.
* `getMyClassOverview` lists sessions with status `in_progress`, which no row
  has, so that live sessions are not listed.

Access
* `changeRole`, `removeStaff`, `createInSchool` and `completeRegistration` do not
  delete the cached list, and no server is told of changes made on another: such
  lists are served until they expire. They expire after 300 milliseconds, not seconds
  (`app.module.ts:39`): the cache library changed the unit.
* A change that commits while a list is being put together deletes the entry
  before it is stored.
* Two overlapping `changeRole` leave both new roles. Removed staff keep their
  `user_permissions`, members removed from the school their roles, and
  `assignRole` does not ask for membership.

Tokens
* Two refreshes with one token both get a successor, and both stay usable
  (`docs/api_endpoints_for_integration.md:165`: the old one is invalidated).
* A handler that dies between storing and revoking leaves a row whose token
  nobody knows; a token that expires during its rotation is still replaced.
* `replaced_by` is never written, `revokeAllForUser` and `deleteExpired` are
  never called; deactivation and a new password leave the rows of a user usable
  but for the check of the account in `refresh`.

Calendar and Classroom
* Two activations or creations at a time can leave two active years; an update of
  an unknown year deactivates all and answers success (the check at
  `academic-years.service.ts:52` never fires).
* Two slots written at a time are not checked against each other, the conflict
  check ignores the academic year, and `updateSlotFields` has none. An update
  of a slot merges with the row as it was read, and overwrites what was
  committed since.
* `cancelSession` of a session that waits for confirmation deletes its
  attendance, changes nothing else, audits a cancellation and answers success
  (its check at line 214 never fires). A session that starts while a
  cancellation is under way loses its attendance.
* `bulkMark` does not ask for the session's status: cancelled sessions may have
  attendance.
* The sessions of a Sunday slot cannot be generated: `day_of_week` is checked to
  be 1 to 7 where `generateSessionsForSlot` compares with 0 to 6.
* Deleting a student, a course or a class takes attendance with it, also of live
  and completed sessions, and a student or a course the grades too: every foreign
  key on the way is `ON DELETE CASCADE`
  (`database/migrations/1714248000000-InitialSchema.ts:220-221`, `:251`, `:267-268`;
  for grades `1715165100000-ImplementAttendanceAndResults.ts:25-26`). Neither
  `students.service.ts:86` nor `courses.service.ts:69` nor `classes.service.ts:70`
  looks for sessions that have begun or writes an audit row.

## 7. Not modelled, and the plan

Not modelled inside the modelled components: reminders (rows nobody reads back);
the move of course assignments to sub-class A at a split; display queries;
departments, tokens as strings and the hierarchy of roles in invitations; the
half hour and time zone of the reset (its start is nondeterministic); the
catalog of permissions and dynamic roles, which `Access` has as a constant;
semesters, single statements whose dates are checked against a year that later
changes do not check again; time blocks of slots, geofences of sessions.

Writers that a module leaves out: the deletion of a course or a class takes slots
and sessions from under a running promotion, which `Classroom` has and `Promotion`
has not: its properties are about what the promotion and the handlers of slots and
sessions do. The deletion of a school or an organization, which takes everything
of it in one statement, is in no module.

Writers that a module leaves out: the deletion of a course or a class takes slots
and sessions from under a running promotion, which is in `Classroom` and not in
`Promotion`, whose properties are about what the promotion and the session
handlers do; `completeRegistration` gives a user a role and a membership, which is in
`Invitations` and in `Access` only as the assignment of a role; the deletion of a
school or an organization takes everything of it, in one statement.

Not modelled at all: reports, transcripts, organizations, profiles, specialties,
courses, departments, programs, venues and schedule configuration, which are
reads or single statements behind unique keys; import jobs, whose first
statement the schema rejects; guards and filters, which only refuse. Their
tables, entities and hand-written SQL are in `Migrations`, `Entities` and
`Queries`.

What could follow:

1. Composition of `Promotion` with `Classroom` over one `sessions` table, in place
   of the single actions that stand for each other now.
2. Semesters beside the years of `Calendar`, once something in the code relies on
   their nesting.

Runs are few on purpose: new questions take the place of the weakest ones.
