-------------------------------- MODULE Schema --------------------------------
(***************************************************************************)
(* The PostgreSQL schema as the migrations see it: the statements they are *)
(* made of, what each does to the database or why it refuses, and the      *)
(* tables of the first migration.                                          *)
(*                                                                         *)
(* Of a table only its columns and the tables it refers to are kept, of a  *)
(* column its name (and its type where migrations disagree about it, as in *)
(* "school_id:text"), of the rows the schools, the permission catalog and  *)
(* the permissions of roles.  Indexes and triggers live and die with their *)
(* table and are left out, except where a statement depends on one.        *)
(***************************************************************************)
EXTENDS Naturals, SequencesExt

Stamps == {"created_at", "updated_at"}

(* What is in a database before the first migration.                        *)
EmptyDatabase ==
  [ tables  |-> <<>>,  \* tables[t]: its columns and the tables it refers to
    names   |-> {},    \* <<owner, name>> of types, constraints, indexes
    allowed |-> <<>>,  \* allowed[<<t, c>>]: values of an enumerated column
    codes   |-> {},    \* rows of permissions
    schools |-> {},    \* rows of schools
    grants  |-> {} ]   \* rows of role_permissions: <<school, role, code>>

-----------------------------------------------------------------------------
(* Statements.                                                              *)

\* CREATE TABLE, and CREATE TABLE IF NOT EXISTS.
Create(t, cols, refs) == [kind |-> "create", table |-> t, cols |-> cols \cup {"id"}, refs |-> refs]
Ensure(t, cols, refs) == [kind |-> "ensure", table |-> t, cols |-> cols \cup {"id"}, refs |-> refs]

\* DROP TABLE IF EXISTS, without and with CASCADE.
Drop(t) == [kind |-> "drop", table |-> t]
DropCascade(t) == [kind |-> "drop cascade", table |-> t]

RenameTable(t, u) == [kind |-> "rename", table |-> t, to |-> u]

\* ADD COLUMN, ADD COLUMN IF NOT EXISTS, DROP COLUMN IF EXISTS.
NewColumns(t, cols) == [kind |-> "new columns", table |-> t, cols |-> cols]
AddColumns(t, cols) == [kind |-> "add columns", table |-> t, cols |-> cols]
DropColumns(t, cols) == [kind |-> "drop columns", table |-> t, cols |-> cols]

\* If the column is of the first type (or name), make it the second.
Convert(t, c, d) == [kind |-> "convert", table |-> t, col |-> c, to |-> d]

\* CREATE TYPE or ADD CONSTRAINT, which have no IF NOT EXISTS, and their drop.
Name(owner, name) == [kind |-> "name", name |-> <<owner, name>>]
Unname(owner, name) == [kind |-> "unname", name |-> <<owner, name>>]

\* The type or check that a column has from now on.
Allow(t, c, values) == [kind |-> "allow", column |-> <<t, c>>, values |-> values]

\* INSERT INTO permissions ... ON CONFLICT DO NOTHING, DELETE of both tables.
Catalog(codes) == [kind |-> "catalog", codes |-> codes]
Uncatalog(codes) == [kind |-> "uncatalog", codes |-> codes]

\* For every school there is, INSERT INTO role_permissions.
Grant(mapping) == [kind |-> "grant", mapping |-> mapping]

\* A statement that cannot succeed.
Impossible == [kind |-> "impossible"]

-----------------------------------------------------------------------------
(* What a statement refuses and what it does.                               *)

Tables(db) == DOMAIN db.tables

Columns(db, t) == IF t \in Tables(db) THEN db.tables[t].cols ELSE {}

MappedCodes(mapping) == UNION {mapping[r] : r \in DOMAIN mapping}

\* Foreign keys of other tables keep a table from being dropped.
Referrers(db, t) == {u \in Tables(db) \ {t} : t \in db.tables[u].refs}

GrantColumns == {"school_id", "role", "permission_id"}

Refuses(db, s) ==
  CASE s.kind = "create" -> s.table \in Tables(db) \/ ~(s.refs \subseteq Tables(db) \cup {s.table})
    [] s.kind = "ensure" -> s.table \notin Tables(db) /\ ~(s.refs \subseteq Tables(db) \cup {s.table})
    [] s.kind = "drop" -> Referrers(db, s.table) # {}
    [] s.kind = "rename" -> s.table \in Tables(db) /\ s.to \in Tables(db)
    [] s.kind = "new columns" -> s.table \notin Tables(db) \/ s.cols \cap Columns(db, s.table) # {}
    [] s.kind \in {"add columns", "drop columns"} -> s.table \notin Tables(db)
    [] s.kind = "name" -> s.name \in db.names
    [] s.kind = "allow" -> s.column[1] \notin Tables(db)
    [] s.kind \in {"catalog", "uncatalog"} -> "permissions" \notin Tables(db)
    [] s.kind = "grant" -> db.schools # {} /\ ~( /\ GrantColumns \subseteq Columns(db, "role_permissions")
                                                 /\ MappedCodes(s.mapping) \subseteq db.codes )
    [] s.kind = "impossible" -> TRUE
    [] OTHER -> FALSE

WithColumns(db, t, cols) == [db EXCEPT !.tables[t].cols = cols]

\* The rows that go with a table.
Without(db, t) ==
  [db EXCEPT !.tables = [u \in Tables(db) \ {t} |-> [@[u] EXCEPT !.refs = @ \ {t}]],
             !.names = {n \in @ : n[1] # t},
             !.codes = IF t = "permissions" THEN {} ELSE @,
             !.schools = IF t = "schools" THEN {} ELSE @,
             !.grants = IF t = "role_permissions" THEN {} ELSE @]

Created(db, s) ==
  IF s.table \in Tables(db) THEN db
  ELSE [db EXCEPT !.tables = @ @@ (s.table :> [cols |-> s.cols, refs |-> s.refs])]

Renamed(db, t, u) ==
  IF t \notin Tables(db) THEN db
  ELSE [db EXCEPT !.tables = [v \in (Tables(db) \ {t}) \cup {u} |-> IF v = u THEN @[t] ELSE @[v]]]

Effect(db, s) ==
  CASE s.kind \in {"create", "ensure"} -> Created(db, s)
    [] s.kind \in {"drop", "drop cascade"} -> Without(db, s.table)
    [] s.kind = "rename" -> Renamed(db, s.table, s.to)
    [] s.kind \in {"new columns", "add columns"} -> WithColumns(db, s.table, Columns(db, s.table) \cup s.cols)
    [] s.kind = "drop columns" -> WithColumns(db, s.table, Columns(db, s.table) \ s.cols)
    [] s.kind = "convert" ->
         IF s.col \in Columns(db, s.table)
         THEN WithColumns(db, s.table, (Columns(db, s.table) \ {s.col}) \cup {s.to})
         ELSE db
    [] s.kind = "name" -> [db EXCEPT !.names = @ \cup {s.name}]
    [] s.kind = "unname" -> [db EXCEPT !.names = @ \ {s.name}]
    [] s.kind = "allow" -> [db EXCEPT !.allowed = (s.column :> s.values) @@ @]
    [] s.kind = "catalog" -> [db EXCEPT !.codes = @ \cup s.codes]
    [] s.kind = "uncatalog" -> [db EXCEPT !.codes = @ \ s.codes, !.grants = {g \in @ : g[3] \notin s.codes}]
    [] s.kind = "grant" ->
         [db EXCEPT !.grants = @ \cup UNION { {<<school, r, c>> : c \in s.mapping[r]} :
                                              school \in db.schools, r \in DOMAIN s.mapping }]

(* A migration is one transaction: the set of the databases it can leave,   *)
(* which is empty when one of its statements is refused.                    *)
Step(dbs, s) == {Effect(d, s) : d \in {d \in dbs : ~Refuses(d, s)}}

Transaction(db, statements) == FoldLeft(Step, {db}, statements)

-----------------------------------------------------------------------------
(* The first migration: its types and tables.                               *)

RoleNames == {"owner", "admin", "director", "hod", "lecturer", "student", "guardian", "follower"}

CreateTypes ==
  [i \in 1..7 |-> Name("type", <<"membership_role", "user_role", "school_status", "invitation_status",
                                 "session_status", "attendance_status", "import_job_status">>[i])]

TypedColumns ==
  << Allow("user_roles", "role", RoleNames),
     Allow("staff_invitations", "role", RoleNames),
     Allow("schools", "status", {"active", "inactive"}),
     Allow("staff_invitations", "status", {"pending", "processing", "accepted", "expired", "cancelled"}),
     Allow("sessions", "status", {"scheduled", "in_progress", "completed", "cancelled"}),
     Allow("attendance_records", "status", {"present", "absent", "late", "excused"}),
     Allow("import_jobs", "status", {"created", "validating", "ready", "committing", "completed", "failed"}) >>

CreateUsers == Create("users", {"email", "password_hash", "is_active"} \cup Stamps, {})
CreateProfiles == Create("profiles", {"full_name", "phone", "avatar_url"} \cup Stamps, {"users"})
CreateOrganizations ==
  Create("organizations", {"name", "code", "logo_url", "created_by"} \cup Stamps,
    {"users"})
CreateOrganizationMemberships ==
  Create("organization_memberships", {"organization_id", "user_id", "role"} \cup Stamps,
    {"organizations", "users"})
CreateSchools ==
  Create("schools", {"organization_id", "name", "code", "status"} \cup Stamps,
    {"organizations"})
CreateSchoolMemberships ==
  Create("school_memberships", {"school_id", "user_id"} \cup Stamps,
    {"schools", "users"})
CreateUserRoles ==
  Create("user_roles", {"user_id", "school_id", "role", "role_id", "department_id"} \cup Stamps,
    {"users", "schools"})
CreateAcademicYears ==
  Create("academic_years", {"school_id", "name", "start_date", "end_date", "is_active"} \cup
     Stamps,
    {"schools"})
CreateSemesters ==
  Create("semesters", {"academic_year_id", "name", "start_date", "end_date", "is_current"} \cup
     Stamps,
    {"academic_years"})
CreateDepartments == Create("departments", {"school_id", "code", "name"} \cup Stamps, {"schools"})
CreatePrograms ==
  Create("programs", {"school_id", "department_id", "code", "name", "duration_years"} \cup Stamps,
    {"schools", "departments"})
CreateCourses ==
  Create("courses", {"school_id", "department_id", "code", "title", "unit_load"} \cup Stamps,
    {"schools", "departments"})
CreateClasses ==
  Create("classes", {"school_id", "academic_year_id", "program_id", "name", "level"} \cup Stamps,
    {"schools", "academic_years", "programs"})
CreateStudents ==
  Create("students", {"school_id", "user_id", "matric_no", "class_id"} \cup Stamps,
    {"schools", "users", "classes"})
CreateCourseAssignments ==
  Create("course_assignments", {"school_id", "course_id", "class_id", "lecturer_user_id",
     "academic_year_id"} \cup Stamps,
    {"schools", "courses", "classes", "users", "academic_years"})
CreateTimetableSlots ==
  Create("timetable_slots", {"school_id", "academic_year_id", "course_assignment_id",
     "day_of_week", "start_time", "end_time", "venue"} \cup Stamps,
    {"schools", "academic_years", "course_assignments"})
CreateSessions ==
  Create("sessions", {"school_id", "course_assignment_id", "timetable_slot_id",
     "scheduled_date", "status", "actual_start", "actual_end", "start_lat", "start_lng",
     "start_accuracy", "started_by", "ended_by"} \cup Stamps,
    {"schools", "course_assignments", "timetable_slots", "users"})
CreateAttendanceRecords ==
  Create("attendance_records", {"school_id", "session_id", "student_id", "status", "marked_by",
     "marked_at"} \cup Stamps,
    {"schools", "sessions", "students", "users"})
CreateRefreshTokens ==
  Create("refresh_tokens", {"user_id", "token_hash", "expires_at", "revoked_at", "replaced_by",
     "created_at"},
    {"users", "refresh_tokens"})
CreateStaffInvitations ==
  Create("staff_invitations", {"email", "school_id", "role", "department_id", "token", "status",
     "invited_by", "accepted_at", "expires_at"} \cup Stamps,
    {"schools", "departments", "users"})
CreateImportJobs ==
  Create("import_jobs", {"school_id", "initiated_by", "type", "status", "source_file_url",
     "summary", "errors"} \cup Stamps,
    {"schools", "users"})
CreatePermissions == Create("permissions", {"code", "description", "created_at"}, {})
CreateDynamicRoles ==
  Create("dynamic_roles", {"school_id", "code", "name", "created_at"},
    {"schools"})
CreateRoles ==
  Create("roles", {"school_id", "code", "name", "is_system"} \cup Stamps,
    {"schools"})
CreateRolePermissions ==
  Create("role_permissions", {"school_id", "role", "permission_id", "created_at"},
    {"schools", "permissions"})
CreateUserPermissions ==
  Create("user_permissions", {"user_id", "school_id", "permission_id", "created_at"},
    {"users", "schools", "permissions"})
CreateAuditLogs ==
  Create("audit_logs", {"actor_user_id", "scope_organization_id", "scope_school_id", "action",
     "resource_type", "resource_id", "metadata", "occurred_at"},
    {"users", "organizations", "schools"})

InitialSchema ==
  CreateTypes \o
  << CreateUsers, CreateProfiles, CreateOrganizations, CreateOrganizationMemberships,
     CreateSchools, CreateSchoolMemberships, CreateUserRoles, CreateAcademicYears,
     CreateSemesters, CreateDepartments, CreatePrograms, CreateCourses, CreateClasses,
     CreateStudents, CreateCourseAssignments, CreateTimetableSlots, CreateSessions,
     CreateAttendanceRecords, CreateRefreshTokens, CreateStaffInvitations, CreateImportJobs,
     CreatePermissions, CreateDynamicRoles, CreateRoles, CreateRolePermissions,
     CreateUserPermissions, CreateAuditLogs >>
  \o TypedColumns

\* down leaves the five tables of roles and permissions behind.
DropInitialSchema ==
  [i \in 1..22 |-> DropCascade(<<
     "audit_logs", "import_jobs", "staff_invitations", "refresh_tokens", "attendance_records",
     "sessions", "timetable_slots", "course_assignments", "students", "classes", "courses",
     "programs", "departments", "semesters", "academic_years", "user_roles",
     "school_memberships", "schools", "organization_memberships", "organizations", "profiles",
     "users">>[i])]
  \o [i \in 1..7 |-> Unname("type", CreateTypes[i].name[2])]

=============================================================================
