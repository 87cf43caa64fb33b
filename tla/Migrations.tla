------------------------------ MODULE Migrations ------------------------------
(***************************************************************************)
(* The migrations of src/database/migrations in the order of their         *)
(* timestamps: what up and down of each do.                                *)
(***************************************************************************)
EXTENDS Schema

-----------------------------------------------------------------------------
(* Before the permission seeds.                                             *)

AddSpecialties ==
  << Create("specialties", {"school_id", "program_id", "code", "name"} \cup Stamps, {"schools", "programs"}),
     Create("program_levels", {"school_id", "program_id", "level", "name"} \cup Stamps, {"schools", "programs"}),
     NewColumns("classes", {"specialty_id"}) >>

DropSpecialties ==
  << DropColumns("classes", {"specialty_id"}), DropCascade("program_levels"), DropCascade("specialties") >>

AcademicFoundations ==
  << Ensure("academic_years", {"school_id", "name", "start_date", "end_date", "is_active", "created_at"},
       {"schools"}),
     Ensure("venues", {"school_id", "name", "latitude", "longitude", "created_at"}, {"schools"}),
     Ensure("courses", {"school_id", "department_id", "code", "title", "unit_load", "created_at"},
       {"schools", "departments"}),
     Ensure("course_assignments", {"school_id", "academic_year_id", "course_id", "class_id",
       "lecturer_user_id", "created_at"}, {"schools", "academic_years", "courses", "users"}),
     Ensure("timetable_slots", {"school_id", "course_assignment_id", "day_of_week", "start_time",
       "end_time", "venue", "created_at"}, {"schools", "course_assignments"}) >>

DropAcademicFoundations ==
  << Drop("timetable_slots"), Drop("course_assignments"), Drop("courses"), Drop("venues"), Drop("academic_years") >>

ExtendedColumns ==
  {"address", "phone", "email", "website", "logo_url", "timezone", "session_duration_minutes",
   "late_threshold_minutes", "require_geo_checkin", "allow_late_checkin"}

ExtendSchools ==
  << AddColumns("schools", ExtendedColumns),
     Name("schools", "chk_session_duration"), Name("schools", "chk_late_threshold") >>

UnextendSchools ==
  << Unname("schools", "chk_session_duration"), Unname("schools", "chk_late_threshold"),
     DropColumns("schools", ExtendedColumns) >>

PermissionTables ==
  << Ensure("permissions", {"code", "description", "created_at"}, {}),
     Ensure("dynamic_roles", {"school_id", "code", "name", "created_at"}, {"schools"}),
     Ensure("role_permissions", GrantColumns \cup {"created_at"}, {"schools", "permissions"}),
     Ensure("user_permissions", {"user_id", "school_id", "permission_id", "created_at"},
       {"users", "schools", "permissions"}) >>

DropPermissionTables ==
  << Drop("role_permissions"), Drop("user_permissions"), Drop("dynamic_roles"), Drop("permissions") >>

CoreTables ==
  << Ensure("programs", {"school_id", "department_id", "code", "name", "duration_years"} \cup Stamps,
       {"schools", "departments"}),
     Ensure("classes", {"school_id", "academic_year_id", "program_id", "name", "level", "created_at"},
       {"schools", "academic_years", "programs"}),
     Ensure("semesters", {"school_id", "academic_year_id", "name", "start_date", "end_date",
       "is_current", "created_at"}, {"schools", "academic_years"}),
     Ensure("import_jobs", {"school_id", "initiated_by", "type", "status", "source_file_url", "errors"}
       \cup Stamps, {"schools", "users"}),
     Ensure("sessions", {"school_id", "course_assignment_id", "timetable_slot_id", "scheduled_date",
       "status", "actual_start", "actual_end", "started_by", "ended_by", "start_lat", "start_lng",
       "start_accuracy", "created_at"}, {"schools", "course_assignments", "timetable_slots", "users"}),
     Ensure("audit_logs", {"actor_user_id", "scope_school_id", "action", "resource_type", "resource_id",
       "metadata", "created_at"}, {"users", "schools"}) >>

DropCoreTables ==
  << Drop("audit_logs"), Drop("sessions"), Drop("import_jobs"), Drop("semesters"), Drop("classes"), Drop("programs") >>

AttendanceAndResults ==
  << Ensure("attendance", {"session_id", "student_id", "status", "marked_at", "marked_by_user_id"},
       {"sessions", "students", "users"}),
     Ensure("results", {"school_id", "student_id", "course_id", "academic_year_id", "score", "grade",
       "metadata"} \cup Stamps, {"schools", "students", "courses", "academic_years"}) >>

DropAttendanceAndResults == << Drop("results"), Drop("attendance") >>

GuardiansAndInvitations ==
  << Ensure("guardian_students", {"guardian_user_id", "student_id", "school_id", "created_at"},
       {"users", "students", "schools"}),
     Ensure("invitations", {"school_id", "department_id", "email", "role", "status", "token",
       "expires_at", "created_at"}, {"schools", "departments"}) >>

DropGuardiansAndInvitations == << Drop("invitations"), Drop("guardian_students") >>

\* A text column cannot keep its foreign key to a uuid.
HealVenues == << Convert("venues", "school_id:text", "school_id") >>
UnhealVenues == << Impossible >>

HealedTables ==
  << "user_roles", "academic_years", "departments", "courses", "course_assignments", "classes",
     "students", "timetable_slots", "sessions", "invitations", "dynamic_roles",
     "user_permissions", "role_permissions", "venues" >>

HealSchoolIds ==
  [i \in DOMAIN HealedTables |-> Convert(HealedTables[i], "school_id:text", "school_id")]
  \o << Convert("audit_logs", "scope_school_id:text", "scope_school_id") >>

UnhealSchoolIds == << Impossible >>

-----------------------------------------------------------------------------
(* The seeds of the permission catalog and of the permissions of roles.     *)

BackendCodes ==
  {"reports:export", "attendance:mark", "sessions:manage", "timetable:manage",
   "department:create", "department:read", "department:update", "department:delete",
   "course:create", "course:read", "course:update", "course:delete", "program:create",
   "program:read", "program:update", "program:delete", "class:create", "class:read",
   "class:update", "class:delete", "semester:create", "semester:read", "semester:update",
   "organization:update", "organization:delete", "student:attendance:summary:read",
   "school:attendance:summary:read", "report:enrollment:read", "report:attendance:read",
   "report:geo-compliance:read", "venue:create", "venue:read", "venue:update", "venue:delete",
   "invitation:create", "invitation:read", "invitation:delete", "school:create", "school:read",
   "school:update", "school:delete", "school:logo:upload", "school:logo:delete",
   "system:organization:read", "system:organization:update", "system:organization:delete",
   "system:user:read", "system:user:update", "system:stats:read", "permission:read:self",
   "user:read", "user:create", "user:update", "user:delete", "user:password:reset",
   "user:role:read", "user:role:assign", "user:role:revoke", "permission:catalog:read",
   "permission:create", "user:permission:assign", "user:permission:revoke", "role:catalog:read",
   "role:create", "permission:bulk-assign-role", "academic-year:create", "academic-year:read",
   "academic-year:update", "timetable:slot:create", "timetable:slot:read",
   "timetable:slot:update", "timetable:slot:delete", "session:create", "session:read",
   "session:start", "session:end", "attendance:record:read", "attendance:student:read",
   "attendance:record:create", "attendance:record:bulk-create", "result:bulk:create",
   "result:student:read", "import:job:read", "import:job:create", "import:job:commit",
   "import:job:delete", "audit:log:read"}

BackendDefaults == [
  admin |-> {"user:read", "user:create", "user:update", "user:delete", "school:read",
   "school:update", "academic-year:read", "academic-year:create", "academic-year:update",
   "department:read", "department:create", "department:update", "course:read", "course:create",
   "course:update", "class:read", "class:create", "class:update", "invitation:read",
   "invitation:create", "invitation:delete", "venue:read", "venue:create", "venue:update",
   "import:job:read", "import:job:create", "audit:log:read", "report:attendance:read",
   "report:enrollment:read"},
  lecturer |-> {"session:read", "session:start", "session:end", "attendance:mark",
   "attendance:record:read", "attendance:record:bulk-create", "timetable:slot:read",
   "course:read", "venue:read", "result:bulk:create", "student:attendance:summary:read"},
  hod |-> {"department:read", "department:update", "course:read", "course:update", "program:read",
   "program:update", "timetable:manage", "timetable:slot:read", "session:read",
   "attendance:record:read", "student:attendance:summary:read"},
  student |-> {"timetable:slot:read", "session:read", "attendance:student:read",
   "result:student:read", "permission:read:self"},
  exam_officer |-> {"result:bulk:create", "result:student:read", "course:read", "class:read",
   "academic-year:read"} ]

FrontendCodes ==
  {"manage:organization", "manage:schools", "manage:users", "manage:billing", "view:analytics",
   "view:all-data", "manage:timetables", "manage:rooms", "manage:schedules",
   "manage:student-records", "view:reports", "manage:announcements", "manage:school",
   "manage:departments", "manage:staff", "view:school-analytics", "view:all-school-data",
   "manage:department", "manage:courses", "manage:lecturers", "approve:timetables",
   "view:department-analytics", "manage:sessions", "start:session", "end:session",
   "mark:attendance", "view:class-roster", "manage:course-materials", "view:timetable",
   "view:attendance", "view:grades", "view:course-materials", "join:session",
   "view:linked-students", "view:student-attendance", "view:student-grades",
   "receive:notifications", "view:public-info", "view:announcements", "manage:imports",
   "view:student-records"}

FrontendDefaults == [
  owner |-> {"manage:organization", "manage:schools", "manage:users", "manage:billing",
   "view:analytics", "view:all-data", "manage:school", "manage:departments", "manage:staff",
   "manage:timetables", "manage:rooms", "view:school-analytics", "view:all-school-data",
   "manage:schedules", "manage:student-records", "view:reports", "manage:announcements",
   "manage:department", "manage:courses", "manage:lecturers", "approve:timetables",
   "view:department-analytics", "manage:sessions", "start:session", "end:session",
   "mark:attendance", "view:class-roster", "manage:course-materials", "view:timetable",
   "view:attendance", "view:grades", "view:course-materials", "view:linked-students",
   "view:student-attendance", "view:student-grades", "view:public-info", "view:announcements",
   "manage:imports", "view:student-records"},
  admin |-> {"manage:timetables", "manage:rooms", "manage:schedules", "manage:student-records",
   "view:reports", "manage:announcements", "manage:school", "manage:departments", "manage:staff",
   "view:school-analytics", "manage:courses", "manage:imports", "view:student-records",
   "view:student-grades"},
  director |-> {"manage:school", "manage:departments", "manage:staff", "manage:timetables",
   "manage:rooms", "view:school-analytics", "view:all-school-data", "manage:courses",
   "view:student-records", "view:student-grades", "view:reports"},
  hod |-> {"manage:department", "manage:courses", "manage:lecturers", "approve:timetables",
   "view:department-analytics", "view:student-grades"},
  lecturer |-> {"manage:sessions", "start:session", "end:session", "mark:attendance",
   "view:class-roster", "manage:course-materials"},
  student |-> {"view:timetable", "view:attendance", "view:grades", "view:course-materials",
   "join:session"},
  guardian |-> {"view:linked-students", "view:student-attendance", "view:student-grades",
   "receive:notifications"},
  follower |-> {"view:public-info", "view:announcements"} ]

ClassCodes ==
  {"manage:classes", "view:classmates", "manage:enrollments"}

ClassDefaults == [
  owner |-> {"manage:classes", "view:classmates", "manage:enrollments"},
  admin |-> {"manage:classes", "view:classmates", "manage:enrollments"},
  director |-> {"manage:classes", "view:classmates", "manage:enrollments"},
  hod |-> {"manage:classes", "view:classmates"},
  lecturer |-> {"view:classmates"},
  student |-> {"view:classmates"} ]

SeedInitialPermissions == << Catalog(BackendCodes) >>
SeedDefaultRolePermissions == << Grant(BackendDefaults) >>
SeedClassPermissions == << Catalog(ClassCodes), Grant(ClassDefaults) >>

-----------------------------------------------------------------------------
(* Later migrations.                                                        *)

HealMemberships == << Convert("school_memberships", "school_id:text", "school_id") >>
UnhealMemberships == << Impossible >>

AddIsSystemAdmin == << AddColumns("users", {"is_system_admin"}) >>
DropIsSystemAdmin == << DropColumns("users", {"is_system_admin"}) >>

(* Some databases link role_permissions to roles and permissions by uuid.   *)
RestructureRolePermissions ==
  << AddColumns("role_permissions", {"school_id", "role", "permission_code"}),
     DropColumns("role_permissions", {"role_id", "permission_id:uuid"}),
     Convert("role_permissions", "permission_code", "permission_id"),
     Name("role_permissions", "fk_role_permissions_school"),
     Name("role_permissions", "uq_role_permissions") >>

RestructureUserPermissions ==
  << AddColumns("user_permissions", {"permission_code"}),
     DropColumns("user_permissions", {"permission_id:uuid"}),
     Convert("user_permissions", "permission_code", "permission_id"),
     Name("user_permissions", "uq_user_permissions") >>

\* Mutant: the tables of the other databases are left as they are.
SeedFrontendOnly(db) == << Catalog(FrontendCodes), Grant(FrontendDefaults) >>

SeedFrontend(db) ==
     (IF "school_id" \in Columns(db, "role_permissions") THEN <<>> ELSE RestructureRolePermissions)
  \o (IF "permission_id:uuid" \in Columns(db, "user_permissions") THEN RestructureUserPermissions ELSE <<>>)
  \o << Catalog(FrontendCodes), Grant(FrontendDefaults) >>

UnseedFrontend == << Uncatalog(FrontendCodes) >>

RoleIdColumns == {"role_id", "updated_at"}
AddRoleId == << AddColumns("user_roles", RoleIdColumns) >>
DropRoleId == << DropColumns("user_roles", RoleIdColumns) >>

GroupColumns == {"max_capacity", "parent_class_id", "is_group", "split_at", "updated_at"}

ClassManagement ==
  << AddColumns("classes", GroupColumns),
     Ensure("class_enrollment_requests", {"school_id", "student_id", "class_id", "status", "requested_by",
       "reviewed_by", "reviewed_at", "notes"} \cup Stamps, {"schools", "students", "classes", "users"}),
     Allow("class_enrollment_requests", "status", {"pending", "approved", "rejected"}),
     Ensure("class_transfer_logs", {"school_id", "student_id", "from_class_id", "to_class_id", "reason",
       "transferred_by", "transferred_at"}, {"schools", "students", "classes", "users"}) >>
  \o SeedClassPermissions

UndoClassManagement ==
  << Uncatalog(ClassCodes), DropCascade("class_transfer_logs"),
     DropCascade("class_enrollment_requests"), DropColumns("classes", GroupColumns) >>

AddDepartmentIds == << AddColumns("staff_invitations", {"department_ids"}) >>
DropDepartmentIds == << DropColumns("staff_invitations", {"department_ids"}) >>

SupportVenues ==
  << AddColumns("venues", {"updated_at"}), AddColumns("timetable_slots", {"academic_year_id", "updated_at"}) >>

UnsupportVenues ==
  << DropColumns("timetable_slots", {"academic_year_id", "updated_at"}), DropColumns("venues", {"updated_at"}) >>

AddCancellation == << AddColumns("sessions", {"cancellation_reason", "cancelled_by"}) >>
DropCancellation == << DropColumns("sessions", {"cancellation_reason", "cancelled_by"}) >>

PromotionTables ==
  << Unname("sessions", "chk_session_status"), Name("sessions", "chk_session_status"),
     Allow("sessions", "status", {"pending_confirmation", "scheduled", "live", "completed", "cancelled"}),
     Name("type", "promotion_cycle_status_enum"), Name("type", "slot_promotion_status_enum"),
     Create("promotion_cycles", {"school_id", "week_start", "week_end", "triggered_by", "triggered_at",
       "status"} \cup Stamps, {"schools", "users"}),
     Allow("promotion_cycles", "status", {"active", "completed", "expired"}),
     Create("slot_promotions", {"promotion_cycle_id", "timetable_slot_id", "lecturer_user_id", "school_id",
       "status", "confirmed_at", "reset_at"} \cup Stamps, {"promotion_cycles"}),
     Allow("slot_promotions", "status", {"pending", "confirmed", "modified", "reset"}),
     Create("promotion_reminders", {"promotion_cycle_id", "lecturer_user_id", "school_id", "is_read",
       "message", "sent_at", "created_at"}, {"promotion_cycles"}) >>

\* The restored enum has no "live" for the restored check to name.
DropPromotionTables == << Impossible >>

AddStudentStatus ==
  << AddColumns("students", {"status", "rejection_reason"}), Name("students", "chk_student_status"),
     Allow("students", "status", {"pending", "approved", "rejected", "waitlisted"}) >>

DropStudentStatus ==
  << Unname("students", "chk_student_status"), DropColumns("students", {"rejection_reason", "status"}) >>

RenameResults == << RenameTable("results", "academic_results"), AddColumns("academic_results", {"recorded_by"}) >>

UnrenameResults == << DropColumns("academic_results", {"recorded_by"}), RenameTable("academic_results", "results") >>

DelegateAndSchedule ==
  << AddColumns("classes", {"delegate_student_id"}),
     [Create("school_schedule_days", {"school_id", "day_of_week"}, {"schools"}) EXCEPT !.cols = @ \ {"id"}],
     Create("school_time_blocks", {"school_id", "label", "start_time", "end_time", "created_at"}, {"schools"}) >>

DropDelegateAndSchedule ==
  << Drop("school_time_blocks"), Drop("school_schedule_days"), DropColumns("classes", {"delegate_student_id"}) >>

-----------------------------------------------------------------------------
Count == 24

Ups(db) ==
  << InitialSchema, AddSpecialties, AcademicFoundations, ExtendSchools, PermissionTables,
     CoreTables, AttendanceAndResults, GuardiansAndInvitations, HealVenues, HealSchoolIds,
     SeedInitialPermissions, SeedDefaultRolePermissions, HealMemberships, AddIsSystemAdmin,
     SeedFrontend(db), AddRoleId, ClassManagement, AddDepartmentIds, SupportVenues,
     AddCancellation, PromotionTables, AddStudentStatus, RenameResults, DelegateAndSchedule >>

Downs ==
  << DropInitialSchema, DropSpecialties, DropAcademicFoundations, UnextendSchools,
     DropPermissionTables, DropCoreTables, DropAttendanceAndResults, DropGuardiansAndInvitations,
     UnhealVenues, UnhealSchoolIds, <<>>, <<>>, UnhealMemberships, DropIsSystemAdmin,
     UnseedFrontend, DropRoleId, UndoClassManagement, DropDepartmentIds, UnsupportVenues,
     DropCancellation, DropPromotionTables, DropStudentStatus, UnrenameResults,
     DropDelegateAndSchedule >>

Up(m, db) == Transaction(db, Ups(db)[m])
Down(m, db) == Transaction(db, Downs[m])

=============================================================================
