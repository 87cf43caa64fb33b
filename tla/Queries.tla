-------------------------------- MODULE Queries --------------------------------
(***************************************************************************)
(* What the statements written in SQL ask of the database: the columns of  *)
(* the tables they name and, of an enumerated type, the values.            *)
(***************************************************************************)
EXTENDS Entities

-----------------------------------------------------------------------------
(* Timetables.                                                              *)

ListSlots ==
  Needs([timetable_slots |-> {"id", "school_id", "academic_year_id", "course_assignment_id",
     "day_of_week", "start_time", "end_time", "venue"}, sessions |-> {"id", "timetable_slot_id",
     "scheduled_date", "status"}, course_assignments |-> {"id", "course_id", "class_id",
     "lecturer_user_id"}, courses |-> {"id", "code", "title"}, classes |-> {"id", "name",
     "delegate_student_id"}, users |-> {"id", "email"}, profiles |-> {"id", "full_name", "phone"},
     students |-> {"id", "user_id"}])

FindSlot ==
  Uses("timetable_slots", {"id", "school_id", "academic_year_id", "course_assignment_id",
     "day_of_week", "start_time", "end_time", "venue"})

CheckConflict ==
  Uses("timetable_slots", {"id", "school_id", "day_of_week", "venue", "start_time", "end_time"})

CreateSlot ==
  Uses("timetable_slots", {"id", "school_id", "academic_year_id", "course_assignment_id",
     "day_of_week", "start_time", "end_time", "venue"})

UpdateSlot ==
  Uses("timetable_slots", {"id", "school_id", "day_of_week", "start_time", "end_time", "venue",
     "updated_at"})

FindClassWithDelegate ==
  Needs([classes |-> {"id", "school_id", "name", "delegate_student_id"}, students |-> {"id",
     "user_id"}, users |-> {"id", "email"}, profiles |-> {"id", "full_name", "phone"}])

FindSlotsForClass ==
  Needs([timetable_slots |-> {"id", "school_id", "academic_year_id", "course_assignment_id",
     "day_of_week", "start_time", "end_time", "venue"}, course_assignments |-> {"id", "course_id",
     "class_id", "lecturer_user_id"}, courses |-> {"id", "code", "title"}, users |-> {"id", "email"},
     profiles |-> {"id", "full_name", "phone"}])

VerifyLecturerInClass == Uses("course_assignments", {"school_id", "class_id", "lecturer_user_id"})

VerifyStudentInClass == Uses("students", {"school_id", "class_id", "user_id"})

VerifyHodOverClass ==
  NeedsValues([course_assignments |-> {"school_id", "class_id", "course_id"}, courses |-> {"id",
     "department_id"}, user_roles |-> {"user_id", "school_id", "role", "department_id"}],
     "user_roles", "role", {"hod", "director"})

GetCourseAssignment ==
  Uses("course_assignments", {"id", "school_id", "class_id", "lecturer_user_id"})

SlotBelongsToClass ==
  Needs([timetable_slots |-> {"id", "school_id", "course_assignment_id"}, course_assignments |->
     {"id", "class_id"}])

CourseAssignmentScope ==
  NeedsValues([user_roles |-> {"user_id", "school_id", "role", "department_id"}, courses |->
     {"id", "department_id"}, course_assignments |-> {"course_id", "class_id", "lecturer_user_id"},
     students |-> {"id", "user_id", "school_id", "class_id"}, guardian_students |->
     {"guardian_user_id", "student_id"}], "user_roles", "role", {"hod", "director"})

GetTimeBlocks == Uses("school_time_blocks", {"id", "school_id", "label", "start_time", "end_time"})

GetScheduleDays == Uses("school_schedule_days", {"school_id", "day_of_week"})

AddTimeBlock == Uses("school_time_blocks", {"id", "school_id", "label", "start_time", "end_time"})

SetScheduleDays == Uses("school_schedule_days", {"school_id", "day_of_week"})

TimeBlockExists == Uses("school_time_blocks", {"school_id", "start_time", "end_time"})

-----------------------------------------------------------------------------
(* Students, staff and users.                                               *)

ListStudents ==
  Needs([students |-> {"id", "school_id", "user_id", "matric_no", "class_id", "status",
     "rejection_reason", "created_at"}, users |-> {"id", "email"}, profiles |-> {"id", "full_name",
     "avatar_url"}])

SearchStudents ==
  Needs([students |-> {"id", "school_id", "user_id", "matric_no", "class_id", "status",
     "rejection_reason", "created_at"}, users |-> {"id", "email"}, profiles |-> {"id", "full_name",
     "avatar_url"}, classes |-> {"id", "name", "level", "program_id"}])

FindStudent ==
  Needs([students |-> {"id", "school_id", "user_id", "matric_no", "class_id", "status",
     "rejection_reason", "created_at"}, users |-> {"id", "email"}, profiles |-> {"id", "full_name",
     "avatar_url"}])

FindStudentByMatricNo == Uses("students", {"id", "school_id", "matric_no"})

FindStudentByUser == Uses("students", {"id", "school_id", "user_id"})

CreateStudent ==
  NeedsValues([students |-> {"id", "school_id", "user_id", "matric_no", "class_id", "status"}],
     "students", "status", {"pending"})

UpdateStudentStatus ==
  NeedsValues([students |-> {"id", "status", "rejection_reason", "updated_at"}], "students",
     "status", {"pending", "approved", "rejected", "waitlisted"})

ListStaff ==
  Needs([users |-> {"id", "email", "is_active"}, profiles |-> {"id", "full_name", "avatar_url",
     "phone"}, school_memberships |-> {"user_id", "school_id", "created_at"}, user_roles |->
     {"user_id", "school_id", "role", "department_id"}, departments |-> {"id", "name"}])

GetStaffProfile ==
  Needs([users |-> {"id", "email", "is_active"}, profiles |-> {"id", "full_name", "avatar_url",
     "phone"}, school_memberships |-> {"user_id", "school_id", "created_at"}, user_roles |->
     {"user_id", "school_id", "role", "department_id"}, departments |-> {"id", "name"},
     course_assignments |-> {"id", "course_id", "class_id", "academic_year_id", "lecturer_user_id",
     "school_id"}, courses |-> {"id", "code", "title"}, classes |-> {"id", "name"}, academic_years
     |-> {"id", "name", "start_date"}, staff_invitations |-> {"id", "role", "status", "email",
     "school_id", "created_at", "accepted_at"}])

ListUsersBySchool ==
  Needs([users |-> {"id", "email", "is_active"}, profiles |-> {"id", "full_name", "avatar_url",
     "phone"}, school_memberships |-> {"user_id", "school_id", "created_at"}, user_roles |->
     {"user_id", "school_id", "role", "department_id"}])

SearchUsersInSchool ==
  Needs([users |-> {"id", "email", "is_active"}, profiles |-> {"id", "full_name", "avatar_url",
     "phone"}, school_memberships |-> {"user_id", "school_id", "created_at"}, user_roles |->
     {"user_id", "school_id", "role", "department_id"}])

GetUserInSchool ==
  Needs([users |-> {"id", "email", "is_active"}, profiles |-> {"id", "full_name", "avatar_url",
     "phone"}, school_memberships |-> {"user_id", "school_id", "created_at"}, user_roles |->
     {"user_id", "school_id", "role", "department_id"}])

ListGuardianStudents ==
  Needs([guardian_students |-> {"guardian_user_id", "student_id"}, students |-> {"id", "user_id",
     "school_id", "matric_no", "class_id"}, profiles |-> {"id", "full_name"}])

-----------------------------------------------------------------------------
(* Classes, courses, departments and years.                                 *)

MyClassOverview ==
  Needs([students |-> {"id", "user_id", "school_id", "class_id", "matric_no"}, users |-> {"id"},
     profiles |-> {"id", "full_name", "avatar_url"}, timetable_slots |-> {"id",
     "course_assignment_id", "day_of_week", "start_time", "end_time", "venue"}, course_assignments
     |-> {"id", "class_id", "course_id", "lecturer_user_id", "school_id"}, courses |-> {"id", "code",
     "title", "unit_load"}, sessions |-> {"id", "course_assignment_id", "scheduled_date", "status",
     "actual_start"}, attendance_records |-> {"session_id", "student_id", "status", "marked_at"},
     academic_results |-> {"student_id", "school_id", "course_id", "grade", "score"}])

FindCourses == Uses("courses", {"id", "school_id", "code", "title", "unit_load", "department_id"})

CreateCourse == Uses("courses", {"id", "school_id", "code", "title", "unit_load", "department_id"})

UpdateCourse ==
  Uses("courses", {"id", "school_id", "code", "title", "unit_load", "department_id",
     "updated_at"})

CreateAssignment ==
  Uses("course_assignments", {"id", "school_id", "course_id", "class_id", "lecturer_user_id",
     "academic_year_id"})

FindAssignments ==
  Uses("course_assignments", {"id", "school_id", "course_id", "class_id", "lecturer_user_id",
     "academic_year_id"})

FindDepartment == Uses("departments", {"id", "school_id", "code", "name"})

CreateDepartment == Uses("departments", {"id", "school_id", "code", "name"})

UpdateDepartment == Uses("departments", {"id", "school_id", "code", "name", "updated_at"})

FindYear ==
  Uses("academic_years", {"id", "school_id", "name", "start_date", "end_date", "is_active"})

CreateYear ==
  Uses("academic_years", {"id", "school_id", "name", "start_date", "end_date", "is_active"})

UpdateYear ==
  Uses("academic_years", {"id", "school_id", "name", "start_date", "end_date", "is_active",
     "updated_at"})

-----------------------------------------------------------------------------
(* Attendance, results and reports.                                         *)

ListBySession ==
  Needs([attendance_records |-> {"id", "session_id", "school_id", "student_id", "status",
     "marked_at"}, students |-> {"id", "user_id", "matric_no"}, profiles |-> {"id", "full_name"}])

ListByStudent ==
  Needs([attendance_records |-> {"id", "session_id", "school_id", "student_id", "status",
     "marked_at"}, sessions |-> {"id", "course_assignment_id", "scheduled_date"}, course_assignments
     |-> {"id", "course_id"}, courses |-> {"id", "code", "title"}])

UpsertAttendance ==
  Uses("attendance_records", {"id", "school_id", "session_id", "student_id", "status",
     "marked_by", "updated_at"})

UpsertResult ==
  Uses("academic_results", {"id", "school_id", "academic_year_id", "course_id", "student_id",
     "score", "grade", "recorded_by", "updated_at"})

FindResults ==
  Needs([academic_results |-> {"id", "student_id", "course_id", "academic_year_id", "score",
     "grade"}, courses |-> {"id", "code", "title", "unit_load"}])

VerifiableRecord ==
  Needs([academic_results |-> {"student_id", "school_id", "course_id", "academic_year_id",
     "grade", "score"}, courses |-> {"id", "code", "title", "unit_load"}, academic_years |-> {"id",
     "name", "start_date"}, attendance_records |-> {"student_id", "session_id", "status"}, sessions
     |-> {"id", "course_assignment_id"}, course_assignments |-> {"id", "course_id"}])

EnrollmentReport ==
  Needs([students |-> {"id", "school_id", "class_id", "status"}, classes |-> {"id", "program_id",
     "academic_year_id"}, programs |-> {"id", "department_id"}, departments |-> {"id", "name"}])

GeoComplianceReport ==
  Needs([sessions |-> {"id", "school_id", "course_assignment_id", "timetable_slot_id",
     "scheduled_date", "actual_start", "start_lat", "start_lng"}, course_assignments |-> {"id",
     "course_id", "lecturer_user_id"}, courses |-> {"id", "code", "title"}, profiles |-> {"id",
     "full_name"}, timetable_slots |-> {"id", "venue"}, audit_logs |-> {"resource_id", "action",
     "metadata"}])

-----------------------------------------------------------------------------
(* Promotion, venues and organizations.                                     *)

FindSchoolTimezones ==
  NeedsValues([schools |-> {"id", "timezone", "status"}], "schools", "status", {"active"})

FindActiveAcademicYear ==
  Uses("academic_years", {"id", "school_id", "start_date", "end_date", "is_active"})

FindActiveSlotsForSchool ==
  Needs([timetable_slots |-> {"id", "school_id", "academic_year_id", "course_assignment_id",
     "day_of_week"}, course_assignments |-> {"id", "lecturer_user_id"}])

SlotHasSessionsInWeek ==
  NeedsValues([sessions |-> {"timetable_slot_id", "scheduled_date", "status"}], "sessions",
     "status", {"scheduled", "pending_confirmation"})

FindOrphanedResets ==
  NeedsValues([slot_promotions |-> {"id", "promotion_cycle_id", "timetable_slot_id", "school_id",
     "status"}, promotion_cycles |-> {"id", "week_start", "week_end"}, timetable_slots |-> {"id"},
     sessions |-> {"timetable_slot_id", "status", "scheduled_date"}], "slot_promotions", "status",
     {"reset"})

ListCyclesForSchool ==
  NeedsValues([promotion_cycles |-> {"id", "school_id", "week_start", "week_end", "status",
     "triggered_at"}, slot_promotions |-> {"id", "promotion_cycle_id", "status"}], "slot_promotions",
     "status", {"pending", "confirmed", "modified", "reset"})

GetCycleDetail ==
  Needs([slot_promotions |-> {"id", "promotion_cycle_id", "timetable_slot_id", "lecturer_user_id",
     "school_id", "status", "confirmed_at", "reset_at"}, timetable_slots |-> {"id",
     "course_assignment_id", "day_of_week", "start_time", "end_time"}, course_assignments |-> {"id",
     "course_id"}, courses |-> {"id", "title"}, profiles |-> {"id", "full_name"}])

FindVenue == Uses("venues", {"id", "school_id", "name", "latitude", "longitude"})

CreateVenue == Uses("venues", {"id", "school_id", "name", "latitude", "longitude"})

UpdateVenue == Uses("venues", {"id", "school_id", "name", "latitude", "longitude", "updated_at"})

ListOrganizationsForUser ==
  Needs([organizations |-> {"id", "name", "code", "logo_url", "created_by", "created_at",
     "updated_at"}, organization_memberships |-> {"organization_id", "user_id", "role"}])

FindOrganizationForUser ==
  Needs([organizations |-> {"id", "name", "code", "logo_url", "created_by", "created_at",
     "updated_at"}, organization_memberships |-> {"organization_id", "user_id", "role"}])

-----------------------------------------------------------------------------
(* Roles and permissions.                                                   *)

ListUserRoles ==
  Needs([user_roles |-> {"user_id", "school_id", "role", "role_id"}, dynamic_roles |-> {"id",
     "name", "code"}, role_permissions |-> {"school_id", "role", "permission_id"}])

ListUserPermissions ==
  Needs([permissions |-> {"code"}, user_permissions |-> {"id", "user_id", "school_id",
     "permission_id"}, role_permissions |-> {"id", "school_id", "role", "permission_id"}, user_roles
     |-> {"id", "user_id", "school_id", "role"}])

ListUsersGlobal ==
  Needs([users |-> {"id", "email", "created_at"}, profiles |-> {"id", "full_name"}, user_roles |->
     {"user_id", "role"}])

ToggleSystemAdmin ==
  Needs([users |-> {"id", "email", "is_system_admin", "updated_at"}, audit_logs |->
     {"actor_user_id", "action", "resource_type", "resource_id", "metadata"}])

-----------------------------------------------------------------------------
(* Requests that ask for what the schema does not have.                     *)

AttendanceSummary ==
  Needs([students |-> {"id", "user_id", "school_id", "matric_no"}, profiles |-> {"id",
     "full_name"}, attendance_records |-> {"id", "student_id", "school_id", "session_id", "status"},
     sessions |-> {"id", "academic_year_id"}])

StudentSummary ==
  Needs([students |-> {"id", "school_id"}, attendance_records |-> {"id", "student_id",
     "school_id", "session_id", "status"}, sessions |-> {"id", "academic_year_id"}])

AttendanceTrendReport ==
  Needs([attendance_records |-> {"id", "school_id", "student_id", "session_id", "status"},
     sessions |-> {"id", "actual_start", "academic_year_id"}])

ListLogs ==
  Needs([audit_logs |-> {"id", "action", "resource_type", "resource_id", "created_at", "metadata",
     "actor_user_id", "scope_school_id"}, users |-> {"id", "email"}, profiles |-> {"id",
     "full_name"}])

CreateImportJob ==
  NeedsValues([import_jobs |-> {"id", "school_id", "initiated_by", "type", "source_file_url",
     "status"}], "import_jobs", "status", {"pending"})

ValidateImportJob ==
  NeedsValues([import_jobs |-> {"id", "status"}], "import_jobs", "status",
     {"awaiting_confirmation"})

CommitImportJob ==
  NeedsValues([import_jobs |-> {"id", "status", "updated_at"}], "import_jobs", "status",
     {"committed"})

CancelImportJob ==
  NeedsValues([import_jobs |-> {"id", "school_id", "status"}], "import_jobs", "status",
     {"committed"})

UpdateOrganizationStatus ==
  Needs([organizations |-> {"id", "name", "status", "updated_at"}, audit_logs |->
     {"actor_user_id", "action", "resource_type", "resource_id", "metadata"}])

SystemStats ==
  NeedsValues([users |-> {"id"}, organizations |-> {"status"}, schools |-> {"status"}, sessions
     |-> {"status"}], "schools", "status", {"deleted"})

-----------------------------------------------------------------------------
\* The statements of requests that work, and of those that never do.
QueryNeeds ==
  { ListSlots, FindSlot, CheckConflict, CreateSlot, UpdateSlot, FindClassWithDelegate,
    FindSlotsForClass, VerifyLecturerInClass, VerifyStudentInClass, VerifyHodOverClass,
    GetCourseAssignment, SlotBelongsToClass, CourseAssignmentScope, GetTimeBlocks,
    GetScheduleDays, AddTimeBlock, SetScheduleDays, TimeBlockExists, ListStudents,
    SearchStudents, FindStudent, FindStudentByMatricNo, FindStudentByUser, CreateStudent,
    UpdateStudentStatus, ListStaff, GetStaffProfile, ListUsersBySchool, SearchUsersInSchool,
    GetUserInSchool, ListGuardianStudents, MyClassOverview, FindCourses, CreateCourse,
    UpdateCourse, CreateAssignment, FindAssignments, FindDepartment, CreateDepartment,
    UpdateDepartment, FindYear, CreateYear, UpdateYear, ListBySession, ListByStudent,
    UpsertAttendance, UpsertResult, FindResults, VerifiableRecord, EnrollmentReport,
    GeoComplianceReport, FindSchoolTimezones, FindActiveAcademicYear, FindActiveSlotsForSchool,
    SlotHasSessionsInWeek, FindOrphanedResets, ListCyclesForSchool, GetCycleDetail, FindVenue,
    CreateVenue, UpdateVenue, ListOrganizationsForUser, FindOrganizationForUser, ListUserRoles,
    ListUserPermissions, ListUsersGlobal, ToggleSystemAdmin }

BrokenNeeds ==
  { AttendanceSummary, StudentSummary, AttendanceTrendReport, ListLogs, CreateImportJob,
    ValidateImportJob, CommitImportJob, CancelImportJob, UpdateOrganizationStatus, SystemStats }

=============================================================================
