------------------------------- MODULE Entities -------------------------------
(***************************************************************************)
(* What the entities of the release ask of the database: the table and the *)
(* columns that the object mapper names in the statements it writes, and   *)
(* the values that the columns of an enumerated type are given.            *)
(***************************************************************************)
EXTENDS Schema

\* What a statement needs: columns of tables, and perhaps that a column may
\* hold some values.
Needs(tables) == [tables |-> tables, column |-> <<>>, values |-> {}]
NeedsValues(tables, t, c, values) == [tables |-> tables, column |-> <<t, c>>, values |-> values]

Uses(t, cols) == Needs(t :> cols)
Holds(t, c, values) == NeedsValues(t :> {c}, t, c, values)

Fits(need, db) ==
  /\ \A t \in DOMAIN need.tables : need.tables[t] \subseteq Columns(db, t)
  /\ need.values # {} => /\ need.column \in DOMAIN db.allowed
                         /\ need.values \subseteq db.allowed[need.column]

-----------------------------------------------------------------------------
(* The entities.                                                            *)

AcademicYear ==
  Uses("academic_years", {"id", "school_id", "name", "start_date", "end_date", "is_active"} \cup
       Stamps)

ClassEnrollmentRequest ==
  Uses("class_enrollment_requests", {"id", "school_id", "student_id", "class_id", "status",
       "requested_by", "reviewed_by", "reviewed_at", "notes"} \cup Stamps)

ClassTransferLog ==
  Uses("class_transfer_logs", {"id", "school_id", "student_id", "from_class_id", "to_class_id",
       "reason", "transferred_by", "transferred_at"})

ClassEntity ==
  Uses("classes", {"id", "school_id", "academic_year_id", "program_id", "specialty_id", "name",
       "level", "max_capacity", "parent_class_id", "is_group", "split_at"} \cup Stamps)

CourseAssignment ==
  Uses("course_assignments", {"id", "school_id", "course_id", "class_id", "lecturer_user_id",
       "academic_year_id"} \cup Stamps)

Course ==
  Uses("courses", {"id", "school_id", "department_id", "code", "title", "unit_load"} \cup Stamps)

Department == Uses("departments", {"id", "school_id", "code", "name"} \cup Stamps)

Program ==
  Uses("programs", {"id", "school_id", "department_id", "code", "name", "duration_years"} \cup
       Stamps)

Semester ==
  Uses("semesters", {"id", "academic_year_id", "name", "start_date", "end_date", "is_current"} \cup
       Stamps)

AttendanceRecord ==
  Uses("attendance_records", {"id", "school_id", "session_id", "student_id", "status", "marked_by",
       "marked_at"} \cup Stamps)

AuditLog ==
  Uses("audit_logs", {"id", "actor_user_id", "scope_organization_id", "scope_school_id", "action",
       "resource_type", "resource_id", "metadata", "occurred_at"})

RefreshToken ==
  Uses("refresh_tokens", {"id", "user_id", "token_hash", "expires_at", "revoked_at", "replaced_by",
       "created_at"})

ImportJob ==
  Uses("import_jobs", {"id", "school_id", "initiated_by", "type", "status", "source_file_url",
       "summary", "errors"} \cup Stamps)

StaffInvitation ==
  Uses("staff_invitations", {"id", "email", "school_id", "role", "department_id", "department_ids",
       "token", "status", "invited_by", "accepted_at", "expires_at"} \cup Stamps)

OrganizationMembership ==
  Uses("organization_memberships", {"id", "organization_id", "user_id", "role"} \cup Stamps)

Organization == Uses("organizations", {"id", "name", "code", "logo_url", "created_by"} \cup Stamps)

Profile == Uses("profiles", {"id", "full_name", "phone", "avatar_url"} \cup Stamps)

PromotionCycle ==
  Uses("promotion_cycles", {"id", "school_id", "week_start", "week_end", "triggered_by",
       "triggered_at", "status"} \cup Stamps)

PromotionReminder ==
  Uses("promotion_reminders", {"id", "promotion_cycle_id", "lecturer_user_id", "school_id",
       "is_read", "message", "sent_at", "created_at"})

SlotPromotion ==
  Uses("slot_promotions", {"id", "promotion_cycle_id", "timetable_slot_id", "lecturer_user_id",
       "school_id", "status", "confirmed_at", "reset_at"} \cup Stamps)

UserRoleAssignment ==
  Uses("user_roles", {"id", "user_id", "school_id", "role", "role_id", "department_id"} \cup Stamps)

SchoolMembership == Uses("school_memberships", {"id", "school_id", "user_id"} \cup Stamps)

School ==
  Uses("schools", {"id", "organization_id", "name", "code", "status", "address", "phone", "email",
       "website", "logo_url", "timezone", "session_duration_minutes", "late_threshold_minutes",
       "require_geo_checkin", "allow_late_checkin"} \cup Stamps)

Venue == Uses("venues", {"id", "school_id", "name", "latitude", "longitude"} \cup Stamps)

Session ==
  Uses("sessions", {"id", "school_id", "course_assignment_id", "timetable_slot_id",
       "scheduled_date", "status", "actual_start", "actual_end", "start_lat", "start_lng",
       "start_accuracy", "started_by", "ended_by", "cancellation_reason", "cancelled_by"} \cup
       Stamps)

ProgramLevel ==
  Uses("program_levels", {"id", "school_id", "program_id", "level", "name"} \cup Stamps)

Specialty == Uses("specialties", {"id", "school_id", "program_id", "code", "name"} \cup Stamps)

Student ==
  Uses("students", {"id", "school_id", "user_id", "matric_no", "class_id", "status",
       "rejection_reason"} \cup Stamps)

TimetableSlot ==
  Uses("timetable_slots", {"id", "school_id", "academic_year_id", "course_assignment_id",
       "day_of_week", "start_time", "end_time", "venue"} \cup Stamps)

User == Uses("users", {"id", "email", "password_hash", "is_active"} \cup Stamps)

-----------------------------------------------------------------------------
(* Their enumerated types.                                                  *)

SessionStatus ==
  Holds("sessions", "status", {"pending_confirmation", "scheduled", "live", "completed", "cancelled"})
EnrollmentRequestStatus == Holds("class_enrollment_requests", "status", {"pending", "approved", "rejected"})
AttendanceStatus == Holds("attendance_records", "status", {"present", "absent", "late", "excused"})
ImportJobStatus ==
  Holds("import_jobs", "status", {"created", "validating", "ready", "committing", "completed", "failed"})
SchoolStatus == Holds("schools", "status", {"active", "inactive"})
InvitationStatus ==
  Holds("staff_invitations", "status", {"pending", "processing", "accepted", "expired", "cancelled"})
PromotionCycleStatus == Holds("promotion_cycles", "status", {"active", "completed", "expired"})
SlotPromotionStatus == Holds("slot_promotions", "status", {"pending", "confirmed", "modified", "reset"})
UserRole == Holds("user_roles", "role", RoleNames)

EntityNeeds ==
  { AcademicYear, ClassEnrollmentRequest, ClassTransferLog, ClassEntity, CourseAssignment,
    Course, Department, Program, Semester, AttendanceRecord, AuditLog, RefreshToken, ImportJob,
    StaffInvitation, OrganizationMembership, Organization, Profile, PromotionCycle,
    PromotionReminder, SlotPromotion, UserRoleAssignment, SchoolMembership, School, Venue,
    Session, ProgramLevel, Specialty, Student, TimetableSlot, User, SessionStatus,
    EnrollmentRequestStatus, AttendanceStatus, ImportJobStatus, SchoolStatus, InvitationStatus,
    PromotionCycleStatus, SlotPromotionStatus, UserRole }

=============================================================================
