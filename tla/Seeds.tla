--------------------------------- MODULE Seeds ---------------------------------
(***************************************************************************)
(* The seed scripts that an operator runs after the migrations, and the    *)
(* permissions that the application means to give to a new school.         *)
(***************************************************************************)
EXTENDS Queries

(* seed.ts: one organization with one school.                               *)

DemoSchool == "IUT-YDE-01"

SeedNeeds ==
  { Uses("users", {"email", "password_hash", "is_active"}), Uses("profiles", {"id", "full_name", "phone"}),
    Uses("organizations", {"name", "code", "created_by"}),
    Uses("organization_memberships", {"organization_id", "user_id", "role"}),
    NeedsValues([schools |-> {"organization_id", "name", "code", "status"}], "schools", "status", {"active"}),
    Uses("school_memberships", {"school_id", "user_id"}), Uses("departments", {"school_id", "code", "name"}),
    NeedsValues([user_roles |-> {"user_id", "school_id", "role", "department_id"}], "user_roles", "role", RoleNames),
    Uses("programs", {"school_id", "department_id", "code", "name", "duration_years"}),
    Uses("specialties", {"school_id", "program_id", "code", "name"}),
    Uses("program_levels", {"school_id", "program_id", "level", "name"}),
    Uses("academic_years", {"school_id", "name", "start_date", "end_date", "is_active"}),
    Uses("semesters", {"academic_year_id", "name", "start_date", "end_date", "is_current"}),
    Uses("classes", {"school_id", "academic_year_id", "program_id", "specialty_id", "name", "level"}),
    Uses("students", {"school_id", "user_id", "matric_no", "class_id"}),
    Uses("courses", {"school_id", "department_id", "code", "title", "unit_load"}),
    Uses("course_assignments", {"school_id", "course_id", "class_id", "lecturer_user_id", "academic_year_id"}) }

\* create-super-admin.ts.
SuperAdminNeeds ==
  { Uses("users", {"id", "email", "password_hash", "is_active", "is_system_admin", "updated_at"}),
    Uses("profiles", {"id", "full_name"}) }

-----------------------------------------------------------------------------
(* seed-venues.ts: venues, courses, assignments and the slots of a week.    *)

VenueSeedNeeds ==
  { Uses("venues", {"id", "school_id", "name", "latitude", "longitude"}),
    Uses("courses", {"id", "school_id", "department_id", "code", "title", "unit_load"}),
    Uses("course_assignments", {"id", "school_id", "course_id", "class_id", "lecturer_user_id", "academic_year_id"}),
    Uses("timetable_slots", {"school_id", "academic_year_id", "course_assignment_id", "day_of_week",
      "start_time", "end_time", "venue"}) }

Venues ==
  { "AmphiA", "AmphiB", "AmphiC", "AmphiD", "Salle101", "Salle102", "Salle103",
    "Salle104", "Salle201", "Salle202", "Salle203", "Salle204", "LaboInformatique1",
    "LaboInformatique2", "LaboInformatique3", "LaboReseauxEtTelecoms",
    "LaboDeveloppementWeb", "SalleTPElectronique", "SalleTPSystemesEmbarques",
    "SalleDeConference" }

DemoAssignments == { <<"INFO101", "L1">> }

ExtraCourses ==
  { "MAT102", "PHY101", "NET201", "ALG102", "DB201", "WEB301", "OS201", "SE301", "SEC201" }

AssignmentDefs ==
  { <<"MAT102", "L1">>, <<"PHY101", "L1">>, <<"NET201", "L1">>, <<"ALG102", "L1">>, <<"DB201",
    "L1">>, <<"WEB301", "L2">>, <<"OS201", "L2">>, <<"SE301", "L2">>, <<"SEC201", "L2">>,
    <<"NET201", "L2">>, <<"DB201", "L2">> }

(* A slot: course, class, day, start, end and venue; 930 is 09:30.          *)
SlotDefs ==
  { <<"INFO101", "L1", 1, 730, 930, "AmphiA">>,
    <<"MAT102", "L1", 1, 930, 1130, "Salle101">>,
    <<"ALG102", "L1", 1, 1400, 1600, "LaboInformatique1">>,
    <<"PHY101", "L1", 2, 730, 930, "Salle102">>,
    <<"NET201", "L1", 2, 930, 1130, "LaboReseauxEtTelecoms">>,
    <<"MAT102", "L1", 2, 1400, 1600, "Salle101">>,
    <<"INFO101", "L1", 3, 730, 930, "LaboInformatique2">>,
    <<"DB201", "L1", 3, 930, 1130, "LaboInformatique1">>,
    <<"ALG102", "L1", 3, 1400, 1600, "Salle103">>,
    <<"NET201", "L1", 4, 730, 930, "AmphiB">>,
    <<"PHY101", "L1", 4, 1130, 1330, "SalleTPElectronique">>,
    <<"DB201", "L1", 4, 1400, 1600, "LaboInformatique3">>,
    <<"INFO101", "L1", 5, 930, 1130, "LaboInformatique1">>,
    <<"MAT102", "L1", 5, 1400, 1600, "Salle104">>,
    <<"ALG102", "L1", 6, 730, 930, "AmphiC">>,
    <<"NET201", "L1", 6, 930, 1130, "Salle201">>,
    <<"SE301", "L2", 1, 730, 930, "AmphiD">>,
    <<"WEB301", "L2", 1, 930, 1130, "LaboDeveloppementWeb">>,
    <<"OS201", "L2", 1, 1400, 1600, "Salle202">>,
    <<"DB201", "L2", 2, 730, 930, "LaboInformatique2">>,
    <<"SEC201", "L2", 2, 930, 1130, "AmphiD">>,
    <<"NET201", "L2", 2, 1400, 1600, "LaboReseauxEtTelecoms">>,
    <<"WEB301", "L2", 3, 730, 930, "LaboDeveloppementWeb">>,
    <<"SE301", "L2", 3, 1130, 1330, "Salle203">>,
    <<"OS201", "L2", 3, 1400, 1600, "SalleTPSystemesEmbarques">>,
    <<"DB201", "L2", 4, 930, 1130, "LaboInformatique3">>,
    <<"SEC201", "L2", 4, 1400, 1600, "Salle204">>,
    <<"NET201", "L2", 5, 730, 930, "LaboReseauxEtTelecoms">>,
    <<"SE301", "L2", 5, 930, 1130, "SalleDeConference">>,
    <<"WEB301", "L2", 5, 1400, 1600, "LaboDeveloppementWeb">>,
    <<"OS201", "L2", 6, 730, 930, "Salle201">>,
    <<"SEC201", "L2", 6, 930, 1130, "Salle203">> }

\* Slots of a course that no lecturer was assigned to are passed over.
SeededSlots ==
  LET assigned == {a \in AssignmentDefs : a[1] \in ExtraCourses} \cup DemoAssignments
  IN  {s \in SlotDefs : <<s[1], s[2]>> \in assigned}

-----------------------------------------------------------------------------
(* PermissionsService.initializeSchoolDefaultPermissions.                   *)

InitialPermissions == [
  owner |-> {"manage:organization", "manage:schools", "manage:users", "manage:billing", "view:analytics",
   "view:all-data", "manage:school", "manage:departments", "manage:staff", "manage:timetables",
   "manage:rooms", "view:school-analytics", "view:all-school-data", "manage:schedules",
   "manage:student-records", "view:reports", "manage:announcements", "manage:department",
   "manage:courses", "manage:lecturers", "approve:timetables", "view:department-analytics",
   "manage:sessions", "start:session", "end:session", "mark:attendance", "view:class-roster",
   "manage:course-materials", "view:timetable", "view:attendance", "view:grades",
   "view:course-materials", "view:linked-students", "view:student-attendance",
   "view:student-grades", "view:public-info", "view:announcements", "manage:imports",
   "view:student-records"},
  admin |-> {"user:read", "user:create", "user:update", "user:delete", "school:read", "school:update",
   "academic-year:read", "academic-year:create", "academic-year:update", "department:read",
   "department:create", "department:update", "course:read", "course:create", "course:update",
   "class:read", "class:create", "class:update", "invitation:read", "invitation:create",
   "invitation:delete", "venue:read", "venue:create", "venue:update", "import:job:read",
   "import:job:create", "audit:log:read", "report:attendance:read", "report:enrollment:read",
   "manage:timetables", "manage:rooms", "manage:schedules", "manage:student-records",
   "view:reports", "manage:announcements", "manage:school", "manage:departments", "manage:staff",
   "view:school-analytics", "manage:courses", "manage:imports", "view:student-records",
   "view:student-grades"},
  director |-> {"manage:school", "manage:departments", "manage:staff", "manage:timetables", "manage:rooms",
   "view:school-analytics", "view:all-school-data", "manage:courses", "view:student-records",
   "view:student-grades", "view:reports"},
  hod |-> {"department:read", "department:update", "course:read", "course:update", "program:read",
   "program:update", "timetable:manage", "timetable:slot:read", "session:read",
   "attendance:record:read", "student:attendance:summary:read", "manage:department",
   "manage:courses", "manage:lecturers", "approve:timetables", "view:department-analytics",
   "view:student-grades"},
  lecturer |-> {"session:read", "session:start", "session:end", "attendance:mark", "attendance:record:read",
   "attendance:record:bulk-create", "timetable:slot:read", "course:read", "venue:read",
   "result:bulk:create", "student:attendance:summary:read", "manage:sessions", "start:session",
   "end:session", "mark:attendance", "view:class-roster", "manage:course-materials"},
  student |-> {"timetable:slot:read", "session:read", "attendance:student:read", "result:student:read",
   "permission:read:self", "view:timetable", "view:attendance", "view:grades",
   "view:course-materials", "join:session"},
  guardian |-> {"view:linked-students", "view:student-attendance", "view:student-grades",
   "receive:notifications"},
  follower |-> {"view:public-info", "view:announcements"},
  exam_officer |-> {"result:bulk:create", "result:student:read", "course:read", "class:read", "academic-year:read"} ]

InitialGrants(school) ==
  UNION { {<<school, r, c>> : c \in InitialPermissions[r]} : r \in DOMAIN InitialPermissions }

=============================================================================
