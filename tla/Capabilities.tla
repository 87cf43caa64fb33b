----------------------------- MODULE Capabilities -----------------------------
(***************************************************************************)
(* What a role may do by the code alone, beside the permissions that the   *)
(* database gives it.                                                      *)
(***************************************************************************)

OwnerCapabilities ==
  {"organization:*", "school:*", "user-role:assign", "user-role:revoke", "academic:*",
   "timetable:*", "session:*", "attendance:*", "invitation:*", "import:*", "audit:read",
   "manage:organization", "manage:schools", "manage:users", "manage:billing", "view:analytics",
   "view:all-data", "manage:school", "manage:departments", "manage:staff", "manage:timetables",
   "manage:rooms", "view:school-analytics", "view:all-school-data", "manage:schedules",
   "manage:student-records", "view:reports", "manage:announcements", "manage:department",
   "manage:courses", "manage:lecturers", "approve:timetables", "view:department-analytics",
   "manage:sessions", "start:session", "end:session", "mark:attendance", "view:class-roster",
   "manage:course-materials", "view:timetable", "view:attendance", "view:grades",
   "view:course-materials", "view:linked-students", "view:student-attendance",
   "view:student-grades", "view:public-info", "view:announcements", "manage:imports",
   "view:student-records", "manage:classes", "view:classmates", "manage:enrollments"}

AdminCapabilities ==
  {"school:read", "school:update", "user-role:assign", "user-role:revoke", "academic:*",
   "timetable:*", "session:*", "session:override-conflict", "attendance:*", "invitation:*",
   "import:*", "audit:read", "manage:timetables", "manage:rooms", "manage:schedules",
   "manage:student-records", "view:reports", "manage:announcements", "manage:school",
   "manage:departments", "manage:staff", "view:school-analytics", "manage:courses",
   "manage:imports", "view:student-records", "view:student-grades", "manage:classes",
   "view:classmates", "manage:enrollments"}

DirectorCapabilities ==
  {"school:read", "academic:read", "timetable:read", "session:read", "attendance:read",
   "audit:read", "manage:school", "manage:departments", "manage:staff", "manage:timetables",
   "manage:rooms", "view:school-analytics", "view:all-school-data", "manage:courses",
   "view:student-records", "view:student-grades", "view:reports", "manage:classes",
   "view:classmates", "manage:enrollments"}

HodCapabilities ==
  {"school:read", "academic:read", "timetable:read", "timetable:write", "session:read",
   "session:write", "attendance:read", "manage:department", "manage:courses",
   "manage:lecturers", "approve:timetables", "view:department-analytics", "view:student-grades",
   "manage:classes", "view:classmates"}

LecturerCapabilities ==
  {"school:read", "academic:read", "timetable:read", "session:read", "session:write-own",
   "session:start", "session:end", "session:reschedule-own", "attendance:read",
   "attendance:mark", "manage:sessions", "start:session", "end:session", "mark:attendance",
   "view:class-roster", "manage:course-materials", "view:classmates"}

StudentCapabilities ==
  {"school:read", "academic:read", "timetable:read-own", "session:read-own",
   "attendance:read-own", "view:timetable", "view:attendance", "view:grades",
   "view:course-materials", "join:session", "view:classmates"}

GuardianCapabilities ==
  {"attendance:read-ward", "session:read-ward", "view:linked-students",
   "view:student-attendance", "view:student-grades", "receive:notifications"}

FollowerCapabilities ==
  {"organization:read", "view:public-info", "view:announcements"}

ROLE_CAPABILITIES ==
  [ owner |-> OwnerCapabilities, admin |-> AdminCapabilities, director |-> DirectorCapabilities,
    hod |-> HodCapabilities, lecturer |-> LecturerCapabilities, student |-> StudentCapabilities,
    guardian |-> GuardianCapabilities, follower |-> FollowerCapabilities ]

=============================================================================
