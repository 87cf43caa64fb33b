------------------------------ MODULE Enrollment ------------------------------
(***************************************************************************)
(* The classes of one school and academic year, the students in them, and  *)
(* the requests to be enrolled.  A class that reaches its capacity is split *)
(* into two sub-classes and becomes a group.                               *)
(*                                                                         *)
(* A handler awaits one statement or one transaction at a time: each is an *)
(* action, and what was read before it is in the record of the process.    *)
(* The transactions only write rows by key, so one action is their commit. *)
(***************************************************************************)
EXTENDS Naturals, Sequences, FiniteSets

CONSTANTS
  Classes,     \* ids of classes, each used once
  Students,    \* ids of students, each used once
  Requests,    \* ids of class_enrollment_requests, each used once
  Procs,       \* concurrent requests to the API
  NameParts,   \* what names of classes are made of, "A" and "B" among them
  GivenNames,  \* names that people give to classes: sequences of parts
  Caps,        \* values of maxCapacity
  MaxCalls,    \* how many requests are made in a behaviour
  Failures,    \* whether statements may fail and servers may crash
  NoClass,     \* the null of class ids
  NoCap        \* the null of max_capacity

Halves == {"A", "B"}

ASSUME HalvesAreParts == Halves \subseteq NameParts
ASSUME NamesAreSequences == GivenNames \subseteq Seq(NameParts)
ASSUME CapsAreAtLeastTwo == Caps \subseteq Nat \ {0, 1}
ASSUME NoClassIsNull == NoClass \notin Classes
ASSUME NoCapIsNull == NoCap \notin Caps
ASSUME MaxCallsNat == MaxCalls \in Nat
ASSUME FailuresBoolean == Failures \in BOOLEAN

VARIABLES
  class,     \* class[c]: the classes row c
  student,   \* student[s]: the students row s
  request,   \* request[r]: the class_enrollment_requests row r
  lastMove,  \* lastMove[s]: the latest class_transfer_logs row of s
  audited,   \* requests with an audit_logs row "enrollment:approved"
  proc,      \* proc[p]: local state of a handler
  calls      \* requests made so far

tables == <<class, student, request, lastMove, audited>>
vars == <<class, student, request, lastMove, audited, proc, calls>>

-----------------------------------------------------------------------------
(* Rows.                                                                    *)

ClassId == Classes \cup {NoClass}

ClassRow ==
  [row : {"absent", "present", "deleted"}, name : Seq(NameParts), max : Caps \cup {NoCap},
   parent : ClassId, group : BOOLEAN]

NoRow(row) == [row |-> row, name |-> <<>>, max |-> NoCap, parent |-> NoClass, group |-> FALSE]

StudentRow == [row : {"absent", "present", "removed"}, class : ClassId]

RequestRow ==
  [status : {"absent", "deleted"}]
    \cup [status : {"pending", "approved", "rejected"}, student : Students, class : Classes]

Move == [logged : BOOLEAN, from : ClassId, to : ClassId]
NoMove == [logged |-> FALSE, from |-> NoClass, to |-> NoClass]

Idle == [pc |-> "idle"]

Max == Caps \cup {NoCap}

ProcRun ==
       [pc : {"children", "delete", "split", "subClasses"}, class : Classes]
  \cup [pc : {"splitChildren", "splitNames", "splitStudents"}, class : Classes,
        name : Seq(NameParts), max : Max]
  \cup [pc : {"splitCommit"}, class : Classes, name : Seq(NameParts), max : Max,
        students : SUBSET Students]
  \cup [pc : {"duplicate", "insert"}, student : Students, class : Classes]
  \cup [pc : {"approveClass"}, request : Requests, override : BOOLEAN, student : Students,
        class : Classes]
  \cup [pc : {"approveCount", "approveCommit"}, request : Requests, override : BOOLEAN,
        student : Students, class : Classes, max : Max, group : BOOLEAN]
  \cup [pc : {"approveMark"}, request : Requests, class : Classes, max : Max, group : BOOLEAN]
  \cup [pc : {"reject"}, request : Requests]
  \cup [pc : {"transferStudent"}, student : Students, class : Classes, max : Max]
  \cup [pc : {"transferCommit"}, student : Students, class : Classes, max : Max, from : ClassId]
  \cup [pc : {"recount"}, class : Classes, max : Caps]

(* Every row and every local state is one the program can name.             *)
TypeOK ==
  /\ class \in [Classes -> ClassRow]
  /\ student \in [Students -> StudentRow]
  /\ request \in [Requests -> RequestRow]
  /\ lastMove \in [Students -> Move]
  /\ audited \in SUBSET Requests
  /\ proc \in [Procs -> ProcRun \cup {Idle}]
  /\ calls \in 0..MaxCalls

Init ==
  /\ class = [c \in Classes |-> NoRow("absent")]
  /\ student = [s \in Students |-> [row |-> "absent", class |-> NoClass]]
  /\ request = [r \in Requests |-> [status |-> "absent"]]
  /\ lastMove = [s \in Students |-> NoMove]
  /\ audited = {}
  /\ proc = [p \in Procs |-> Idle]
  /\ calls = 0

-----------------------------------------------------------------------------
(* What the queries return.                                                 *)

Present == {c \in Classes : class[c].row = "present"}
PresentStudents == {s \in Students : student[s].row = "present"}

NameFree(name) == \A c \in Present : class[c].name # name
Children(c) == {d \in Present : class[d].parent = c}
Roster(c) == {s \in PresentStudents : student[s].class = c}
AtCapacity(c, max) == max # NoCap /\ Cardinality(Roster(c)) >= max

\* A request arrives at handler p, or p goes on.
Begin(p, state) ==
  /\ proc[p] = Idle
  /\ calls < MaxCalls
  /\ calls' = calls + 1
  /\ proc' = [proc EXCEPT ![p] = state]

Become(p, state) == proc' = [proc EXCEPT ![p] = state] /\ UNCHANGED calls

-----------------------------------------------------------------------------
(* Handlers that are one statement, or whose checks a key of the table      *)
(* repeats: create and update of a class, creation and removal of students. *)

ClassCreate(c, name, max) ==
  /\ class[c].row = "absent"
  /\ NameFree(name)
  /\ class' = [class EXCEPT ![c] = [row |-> "present", name |-> name, max |-> max,
                                    parent |-> NoClass, group |-> FALSE]]
  /\ UNCHANGED <<student, request, lastMove, audited, proc, calls>>

\* PATCH of a class and PATCH of its capacity; the latter keeps the name.
ClassUpdate(c, name, max) ==
  /\ c \in Present
  /\ name # class[c].name => NameFree(name)
  /\ class' = [class EXCEPT ![c].name = name, ![c].max = max]
  /\ UNCHANGED <<student, request, lastMove, audited, proc, calls>>

\* Any class of the school, groups too; no transfer log is written.
StudentCreate(s, c) ==
  /\ student[s].row = "absent"
  /\ c \in Present \cup {NoClass}
  /\ student' = [student EXCEPT ![s] = [row |-> "present", class |-> c]]
  /\ UNCHANGED <<class, request, lastMove, audited, proc, calls>>

\* The requests and transfer logs of the student go with it.
StudentRemove(s) ==
  /\ s \in PresentStudents
  /\ student' = [student EXCEPT ![s] = [row |-> "removed", class |-> NoClass]]
  /\ request' = [r \in Requests |->
                   IF request[r].status \notin {"absent", "deleted"} /\ request[r].student = s
                   THEN [status |-> "deleted"] ELSE request[r]]
  /\ lastMove' = [lastMove EXCEPT ![s] = NoMove]
  /\ UNCHANGED <<class, audited, proc, calls>>

-----------------------------------------------------------------------------
(* delete: only a class that was read as a group is asked for children.     *)

DeleteRead(p, c) ==
  /\ c \in Present
  /\ Begin(p, [pc |-> IF class[c].group THEN "children" ELSE "delete", class |-> c])
  /\ UNCHANGED tables

DeleteChildren(p) ==
  /\ proc[p].pc = "children"
  /\ Become(p, IF Children(proc[p].class) = {} THEN [pc |-> "delete", class |-> proc[p].class]
                                               ELSE Idle)
  /\ UNCHANGED tables

\* The foreign keys: students, sub-classes and logs keep a null, requests go.
Unclassed(c) ==
  /\ class' = [d \in Classes |->
                 IF d = c THEN NoRow("deleted")
                 ELSE [class[d] EXCEPT !.parent = IF @ = c THEN NoClass ELSE @]]
  /\ student' = [s \in Students |->
                   [student[s] EXCEPT !.class = IF @ = c THEN NoClass ELSE @]]
  /\ lastMove' = [s \in Students |->
                    [lastMove[s] EXCEPT !.from = IF @ = c THEN NoClass ELSE @,
                                        !.to = IF @ = c THEN NoClass ELSE @]]
  /\ request' = [r \in Requests |->
                   IF request[r].status \notin {"absent", "deleted"} /\ request[r].class = c
                   THEN [status |-> "deleted"] ELSE request[r]]

DeleteRow(p) ==
  /\ proc[p].pc = "delete"
  /\ IF proc[p].class \in Present
     THEN Unclassed(proc[p].class)
     ELSE UNCHANGED <<class, student, lastMove, request>>
  /\ Become(p, Idle)
  /\ UNCHANGED audited

-----------------------------------------------------------------------------
(* splitClass: four reads, each with its refusal, then one transaction.     *)

SplitRun(c) ==
  IF c \in Present /\ ~class[c].group
  THEN [pc |-> "splitChildren", class |-> c, name |-> class[c].name, max |-> class[c].max]
  ELSE Idle

SplitRequest(p, c) ==
  /\ c \in Present /\ ~class[c].group
  /\ Begin(p, SplitRun(c))
  /\ UNCHANGED tables

AutoSplit(p) ==
  /\ proc[p].pc = "split"
  /\ Become(p, SplitRun(proc[p].class))
  /\ UNCHANGED tables

SplitChildren(p) ==
  /\ proc[p].pc = "splitChildren"
  /\ Become(p, IF Children(proc[p].class) = {} THEN [proc[p] EXCEPT !.pc = "splitNames"]
                                               ELSE Idle)
  /\ UNCHANGED tables

SubName(name, half) == Append(name, half)

SplitNames(p) ==
  /\ proc[p].pc = "splitNames"
  /\ Become(p, IF \A half \in Halves : NameFree(SubName(proc[p].name, half))
               THEN [proc[p] EXCEPT !.pc = "splitStudents"] ELSE Idle)
  /\ UNCHANGED tables

SplitStudents(p) ==
  /\ proc[p].pc = "splitStudents"
  /\ Become(p, [pc |-> "splitCommit", class |-> proc[p].class, name |-> proc[p].name,
                max |-> proc[p].max, students |-> Roster(proc[p].class)])
  /\ UNCHANGED tables

SubClass(run, half) ==
  [row |-> "present", name |-> SubName(run.name, half), max |-> run.max,
   parent |-> run.class, group |-> FALSE]

\* Mutant: the class itself stays a class.
SplitUnmarked(run, a, b) ==
  [class EXCEPT ![a] = SubClass(run, "A"), ![b] = SubClass(run, "B")]

SplitClasses(run, a, b) ==
  [class EXCEPT ![a] = SubClass(run, "A"), ![b] = SubClass(run, "B"), ![run.class].group = TRUE]

\* Which students come first by name is any choice of half of them.
FirstHalves(S) == {A \in SUBSET S : Cardinality(A) = (Cardinality(S) + 1) \div 2}

\* Mutant: the second half starts one too late.
LateSecondHalf(S, first) == IF S = first THEN {} ELSE (S \ first) \ {CHOOSE s \in S \ first : TRUE}

SecondHalf(S, first) == S \ first

\* The unique name, the parent's and the students' keys let it commit.
SplitCommits(run) ==
  /\ run.class \in Present
  /\ \A half \in Halves : NameFree(SubName(run.name, half))
  /\ run.students \subseteq PresentStudents

\* S go to class c, and a transfer log says so.
Join(S, c) == [s \in Students |-> IF s \in S THEN [student[s] EXCEPT !.class = c] ELSE student[s]]

\* Mutant: only a student's first move is logged.
LoggedOnce(S, from, c) ==
  [s \in Students |-> IF s \in S /\ ~lastMove[s].logged
                      THEN [logged |-> TRUE, from |-> from, to |-> c] ELSE lastMove[s]]

Logged(S, from, c) ==
  [s \in Students |-> IF s \in S THEN [logged |-> TRUE, from |-> from, to |-> c] ELSE lastMove[s]]

SplitCommit(p, a, b, first) ==
  /\ proc[p].pc = "splitCommit"
  /\ SplitCommits(proc[p])
  /\ LET run == proc[p]
         second == SecondHalf(run.students, first)
     IN /\ first \in FirstHalves(run.students)
        /\ a # b /\ class[a].row = "absent" /\ class[b].row = "absent"
        /\ class' = SplitClasses(run, a, b)
        /\ student' = [s \in Students |-> IF s \in second THEN Join(second, b)[s]
                                                           ELSE Join(first, a)[s]]
        /\ lastMove' = [s \in Students |-> IF s \in second THEN Logged(second, run.class, b)[s]
                                                            ELSE Logged(first, run.class, a)[s]]
  /\ Become(p, Idle)
  /\ UNCHANGED <<request, audited>>

SplitRollback(p) ==
  /\ proc[p].pc = "splitCommit"
  /\ ~SplitCommits(proc[p])
  /\ Become(p, Idle)
  /\ UNCHANGED tables

-----------------------------------------------------------------------------
(* requestEnrollment                                                        *)

EnrollRead(p, s, c) ==
  /\ c \in Present /\ ~class[c].group
  /\ Begin(p, [pc |-> "duplicate", student |-> s, class |-> c])
  /\ UNCHANGED tables

PendingFor(s, c) ==
  {r \in Requests : /\ request[r].status = "pending"
                    /\ request[r].student = s
                    /\ request[r].class = c}

EnrollDuplicate(p) ==
  /\ proc[p].pc = "duplicate"
  /\ Become(p, IF PendingFor(proc[p].student, proc[p].class) = {}
               THEN [proc[p] EXCEPT !.pc = "insert"] ELSE Idle)
  /\ UNCHANGED tables

EnrollInsert(p, r) ==
  /\ proc[p].pc = "insert"
  /\ request[r].status = "absent"
  /\ request' = IF proc[p].class \in Present /\ proc[p].student \in PresentStudents
                THEN [request EXCEPT ![r] = [status |-> "pending", student |-> proc[p].student,
                                             class |-> proc[p].class]]
                ELSE request
  /\ Become(p, Idle)
  /\ UNCHANGED <<class, student, lastMove, audited>>

-----------------------------------------------------------------------------
(* approveEnrollment, rejectEnrollment.  The request is marked by its id    *)
(* only, whatever became of it since it was read.                           *)

ApproveRead(p, r, override) ==
  /\ request[r].status = "pending"
  /\ Begin(p, [pc |-> "approveClass", request |-> r, override |-> override,
               student |-> request[r].student, class |-> request[r].class])
  /\ UNCHANGED tables

ApproveClass(p) ==
  /\ proc[p].pc = "approveClass"
  /\ LET c == proc[p].class
     IN Become(p, IF c \in Present
                  THEN [pc |-> "approveCount", request |-> proc[p].request,
                        override |-> proc[p].override, student |-> proc[p].student,
                        class |-> c, max |-> class[c].max, group |-> class[c].group]
                  ELSE Idle)
  /\ UNCHANGED tables

\* Mutant: a full class can take one more.
RefusedAbove(run) ==
  run.max # NoCap /\ Cardinality(Roster(run.class)) > run.max /\ ~run.override

Refused(run) == AtCapacity(run.class, run.max) /\ ~run.override

\* Mutant: the request is marked before the student is enrolled.
ApproveMarksFirst(p) ==
  /\ proc[p].pc = "approveCount"
  /\ Become(p, IF Refused(proc[p]) THEN Idle
               ELSE [pc |-> "approveMark", request |-> proc[p].request, class |-> proc[p].class,
                     max |-> proc[p].max, group |-> proc[p].group])
  /\ UNCHANGED tables

ApproveCount(p) ==
  /\ proc[p].pc = "approveCount"
  /\ Become(p, IF Refused(proc[p]) THEN Idle ELSE [proc[p] EXCEPT !.pc = "approveCommit"])
  /\ UNCHANGED tables

\* The class a student comes from is read after the update that changes it.
ApproveCommit(p) ==
  /\ proc[p].pc = "approveCommit"
  /\ LET run == proc[p]
     IN IF run.class \in Present /\ run.student \in PresentStudents
        THEN /\ student' = Join({run.student}, run.class)
             /\ lastMove' = Logged({run.student}, run.class, run.class)
             /\ audited' = audited \cup {run.request}
             /\ Become(p, [pc |-> "approveMark", request |-> run.request, class |-> run.class,
                           max |-> run.max, group |-> run.group])
        ELSE /\ Become(p, Idle)
             /\ UNCHANGED <<student, lastMove, audited>>
  /\ UNCHANGED <<class, request>>

Mark(r, status) ==
  request' = IF request[r].status = "deleted" THEN request
             ELSE [request EXCEPT ![r].status = status]

\* Mutant: classes without a capacity are counted too.
AfterJoinAny(c, max, group) == IF group THEN Idle ELSE [pc |-> "recount", class |-> c, max |-> max]

\* After a student joined: a class with a capacity may have to be split.
AfterJoin(c, max, group) ==
  IF max # NoCap /\ ~group THEN [pc |-> "recount", class |-> c, max |-> max] ELSE Idle

ApproveMark(p) ==
  /\ proc[p].pc = "approveMark"
  /\ Mark(proc[p].request, "approved")
  /\ Become(p, AfterJoin(proc[p].class, proc[p].max, proc[p].group))
  /\ UNCHANGED <<class, student, lastMove, audited>>

\* Mutant: whatever its status.
RejectAny(p, r) ==
  /\ request[r].status \in {"pending", "approved"}
  /\ Begin(p, [pc |-> "reject", request |-> r])
  /\ UNCHANGED tables

RejectRead(p, r) ==
  /\ request[r].status = "pending"
  /\ Begin(p, [pc |-> "reject", request |-> r])
  /\ UNCHANGED tables

RejectMark(p) ==
  /\ proc[p].pc = "reject"
  /\ Mark(proc[p].request, "rejected")
  /\ Become(p, Idle)
  /\ UNCHANGED <<class, student, lastMove, audited>>

-----------------------------------------------------------------------------
(* transferStudent, and the split it shares with approveEnrollment.         *)

TransferRead(p, s, c) ==
  /\ c \in Present /\ ~class[c].group
  /\ Begin(p, [pc |-> "transferStudent", student |-> s, class |-> c, max |-> class[c].max])
  /\ UNCHANGED tables

TransferStudent(p) ==
  /\ proc[p].pc = "transferStudent"
  /\ LET run == proc[p]
     IN Become(p, IF run.student \in PresentStudents
                  THEN [pc |-> "transferCommit", student |-> run.student, class |-> run.class,
                        max |-> run.max, from |-> student[run.student].class]
                  ELSE Idle)
  /\ UNCHANGED tables

\* The log's keys refuse a class, old or new, and a student that are gone.
TransferCommits(run) ==
  /\ run.class \in Present
  /\ run.student \in PresentStudents
  /\ run.from \in Present \cup {NoClass}

TransferCommit(p) ==
  /\ proc[p].pc = "transferCommit"
  /\ LET run == proc[p]
     IN IF TransferCommits(run)
        THEN /\ student' = Join({run.student}, run.class)
             /\ lastMove' = Logged({run.student}, run.from, run.class)
             /\ Become(p, AfterJoin(run.class, run.max, FALSE))
        ELSE /\ Become(p, Idle)
             /\ UNCHANGED <<student, lastMove>>
  /\ UNCHANGED <<class, request, audited>>

JoinRecount(p) ==
  /\ proc[p].pc = "recount"
  /\ Become(p, IF AtCapacity(proc[p].class, proc[p].max)
               THEN [pc |-> "subClasses", class |-> proc[p].class] ELSE Idle)
  /\ UNCHANGED tables

JoinSubClasses(p) ==
  /\ proc[p].pc = "subClasses"
  /\ Become(p, IF Children(proc[p].class) = {} THEN [pc |-> "split", class |-> proc[p].class]
                                               ELSE Idle)
  /\ UNCHANGED tables

-----------------------------------------------------------------------------

\* A statement fails or the server stops: the transaction under way is gone.
Fail(p) ==
  /\ Failures
  /\ proc[p] # Idle
  /\ Become(p, Idle)
  /\ UNCHANGED tables

Maintain ==
  \/ \E c \in Classes, name \in GivenNames, max \in Caps \cup {NoCap} : ClassCreate(c, name, max)
  \/ \E c \in Classes, name \in GivenNames, max \in Caps \cup {NoCap} : ClassUpdate(c, name, max)
  \/ \E c \in Classes, max \in Caps : ClassUpdate(c, class[c].name, max)
  \/ \E s \in Students, c \in ClassId : StudentCreate(s, c)
  \/ \E s \in Students : StudentRemove(s)

Delete(p) == (\E c \in Classes : DeleteRead(p, c)) \/ DeleteChildren(p) \/ DeleteRow(p)

Split(p) ==
  \/ \E c \in Classes : SplitRequest(p, c)
  \/ AutoSplit(p) \/ SplitChildren(p) \/ SplitNames(p) \/ SplitStudents(p)
  \/ \E a, b \in Classes, first \in SUBSET Students : SplitCommit(p, a, b, first)
  \/ SplitRollback(p)

Enroll(p) ==
  \/ \E s \in Students, c \in Classes : EnrollRead(p, s, c)
  \/ EnrollDuplicate(p)
  \/ \E r \in Requests : EnrollInsert(p, r)

Review(p) ==
  \/ \E r \in Requests, override \in BOOLEAN : ApproveRead(p, r, override)
  \/ ApproveClass(p) \/ ApproveCount(p) \/ ApproveCommit(p) \/ ApproveMark(p)
  \/ \E r \in Requests : RejectRead(p, r)
  \/ RejectMark(p)

Transfer(p) ==
  \/ \E s \in Students, c \in Classes : TransferRead(p, s, c)
  \/ TransferStudent(p) \/ TransferCommit(p) \/ JoinRecount(p) \/ JoinSubClasses(p)

Next ==
  \/ Maintain
  \/ \E p \in Procs : Delete(p) \/ Split(p) \/ Enroll(p) \/ Review(p) \/ Transfer(p) \/ Fail(p)

Spec == Init /\ [][Next]_vars

-----------------------------------------------------------------------------
(* Properties of every interleaving.                                        *)

(* A class that has sub-classes is a group, whatever split, deletion or     *)
(* rename ran beside the split that made them: the sub-classes and the mark *)
(* are one transaction, and a deleted parent leaves no reference.           *)
ParentsAreGroups ==
  \A d \in Present : class[d].parent # NoClass =>
    class[d].parent \in Present /\ class[class[d].parent].group

(* A student's class is the one the latest transfer log names: "every class *)
(* assignment and transfer is recorded", by approvals, transfers and splits *)
(* alike, and a deletion clears both sides.                                 *)
LogTellsClass ==
  \A s \in Students : lastMove[s].logged => student[s].class = lastMove[s].to

(* A request that reads approved is one whose student was enrolled: its     *)
(* approval is in the audit log, whoever reviewed it at the same time and   *)
(* wherever a server stopped.  (The converse fails: a crash or a rejection  *)
(* between the two writes leaves an enrolled student's request unapproved.) *)
ApprovedIsAudited ==
  \A r \in Requests : request[r].status = "approved" => r \in audited

(* Why they hold: what is true of absent students and of an approval that   *)
(* has enrolled its student but not yet marked its request; a request that   *)
(* is being reviewed has a row, or had one.                                 *)
AbsentUnlogged ==
  \A s \in Students : student[s].row # "present" => ~lastMove[s].logged

MarkersAudited ==
  \A p \in Procs : proc[p].pc = "approveMark" => proc[p].request \in audited

Reviewing == {"approveClass", "approveCount", "approveCommit", "approveMark", "reject"}

ReviewedKnown ==
  \A p \in Procs : proc[p].pc \in Reviewing => request[proc[p].request].status # "absent"

IInv ==
  /\ TypeOK
  /\ ReviewedKnown
  /\ ParentsAreGroups
  /\ LogTellsClass
  /\ ApprovedIsAudited
  /\ AbsentUnlogged
  /\ MarkersAudited

=============================================================================
