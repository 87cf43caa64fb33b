--------------------------- MODULE EnrollmentProofs ---------------------------
(* Theorems about Enrollment and EnrollmentApart for every value of their   *)
(* constants.                                                               *)
EXTENDS EnrollmentApart, FiniteSetTheorems, TLAPS

-----------------------------------------------------------------------------
(* Rows and runs.                                                           *)

LEMMA Running ==
  ASSUME TypeOK, NEW p \in Procs, proc[p].pc # "idle"
  PROVE  proc[p] \in ProcRun
BY DEF TypeOK, Idle

LEMMA BecomeType ==
  ASSUME TypeOK, NEW p \in Procs, NEW state \in ProcRun \cup {Idle}, Become(p, state)
  PROVE  proc' \in [Procs -> ProcRun \cup {Idle}] /\ calls' \in 0..MaxCalls
BY DEF Become, TypeOK

LEMMA BeginType ==
  ASSUME TypeOK, NEW p \in Procs, NEW state \in ProcRun \cup {Idle}, Begin(p, state)
  PROVE  proc' \in [Procs -> ProcRun \cup {Idle}] /\ calls' \in 0..MaxCalls
BY MaxCallsNat DEF Begin, TypeOK

LEMMA JoinType ==
  ASSUME TypeOK, NEW S, NEW c \in Classes
  PROVE  Join(S, c) \in [Students -> StudentRow]
BY DEF Join, TypeOK, StudentRow, ClassId

LEMMA LoggedType ==
  ASSUME TypeOK, NEW S, NEW from \in ClassId, NEW c \in Classes
  PROVE  Logged(S, from, c) \in [Students -> Move]
BY DEF Logged, TypeOK, Move, ClassId

LEMMA MarkType ==
  ASSUME TypeOK, NEW r \in Requests, NEW status \in {"approved", "rejected"},
         request[r].status # "absent",
         Mark(r, status)
  PROVE  request' \in [Requests -> RequestRow]
<1>1. request[r] \in RequestRow
  BY DEF TypeOK
<1>2. request[r].status # "deleted" => [request[r] EXCEPT !.status = status] \in RequestRow
  BY <1>1 DEF RequestRow
<1>3. QED
  BY <1>2 DEF Mark, TypeOK

(* The fields of the record of each kind of run.                            *)

LEMMA SplitFields ==
  ASSUME TypeOK, NEW p \in Procs,
         proc[p].pc \in {"splitChildren", "splitNames", "splitStudents", "splitCommit"}
  PROVE  /\ proc[p] \in ProcRun
         /\ proc[p].class \in Classes /\ proc[p].name \in Seq(NameParts) /\ proc[p].max \in Max
         /\ proc[p].pc = "splitCommit" => proc[p].students \in SUBSET Students
BY Running DEF ProcRun

LEMMA ReviewFields ==
  ASSUME TypeOK, NEW p \in Procs,
         proc[p].pc \in {"approveClass", "approveCount", "approveCommit", "approveMark", "reject"}
  PROVE  /\ proc[p] \in ProcRun /\ proc[p].request \in Requests
         /\ proc[p].pc # "reject" => proc[p].class \in Classes
         /\ proc[p].pc \in {"approveClass", "approveCount", "approveCommit"} =>
              proc[p].student \in Students /\ proc[p].override \in BOOLEAN
         /\ proc[p].pc \in {"approveCount", "approveCommit", "approveMark"} =>
              proc[p].max \in Max /\ proc[p].group \in BOOLEAN
BY Running DEF ProcRun

LEMMA TransferFields ==
  ASSUME TypeOK, NEW p \in Procs, proc[p].pc \in {"transferStudent", "transferCommit"}
  PROVE  /\ proc[p].student \in Students /\ proc[p].class \in Classes /\ proc[p].max \in Max
         /\ proc[p].pc = "transferCommit" => proc[p].from \in ClassId
BY Running DEF ProcRun

LEMMA ClassField ==
  ASSUME TypeOK, NEW p \in Procs,
         proc[p].pc \in {"children", "delete", "split", "subClasses", "recount", "duplicate", "insert"}
  PROVE  /\ proc[p].class \in Classes
         /\ proc[p].pc \in {"duplicate", "insert"} => proc[p].student \in Students
         /\ proc[p].pc = "recount" => proc[p].max \in Caps
BY Running DEF ProcRun

-----------------------------------------------------------------------------
(* Type correctness, one group of handlers at a time.                       *)

LEMMA InitType == Init => TypeOK
<1> SUFFICES ASSUME Init PROVE TypeOK
  OBVIOUS
<1>1. NoRow("absent") \in ClassRow
  BY DEF NoRow, ClassRow, ClassId
<1>2. NoMove \in Move
  BY DEF NoMove, Move, ClassId
<1>3. QED
  BY <1>1, <1>2, MaxCallsNat DEF Init, TypeOK, StudentRow, RequestRow, ClassId

LEMMA MaintainType ==
  ASSUME TypeOK, Maintain
  PROVE  TypeOK'
<1>a. ASSUME NEW c \in Classes, NEW name \in Seq(NameParts), NEW max \in Max,
             ClassCreate(c, name, max)
      PROVE  TypeOK'
  BY <1>a DEF ClassCreate, TypeOK, ClassRow, ClassId, Max
<1>b. ASSUME NEW c \in Classes, NEW name \in Seq(NameParts), NEW max \in Max,
             ClassUpdate(c, name, max)
      PROVE  TypeOK'
  <2>1. class[c] \in ClassRow
    BY DEF TypeOK
  <2>2. [class[c] EXCEPT !.name = name, !.max = max] \in ClassRow
    BY <2>1 DEF ClassRow, Max
  <2>3. class' \in [Classes -> ClassRow]
    BY <1>b, <2>2 DEF ClassUpdate, TypeOK
  <2>4. QED
    BY <1>b, <2>3 DEF ClassUpdate, TypeOK
<1>c. ASSUME NEW s \in Students, NEW c \in ClassId, StudentCreate(s, c)
      PROVE  TypeOK'
  BY <1>c DEF StudentCreate, TypeOK, StudentRow
<1>d. ASSUME NEW s \in Students, StudentRemove(s)
      PROVE  TypeOK'
  <2>1. request' \in [Requests -> RequestRow]
    BY <1>d DEF StudentRemove, TypeOK, RequestRow
  <2>2. student' \in [Students -> StudentRow]
    BY <1>d DEF StudentRemove, TypeOK, StudentRow, ClassId
  <2>3. lastMove' \in [Students -> Move]
    BY <1>d DEF StudentRemove, TypeOK, NoMove, Move, ClassId
  <2>4. QED
    BY <1>d, <2>1, <2>2, <2>3 DEF StudentRemove, TypeOK
<1>e. \A c \in Classes : class[c].name \in Seq(NameParts)
  BY DEF TypeOK, ClassRow
<1>f. QED
  BY <1>a, <1>b, <1>c, <1>d, <1>e, NamesAreSequences DEF Maintain, Max

LEMMA DeleteType ==
  ASSUME TypeOK, NEW p \in Procs, Delete(p)
  PROVE  TypeOK'
<1>a. Idle \in ProcRun \cup {Idle} /\ \A c \in Classes : [pc |-> "delete", class |-> c] \in ProcRun
  BY DEF ProcRun
<1>1. ASSUME NEW c \in Classes, DeleteRead(p, c) PROVE TypeOK'
  <2>1. [pc |-> IF class[c].group THEN "children" ELSE "delete", class |-> c] \in ProcRun
    BY DEF ProcRun
  <2>2. QED
    BY <1>1, <2>1, BeginType DEF DeleteRead, TypeOK, tables
<1>2. ASSUME DeleteChildren(p) PROVE TypeOK'
  BY <1>2, <1>a, ClassField, BecomeType DEF DeleteChildren, TypeOK, tables
<1>3. ASSUME DeleteRow(p) PROVE TypeOK'
  <2>1. ASSUME Unclassed(proc[p].class)
        PROVE  /\ class' \in [Classes -> ClassRow] /\ student' \in [Students -> StudentRow]
               /\ lastMove' \in [Students -> Move] /\ request' \in [Requests -> RequestRow]
    <3>1. class' \in [Classes -> ClassRow]
      <4>1. \A d \in Classes : class[d] \in ClassRow
        BY DEF TypeOK
      <4>2. \A k \in ClassRow, c \in Classes :
              [k EXCEPT !.parent = IF @ = c THEN NoClass ELSE @] \in ClassRow
        BY DEF ClassRow, ClassId
      <4>3. NoRow("deleted") \in ClassRow
        BY DEF NoRow, ClassRow, ClassId
      <4>4. proc[p].class \in Classes
        BY <1>3, ClassField DEF DeleteRow
      <4>5. QED
        BY <2>1, <4>1, <4>2, <4>3, <4>4 DEF Unclassed
    <3>2. student' \in [Students -> StudentRow]
      BY <2>1 DEF Unclassed, TypeOK, StudentRow, ClassId
    <3>3. lastMove' \in [Students -> Move]
      <4>1. \A s \in Students : lastMove[s] \in Move
        BY DEF TypeOK
      <4>2. \A m \in Move, c \in Classes :
              [m EXCEPT !.from = IF @ = c THEN NoClass ELSE @,
                        !.to = IF @ = c THEN NoClass ELSE @] \in Move
        BY DEF Move, ClassId
      <4>3. proc[p].class \in Classes
        BY <1>3, ClassField DEF DeleteRow
      <4>4. QED
        BY <2>1, <4>1, <4>2, <4>3 DEF Unclassed
    <3>4. request' \in [Requests -> RequestRow]
      BY <2>1 DEF Unclassed, TypeOK, RequestRow
    <3>5. QED
      BY <3>1, <3>2, <3>3, <3>4
  <2>2. proc' \in [Procs -> ProcRun \cup {Idle}] /\ calls' \in 0..MaxCalls
    BY <1>3, <1>a, BecomeType DEF DeleteRow
  <2>3. QED
    BY <1>3, <2>1, <2>2 DEF DeleteRow, TypeOK
<1>4. QED
  BY <1>1, <1>2, <1>3 DEF Delete

LEMMA SplitType ==
  ASSUME TypeOK, NEW p \in Procs, Split(p)
  PROVE  TypeOK'
<1>a. ASSUME NEW c \in Classes PROVE SplitRun(c) \in ProcRun \cup {Idle}
  <2>1. class[c] \in ClassRow
    BY DEF TypeOK
  <2>2. [pc |-> "splitChildren", class |-> c, name |-> class[c].name, max |-> class[c].max]
          \in ProcRun
    BY <2>1 DEF ClassRow, ProcRun, Max
  <2>3. QED
    BY <2>2 DEF SplitRun
<1>1. ASSUME NEW c \in Classes, SplitRequest(p, c) PROVE TypeOK'
  BY <1>1, <1>a, BeginType DEF SplitRequest, TypeOK, tables
<1>2. ASSUME AutoSplit(p) PROVE TypeOK'
  BY <1>2, <1>a, ClassField, BecomeType DEF AutoSplit, TypeOK, tables
<1>3. ASSUME SplitChildren(p) PROVE TypeOK'
  <2>1. [proc[p] EXCEPT !.pc = "splitNames"] \in ProcRun
    BY <1>3, SplitFields DEF SplitChildren, ProcRun
  <2>2. QED
    BY <1>3, <2>1, BecomeType DEF SplitChildren, TypeOK, tables
<1>4. ASSUME SplitNames(p) PROVE TypeOK'
  <2>1. [proc[p] EXCEPT !.pc = "splitStudents"] \in ProcRun
    BY <1>4, SplitFields DEF SplitNames, ProcRun
  <2>2. QED
    BY <1>4, <2>1, BecomeType DEF SplitNames, TypeOK, tables
<1>5. ASSUME SplitStudents(p) PROVE TypeOK'
  <2>1. Roster(proc[p].class) \in SUBSET Students
    BY DEF Roster, PresentStudents
  <2>2. [pc |-> "splitCommit", class |-> proc[p].class, name |-> proc[p].name,
         max |-> proc[p].max, students |-> Roster(proc[p].class)] \in ProcRun
    BY <1>5, <2>1, SplitFields DEF SplitStudents, ProcRun
  <2>3. QED
    BY <1>5, <2>2, BecomeType DEF SplitStudents, TypeOK, tables
<1>6. ASSUME NEW a \in Classes, NEW b \in Classes, NEW first \in SUBSET Students,
             SplitCommit(p, a, b, first)
      PROVE  TypeOK'
  <2>1. /\ proc[p].class \in Classes /\ proc[p].name \in Seq(NameParts) /\ proc[p].max \in Max
    BY <1>6, SplitFields DEF SplitCommit
  <2>2. SubClass(proc[p], "A") \in ClassRow /\ SubClass(proc[p], "B") \in ClassRow
    <3>1. \A half \in Halves : SubName(proc[p].name, half) \in Seq(NameParts)
      BY <2>1, HalvesAreParts DEF SubName
    <3>2. QED
      BY <2>1, <3>1 DEF SubClass, Halves, ClassRow, ClassId, Max
  <2>3. class' \in [Classes -> ClassRow]
    <3>1. class' = SplitClasses(proc[p], a, b)
      BY <1>6 DEF SplitCommit
    <3>2. \A row \in ClassRow : [row EXCEPT !.group = TRUE] \in ClassRow
      BY DEF ClassRow
    <3>3. [class EXCEPT ![a] = SubClass(proc[p], "A"), ![b] = SubClass(proc[p], "B")]
            \in [Classes -> ClassRow]
      BY <2>2 DEF TypeOK
    <3>4. QED
      BY <2>1, <3>1, <3>2, <3>3 DEF SplitClasses
  <2>4. student' \in [Students -> StudentRow]
    BY <1>6, JoinType DEF SplitCommit
  <2>5. lastMove' \in [Students -> Move]
    BY <1>6, <2>1, LoggedType DEF SplitCommit, ClassId
  <2>6. QED
    BY <1>6, <2>3, <2>4, <2>5, BecomeType DEF SplitCommit, TypeOK
<1>7. ASSUME SplitRollback(p) PROVE TypeOK'
  BY <1>7, BecomeType DEF SplitRollback, TypeOK, tables
<1>8. QED
  BY <1>1, <1>2, <1>3, <1>4, <1>5, <1>6, <1>7 DEF Split

LEMMA EnrollType ==
  ASSUME TypeOK, NEW p \in Procs, Enroll(p)
  PROVE  TypeOK'
<1>1. ASSUME NEW s \in Students, NEW c \in Classes, EnrollRead(p, s, c) PROVE TypeOK'
  <2>1. [pc |-> "duplicate", student |-> s, class |-> c] \in ProcRun
    BY DEF ProcRun
  <2>2. QED
    BY <1>1, <2>1, BeginType DEF EnrollRead, TypeOK, tables
<1>2. ASSUME EnrollDuplicate(p) PROVE TypeOK'
  <2>1. [proc[p] EXCEPT !.pc = "insert"] \in ProcRun
    BY <1>2, Running DEF EnrollDuplicate, ProcRun
  <2>2. QED
    BY <1>2, <2>1, BecomeType DEF EnrollDuplicate, TypeOK, tables
<1>3. ASSUME NEW r \in Requests, EnrollInsert(p, r) PROVE TypeOK'
  <2>1. [status |-> "pending", student |-> proc[p].student, class |-> proc[p].class]
          \in RequestRow
    BY <1>3, ClassField DEF EnrollInsert, RequestRow
  <2>2. request' \in [Requests -> RequestRow]
    BY <1>3, <2>1 DEF EnrollInsert, TypeOK
  <2>3. QED
    BY <1>3, <2>2, BecomeType DEF EnrollInsert, TypeOK
<1>4. QED
  BY <1>1, <1>2, <1>3 DEF Enroll

LEMMA ReviewType ==
  ASSUME TypeOK, ReviewedKnown, NEW p \in Procs, Review(p)
  PROVE  TypeOK'
<1>1. ASSUME NEW r \in Requests, NEW override \in BOOLEAN, ApproveRead(p, r, override)
      PROVE  TypeOK'
  <2>1. request[r].student \in Students /\ request[r].class \in Classes
    BY <1>1 DEF ApproveRead, TypeOK, RequestRow
  <2>2. [pc |-> "approveClass", request |-> r, override |-> override,
         student |-> request[r].student, class |-> request[r].class] \in ProcRun
    BY <2>1 DEF ProcRun
  <2>3. QED
    BY <1>1, <2>2, BeginType DEF ApproveRead, TypeOK, tables
<1>2. ASSUME ApproveClass(p) PROVE TypeOK'
  <2>1. /\ proc[p].request \in Requests /\ proc[p].override \in BOOLEAN
        /\ proc[p].student \in Students /\ proc[p].class \in Classes
    BY <1>2, ReviewFields DEF ApproveClass
  <2>2. class[proc[p].class].max \in Max /\ class[proc[p].class].group \in BOOLEAN
    BY <2>1 DEF TypeOK, ClassRow, Max
  <2>3. [pc |-> "approveCount", request |-> proc[p].request, override |-> proc[p].override,
         student |-> proc[p].student, class |-> proc[p].class,
         max |-> class[proc[p].class].max, group |-> class[proc[p].class].group] \in ProcRun
    BY <2>1, <2>2 DEF ProcRun
  <2>4. QED
    BY <1>2, <2>3, BecomeType DEF ApproveClass, TypeOK, tables
<1>3. ASSUME ApproveCount(p) PROVE TypeOK'
  <2>1. [proc[p] EXCEPT !.pc = "approveCommit"] \in ProcRun
    BY <1>3, ReviewFields DEF ApproveCount, ProcRun
  <2>2. QED
    BY <1>3, <2>1, BecomeType DEF ApproveCount, TypeOK, tables
<1>4. ASSUME ApproveCommit(p) PROVE TypeOK'
  <2>1. /\ proc[p].request \in Requests /\ proc[p].student \in Students
        /\ proc[p].class \in Classes /\ proc[p].max \in Max /\ proc[p].group \in BOOLEAN
    BY <1>4, ReviewFields DEF ApproveCommit
  <2>2. [pc |-> "approveMark", request |-> proc[p].request, class |-> proc[p].class,
         max |-> proc[p].max, group |-> proc[p].group] \in ProcRun
    BY <2>1 DEF ProcRun
  <2>3. student' \in [Students -> StudentRow]
    <3>1. Join({proc[p].student}, proc[p].class) \in [Students -> StudentRow]
      BY <2>1, JoinType
    <3>2. student \in [Students -> StudentRow]
      BY DEF TypeOK
    <3>3. QED
      BY <1>4, <3>1, <3>2 DEF ApproveCommit
  <2>4. lastMove' \in [Students -> Move]
    <3>1. proc[p].class \in ClassId
      BY <2>1 DEF ClassId
    <3>2. Logged({proc[p].student}, proc[p].class, proc[p].class) \in [Students -> Move]
      BY <2>1, <3>1, LoggedType
    <3>3. lastMove \in [Students -> Move]
      BY DEF TypeOK
    <3>4. QED
      BY <1>4, <3>2, <3>3 DEF ApproveCommit
  <2>5. audited' \in SUBSET Requests
    BY <1>4, <2>1 DEF ApproveCommit, TypeOK
  <2>6. proc' \in [Procs -> ProcRun \cup {Idle}] /\ calls' \in 0..MaxCalls
    BY <1>4, <2>2, BecomeType DEF ApproveCommit
  <2>7. QED
    BY <1>4, <2>3, <2>4, <2>5, <2>6 DEF ApproveCommit, TypeOK
<1>5. ASSUME ApproveMark(p) PROVE TypeOK'
  <2>1. /\ proc[p].request \in Requests /\ proc[p].class \in Classes
        /\ proc[p].max \in Max /\ proc[p].group \in BOOLEAN
    BY <1>5, ReviewFields DEF ApproveMark
  <2>2. AfterJoin(proc[p].class, proc[p].max, proc[p].group) \in ProcRun \cup {Idle}
    BY <2>1 DEF AfterJoin, ProcRun, Max
  <2>3. request' \in [Requests -> RequestRow]
    BY <1>5, <2>1, MarkType DEF ApproveMark, ReviewedKnown, Reviewing
  <2>4. QED
    BY <1>5, <2>2, <2>3, BecomeType DEF ApproveMark, TypeOK
<1>6. ASSUME NEW r \in Requests, RejectRead(p, r) PROVE TypeOK'
  <2>1. [pc |-> "reject", request |-> r] \in ProcRun
    BY DEF ProcRun
  <2>2. QED
    BY <1>6, <2>1, BeginType DEF RejectRead, TypeOK, tables
<1>7. ASSUME RejectMark(p) PROVE TypeOK'
  <2>1. proc[p].request \in Requests
    BY <1>7, ReviewFields DEF RejectMark
  <2>2. request' \in [Requests -> RequestRow]
    BY <1>7, <2>1, MarkType DEF RejectMark, ReviewedKnown, Reviewing
  <2>3. QED
    BY <1>7, <2>2, BecomeType DEF RejectMark, TypeOK
<1>8. QED
  BY <1>1, <1>2, <1>3, <1>4, <1>5, <1>6, <1>7 DEF Review

LEMMA TransferType ==
  ASSUME TypeOK, NEW p \in Procs, Transfer(p)
  PROVE  TypeOK'
<1>1. ASSUME NEW s \in Students, NEW c \in Classes, TransferRead(p, s, c) PROVE TypeOK'
  <2>1. class[c].max \in Max
    BY DEF TypeOK, ClassRow, Max
  <2>2. [pc |-> "transferStudent", student |-> s, class |-> c, max |-> class[c].max] \in ProcRun
    BY <2>1 DEF ProcRun
  <2>3. QED
    BY <1>1, <2>2, BeginType DEF TransferRead, TypeOK, tables
<1>2. ASSUME TransferStudent(p) PROVE TypeOK'
  <2>1. proc[p].student \in Students /\ proc[p].class \in Classes /\ proc[p].max \in Max
    BY <1>2, TransferFields DEF TransferStudent
  <2>2. student[proc[p].student].class \in ClassId
    BY <2>1 DEF TypeOK, StudentRow
  <2>3. [pc |-> "transferCommit", student |-> proc[p].student, class |-> proc[p].class,
         max |-> proc[p].max, from |-> student[proc[p].student].class] \in ProcRun
    BY <2>1, <2>2 DEF ProcRun
  <2>4. QED
    BY <1>2, <2>3, BecomeType DEF TransferStudent, TypeOK, tables
<1>3. ASSUME TransferCommit(p) PROVE TypeOK'
  <2>1. /\ proc[p].student \in Students /\ proc[p].class \in Classes /\ proc[p].max \in Max
        /\ proc[p].from \in ClassId
    BY <1>3, TransferFields DEF TransferCommit
  <2>2. AfterJoin(proc[p].class, proc[p].max, FALSE) \in ProcRun \cup {Idle}
    BY <2>1 DEF AfterJoin, ProcRun, Max
  <2>3. student' \in [Students -> StudentRow]
    <3>1. Join({proc[p].student}, proc[p].class) \in [Students -> StudentRow]
      BY <2>1, JoinType
    <3>2. student \in [Students -> StudentRow]
      BY DEF TypeOK
    <3>3. QED
      BY <1>3, <3>1, <3>2 DEF TransferCommit
  <2>4. lastMove' \in [Students -> Move]
    <3>1. proc[p].from \in ClassId
      BY <2>1 DEF ClassId
    <3>2. Logged({proc[p].student}, proc[p].from, proc[p].class) \in [Students -> Move]
      BY <2>1, <3>1, LoggedType
    <3>3. lastMove \in [Students -> Move]
      BY DEF TypeOK
    <3>4. QED
      BY <1>3, <3>2, <3>3 DEF TransferCommit
  <2>5. proc' \in [Procs -> ProcRun \cup {Idle}] /\ calls' \in 0..MaxCalls
    BY <1>3, <2>2, BecomeType DEF TransferCommit
  <2>6. QED
    BY <1>3, <2>3, <2>4, <2>5 DEF TransferCommit, TypeOK
<1>4. ASSUME JoinRecount(p) PROVE TypeOK'
  <2>1. [pc |-> "subClasses", class |-> proc[p].class] \in ProcRun
    BY <1>4, ClassField DEF JoinRecount, ProcRun
  <2>2. QED
    BY <1>4, <2>1, BecomeType DEF JoinRecount, TypeOK, tables
<1>5. ASSUME JoinSubClasses(p) PROVE TypeOK'
  <2>1. [pc |-> "split", class |-> proc[p].class] \in ProcRun
    BY <1>5, ClassField DEF JoinSubClasses, ProcRun
  <2>2. QED
    BY <1>5, <2>1, BecomeType DEF JoinSubClasses, TypeOK, tables
<1>6. QED
  BY <1>1, <1>2, <1>3, <1>4, <1>5 DEF Transfer

LEMMA FailType ==
  ASSUME TypeOK, NEW p \in Procs, Fail(p)
  PROVE  TypeOK'
BY BecomeType DEF Fail, TypeOK, tables

LEMMA StepType ==
  ASSUME TypeOK, ReviewedKnown, [Next]_vars
  PROVE  TypeOK'
<1>1. CASE Next
  BY <1>1, MaintainType, DeleteType, SplitType, EnrollType, ReviewType, TransferType, FailType
  DEF Next
<1>2. CASE UNCHANGED vars
  BY <1>2 DEF vars, TypeOK
<1>3. QED
  BY <1>1, <1>2

-----------------------------------------------------------------------------
(* Which steps write the tables.                                            *)

LEMMA Writers ==
  ASSUME [Next]_vars
  PROVE  \/ UNCHANGED tables
         \/ Maintain
         \/ \E p \in Procs :
              \/ DeleteRow(p)
              \/ \E a, b \in Classes, first \in SUBSET Students : SplitCommit(p, a, b, first)
              \/ \E r \in Requests : EnrollInsert(p, r)
              \/ ApproveCommit(p) \/ ApproveMark(p) \/ RejectMark(p) \/ TransferCommit(p)
<1>1. ASSUME NEW p \in Procs, Delete(p) PROVE UNCHANGED tables \/ DeleteRow(p)
  BY <1>1 DEF Delete, DeleteRead, DeleteChildren
<1>2. ASSUME NEW p \in Procs, Split(p)
      PROVE  \/ UNCHANGED tables
             \/ \E a, b \in Classes, first \in SUBSET Students : SplitCommit(p, a, b, first)
  BY <1>2 DEF Split, SplitRequest, AutoSplit, SplitChildren, SplitNames, SplitStudents,
              SplitRollback
<1>3. ASSUME NEW p \in Procs, Enroll(p)
      PROVE  UNCHANGED tables \/ \E r \in Requests : EnrollInsert(p, r)
  BY <1>3 DEF Enroll, EnrollRead, EnrollDuplicate
<1>4. ASSUME NEW p \in Procs, Review(p)
      PROVE  UNCHANGED tables \/ ApproveCommit(p) \/ ApproveMark(p) \/ RejectMark(p)
  BY <1>4 DEF Review, ApproveRead, ApproveClass, ApproveCount, RejectRead
<1>5. ASSUME NEW p \in Procs, Transfer(p) PROVE UNCHANGED tables \/ TransferCommit(p)
  BY <1>5 DEF Transfer, TransferRead, TransferStudent, JoinRecount, JoinSubClasses
<1>6. ASSUME NEW p \in Procs, Fail(p) PROVE UNCHANGED tables
  BY <1>6 DEF Fail
<1>7. CASE UNCHANGED vars
  BY <1>7 DEF vars, tables
<1>8. QED
  BY <1>1, <1>2, <1>3, <1>4, <1>5, <1>6, <1>7 DEF Next

-----------------------------------------------------------------------------
(* Sub-classes hang on groups.                                              *)

LEMMA ParentsStep ==
  ASSUME TypeOK, ParentsAreGroups, [Next]_vars
  PROVE  ParentsAreGroups'
<1>a. ASSUME class' = class PROVE ParentsAreGroups'
  BY <1>a DEF ParentsAreGroups, Present
<1>b. \A c \in Classes : class[c] \in ClassRow
  BY DEF TypeOK
<1>1. CASE Maintain
  <2>1. ASSUME NEW c \in Classes, NEW name, NEW max, ClassCreate(c, name, max)
        PROVE  ParentsAreGroups'
    BY <2>1, <1>b, NoClassIsNull DEF ClassCreate, ParentsAreGroups, Present, TypeOK
  <2>2. ASSUME NEW c \in Classes, NEW name, NEW max, ClassUpdate(c, name, max)
        PROVE  ParentsAreGroups'
    <3>1. \A d \in Classes : /\ class'[d].row = class[d].row
                             /\ class'[d].parent = class[d].parent
                             /\ class'[d].group = class[d].group
      BY <2>2, <1>b DEF ClassUpdate, ClassRow, TypeOK
    <3>2. QED
      BY <3>1 DEF ParentsAreGroups, Present
  <2>3. QED
    BY <1>1, <1>a, <2>1, <2>2 DEF Maintain, StudentCreate, StudentRemove
<1>2. ASSUME NEW p \in Procs, DeleteRow(p) PROVE ParentsAreGroups'
  <2>1. CASE proc[p].class \in Present
    <3> DEFINE c == proc[p].class
    <3>a. c \in Classes
      BY <2>1 DEF Present
    <3>1. class'[c] = NoRow("deleted")
      BY <1>2, <2>1, <3>a DEF DeleteRow, Unclassed
    <3>b. \A k \in ClassRow :
            LET new == [k EXCEPT !.parent = IF @ = c THEN NoClass ELSE @]
            IN /\ new.row = k.row /\ new.group = k.group
               /\ new.parent = IF k.parent = c THEN NoClass ELSE k.parent
      BY DEF ClassRow
    <3>c. \A d \in Classes : d # c =>
            class'[d] = [class[d] EXCEPT !.parent = IF @ = c THEN NoClass ELSE @]
      BY <1>2, <2>1 DEF DeleteRow, Unclassed
    <3>2. \A d \in Classes : d # c =>
            /\ class'[d].row = class[d].row /\ class'[d].group = class[d].group
            /\ class'[d].parent = IF class[d].parent = c THEN NoClass ELSE class[d].parent
      BY <3>b, <3>c, <1>b
    <3>3. class'[c].row = "deleted"
      BY <3>1 DEF NoRow
    <3>4. QED
      BY <3>2, <3>3, <2>1 DEF ParentsAreGroups, Present
  <2>2. CASE proc[p].class \notin Present
    BY <1>2, <1>a, <2>2 DEF DeleteRow
  <2>3. QED
    BY <2>1, <2>2
<1>3. ASSUME NEW p \in Procs, NEW a \in Classes, NEW b \in Classes, NEW first,
             SplitCommit(p, a, b, first)
      PROVE  ParentsAreGroups'
  <2> DEFINE k == proc[p].class
  <2>1. /\ k \in Present /\ class[a].row = "absent" /\ class[b].row = "absent"
        /\ class' = SplitClasses(proc[p], a, b)
    BY <1>3 DEF SplitCommit, SplitCommits
  <2>2. k \in Classes /\ k # a /\ k # b
    BY <2>1 DEF Present
  <2>3. class'[k].row = "present" /\ class'[k].group /\ class'[k].parent = class[k].parent
    BY <2>1, <2>2, <1>b DEF SplitClasses, TypeOK, ClassRow, Present
  <2>4. \A d \in Classes : d = a \/ d = b => class'[d].parent = k
    BY <2>1, <2>2 DEF SplitClasses, SubClass, TypeOK
  <2>5. \A d \in Classes \ {a, b, k} : class'[d] = class[d]
    BY <2>1 DEF SplitClasses, TypeOK
  <2>6. ASSUME NEW d \in Classes, class'[d].row = "present", class'[d].parent # NoClass
        PROVE  /\ class'[d].parent \in Classes
               /\ class'[class'[d].parent].row = "present" /\ class'[class'[d].parent].group
    <3>1. CASE d = a \/ d = b
      BY <2>2, <2>3, <2>4, <3>1
    <3>2. CASE d \notin {a, b}
      <4>1. class[d].row = "present" /\ class[d].parent # NoClass
            /\ class'[d].parent = class[d].parent
        BY <2>1, <2>3, <2>5, <2>6, <3>2 DEF Present
      <4>2. class[d].parent \in Present /\ class[class[d].parent].group
        BY <4>1 DEF ParentsAreGroups, Present
      <4>3. class[d].parent \notin {a, b}
        BY <2>1, <4>2 DEF Present
      <4>4. QED
        BY <2>3, <2>5, <4>1, <4>2, <4>3 DEF Present
    <3>3. QED
      BY <3>1, <3>2
  <2>7. QED
    BY <2>6 DEF ParentsAreGroups, Present
<1>4. QED
  BY Writers, <1>a, <1>1, <1>2, <1>3
  DEF tables, EnrollInsert, ApproveCommit, ApproveMark, RejectMark, TransferCommit

-----------------------------------------------------------------------------
(* The log names the class.                                                 *)

LEMMA LogStep ==
  ASSUME TypeOK, LogTellsClass, AbsentUnlogged, [Next]_vars
  PROVE  LogTellsClass' /\ AbsentUnlogged'
<1>a. ASSUME student' = student, lastMove' = lastMove PROVE LogTellsClass' /\ AbsentUnlogged'
  BY <1>a DEF LogTellsClass, AbsentUnlogged
<1>b. /\ student \in [Students -> StudentRow] /\ lastMove \in [Students -> Move]
      /\ \A s \in Students : student[s] \in StudentRow /\ lastMove[s] \in Move
  BY DEF TypeOK
<1>c. ASSUME NEW S \in SUBSET PresentStudents, NEW from, NEW c, NEW s \in Students
      PROVE  /\ Join(S, c)[s].row = student[s].row
             /\ s \in S => Join(S, c)[s].class = c /\ Logged(S, from, c)[s].to = c
                           /\ student[s].row = "present"
             /\ s \notin S => Join(S, c)[s] = student[s] /\ Logged(S, from, c)[s] = lastMove[s]
  BY <1>b DEF Join, Logged, StudentRow, PresentStudents
<1>1. CASE Maintain
  <2>1. ASSUME NEW s \in Students, NEW c, StudentCreate(s, c)
        PROVE  LogTellsClass' /\ AbsentUnlogged'
    BY <2>1, <1>b DEF StudentCreate, LogTellsClass, AbsentUnlogged
  <2>2. ASSUME NEW s \in Students, StudentRemove(s)
        PROVE  LogTellsClass' /\ AbsentUnlogged'
    <3>1. /\ \A t \in Students : t # s => student'[t] = student[t] /\ lastMove'[t] = lastMove[t]
          /\ lastMove'[s].logged = FALSE
      BY <2>2, <1>b DEF StudentRemove, NoMove
    <3>2. QED
      BY <3>1 DEF LogTellsClass, AbsentUnlogged
  <2>3. QED
    BY <1>1, <1>a, <2>1, <2>2 DEF Maintain, ClassCreate, ClassUpdate
<1>2. ASSUME NEW p \in Procs, DeleteRow(p) PROVE LogTellsClass' /\ AbsentUnlogged'
  <2> DEFINE c == proc[p].class
             Null(x) == IF x = c THEN NoClass ELSE x
  <2>1. CASE c \in Present
    <3>1. \A s \in Students :
            /\ student'[s] = [student[s] EXCEPT !.class = Null(@)]
            /\ lastMove'[s] = [lastMove[s] EXCEPT !.from = Null(@), !.to = Null(@)]
      BY <1>2, <2>1 DEF DeleteRow, Unclassed
    <3>2. \A t \in StudentRow : LET new == [t EXCEPT !.class = Null(@)]
                                IN new.row = t.row /\ new.class = Null(t.class)
      BY DEF StudentRow
    <3>4. \A s \in Students :
            /\ student'[s].row = student[s].row /\ student'[s].class = Null(student[s].class)
            /\ lastMove'[s].logged = lastMove[s].logged /\ lastMove'[s].to = Null(lastMove[s].to)
      <4>1. ASSUME NEW s \in Students
            PROVE  student'[s].row = student[s].row /\ student'[s].class = Null(student[s].class)
        <5>1. student[s] \in StudentRow
          BY <1>b
        <5>2. student'[s] = [student[s] EXCEPT !.class = Null(@)]
          BY <3>1
        <5>3. QED
          BY <5>1, <5>2, <3>2
      <4>2. ASSUME NEW s \in Students
            PROVE  /\ lastMove'[s].logged = lastMove[s].logged
                   /\ lastMove'[s].to = Null(lastMove[s].to)
        <5>1. lastMove[s] \in Move
          BY <1>b
        <5>2. lastMove'[s] = [lastMove[s] EXCEPT !.from = Null(@), !.to = Null(@)]
          BY <3>1
        <5>3. QED
          BY <5>1, <5>2 DEF Move
      <4>3. QED
        BY <4>1, <4>2
    <3>5. QED
      BY <3>4 DEF LogTellsClass, AbsentUnlogged
  <2>2. CASE c \notin Present
    BY <1>2, <1>a, <2>2 DEF DeleteRow
  <2>3. QED
    BY <2>1, <2>2
<1>3. ASSUME NEW p \in Procs, NEW a \in Classes, NEW b \in Classes, NEW first,
             SplitCommit(p, a, b, first)
      PROVE  LogTellsClass' /\ AbsentUnlogged'
  <2> DEFINE k == proc[p].class
             second == SecondHalf(proc[p].students, first)
  <2>1. first \in SUBSET PresentStudents /\ second \in SUBSET PresentStudents
    BY <1>3 DEF SplitCommit, SplitCommits, FirstHalves, SecondHalf
  <2>2. \A s \in Students :
          /\ student'[s] = IF s \in second THEN Join(second, b)[s] ELSE Join(first, a)[s]
          /\ lastMove'[s] = IF s \in second THEN Logged(second, k, b)[s]
                                            ELSE Logged(first, k, a)[s]
    BY <1>3 DEF SplitCommit
  <2>3. ASSUME NEW s \in Students
        PROVE  /\ lastMove'[s].logged => student'[s].class = lastMove'[s].to
               /\ student'[s].row # "present" => ~lastMove'[s].logged
    <3>1. CASE s \in second
      BY <1>c, <2>1, <2>2, <3>1
    <3>2. CASE s \notin second /\ s \in first
      BY <1>c, <2>1, <2>2, <3>2
    <3>3. CASE s \notin second /\ s \notin first
      <4>1. student'[s] = student[s] /\ lastMove'[s] = lastMove[s]
        BY <1>c, <2>1, <2>2, <3>3
      <4>2. QED
        BY <4>1 DEF LogTellsClass, AbsentUnlogged
    <3>4. QED
      BY <3>1, <3>2, <3>3
  <2>4. QED
    BY <2>3 DEF LogTellsClass, AbsentUnlogged
<1>4. ASSUME NEW s \in PresentStudents, NEW from, NEW c,
             student' = Join({s}, c), lastMove' = Logged({s}, from, c)
      PROVE  LogTellsClass' /\ AbsentUnlogged'
  <2>1. ASSUME NEW u \in Students
        PROVE  /\ lastMove'[u].logged => student'[u].class = lastMove'[u].to
               /\ student'[u].row # "present" => ~lastMove'[u].logged
    <3>1. CASE u = s
      BY <1>4, <1>c, <3>1
    <3>2. CASE u # s
      <4>1. student'[u] = student[u] /\ lastMove'[u] = lastMove[u]
        BY <1>4, <1>c, <3>2
      <4>2. QED
        BY <4>1 DEF LogTellsClass, AbsentUnlogged
    <3>3. QED
      BY <3>1, <3>2
  <2>2. QED
    BY <2>1 DEF LogTellsClass, AbsentUnlogged
<1>5. ASSUME NEW p \in Procs, ApproveCommit(p) \/ TransferCommit(p)
      PROVE  LogTellsClass' /\ AbsentUnlogged'
  <2>1. CASE student' = student /\ lastMove' = lastMove
    BY <1>a, <2>1
  <2>2. CASE ~(student' = student /\ lastMove' = lastMove)
    <3>1. PICK from \in {proc[p].class, proc[p].from} :
            /\ proc[p].student \in PresentStudents
            /\ student' = Join({proc[p].student}, proc[p].class)
            /\ lastMove' = Logged({proc[p].student}, from, proc[p].class)
      BY <1>5, <2>2 DEF ApproveCommit, TransferCommit, TransferCommits
    <3>2. QED
      BY <1>4, <3>1
  <2>3. QED
    BY <2>1, <2>2
<1>6. QED
  BY Writers, <1>a, <1>1, <1>2, <1>3, <1>5
  DEF tables, EnrollInsert, ApproveMark, RejectMark

-----------------------------------------------------------------------------
(* An approved request is one whose student was enrolled.                   *)

(* The audit log only grows, and a request that has a row keeps a status.   *)
LEMMA RequestsStay ==
  ASSUME TypeOK, [Next]_vars
  PROVE  /\ audited \subseteq audited'
         /\ \A r \in Requests : request[r].status # "absent" => request'[r].status # "absent"
<1>a. request \in [Requests -> RequestRow]
  BY DEF TypeOK
<1>b. ASSUME NEW r \in Requests, NEW status \in {"approved", "rejected"}, Mark(r, status)
      PROVE  \A q \in Requests : request[q].status # "absent" => request'[q].status # "absent"
  <2>1. request[r].status # "deleted" => request'[r].status = status \/ request[r].status = "absent"
    BY <1>a, <1>b DEF Mark, RequestRow
  <2>2. QED
    BY <1>a, <1>b, <2>1 DEF Mark
<1>c. ASSUME \A r \in Requests : request'[r] = [status |-> "deleted"] \/ request'[r] = request[r]
      PROVE  \A r \in Requests : request[r].status # "absent" => request'[r].status # "absent"
  <2>1. [status |-> "deleted"].status # "absent"
    OBVIOUS
  <2>2. QED
    BY <1>c, <2>1
<1>1. CASE Maintain
  <2>1. \A s \in Students : StudentRemove(s) =>
          \A r \in Requests : request'[r] = [status |-> "deleted"] \/ request'[r] = request[r]
    BY DEF StudentRemove
  <2>2. audited' = audited
    BY <1>1 DEF Maintain, ClassCreate, ClassUpdate, StudentCreate, StudentRemove
  <2>3. request' = request \/ \E s \in Students : StudentRemove(s)
    BY <1>1 DEF Maintain, ClassCreate, ClassUpdate, StudentCreate
  <2>4. QED
    BY <1>c, <2>1, <2>2, <2>3
<1>2. ASSUME NEW p \in Procs, DeleteRow(p)
      PROVE  /\ audited' = audited
             /\ \A r \in Requests : request[r].status # "absent" => request'[r].status # "absent"
  <2>1. \A r \in Requests : request'[r] = [status |-> "deleted"] \/ request'[r] = request[r]
    BY <1>2 DEF DeleteRow, Unclassed
  <2>2. QED
    BY <1>2, <1>c, <2>1 DEF DeleteRow
<1>3. ASSUME NEW p \in Procs, NEW r \in Requests, EnrollInsert(p, r)
      PROVE  /\ audited' = audited
             /\ \A q \in Requests : request[q].status # "absent" => request'[q].status # "absent"
  BY <1>3, <1>a DEF EnrollInsert
<1>4. ASSUME NEW p \in Procs, ApproveMark(p) \/ RejectMark(p)
      PROVE  /\ audited' = audited
             /\ \A q \in Requests : request[q].status # "absent" => request'[q].status # "absent"
  BY <1>4, <1>b, ReviewFields DEF ApproveMark, RejectMark
<1>5. ASSUME NEW p \in Procs, ApproveCommit(p)
      PROVE  audited \subseteq audited' /\ request' = request
  BY <1>5 DEF ApproveCommit
<1>6. ASSUME audited' = audited, request' = request
      PROVE  /\ audited \subseteq audited'
             /\ \A r \in Requests : request[r].status # "absent" => request'[r].status # "absent"
  BY <1>6
<1>7. ASSUME NEW p \in Procs, NEW a \in Classes, NEW b \in Classes,
             NEW first \in SUBSET Students, SplitCommit(p, a, b, first)
      PROVE  audited' = audited /\ request' = request
  BY <1>7 DEF SplitCommit
<1>8. ASSUME NEW p \in Procs, TransferCommit(p)
      PROVE  audited' = audited /\ request' = request
  BY <1>8 DEF TransferCommit
<1>9. CASE UNCHANGED tables
  BY <1>6, <1>9 DEF tables
<1>10. QED
  BY Writers, <1>1, <1>2, <1>3, <1>4, <1>5, <1>6, <1>7, <1>8, <1>9

(* What a step makes of the runs: only p's changes, and a run that reviews  *)
(* a request reviews one that has a row, or has audited it to mark it.      *)
LEMMA ReviewStep ==
  ASSUME TypeOK, ReviewedKnown, MarkersAudited, [Next]_vars
  PROVE  ReviewedKnown' /\ MarkersAudited'
<1> DEFINE Fine(state) ==
             /\ state.pc \in Reviewing => request[state.request].status # "absent"
             /\ state.pc = "approveMark" => state.request \in audited'
<1>1. ASSUME NEW p \in Procs, NEW state, Fine(state),
             Begin(p, state) \/ Become(p, state)
      PROVE  ReviewedKnown' /\ MarkersAudited'
  <2>1. \A q \in Procs : proc'[q] = proc[q] \/ (q = p /\ proc'[q] = state)
    BY <1>1 DEF Begin, Become, TypeOK
  <2>2. ASSUME NEW q \in Procs, proc'[q].pc \in Reviewing
        PROVE  /\ request[proc'[q].request].status # "absent"
               /\ proc'[q].pc = "approveMark" => proc'[q].request \in audited'
    <3>1. CASE proc'[q] = proc[q]
      BY <2>2, <3>1, RequestsStay DEF ReviewedKnown, MarkersAudited
    <3>2. CASE proc'[q] = state
      BY <1>1, <2>2, <3>2
    <3>3. QED
      BY <2>1, <3>1, <3>2
  <2>3. ASSUME NEW q \in Procs, proc'[q].pc \in Reviewing
        PROVE  proc'[q].request \in Requests
    <3>1. proc'[q] \in ProcRun
      BY <2>3, StepType, ReviewedKnown DEF TypeOK, Idle, Reviewing
    <3>2. QED
      BY <2>3, <3>1 DEF ProcRun, Reviewing
  <2>4. QED
    BY <2>2, <2>3, RequestsStay DEF ReviewedKnown, MarkersAudited, Reviewing
<1>2. ASSUME NEW state, state.pc \notin Reviewing PROVE Fine(state)
  BY <1>2 DEF Reviewing
<1>3. Fine(Idle)
  BY DEF Idle, Reviewing
<1>4. ASSUME UNCHANGED proc PROVE ReviewedKnown' /\ MarkersAudited'
  <2>1. \A p \in Procs : proc[p].pc \in Reviewing => proc[p].request \in Requests
    BY ReviewFields DEF Reviewing
  <2>2. QED
    BY <1>4, <2>1, RequestsStay DEF ReviewedKnown, MarkersAudited, Reviewing
<1>5. ASSUME NEW p \in Procs, Delete(p) PROVE ReviewedKnown' /\ MarkersAudited'
  <2>1. \A c, pc : pc \in {"children", "delete"} =>
          Fine([pc |-> pc, class |-> c])
    BY DEF Reviewing
  <2>2. QED
    BY <1>1, <1>3, <1>5, <2>1 DEF Delete, DeleteRead, DeleteChildren, DeleteRow
<1>6. ASSUME NEW p \in Procs, Split(p) PROVE ReviewedKnown' /\ MarkersAudited'
  <2>1. ASSUME NEW c PROVE Fine(SplitRun(c))
    BY <1>3 DEF SplitRun, Reviewing
  <2>2. ASSUME NEW pc \in {"splitNames", "splitStudents"},
               proc[p].pc \in {"splitChildren", "splitNames"}
        PROVE  Fine([proc[p] EXCEPT !.pc = pc])
    BY <2>2, SplitFields DEF ProcRun, Reviewing
  <2>3. Fine([pc |-> "splitCommit", class |-> proc[p].class, name |-> proc[p].name,
              max |-> proc[p].max, students |-> Roster(proc[p].class)])
    BY DEF Reviewing
  <2>4. QED
    BY <1>1, <1>3, <1>6, <2>1, <2>2, <2>3
    DEF Split, SplitRequest, AutoSplit, SplitChildren, SplitNames, SplitStudents, SplitCommit,
        SplitRollback
<1>7. ASSUME NEW p \in Procs, Enroll(p) PROVE ReviewedKnown' /\ MarkersAudited'
  <2>1. \A s, c : Fine([pc |-> "duplicate", student |-> s, class |-> c])
    BY DEF Reviewing
  <2>2. proc[p].pc = "duplicate" => Fine([proc[p] EXCEPT !.pc = "insert"])
    BY Running DEF ProcRun, Reviewing
  <2>3. QED
    BY <1>1, <1>3, <1>7, <2>1, <2>2 DEF Enroll, EnrollRead, EnrollDuplicate, EnrollInsert
<1>8. ASSUME NEW p \in Procs, Review(p) PROVE ReviewedKnown' /\ MarkersAudited'
  <2>1. ASSUME NEW r \in Requests, NEW override, ApproveRead(p, r, override)
        PROVE  ReviewedKnown' /\ MarkersAudited'
    BY <1>1, <2>1 DEF ApproveRead, Reviewing
  <2>2. ASSUME NEW r \in Requests, RejectRead(p, r) PROVE ReviewedKnown' /\ MarkersAudited'
    BY <1>1, <2>2 DEF RejectRead, Reviewing
  <2>3. ASSUME ApproveClass(p) PROVE ReviewedKnown' /\ MarkersAudited'
    <3>1. request[proc[p].request].status # "absent"
      BY <2>3 DEF ApproveClass, ReviewedKnown, Reviewing
    <3>2. QED
      BY <1>1, <1>3, <2>3, <3>1 DEF ApproveClass
  <2>4. ASSUME ApproveCount(p) PROVE ReviewedKnown' /\ MarkersAudited'
    <3>1. request[proc[p].request].status # "absent"
      BY <2>4 DEF ApproveCount, ReviewedKnown, Reviewing
    <3>2. Fine([proc[p] EXCEPT !.pc = "approveCommit"])
      BY <2>4, <3>1, ReviewFields DEF ApproveCount, ProcRun
    <3>3. QED
      BY <1>1, <1>3, <2>4, <3>2 DEF ApproveCount
  <2>5. ASSUME ApproveCommit(p) PROVE ReviewedKnown' /\ MarkersAudited'
    <3>1. request[proc[p].request].status # "absent"
      BY <2>5 DEF ApproveCommit, ReviewedKnown, Reviewing
    <3>2. QED
      BY <1>1, <1>3, <2>5, <3>1 DEF ApproveCommit
  <2>6. ASSUME ApproveMark(p) PROVE ReviewedKnown' /\ MarkersAudited'
    <3>1. \A c, max, group : Fine(AfterJoin(c, max, group))
      BY <1>3 DEF AfterJoin, Reviewing
    <3>2. QED
      BY <1>1, <2>6, <3>1 DEF ApproveMark
  <2>7. ASSUME RejectMark(p) PROVE ReviewedKnown' /\ MarkersAudited'
    BY <1>1, <1>3, <2>7 DEF RejectMark
  <2>8. QED
    BY <1>8, <2>1, <2>2, <2>3, <2>4, <2>5, <2>6, <2>7 DEF Review
<1>9. ASSUME NEW p \in Procs, Transfer(p) PROVE ReviewedKnown' /\ MarkersAudited'
  <2>1. \A c, max, group : Fine(AfterJoin(c, max, group))
    BY <1>3 DEF AfterJoin, Reviewing
  <2>2. \A c, pc : pc \in {"subClasses", "split"} => Fine([pc |-> pc, class |-> c])
    BY DEF Reviewing
  <2>3. \A s, c, max : Fine([pc |-> "transferStudent", student |-> s, class |-> c, max |-> max])
    BY DEF Reviewing
  <2>4. \A s, c, max, from :
          Fine([pc |-> "transferCommit", student |-> s, class |-> c, max |-> max, from |-> from])
    BY DEF Reviewing
  <2>5. QED
    BY <1>1, <1>3, <1>9, <2>1, <2>2, <2>3, <2>4
    DEF Transfer, TransferRead, TransferStudent, TransferCommit, JoinRecount, JoinSubClasses
<1>10. ASSUME NEW p \in Procs, Fail(p) PROVE ReviewedKnown' /\ MarkersAudited'
  BY <1>1, <1>3, <1>10 DEF Fail
<1>11. CASE Maintain
  BY <1>4, <1>11 DEF Maintain, ClassCreate, ClassUpdate, StudentCreate, StudentRemove
<1>12. CASE UNCHANGED vars
  BY <1>4, <1>12 DEF vars
<1>13. QED
  BY <1>5, <1>6, <1>7, <1>8, <1>9, <1>10, <1>11, <1>12 DEF Next

LEMMA ApprovedStep ==
  ASSUME TypeOK, MarkersAudited, ApprovedIsAudited, [Next]_vars
  PROVE  ApprovedIsAudited'
<1>a. request \in [Requests -> RequestRow]
  BY DEF TypeOK
<1>b. ASSUME \A r \in Requests :
               request'[r] = request[r] \/ request'[r].status # "approved" \/ r \in audited
      PROVE  ApprovedIsAudited'
  BY <1>b, RequestsStay DEF ApprovedIsAudited
<1>c. [status |-> "deleted"].status # "approved"
  OBVIOUS
<1>1. CASE Maintain
  <2>1. \A s \in Students : StudentRemove(s) =>
          \A r \in Requests : request'[r] = [status |-> "deleted"] \/ request'[r] = request[r]
    BY DEF StudentRemove
  <2>2. request' = request \/ \E s \in Students : StudentRemove(s)
    BY <1>1 DEF Maintain, ClassCreate, ClassUpdate, StudentCreate
  <2>3. QED
    BY <1>b, <1>c, <2>1, <2>2
<1>2. ASSUME NEW p \in Procs, DeleteRow(p) PROVE ApprovedIsAudited'
  <2>1. \A r \in Requests : request'[r] = [status |-> "deleted"] \/ request'[r] = request[r]
    BY <1>2 DEF DeleteRow, Unclassed
  <2>2. QED
    BY <1>b, <1>c, <2>1
<1>3. ASSUME NEW p \in Procs, NEW r \in Requests, EnrollInsert(p, r) PROVE ApprovedIsAudited'
  BY <1>3, <1>a, <1>b DEF EnrollInsert
<1>4. ASSUME NEW p \in Procs, ApproveMark(p) PROVE ApprovedIsAudited'
  <2>1. proc[p].request \in audited
    BY <1>4 DEF ApproveMark, MarkersAudited
  <2>2. \A r \in Requests : r # proc[p].request => request'[r] = request[r]
    BY <1>4, <1>a DEF ApproveMark, Mark
  <2>3. QED
    BY <1>b, <2>1, <2>2
<1>5. ASSUME NEW p \in Procs, RejectMark(p) PROVE ApprovedIsAudited'
  <2>1. request[proc[p].request] \in RequestRow
    BY <1>5, <1>a, ReviewFields DEF RejectMark
  <2>2. request' = request \/
        request' = [request EXCEPT ![proc[p].request] =
                      [request[proc[p].request] EXCEPT !.status = "rejected"]]
    BY <1>5 DEF RejectMark, Mark
  <2>3. [request[proc[p].request] EXCEPT !.status = "rejected"].status # "approved"
    BY <2>1 DEF RequestRow
  <2>4. QED
    BY <1>a, <1>b, <2>2, <2>3
<1>6. ASSUME request' = request PROVE ApprovedIsAudited'
  BY <1>b, <1>6
<1>7. CASE UNCHANGED tables
  BY <1>6, <1>7 DEF tables
<1>8. ASSUME NEW p \in Procs, NEW a \in Classes, NEW b \in Classes,
             NEW first \in SUBSET Students, SplitCommit(p, a, b, first)
      PROVE  ApprovedIsAudited'
  BY <1>6, <1>8 DEF SplitCommit
<1>9. ASSUME NEW p \in Procs, ApproveCommit(p) PROVE ApprovedIsAudited'
  BY <1>6, <1>9 DEF ApproveCommit
<1>10. ASSUME NEW p \in Procs, TransferCommit(p) PROVE ApprovedIsAudited'
  BY <1>6, <1>10 DEF TransferCommit
<1>11. QED
  BY Writers, <1>1, <1>2, <1>3, <1>4, <1>5, <1>7, <1>8, <1>9, <1>10

-----------------------------------------------------------------------------
(* The theorems.                                                            *)

LEMMA InitInv == Init => IInv
<1> SUFFICES ASSUME Init PROVE IInv
  OBVIOUS
<1>1. TypeOK
  BY InitType
<1>2. ReviewedKnown /\ MarkersAudited
  BY DEF Init, Idle, Reviewing, ReviewedKnown, MarkersAudited
<1>3. ParentsAreGroups
  BY DEF Init, NoRow, Present, ParentsAreGroups
<1>4. LogTellsClass /\ AbsentUnlogged
  BY DEF Init, NoMove, LogTellsClass, AbsentUnlogged
<1>5. ApprovedIsAudited
  BY DEF Init, ApprovedIsAudited
<1>6. QED
  BY <1>1, <1>2, <1>3, <1>4, <1>5 DEF IInv

LEMMA StepInv == IInv /\ [Next]_vars => IInv'
BY StepType, ReviewStep, ParentsStep, LogStep, ApprovedStep DEF IInv

(* The inductive invariant: the tables' types and links, and what a review  *)
(* under way still knows of its request.                                    *)
THEOREM InvariantHolds == Spec => []IInv
BY InitInv, StepInv, PTL DEF Spec

(* Every row and local state is one the program can name, for any number of *)
(* classes, students, requests and handlers.                                *)
THEOREM TypeCorrect == Spec => []TypeOK
<1>1. IInv => TypeOK
  BY DEF IInv
<1>2. QED
  BY <1>1, InvariantHolds, PTL

(* splitClass and delete keep every sub-class under a group that exists.    *)
THEOREM SubClassesHaveGroups == Spec => []ParentsAreGroups
<1>1. IInv => ParentsAreGroups
  BY DEF IInv
<1>2. QED
  BY <1>1, InvariantHolds, PTL

(* Approvals, transfers, splits and deletions keep the latest transfer log  *)
(* of a student and its class in step.                                      *)
THEOREM LogKeepsUp == Spec => []LogTellsClass
<1>1. IInv => LogTellsClass
  BY DEF IInv
<1>2. QED
  BY <1>1, InvariantHolds, PTL

(* approveEnrollment marks a request only after it enrolled the student.    *)
THEOREM ApprovalsEnroll == Spec => []ApprovedIsAudited
<1>1. IInv => ApprovedIsAudited
  BY DEF IInv
<1>2. QED
  BY <1>1, InvariantHolds, PTL

-----------------------------------------------------------------------------
(* Handlers that do not overlap.                                            *)

OnlyOne == \A p, q \in Procs : proc[p] # Idle /\ proc[q] # Idle => p = q

GoneUnclassed ==
  \A s \in Students : student[s].row # "present" => student[s].class = NoClass

PendingOnce ==
  \A q, r \in Requests :
    /\ request[q].status = "pending" /\ request[r].status = "pending"
    /\ request[q].student = request[r].student /\ request[q].class = request[r].class
    => q = r

(* What a run has read is still so.                                         *)
RunFresh(run) ==
  /\ run.pc = "delete" => Children(run.class) = {}
  /\ run.pc = "splitCommit" => run.students = Roster(run.class)
  /\ run.pc = "insert" => PendingFor(run.student, run.class) = {}
  /\ run.pc \in Reviewing => request[run.request].status = "pending"
  /\ run.pc \in {"approveCount", "approveCommit"} => run.max = class[run.class].max
  /\ run.pc = "approveCommit" => ~Refused(run)

RunsFresh == \A p \in Procs : RunFresh(proc[p])

(* An undecided or rejected request enrolled nobody, unless it is being     *)
(* approved or its approval stopped half way.                               *)
UndecidedUnaudited ==
  \A r \in Requests \ stopped :
    request[r].status \in {"absent", "pending", "rejected"} /\ r \in audited =>
      \E p \in Procs : proc[p].pc = "approveMark" /\ proc[p].request = r

SerialInv ==
  /\ IInv
  /\ OnlyOne
  /\ GoneUnclassed
  /\ IsFiniteSet(PresentStudents)
  /\ PendingOnce
  /\ RunsFresh
  /\ UndecidedUnaudited

(* The handler that steps is the only one that is not idle.                 *)
LEMMA OnlyStepper ==
  ASSUME TypeOK, OnlyOne, Alone, NEW p \in Procs, NEW state,
         \/ Begin(p, state) /\ state # Idle
         \/ Become(p, state) /\ proc[p] # Idle
  PROVE  /\ proc'[p] = state
         /\ \A q \in Procs : q # p => proc'[q] = Idle /\ proc[q] = Idle
<1>1. proc'[p] = state /\ \A q \in Procs : q # p => proc'[q] = proc[q]
  BY DEF Begin, Become, TypeOK
<1>2. ASSUME NEW q \in Procs, q # p PROVE proc[q] = Idle
  <2>1. CASE proc[p] # Idle
    BY <1>2, <2>1 DEF OnlyOne
  <2>2. CASE proc'[p] # Idle
    BY <1>1, <1>2, <2>2 DEF Alone
  <2>3. QED
    BY <1>1, <2>1, <2>2
<1>3. QED
  BY <1>1, <1>2

LEMMA MaintainIdle ==
  ASSUME Maintain, Alone
  PROVE  UNCHANGED proc /\ \A p \in Procs : proc[p] = Idle
BY DEF Maintain, ClassCreate, ClassUpdate, StudentCreate, StudentRemove, Alone

LEMMA SplitRunFields ==
  ASSUME NEW c, c \in Present, ~class[c].group
  PROVE  SplitRun(c).pc = "splitChildren" /\ SplitRun(c) # Idle
BY DEF SplitRun, Idle

LEMMA RunsStep ==
  ASSUME SerialInv, Next, Alone
  PROVE  RunsFresh'
<1>0. TypeOK /\ OnlyOne /\ ParentsAreGroups
  BY DEF SerialInv, IInv
<1>a. ASSUME NEW p \in Procs, NEW state, RunFresh(state)',
             \/ Begin(p, state) /\ state # Idle
             \/ Become(p, state) /\ proc[p].pc # "idle"
      PROVE  RunsFresh'
  <2>1. proc[p].pc # "idle" => proc[p] # Idle
    BY DEF Idle
  <2>2. /\ proc'[p] = state
        /\ \A q \in Procs : q # p => proc'[q] = Idle
    BY <1>0, <1>a, <2>1, OnlyStepper
  <2>3. ASSUME NEW q \in Procs PROVE RunFresh(proc[q])'
    <3>1. CASE q = p
      BY <1>a, <2>2, <3>1 DEF RunFresh
    <3>2. CASE q # p
      BY <2>2, <3>2 DEF RunFresh, Idle, Reviewing
    <3>3. QED
      BY <3>1, <3>2
  <2>4. QED
    BY <2>3 DEF RunsFresh
<1>b. ASSUME NEW p \in Procs, NEW state, RunFresh(state), UNCHANGED tables,
             \/ Begin(p, state) /\ state # Idle
             \/ Become(p, state) /\ proc[p].pc # "idle"
      PROVE  RunsFresh'
  <2>1. RunFresh(state)'
    BY <1>b DEF RunFresh, Refused, AtCapacity, Children, Roster, Present, PresentStudents,
       PendingFor, tables
  <2>2. QED
    BY <1>a, <1>b, <2>1
<1>c. ASSUME NEW p \in Procs, NEW state,
             state.pc \notin {"delete", "splitCommit", "insert"} \cup Reviewing,
             \/ Begin(p, state) /\ state # Idle
             \/ Become(p, state) /\ proc[p].pc # "idle"
      PROVE  RunsFresh'
  <2>1. RunFresh(state)'
    BY <1>c DEF RunFresh, Reviewing
  <2>2. QED
    BY <1>a, <1>c, <2>1
<1>d. Idle.pc \notin {"delete", "splitCommit", "insert"} \cup Reviewing
  BY DEF Idle, Reviewing
<1>1. CASE Maintain
  BY <1>1, MaintainIdle DEF RunsFresh, RunFresh, Idle, Reviewing
<1>2. ASSUME NEW p \in Procs, Delete(p) PROVE RunsFresh'
  <2>1. ASSUME NEW c \in Classes, DeleteRead(p, c) PROVE RunsFresh'
    <3>1. CASE class[c].group
      BY <1>c, <2>1, <3>1 DEF DeleteRead, Idle, Reviewing
    <3>2. CASE ~class[c].group
      <4>1. Children(c) = {}
        BY <1>0, <2>1, <3>2, NoClassIsNull DEF DeleteRead, ParentsAreGroups, Children, Present
      <4>2. RunFresh([pc |-> "delete", class |-> c])
        BY <4>1 DEF RunFresh, Reviewing
      <4>3. QED
        BY <1>b, <2>1, <3>2, <4>2 DEF DeleteRead, Idle
    <3>3. QED
      BY <3>1, <3>2
  <2>2. ASSUME DeleteChildren(p) PROVE RunsFresh'
    <3>1. CASE Children(proc[p].class) = {}
      <4>1. RunFresh([pc |-> "delete", class |-> proc[p].class])
        BY <3>1 DEF RunFresh, Reviewing
      <4>2. QED
        BY <1>b, <2>2, <3>1, <4>1 DEF DeleteChildren
    <3>2. CASE Children(proc[p].class) # {}
      BY <1>c, <1>d, <2>2, <3>2 DEF DeleteChildren
    <3>3. QED
      BY <3>1, <3>2
  <2>3. ASSUME DeleteRow(p) PROVE RunsFresh'
    BY <1>c, <1>d, <2>3 DEF DeleteRow
  <2>4. QED
    BY <1>2, <2>1, <2>2, <2>3 DEF Delete
<1>3. ASSUME NEW p \in Procs, Split(p) PROVE RunsFresh'
  <2>1. ASSUME NEW c \in Classes, SplitRequest(p, c) PROVE RunsFresh'
    BY <1>c, <2>1, SplitRunFields DEF SplitRequest, Reviewing
  <2>2. ASSUME AutoSplit(p) PROVE RunsFresh'
    <3>1. SplitRun(proc[p].class).pc \in {"splitChildren", "idle"}
      BY DEF SplitRun, Idle
    <3>2. QED
      BY <1>c, <2>2, <3>1 DEF AutoSplit, Reviewing
  <2>3. ASSUME SplitChildren(p) \/ SplitNames(p) PROVE RunsFresh'
    <3>1. /\ [proc[p] EXCEPT !.pc = "splitNames"].pc = "splitNames"
          /\ [proc[p] EXCEPT !.pc = "splitStudents"].pc = "splitStudents"
      BY <1>0, <2>3, SplitFields DEF SplitChildren, SplitNames, ProcRun
    <3>2. CASE SplitChildren(p)
      BY <1>c, <1>d, <3>1, <3>2 DEF SplitChildren, Reviewing
    <3>3. CASE SplitNames(p)
      BY <1>c, <1>d, <3>1, <3>3 DEF SplitNames, Reviewing
    <3>4. QED
      BY <2>3, <3>2, <3>3
  <2>4. ASSUME SplitStudents(p) PROVE RunsFresh'
    <3>1. RunFresh([pc |-> "splitCommit", class |-> proc[p].class, name |-> proc[p].name,
                    max |-> proc[p].max, students |-> Roster(proc[p].class)])
      BY DEF RunFresh, Reviewing
    <3>2. QED
      BY <1>b, <2>4, <3>1 DEF SplitStudents
  <2>5. ASSUME NEW a, NEW b, NEW first, SplitCommit(p, a, b, first) PROVE RunsFresh'
    BY <1>c, <1>d, <2>5 DEF SplitCommit
  <2>6. ASSUME SplitRollback(p) PROVE RunsFresh'
    BY <1>c, <1>d, <2>6 DEF SplitRollback
  <2>7. QED
    BY <1>3, <2>1, <2>2, <2>3, <2>4, <2>5, <2>6 DEF Split
<1>4. ASSUME NEW p \in Procs, Enroll(p) PROVE RunsFresh'
  <2>1. ASSUME NEW s \in Students, NEW c \in Classes, EnrollRead(p, s, c) PROVE RunsFresh'
    BY <1>c, <2>1 DEF EnrollRead, Idle, Reviewing
  <2>2. ASSUME EnrollDuplicate(p) PROVE RunsFresh'
    <3>1. CASE PendingFor(proc[p].student, proc[p].class) = {}
      <4>1. /\ [proc[p] EXCEPT !.pc = "insert"].pc = "insert"
            /\ [proc[p] EXCEPT !.pc = "insert"].student = proc[p].student
            /\ [proc[p] EXCEPT !.pc = "insert"].class = proc[p].class
        BY <1>0, <2>2, Running DEF EnrollDuplicate, ProcRun
      <4>2. RunFresh([proc[p] EXCEPT !.pc = "insert"])
        BY <3>1, <4>1 DEF RunFresh, Reviewing
      <4>3. QED
        BY <1>b, <2>2, <3>1, <4>2 DEF EnrollDuplicate
    <3>2. CASE PendingFor(proc[p].student, proc[p].class) # {}
      BY <1>c, <1>d, <2>2, <3>2 DEF EnrollDuplicate
    <3>3. QED
      BY <3>1, <3>2
  <2>3. ASSUME NEW r, EnrollInsert(p, r) PROVE RunsFresh'
    BY <1>c, <1>d, <2>3 DEF EnrollInsert
  <2>4. QED
    BY <1>4, <2>1, <2>2, <2>3 DEF Enroll
<1>5. ASSUME NEW p \in Procs, Review(p) PROVE RunsFresh'
  <2>0. RunFresh(proc[p])
    BY DEF SerialInv, RunsFresh
  <2>1. ASSUME NEW r \in Requests, NEW override \in BOOLEAN, ApproveRead(p, r, override)
        PROVE  RunsFresh'
    <3>1. RunFresh([pc |-> "approveClass", request |-> r, override |-> override,
                    student |-> request[r].student, class |-> request[r].class])
      BY <2>1 DEF ApproveRead, RunFresh
    <3>2. QED
      BY <1>b, <2>1, <3>1 DEF ApproveRead, Idle
  <2>2. ASSUME ApproveClass(p) PROVE RunsFresh'
    <3>1. CASE proc[p].class \in Present
      <4>1. request[proc[p].request].status = "pending"
        BY <2>0, <2>2 DEF ApproveClass, RunFresh, Reviewing
      <4>2. RunFresh([pc |-> "approveCount", request |-> proc[p].request,
                      override |-> proc[p].override, student |-> proc[p].student,
                      class |-> proc[p].class, max |-> class[proc[p].class].max,
                      group |-> class[proc[p].class].group])
        BY <4>1 DEF RunFresh
      <4>3. QED
        BY <1>b, <2>2, <3>1, <4>2 DEF ApproveClass
    <3>2. CASE proc[p].class \notin Present
      BY <1>c, <1>d, <2>2, <3>2 DEF ApproveClass
    <3>3. QED
      BY <3>1, <3>2
  <2>3. ASSUME ApproveCount(p) PROVE RunsFresh'
    <3>1. CASE ~Refused(proc[p])
      <4>1. /\ [proc[p] EXCEPT !.pc = "approveCommit"].pc = "approveCommit"
            /\ [proc[p] EXCEPT !.pc = "approveCommit"].request = proc[p].request
            /\ [proc[p] EXCEPT !.pc = "approveCommit"].class = proc[p].class
            /\ [proc[p] EXCEPT !.pc = "approveCommit"].max = proc[p].max
            /\ [proc[p] EXCEPT !.pc = "approveCommit"].override = proc[p].override
        BY <1>0, <2>3, ReviewFields DEF ApproveCount, ProcRun
      <4>2. /\ request[proc[p].request].status = "pending"
            /\ proc[p].max = class[proc[p].class].max
        BY <2>0, <2>3 DEF ApproveCount, RunFresh, Reviewing
      <4>3. RunFresh([proc[p] EXCEPT !.pc = "approveCommit"])
        BY <3>1, <4>1, <4>2 DEF RunFresh, Refused
      <4>4. QED
        BY <1>b, <2>3, <3>1, <4>3 DEF ApproveCount
    <3>2. CASE Refused(proc[p])
      BY <1>c, <1>d, <2>3, <3>2 DEF ApproveCount
    <3>3. QED
      BY <3>1, <3>2
  <2>4. ASSUME ApproveCommit(p) PROVE RunsFresh'
    <3>1. CASE proc[p].class \in Present /\ proc[p].student \in PresentStudents
      <4>1. /\ Become(p, [pc |-> "approveMark", request |-> proc[p].request,
                          class |-> proc[p].class, max |-> proc[p].max,
                          group |-> proc[p].group])
            /\ UNCHANGED request
        BY <2>4, <3>1 DEF ApproveCommit
      <4>2. request[proc[p].request].status = "pending"
        BY <2>0, <2>4 DEF ApproveCommit, RunFresh, Reviewing
      <4>3. PICK state : /\ Become(p, state)
                         /\ state.pc = "approveMark" /\ state.request = proc[p].request
        BY <4>1
      <4>4. RunFresh(state)'
        BY <4>1, <4>2, <4>3 DEF RunFresh
      <4>5. QED
        BY <1>a, <2>4, <4>3, <4>4 DEF ApproveCommit
    <3>2. CASE ~(proc[p].class \in Present /\ proc[p].student \in PresentStudents)
      BY <1>c, <1>d, <2>4, <3>2 DEF ApproveCommit
    <3>3. QED
      BY <3>1, <3>2
  <2>5. ASSUME ApproveMark(p) PROVE RunsFresh'
    <3>1. \A c, max, group : AfterJoin(c, max, group).pc \in {"recount", "idle"}
      BY DEF AfterJoin, Idle
    <3>2. QED
      BY <1>c, <2>5, <3>1 DEF ApproveMark, Reviewing
  <2>6. ASSUME NEW r \in Requests, RejectRead(p, r) PROVE RunsFresh'
    <3>1. RunFresh([pc |-> "reject", request |-> r])
      BY <2>6 DEF RejectRead, RunFresh
    <3>2. QED
      BY <1>b, <2>6, <3>1 DEF RejectRead, Idle
  <2>7. ASSUME RejectMark(p) PROVE RunsFresh'
    BY <1>c, <1>d, <2>7 DEF RejectMark
  <2>8. QED
    BY <1>5, <2>1, <2>2, <2>3, <2>4, <2>5, <2>6, <2>7 DEF Review
<1>6. ASSUME NEW p \in Procs, Transfer(p) PROVE RunsFresh'
  <2>0. \A c, max, group : AfterJoin(c, max, group).pc \in {"recount", "idle"}
    BY DEF AfterJoin, Idle
  <2>1. ASSUME NEW s, NEW c, TransferRead(p, s, c) PROVE RunsFresh'
    BY <1>c, <2>1 DEF TransferRead, Idle, Reviewing
  <2>2. ASSUME TransferStudent(p) PROVE RunsFresh'
    BY <1>c, <1>d, <2>2 DEF TransferStudent, Reviewing
  <2>3. ASSUME TransferCommit(p) PROVE RunsFresh'
    BY <1>c, <1>d, <2>0, <2>3 DEF TransferCommit, Reviewing
  <2>4. ASSUME JoinRecount(p) \/ JoinSubClasses(p) PROVE RunsFresh'
    BY <1>c, <1>d, <2>4 DEF JoinRecount, JoinSubClasses, Reviewing
  <2>5. QED
    BY <1>6, <2>1, <2>2, <2>3, <2>4 DEF Transfer
<1>7. ASSUME NEW p \in Procs, Fail(p) PROVE RunsFresh'
  <2>1. proc[p].pc # "idle"
    BY <1>0, <1>7 DEF Fail, TypeOK, ProcRun
  <2>2. QED
    BY <1>c, <1>d, <1>7, <2>1 DEF Fail
<1>8. QED
  BY <1>1, <1>2, <1>3, <1>4, <1>5, <1>6, <1>7 DEF Next

(* Students come one at a time, and one that is gone has no class.          *)
LEMMA StudentsStep ==
  ASSUME SerialInv, [Next]_vars
  PROVE  GoneUnclassed' /\ IsFiniteSet(PresentStudents')
<1>0. /\ student \in [Students -> StudentRow]
      /\ \A s \in Students : student[s] \in StudentRow
      /\ GoneUnclassed /\ IsFiniteSet(PresentStudents)
  BY DEF SerialInv, IInv, TypeOK
<1>a. ASSUME \A s \in Students : /\ student'[s].row = student[s].row
                                 /\ \/ student'[s].class \in {student[s].class, NoClass}
                                    \/ s \in PresentStudents
      PROVE  GoneUnclassed' /\ IsFiniteSet(PresentStudents')
  <2>1. PresentStudents' = PresentStudents
    BY <1>a DEF PresentStudents
  <2>2. QED
    BY <1>0, <1>a, <2>1 DEF GoneUnclassed, PresentStudents
<1>b. ASSUME NEW S \in SUBSET PresentStudents, NEW c, NEW s \in Students
      PROVE  /\ Join(S, c)[s].row = student[s].row
             /\ Join(S, c)[s].class = student[s].class \/ s \in PresentStudents
  BY <1>0 DEF Join, StudentRow
<1>1. CASE Maintain
  <2>1. ASSUME NEW s \in Students, NEW c \in ClassId, StudentCreate(s, c)
        PROVE  GoneUnclassed' /\ IsFiniteSet(PresentStudents')
    <3>1. student' = [student EXCEPT ![s] = [row |-> "present", class |-> c]]
      BY <2>1 DEF StudentCreate
    <3>2. GoneUnclassed'
      BY <1>0, <3>1 DEF GoneUnclassed
    <3>3. PresentStudents' \in SUBSET (PresentStudents \cup {s})
      BY <1>0, <3>1 DEF PresentStudents
    <3>4. QED
      BY <1>0, <3>2, <3>3, FS_AddElement, FS_Subset
  <2>2. ASSUME NEW s \in Students, StudentRemove(s)
        PROVE  GoneUnclassed' /\ IsFiniteSet(PresentStudents')
    <3>1. student' = [student EXCEPT ![s] = [row |-> "removed", class |-> NoClass]]
      BY <2>2 DEF StudentRemove
    <3>2. GoneUnclassed'
      BY <1>0, <3>1 DEF GoneUnclassed
    <3>3. PresentStudents' \in SUBSET PresentStudents
      BY <1>0, <3>1 DEF PresentStudents
    <3>4. QED
      BY <1>0, <3>2, <3>3, FS_Subset
  <2>3. QED
    BY <1>1, <1>a, <2>1, <2>2 DEF Maintain, ClassCreate, ClassUpdate
<1>2. ASSUME NEW p \in Procs, DeleteRow(p) PROVE GoneUnclassed' /\ IsFiniteSet(PresentStudents')
  <2>1. CASE proc[p].class \in Present
    <3>1. ASSUME NEW s \in Students
          PROVE  /\ student'[s].row = student[s].row
                 /\ student'[s].class \in {student[s].class, NoClass}
      <4>1. student'[s] =
              [student[s] EXCEPT !.class = IF @ = proc[p].class THEN NoClass ELSE @]
        BY <1>2, <2>1 DEF DeleteRow, Unclassed
      <4>2. QED
        BY <1>0, <4>1 DEF StudentRow
    <3>2. QED
      BY <1>a, <3>1
  <2>2. CASE proc[p].class \notin Present
    BY <1>2, <1>a, <2>2 DEF DeleteRow
  <2>3. QED
    BY <2>1, <2>2
<1>3. ASSUME NEW p \in Procs, NEW a, NEW b, NEW first, SplitCommit(p, a, b, first)
      PROVE  GoneUnclassed' /\ IsFiniteSet(PresentStudents')
  <2> DEFINE second == SecondHalf(proc[p].students, first)
  <2>1. first \in SUBSET PresentStudents /\ second \in SUBSET PresentStudents
    BY <1>3 DEF SplitCommit, SplitCommits, FirstHalves, SecondHalf
  <2>2. \A s \in Students :
          student'[s] = IF s \in second THEN Join(second, b)[s] ELSE Join(first, a)[s]
    BY <1>3 DEF SplitCommit
  <2>3. QED
    BY <1>a, <1>b, <2>1, <2>2
<1>4. ASSUME NEW p \in Procs, ApproveCommit(p) \/ TransferCommit(p)
      PROVE  GoneUnclassed' /\ IsFiniteSet(PresentStudents')
  <2>1. \/ UNCHANGED student
        \/ /\ {proc[p].student} \in SUBSET PresentStudents
           /\ student' = Join({proc[p].student}, proc[p].class)
    BY <1>4 DEF ApproveCommit, TransferCommit, TransferCommits
  <2>2. QED
    BY <1>a, <1>b, <2>1
<1>5. CASE UNCHANGED student
  BY <1>a, <1>5
<1>6. QED
  BY Writers, <1>1, <1>2, <1>3, <1>4, <1>5
  DEF tables, EnrollInsert, ApproveMark, RejectMark

(* What a step makes of the requests.  Only requestEnrollment adds one that *)
(* is pending; none that was approved or deleted is undecided again.        *)
Undecided == {"absent", "pending", "rejected"}

LEMMA RequestsStep ==
  ASSUME SerialInv, [Next]_vars
  PROVE  /\ PendingOnce'
         /\ \A r \in Requests : request'[r].status \in Undecided =>
                                request[r].status \in Undecided
<1> DEFINE Back == \A r \in Requests : request'[r].status \in Undecided =>
                                       request[r].status \in Undecided
<1>0. TypeOK /\ request \in [Requests -> RequestRow] /\ PendingOnce
  BY DEF SerialInv, IInv, TypeOK
<1>a. ASSUME \A r \in Requests :
               \/ request'[r] = request[r]
               \/ /\ request'[r].status # "pending"
                  /\ request'[r].status \in Undecided => request[r].status \in Undecided
      PROVE  PendingOnce' /\ Back
  BY <1>0, <1>a DEF PendingOnce, Undecided
<1>b. [status |-> "deleted"].status = "deleted"
  OBVIOUS
<1>1. CASE Maintain
  <2>1. \A s \in Students : StudentRemove(s) =>
          \A r \in Requests : request'[r] = [status |-> "deleted"] \/ request'[r] = request[r]
    BY DEF StudentRemove
  <2>2. request' = request \/ \E s \in Students : StudentRemove(s)
    BY <1>1 DEF Maintain, ClassCreate, ClassUpdate, StudentCreate
  <2>3. QED
    BY <1>a, <1>b, <2>1, <2>2 DEF Undecided
<1>2. ASSUME NEW p \in Procs, DeleteRow(p) PROVE PendingOnce' /\ Back
  <2>1. \A r \in Requests : request'[r] = [status |-> "deleted"] \/ request'[r] = request[r]
    BY <1>2 DEF DeleteRow, Unclassed
  <2>2. QED
    BY <1>a, <1>b, <2>1 DEF Undecided
<1>3. ASSUME NEW p \in Procs, NEW r \in Requests, EnrollInsert(p, r) PROVE PendingOnce' /\ Back
  <2>1. PendingFor(proc[p].student, proc[p].class) = {} /\ request[r].status = "absent"
    BY <1>3 DEF EnrollInsert, SerialInv, RunsFresh, RunFresh
  <2>2. CASE UNCHANGED request
    BY <1>a, <2>2
  <2>3. CASE ~UNCHANGED request
    <3>1. request' = [request EXCEPT ![r] =
                        [status |-> "pending", student |-> proc[p].student,
                         class |-> proc[p].class]]
      BY <1>3, <2>3 DEF EnrollInsert
    <3>2. /\ request'[r].status = "pending"
          /\ request'[r].student = proc[p].student /\ request'[r].class = proc[p].class
          /\ \A q \in Requests : q # r => request'[q] = request[q]
      BY <1>0, <3>1
    <3>3. PendingOnce'
      BY <1>0, <2>1, <3>2 DEF PendingOnce, PendingFor
    <3>4. QED
      BY <2>1, <3>2, <3>3 DEF Undecided
  <2>4. QED
    BY <2>2, <2>3
<1>4. ASSUME NEW p \in Procs, ApproveMark(p) \/ RejectMark(p) PROVE PendingOnce' /\ Back
  <2>1. proc[p].request \in Requests /\ request[proc[p].request].status = "pending"
    BY <1>0, <1>4, ReviewFields
    DEF ApproveMark, RejectMark, SerialInv, RunsFresh, RunFresh, Reviewing
  <2>2. PICK status \in {"approved", "rejected"} :
          request' = [request EXCEPT ![proc[p].request] =
                        [request[proc[p].request] EXCEPT !.status = status]]
    BY <1>4, <2>1 DEF ApproveMark, RejectMark, Mark
  <2>3. [request[proc[p].request] EXCEPT !.status = status].status = status
    BY <1>0, <2>1 DEF RequestRow
  <2>4. QED
    BY <1>0, <1>a, <2>1, <2>2, <2>3 DEF Undecided
<1>5. CASE UNCHANGED request
  BY <1>a, <1>5
<1>6. UNCHANGED tables => UNCHANGED request
  BY DEF tables
<1>7. /\ \A p \in Procs, a, b \in Classes, first \in SUBSET Students :
           SplitCommit(p, a, b, first) => UNCHANGED request
      /\ \A p \in Procs : ApproveCommit(p) \/ TransferCommit(p) => UNCHANGED request
  BY DEF SplitCommit, ApproveCommit, TransferCommit
<1>8. QED
  BY Writers, <1>1, <1>2, <1>3, <1>4, <1>5, <1>6, <1>7

(* The first step of a handler occupies its slot.                           *)
LEMMA HandlerBegins ==
  ASSUME TypeOK, NEW p \in Procs, proc[p] = Idle,
         Delete(p) \/ Split(p) \/ Enroll(p) \/ Review(p) \/ Transfer(p)
  PROVE  proc'[p] # Idle /\ \A q \in Procs : q # p => proc'[q] = proc[q]
<1>0. proc[p].pc = "idle"
  BY DEF Idle
<1>a. ASSUME NEW state, Begin(p, state), state # Idle
      PROVE  proc'[p] # Idle /\ \A q \in Procs : q # p => proc'[q] = proc[q]
  BY <1>a DEF Begin, TypeOK
<1>1. CASE Delete(p)
  <2>1. PICK c \in Classes : DeleteRead(p, c)
    BY <1>0, <1>1 DEF Delete, DeleteChildren, DeleteRow
  <2>2. PICK pc \in {"children", "delete"} : Begin(p, [pc |-> pc, class |-> c])
    BY <2>1 DEF DeleteRead
  <2>3. [pc |-> pc, class |-> c].pc # "idle"
    BY <2>2
  <2>4. QED
    BY <1>a, <2>2, <2>3 DEF Idle
<1>2. CASE Split(p)
  <2>1. PICK c \in Classes : SplitRequest(p, c)
    BY <1>0, <1>2 DEF Split, AutoSplit, SplitChildren, SplitNames, SplitStudents, SplitCommit,
       SplitRollback
  <2>2. QED
    BY <1>a, <2>1, SplitRunFields DEF SplitRequest
<1>3. CASE Enroll(p)
  <2>1. PICK s \in Students, c \in Classes : EnrollRead(p, s, c)
    BY <1>0, <1>3 DEF Enroll, EnrollDuplicate, EnrollInsert
  <2>2. [pc |-> "duplicate", student |-> s, class |-> c] # Idle
    BY DEF Idle
  <2>3. QED
    BY <1>a, <2>1, <2>2 DEF EnrollRead
<1>4. CASE Review(p)
  <2>1. \/ \E r \in Requests, override \in BOOLEAN : ApproveRead(p, r, override)
        \/ \E r \in Requests : RejectRead(p, r)
    BY <1>0, <1>4 DEF Review, ApproveClass, ApproveCount, ApproveCommit, ApproveMark, RejectMark
  <2>2. \A r, override, s, c :
          [pc |-> "approveClass", request |-> r, override |-> override, student |-> s,
           class |-> c] # Idle
    BY DEF Idle
  <2>3. \A r : [pc |-> "reject", request |-> r] # Idle
    BY DEF Idle
  <2>4. QED
    BY <1>a, <2>1, <2>2, <2>3 DEF ApproveRead, RejectRead
<1>5. CASE Transfer(p)
  <2>1. PICK s \in Students, c \in Classes : TransferRead(p, s, c)
    BY <1>0, <1>5 DEF Transfer, TransferStudent, TransferCommit, JoinRecount, JoinSubClasses
  <2>2. \A max : [pc |-> "transferStudent", student |-> s, class |-> c, max |-> max] # Idle
    BY DEF Idle
  <2>3. QED
    BY <1>a, <2>1, <2>2 DEF TransferRead
<1>6. QED
  BY <1>1, <1>2, <1>3, <1>4, <1>5

(* An approval that has enrolled its student is the next to step: it marks  *)
(* the request or fails.                                                    *)
LEMMA ApproverSteps ==
  ASSUME TypeOK, OnlyOne, Next, Alone,
         NEW q \in Procs, proc[q].pc = "approveMark"
  PROVE  ApproveMark(q) \/ Fail(q)
<1>0. proc[q] # Idle
  BY DEF Idle
<1>1. ~Maintain
  BY <1>0, MaintainIdle
<1>2. CASE \E p \in Procs : Fail(p)
  BY <1>0, <1>2 DEF Fail, OnlyOne
<1>3. ASSUME NEW p \in Procs, Delete(p) \/ Split(p) \/ Enroll(p) \/ Review(p) \/ Transfer(p)
      PROVE  ApproveMark(q)
  <2>1. ASSUME p # q PROVE FALSE
    <3>1. proc[p] = Idle
      BY <1>0, <2>1 DEF OnlyOne
    <3>2. proc'[p] # Idle /\ proc'[q] = proc[q]
      BY <1>3, <2>1, <3>1, HandlerBegins
    <3>3. QED
      BY <1>0, <2>1, <3>2 DEF Alone
  <2>2. p = q
    BY <2>1
  <2>3. proc[p] # Idle /\ proc[p].pc = "approveMark"
    BY <1>0, <2>2
  <2>4. ~Delete(p) /\ ~Split(p) /\ ~Enroll(p) /\ ~Transfer(p)
    BY <2>3 DEF Delete, DeleteRead, DeleteChildren, DeleteRow, Split, SplitRequest, AutoSplit,
       SplitChildren, SplitNames, SplitStudents, SplitCommit, SplitRollback, Enroll, EnrollRead,
       EnrollDuplicate, EnrollInsert, Transfer, TransferRead, TransferStudent, TransferCommit,
       JoinRecount, JoinSubClasses, Begin
  <2>5. QED
    BY <1>3, <2>2, <2>3, <2>4 DEF Review, ApproveRead, ApproveClass, ApproveCount, ApproveCommit,
       RejectRead, RejectMark, Begin
<1>4. QED
  BY <1>1, <1>2, <1>3 DEF Next

LEMMA UndecidedStep ==
  ASSUME SerialInv, SerialNext
  PROVE  UndecidedUnaudited'
<1>0. /\ TypeOK /\ OnlyOne /\ UndecidedUnaudited /\ Next /\ Alone
      /\ stopped' = stopped \cup Stops
      /\ \A r \in Requests : request'[r].status \in Undecided =>
                             request[r].status \in Undecided
  BY RequestsStep DEF SerialInv, IInv, SerialNext
<1>1. CASE \E q \in Procs : proc[q].pc = "approveMark"
  <2>1. PICK q \in Procs : proc[q].pc = "approveMark" /\ (ApproveMark(q) \/ Fail(q))
    BY <1>0, <1>1, ApproverSteps
  <2>2. \A p \in Procs : proc[p].pc = "approveMark" => p = q
    BY <1>0, <2>1 DEF OnlyOne, Idle
  <2>3. proc[q].request \in Requests /\ request[proc[q].request].status = "pending"
    BY <1>0, <2>1, ReviewFields DEF SerialInv, RunsFresh, RunFresh, Reviewing
  <2>4. /\ UNCHANGED audited
        /\ request'[proc[q].request].status = "approved" \/ proc[q].request \in stopped'
    <3>1. CASE ApproveMark(q)
      <4>1. [request[proc[q].request] EXCEPT !.status = "approved"].status = "approved"
        BY <1>0, <2>3 DEF TypeOK, RequestRow
      <4>2. QED
        BY <1>0, <2>3, <3>1, <4>1 DEF ApproveMark, Mark, TypeOK
    <3>2. CASE Fail(q)
      <4>1. proc'[q] = Idle /\ UNCHANGED <<request, audited>>
        BY <1>0, <3>2 DEF Fail, Become, TypeOK, tables
      <4>2. proc[q].request \in Stops
        BY <2>1, <2>3, <4>1 DEF Stops
      <4>3. QED
        BY <1>0, <4>1, <4>2
    <3>3. QED
      BY <2>1, <3>1, <3>2
  <2>5. ASSUME NEW r \in Requests \ stopped', request'[r].status \in Undecided
        PROVE  r \notin audited
    <3>1. r # proc[q].request /\ r \notin stopped /\ request[r].status \in Undecided
      BY <1>0, <2>4, <2>5 DEF Undecided
    <3>2. QED
      BY <1>0, <2>2, <3>1 DEF UndecidedUnaudited, Undecided
  <2>6. QED
    BY <2>4, <2>5 DEF UndecidedUnaudited, Undecided
<1>2. CASE \A q \in Procs : proc[q].pc # "approveMark"
  <2>1. ASSUME NEW r \in Requests \ stopped', request'[r].status \in Undecided
        PROVE  r \notin audited
    BY <1>0, <1>2, <2>1 DEF UndecidedUnaudited, Undecided
  <2>2. CASE UNCHANGED audited
    BY <2>1, <2>2 DEF UndecidedUnaudited, Undecided
  <2>3. CASE \E p \in Procs : ApproveCommit(p) /\ ~UNCHANGED audited
    <3>1. PICK p \in Procs : ApproveCommit(p) /\ ~UNCHANGED audited
      BY <2>3
    <3>2. /\ audited' = audited \cup {proc[p].request}
          /\ Become(p, [pc |-> "approveMark", request |-> proc[p].request,
                        class |-> proc[p].class, max |-> proc[p].max,
                        group |-> proc[p].group])
      BY <3>1 DEF ApproveCommit
    <3>3. proc'[p].pc = "approveMark" /\ proc'[p].request = proc[p].request
      BY <1>0, <3>2 DEF Become, TypeOK
    <3>4. QED
      BY <2>1, <3>2, <3>3 DEF UndecidedUnaudited, Undecided
  <2>4. QED
    <3>1. [Next]_vars
      BY <1>0
    <3>2. UNCHANGED tables \/ Maintain => UNCHANGED audited
      BY DEF tables, Maintain, ClassCreate, ClassUpdate, StudentCreate, StudentRemove
    <3>3. /\ \A p \in Procs, a, b \in Classes, first \in SUBSET Students :
               SplitCommit(p, a, b, first) => UNCHANGED audited
          /\ \A p \in Procs, r \in Requests : EnrollInsert(p, r) => UNCHANGED audited
      BY DEF SplitCommit, EnrollInsert
    <3>4. \A p \in Procs : DeleteRow(p) \/ ApproveMark(p) \/ RejectMark(p) \/ TransferCommit(p)
                           => UNCHANGED audited
      BY DEF DeleteRow, ApproveMark, RejectMark, TransferCommit
    <3>5. QED
      BY <2>2, <2>3, <3>1, <3>2, <3>3, <3>4, Writers
<1>3. QED
  BY <1>1, <1>2

LEMMA InitSerial == Init /\ stopped = {} => SerialInv
<1> SUFFICES ASSUME Init, stopped = {} PROVE SerialInv
  OBVIOUS
<1>1. IInv
  BY InitInv
<1>2. OnlyOne /\ GoneUnclassed /\ PendingOnce /\ RunsFresh /\ UndecidedUnaudited
  BY DEF Init, OnlyOne, GoneUnclassed, PendingOnce, RunsFresh, RunFresh, Idle, Reviewing,
         UndecidedUnaudited
<1>3. PresentStudents = {}
  BY DEF Init, PresentStudents
<1>4. QED
  BY <1>1, <1>2, <1>3, FS_EmptySet DEF SerialInv

LEMMA StepSerial == SerialInv /\ [SerialNext]_serialVars => SerialInv'
<1> SUFFICES ASSUME SerialInv, [SerialNext]_serialVars PROVE SerialInv'
  OBVIOUS
<1>0. [Next]_vars
  BY DEF SerialNext, serialVars, vars
<1>1. IInv' /\ GoneUnclassed' /\ IsFiniteSet(PresentStudents') /\ PendingOnce'
  BY <1>0, StepInv, StudentsStep, RequestsStep DEF SerialInv
<1>2. CASE SerialNext
  <2>1. OnlyOne'
    BY <1>2 DEF SerialNext, Alone, OnlyOne
  <2>2. RunsFresh' /\ UndecidedUnaudited'
    BY <1>2, RunsStep, UndecidedStep DEF SerialNext
  <2>3. QED
    BY <1>1, <2>1, <2>2 DEF SerialInv
<1>3. CASE UNCHANGED serialVars
  <2>1. OnlyOne' /\ UndecidedUnaudited'
    BY <1>3 DEF SerialInv, OnlyOne, UndecidedUnaudited, serialVars
  <2>2. RunsFresh'
    BY <1>3 DEF SerialInv, RunsFresh, RunFresh, Refused, AtCapacity, Children, Roster, Present,
       PresentStudents, PendingFor, serialVars
  <2>3. QED
    BY <1>1, <2>1, <2>2 DEF SerialInv
<1>4. QED
  BY <1>2, <1>3

(* A step of handlers that do not overlap, as the properties see it.        *)
LEMMA SerialSteps == [SerialNext]_serialVars => [Next /\ Alone]_vars
BY DEF SerialNext, serialVars, vars

(* The invariant of handlers that do not overlap.                           *)
THEOREM SerialInvariantHolds == SerialSpec => []SerialInv
BY InitSerial, StepSerial, PTL DEF SerialSpec

(* One handler at a time and whatever fails, a student has one pending      *)
(* request per class, and a rejected request never enrolled anyone unless   *)
(* an approval of it stopped half way.                                      *)
THEOREM RequestsAreDecidedOnce == SerialSpec => []RequestsDecidedOnce
<1>1. SerialInv => RequestsDecidedOnce
  <2> SUFFICES ASSUME SerialInv PROVE RequestsDecidedOnce
    OBVIOUS
  <2>1. ASSUME NEW s \in Students, NEW c \in Classes
        PROVE  Cardinality(PendingFor(s, c)) <= 1
    <3>1. CASE PendingFor(s, c) = {}
      BY <3>1, FS_EmptySet
    <3>2. CASE PendingFor(s, c) # {}
      <4>1. PICK r \in PendingFor(s, c) : TRUE
        BY <3>2
      <4>2. PendingFor(s, c) = {r}
        BY <4>1 DEF PendingFor, SerialInv, PendingOnce
      <4>3. QED
        BY <4>2, FS_Singleton
    <3>3. QED
      BY <3>1, <3>2
  <2>2. ASSUME NEW r \in Requests \ stopped, request[r].status = "rejected" PROVE r \notin audited
    BY <2>2 DEF SerialInv, UndecidedUnaudited, RunsFresh, RunFresh, Reviewing
  <2>3. QED
    BY <2>1, <2>2 DEF RequestsDecidedOnce
<1>2. QED
  BY <1>1, SerialInvariantHolds, PTL

(* A step rewrites no request but one that is absent or pending, unless it  *)
(* deletes it: the reviewer of a request still finds it pending.            *)
LEMMA DecidedKept ==
  ASSUME SerialInv, [Next]_vars
  PROVE  DecisionsStand
<1>0. TypeOK /\ request \in [Requests -> RequestRow]
  BY DEF SerialInv, IInv, TypeOK
<1>a. ASSUME \A r \in Requests :
               \/ request'[r] = request[r]
               \/ request'[r].status = "deleted"
               \/ request[r].status \in {"absent", "pending"}
      PROVE  DecisionsStand
  BY <1>a DEF DecisionsStand
<1>b. [status |-> "deleted"].status = "deleted"
  OBVIOUS
<1>1. CASE Maintain
  <2>1. \A s \in Students : StudentRemove(s) =>
          \A r \in Requests : request'[r] = [status |-> "deleted"] \/ request'[r] = request[r]
    BY DEF StudentRemove
  <2>2. request' = request \/ \E s \in Students : StudentRemove(s)
    BY <1>1 DEF Maintain, ClassCreate, ClassUpdate, StudentCreate
  <2>3. QED
    BY <1>a, <1>b, <2>1, <2>2
<1>2. ASSUME NEW p \in Procs, DeleteRow(p) PROVE DecisionsStand
  <2>1. \A r \in Requests : request'[r] = [status |-> "deleted"] \/ request'[r] = request[r]
    BY <1>2 DEF DeleteRow, Unclassed
  <2>2. QED
    BY <1>a, <1>b, <2>1
<1>3. ASSUME NEW p \in Procs, NEW r \in Requests, EnrollInsert(p, r) PROVE DecisionsStand
  <2>1. request[r].status = "absent" /\ \A q \in Requests \ {r} : request'[q] = request[q]
    BY <1>0, <1>3 DEF EnrollInsert
  <2>2. QED
    BY <1>a, <2>1
<1>4. ASSUME NEW p \in Procs, ApproveMark(p) \/ RejectMark(p) PROVE DecisionsStand
  <2>1. proc[p].request \in Requests /\ request[proc[p].request].status = "pending"
    BY <1>0, <1>4, ReviewFields
    DEF ApproveMark, RejectMark, SerialInv, RunsFresh, RunFresh, Reviewing
  <2>2. \A q \in Requests \ {proc[p].request} : request'[q] = request[q]
    BY <1>0, <1>4 DEF ApproveMark, RejectMark, Mark
  <2>3. QED
    BY <1>a, <2>1, <2>2
<1>5. CASE UNCHANGED request
  BY <1>a, <1>5
<1>6. UNCHANGED tables => UNCHANGED request
  BY DEF tables
<1>7. /\ \A p \in Procs, a, b \in Classes, first \in SUBSET Students :
           SplitCommit(p, a, b, first) => UNCHANGED request
      /\ \A p \in Procs : ApproveCommit(p) \/ TransferCommit(p) => UNCHANGED request
  BY DEF SplitCommit, ApproveCommit, TransferCommit
<1>8. QED
  BY Writers, <1>1, <1>2, <1>3, <1>4, <1>5, <1>6, <1>7

(* One handler at a time and whatever fails, what was decided on a request  *)
(* stays decided: whoever marks one has read it as pending, and it still is. *)
THEOREM DecisionsStay == SerialSpec => DecisionsAreFinal
<1>1. SerialInv /\ [Next]_vars => [DecisionsStand]_vars
  BY DecidedKept
<1>2. [SerialNext]_serialVars => [Next]_vars
  BY SerialSteps
<1>3. QED
  BY <1>1, <1>2, SerialInvariantHolds, PTL DEF SerialSpec, DecisionsAreFinal

LEMMA SplitCommitWhole ==
  ASSUME SerialInv, NEW p \in Procs, NEW a \in Classes, NEW b \in Classes, NEW first,
         SplitCommit(p, a, b, first)
  PROVE  KeepsWhole
<1> DEFINE k == proc[p].class
           second == SecondHalf(proc[p].students, first)
<1>0. /\ \A c \in Classes : class[c] \in ClassRow
      /\ class \in [Classes -> ClassRow]
      /\ \A s \in Students : student[s] \in StudentRow
  BY DEF SerialInv, IInv, TypeOK
<1>1. /\ k \in Present /\ class[a].row = "absent" /\ class[b].row = "absent"
      /\ class' = SplitClasses(proc[p], a, b)
      /\ proc[p].students = Roster(k)
  BY DEF SplitCommit, SplitCommits, SerialInv, RunsFresh, RunFresh
<1>2. k \in Classes /\ k # a /\ k # b
  BY <1>1 DEF Present
<1>3. class'[k].row = "present"
  BY <1>0, <1>1, <1>2 DEF SplitClasses, ClassRow, Present
<1>4. \A c \in Classes : c = a \/ c = b => ~class'[c].group
  BY <1>0, <1>1, <1>2 DEF SplitClasses, SubClass
<1>5. \A c \in Classes \ {a, b, k} : class'[c] = class[c]
  BY <1>0, <1>1 DEF SplitClasses
<1>6. ASSUME NEW s \in Students PROVE student'[s].class # k
  <2>1. student'[s] = IF s \in second THEN Join(second, b)[s] ELSE Join(first, a)[s]
    BY DEF SplitCommit
  <2>2. CASE s \in second
    BY <1>0, <1>2, <2>1, <2>2 DEF Join, StudentRow
  <2>3. CASE s \notin second /\ s \in first
    BY <1>0, <1>2, <2>1, <2>3 DEF Join, StudentRow
  <2>4. CASE s \notin second /\ s \notin first
    <3>1. student'[s] = student[s] /\ s \notin Roster(k)
      BY <1>1, <2>1, <2>4 DEF Join, SecondHalf
    <3>2. k # NoClass
      BY <1>2, NoClassIsNull
    <3>3. QED
      BY <3>1, <3>2 DEF Roster, PresentStudents, SerialInv, GoneUnclassed
  <2>5. QED
    BY <2>2, <2>3, <2>4
<1>7. QED
  BY <1>1, <1>2, <1>3, <1>4, <1>5, <1>6 DEF KeepsWhole, Present

LEMMA StepKeepsWhole == SerialInv /\ [Next /\ Alone]_vars => [KeepsWhole]_vars
<1> SUFFICES ASSUME SerialInv, [Next]_vars PROVE KeepsWhole
  OBVIOUS
<1>0. /\ \A c \in Classes : class[c] \in ClassRow
      /\ class \in [Classes -> ClassRow]
  BY DEF SerialInv, IInv, TypeOK
<1>a. ASSUME \A c \in Classes :
               /\ class'[c].group => class[c].group
               /\ class[c].row = "present" /\ Children(c) # {} => class'[c].row = "present"
      PROVE  KeepsWhole
  BY <1>a DEF KeepsWhole, Present
<1>1. CASE Maintain
  <2>1. ASSUME NEW c \in Classes, NEW name, NEW max, ClassCreate(c, name, max)
        PROVE  KeepsWhole
    BY <2>1, <1>0, <1>a DEF ClassCreate
  <2>2. ASSUME NEW c \in Classes, NEW name, NEW max, ClassUpdate(c, name, max)
        PROVE  KeepsWhole
    <3>1. \A d \in Classes : class'[d].row = class[d].row /\ class'[d].group = class[d].group
      BY <2>2, <1>0 DEF ClassUpdate, ClassRow
    <3>2. QED
      BY <3>1, <1>a
  <2>3. QED
    BY <1>1, <1>a, <2>1, <2>2 DEF Maintain, StudentCreate, StudentRemove
<1>2. ASSUME NEW p \in Procs, DeleteRow(p) PROVE KeepsWhole
  <2>1. CASE proc[p].class \in Present
    <3>1. Children(proc[p].class) = {}
      BY <1>2 DEF DeleteRow, SerialInv, RunsFresh, RunFresh
    <3>2. ASSUME NEW c \in Classes
          PROVE  /\ class'[c].group => class[c].group
                 /\ class[c].row = "present" /\ Children(c) # {} => class'[c].row = "present"
      <4>1. CASE c = proc[p].class
        <5>1. class'[c] = NoRow("deleted")
          BY <1>2, <2>1, <4>1 DEF DeleteRow, Unclassed
        <5>2. QED
          BY <3>1, <4>1, <5>1 DEF NoRow
      <4>2. CASE c # proc[p].class
        <5>1. class'[c] =
                [class[c] EXCEPT !.parent = IF @ = proc[p].class THEN NoClass ELSE @]
          BY <1>2, <2>1, <4>2 DEF DeleteRow, Unclassed
        <5>2. QED
          BY <1>0, <5>1 DEF ClassRow
      <4>3. QED
        BY <4>1, <4>2
    <3>3. QED
      BY <1>a, <3>2
  <2>2. CASE proc[p].class \notin Present
    BY <1>2, <1>a, <2>2 DEF DeleteRow
  <2>3. QED
    BY <2>1, <2>2
<1>3. ASSUME UNCHANGED class PROVE KeepsWhole
  BY <1>3, <1>a
<1>4. QED
  BY Writers, <1>1, <1>2, <1>3, SplitCommitWhole
  DEF tables, EnrollInsert, ApproveCommit, ApproveMark, RejectMark, TransferCommit

(* One handler at a time, splitClass leaves no student in the group it      *)
(* makes, and delete takes no class that has sub-classes.                   *)
THEOREM GroupsStayWhole == SerialSpec => GroupsAreWhole
BY SerialInvariantHolds, SerialSteps, StepKeepsWhole, PTL DEF SerialSpec, GroupsAreWhole

-----------------------------------------------------------------------------
(* Seats.                                                                   *)

(* Who is in a class is in one that is there: the foreign key.              *)
Housed == \A s \in Students : student[s].class \in Present \cup {NoClass}

LEMMA HousedStep ==
  ASSUME TypeOK, Housed, [Next]_vars
  PROVE  Housed'
<1>0. /\ class \in [Classes -> ClassRow] /\ student \in [Students -> StudentRow]
      /\ \A c \in Classes : class[c] \in ClassRow
      /\ \A s \in Students : student[s] \in StudentRow
  BY DEF TypeOK
<1>a. ASSUME Present \subseteq Present',
             \A s \in Students : student'[s].class \in {student[s].class, NoClass} \cup Present'
      PROVE  Housed'
  BY <1>a DEF Housed
<1>b. ASSUME \A c \in Classes : class[c].row = "present" => class'[c].row = "present"
      PROVE  Present \subseteq Present'
  BY <1>b DEF Present
<1>c. ASSUME NEW S, NEW c, NEW s \in Students
      PROVE  Join(S, c)[s].class \in {student[s].class, c}
  BY <1>0 DEF Join, StudentRow
<1>1. CASE Maintain
  <2>1. ASSUME NEW c \in Classes, NEW name, NEW max, ClassCreate(c, name, max) PROVE Housed'
    <3>1. \A d \in Classes : class[d].row = "present" => class'[d].row = "present"
      BY <1>0, <2>1 DEF ClassCreate, ClassRow
    <3>2. QED
      BY <1>a, <1>b, <2>1, <3>1 DEF ClassCreate
  <2>2. ASSUME NEW c \in Classes, NEW name, NEW max, ClassUpdate(c, name, max) PROVE Housed'
    <3>1. \A d \in Classes : class'[d].row = class[d].row
      BY <1>0, <2>2 DEF ClassUpdate, ClassRow
    <3>2. QED
      BY <1>a, <1>b, <2>2, <3>1 DEF ClassUpdate
  <2>3. ASSUME NEW s \in Students, NEW c \in ClassId, StudentCreate(s, c) PROVE Housed'
    <3>1. Present' = Present /\ c \in Present \cup {NoClass}
      BY <2>3 DEF StudentCreate, Present
    <3>2. \A t \in Students : student'[t].class \in {student[t].class, c}
      BY <1>0, <2>3 DEF StudentCreate
    <3>3. QED
      BY <1>a, <3>1, <3>2
  <2>4. ASSUME NEW s \in Students, StudentRemove(s) PROVE Housed'
    <3>1. Present' = Present
      BY <2>4 DEF StudentRemove, Present
    <3>2. \A t \in Students : student'[t].class \in {student[t].class, NoClass}
      BY <1>0, <2>4 DEF StudentRemove
    <3>3. QED
      BY <1>a, <3>1, <3>2
  <2>5. QED
    BY <1>1, <2>1, <2>2, <2>3, <2>4 DEF Maintain
<1>2. ASSUME NEW p \in Procs, DeleteRow(p), proc[p].class \in Present PROVE Housed'
  <2> DEFINE k == proc[p].class
  <2>1. \A d \in Classes \ {k} : class'[d].row = class[d].row
    <3>1. \A d \in Classes \ {k} :
            class'[d] = [class[d] EXCEPT !.parent = IF @ = k THEN NoClass ELSE @]
      BY <1>2 DEF DeleteRow, Unclassed
    <3>2. QED
      BY <1>0, <3>1 DEF ClassRow
  <2>2. Present \ {k} \subseteq Present'
    BY <2>1 DEF Present
  <2>3. ASSUME NEW s \in Students
        PROVE  student'[s].class = IF student[s].class = k THEN NoClass ELSE student[s].class
    <3>1. student'[s] = [student[s] EXCEPT !.class = IF @ = k THEN NoClass ELSE @]
      BY <1>2 DEF DeleteRow, Unclassed
    <3>2. QED
      BY <1>0, <3>1 DEF StudentRow
  <2> HIDE DEF k
  <2>4. QED
    BY <2>2, <2>3 DEF Housed
<1>3. ASSUME NEW p \in Procs, NEW a \in Classes, NEW b \in Classes, NEW first,
             SplitCommit(p, a, b, first)
      PROVE  Housed'
  <2> DEFINE second == SecondHalf(proc[p].students, first)
  <2>1. /\ class' = SplitClasses(proc[p], a, b)
        /\ proc[p].class \in Present /\ class[a].row = "absent" /\ class[b].row = "absent"
    BY <1>3 DEF SplitCommit, SplitCommits
  <2>2. /\ class'[a].row = "present" /\ class'[b].row = "present"
        /\ \A c \in Classes : class[c].row = "present" => class'[c].row = "present"
    BY <1>0, <2>1 DEF SplitClasses, SubClass, ClassRow, Present
  <2>3. a \in Present' /\ b \in Present'
    BY <2>2 DEF Present
  <2>4. \A s \in Students :
          student'[s] = IF s \in second THEN Join(second, b)[s] ELSE Join(first, a)[s]
    BY <1>3 DEF SplitCommit
  <2>5. \A s \in Students : student'[s].class \in {student[s].class, a, b}
    BY <1>c, <2>4
  <2>6. QED
    BY <1>a, <1>b, <2>2, <2>3, <2>5
<1>4. ASSUME NEW p \in Procs, ApproveCommit(p) \/ TransferCommit(p) PROVE Housed'
  <2>1. Present' = Present
    BY <1>4 DEF ApproveCommit, TransferCommit, Present
  <2>2. \/ UNCHANGED student
        \/ proc[p].class \in Present /\ student' = Join({proc[p].student}, proc[p].class)
    BY <1>4 DEF ApproveCommit, TransferCommit, TransferCommits
  <2>3. \A s \in Students : student'[s].class \in {student[s].class} \cup Present
    BY <1>c, <2>2
  <2>4. QED
    BY <1>a, <2>1, <2>3
<1>5. ASSUME UNCHANGED <<class, student>> PROVE Housed'
  BY <1>5 DEF Housed, Present
<1>6. QED
  BY Writers, <1>1, <1>2, <1>3, <1>4, <1>5
  DEF tables, DeleteRow, EnrollInsert, ApproveMark, RejectMark

LEMMA InitHoused == Init => Housed
BY DEF Init, Housed

(* A class that keeps its row and its capacity and gains nobody does not    *)
(* crowd.                                                                   *)
LEMMA NoGain ==
  ASSUME SerialInv, NEW c \in Classes,
         c \in Present' => c \in Present /\ class'[c].max = class[c].max,
         Roster(c)' \subseteq Roster(c)
  PROVE  ~Crowds(c)
<1>1. IsFiniteSet(Roster(c)) /\ Cardinality(Roster(c)) \in Nat
  <2>1. IsFiniteSet(PresentStudents) /\ Roster(c) \subseteq PresentStudents
    BY DEF SerialInv, Roster
  <2>2. QED
    BY <2>1, FS_Subset, FS_CardinalityType
<1>2. /\ Cardinality(Roster(c)') \in Nat
      /\ Cardinality(Roster(c)') <= Cardinality(Roster(c))
  BY <1>1, FS_Subset, FS_CardinalityType
<1>3. class[c].max # NoCap => class[c].max \in Nat
  BY CapsAreAtLeastTwo DEF SerialInv, IInv, TypeOK, ClassRow
<1>4. Over(c)' => Over(c)
  BY <1>1, <1>2, <1>3 DEF Over
<1>5. ~(Cardinality(Roster(c))' > Cardinality(Roster(c)))
  BY <1>1, <1>2
<1>6. QED
  BY <1>4, <1>5 DEF Crowds

(* A class without a row has no students.                                   *)
LEMMA AbsentEmpty ==
  ASSUME Housed, NEW c \in Classes, class[c].row = "absent"
  PROVE  Roster(c) = {}
BY NoClassIsNull DEF Housed, Roster, PresentStudents, Present

LEMMA MaintainSeats ==
  ASSUME SerialInv, Housed, Maintain
  PROVE  CrowdsOnlyUncounted
<1>0. /\ class \in [Classes -> ClassRow] /\ student \in [Students -> StudentRow]
      /\ \A c \in Classes : class[c] \in ClassRow
      /\ \A s \in Students : student[s] \in StudentRow
  BY DEF SerialInv, IInv, TypeOK
<1>1. ASSUME NEW k \in Classes, NEW name \in GivenNames, NEW max \in Max,
             ClassCreate(k, name, max), NEW c \in Classes
      PROVE  ~Crowds(c)
  <2>1. Roster(c)' = Roster(c)
    BY <1>1 DEF ClassCreate, Roster, PresentStudents
  <2>2. CASE c = k
    <3>1. Cardinality(Roster(c)') = 0
      BY <1>1, <2>1, <2>2, AbsentEmpty, FS_EmptySet DEF ClassCreate
    <3>2. class'[c].max = max
      BY <1>0, <1>1, <2>2 DEF ClassCreate
    <3>3. max # NoCap => max \in Nat
      BY CapsAreAtLeastTwo DEF Max
    <3>4. ~Over(c)'
      BY <3>1, <3>2, <3>3 DEF Over
    <3>5. QED
      BY <3>4 DEF Crowds
  <2>3. CASE c # k
    <3>1. class'[c] = class[c]
      BY <1>0, <1>1, <2>3 DEF ClassCreate
    <3>2. QED
      BY <2>1, <3>1, NoGain DEF Present
  <2>4. QED
    BY <2>2, <2>3
<1>2. ASSUME NEW k \in Classes, NEW name, NEW max, ClassUpdate(k, name, max), NEW c \in Classes
      PROVE  Crowds(c) => Uncounted(c)
  <2>1. Roster(c)' = Roster(c) /\ class'[c].row = class[c].row
    BY <1>0, <1>2 DEF ClassUpdate, Roster, PresentStudents, ClassRow
  <2>2. CASE class'[c].max = class[c].max
    BY <2>1, <2>2, NoGain DEF Present
  <2>3. CASE class'[c].max # class[c].max
    <3>1. c = k
      BY <1>0, <1>2, <2>3 DEF ClassUpdate
    <3>2. QED
      BY <1>2, <2>3, <3>1 DEF ClassUpdate, Present, Uncounted
  <2>4. QED
    BY <2>2, <2>3
<1>3. ASSUME NEW s \in Students, NEW k \in ClassId, StudentCreate(s, k), NEW c \in Classes
      PROVE  Crowds(c) => Uncounted(c)
  <2>1. student' = [student EXCEPT ![s] = [row |-> "present", class |-> k]] /\ class' = class
    BY <1>3 DEF StudentCreate
  <2>2. CASE c = k
    <3>1. student[s].row = "absent" /\ student'[s].class = c
      BY <1>0, <1>3, <2>1, <2>2 DEF StudentCreate
    <3>2. QED
      BY <3>1 DEF Uncounted
  <2>3. CASE c # k
    <3>1. Roster(c)' \subseteq Roster(c)
      BY <1>0, <2>1, <2>3 DEF Roster, PresentStudents
    <3>2. QED
      BY <2>1, <3>1, NoGain DEF Present
  <2>4. QED
    BY <2>2, <2>3
<1>4. ASSUME NEW s \in Students, StudentRemove(s), NEW c \in Classes
      PROVE  ~Crowds(c)
  <2>1. student' = [student EXCEPT ![s] = [row |-> "removed", class |-> NoClass]] /\ class' = class
    BY <1>4 DEF StudentRemove
  <2>2. Roster(c)' \subseteq Roster(c)
    BY <1>0, <2>1 DEF Roster, PresentStudents
  <2>3. QED
    BY <2>1, <2>2, NoGain DEF Present
<1>5. QED
  <2>1. ASSUME NEW c \in Classes, Crowds(c) PROVE Uncounted(c)
    BY <1>1, <1>2, <1>3, <1>4, <2>1 DEF Maintain, Max
  <2>2. QED
    BY <2>1 DEF CrowdsOnlyUncounted

LEMMA DeleteSeats ==
  ASSUME SerialInv, NEW p \in Procs, DeleteRow(p), proc[p].class \in Present, NEW c \in Classes
  PROVE  ~Crowds(c)
<1>0. /\ \A d \in Classes : class[d] \in ClassRow
      /\ \A s \in Students : student[s] \in StudentRow
  BY DEF SerialInv, IInv, TypeOK
<1> DEFINE k == proc[p].class
<1>1. Roster(c)' \subseteq Roster(c)
  <2>1. ASSUME NEW s \in Students
        PROVE  /\ student'[s].row = student[s].row
               /\ student'[s].class = IF student[s].class = k THEN NoClass ELSE student[s].class
    <3>1. student'[s] = [student[s] EXCEPT !.class = IF @ = k THEN NoClass ELSE @]
      BY DEF DeleteRow, Unclassed
    <3>2. QED
      BY <1>0, <3>1 DEF StudentRow
  <2>2. c # NoClass
    BY NoClassIsNull
  <2> HIDE DEF k
  <2>3. QED
    BY <2>1, <2>2 DEF Roster, PresentStudents
<1>2. CASE c = k
  <2>1. class'[c] = NoRow("deleted")
    BY <1>2 DEF DeleteRow, Unclassed
  <2>2. c \notin Present'
    BY <2>1 DEF NoRow, Present
  <2>3. QED
    BY <1>1, <2>2, NoGain
<1>3. CASE c # k
  <2>1. class'[c] = [class[c] EXCEPT !.parent = IF @ = k THEN NoClass ELSE @]
    BY <1>3 DEF DeleteRow, Unclassed
  <2>2. class'[c].row = class[c].row /\ class'[c].max = class[c].max
    BY <1>0, <2>1 DEF ClassRow
  <2>3. QED
    BY <1>1, <2>2, NoGain DEF Present
<1>4. QED
  BY <1>2, <1>3

(* The halves of a class with no more than twice its capacity have seats.   *)
LEMMA HalvesFit ==
  ASSUME NEW S, IsFiniteSet(S), NEW first \in FirstHalves(S), NEW max \in Nat,
         Cardinality(S) <= 2 * max
  PROVE  /\ IsFiniteSet(first) /\ Cardinality(first) <= max
         /\ IsFiniteSet(SecondHalf(S, first)) /\ Cardinality(SecondHalf(S, first)) <= max
<1>1. first \in SUBSET S /\ Cardinality(first) = (Cardinality(S) + 1) \div 2
  BY DEF FirstHalves
<1>2. Cardinality(S) \in Nat /\ IsFiniteSet(first)
  BY <1>1, FS_CardinalityType, FS_Subset
<1>3. /\ IsFiniteSet(S \ first)
      /\ Cardinality(S \ first) = Cardinality(S) - Cardinality(S \cap first)
  BY FS_Difference, <1>2
<1>4. S \cap first = first
  BY <1>1
<1>5. \A n \in Nat : n <= 2 * max =>
        /\ (n + 1) \div 2 \in Nat /\ (n + 1) \div 2 <= max
        /\ n - ((n + 1) \div 2) <= max
  OBVIOUS
<1>6. Cardinality(S \ first) = Cardinality(S) - ((Cardinality(S) + 1) \div 2)
  BY <1>1, <1>3, <1>4
<1>7. QED
  BY <1>1, <1>2, <1>3, <1>5, <1>6 DEF SecondHalf

LEMMA SplitSeats ==
  ASSUME SerialInv, Housed, NEW p \in Procs, NEW a \in Classes, NEW b \in Classes, NEW first,
         SplitCommit(p, a, b, first), NEW c \in Classes
  PROVE  Crowds(c) => TooManyToHalve(c)
<1> DEFINE k == proc[p].class
           second == SecondHalf(proc[p].students, first)
<1>0. /\ class \in [Classes -> ClassRow]
      /\ \A d \in Classes : class[d] \in ClassRow
      /\ \A s \in Students : student[s] \in StudentRow
  BY DEF SerialInv, IInv, TypeOK
<1>1. /\ k \in Classes /\ k # a /\ k # b /\ a # b
      /\ class[a].row = "absent" /\ class[b].row = "absent"
      /\ class' = SplitClasses(proc[p], a, b)
      /\ proc[p].students = Roster(k)
      /\ first \in FirstHalves(Roster(k))
  BY DEF SplitCommit, SplitCommits, SerialInv, RunsFresh, RunFresh, Present
<1>2. \A s \in Students :
        student'[s] = IF s \in second THEN Join(second, b)[s] ELSE Join(first, a)[s]
  BY DEF SplitCommit
<1>3. first \in SUBSET Roster(k) /\ second = Roster(k) \ first
  BY <1>1 DEF FirstHalves, SecondHalf
<1>4. \A s \in Students :
        /\ student'[s].row = student[s].row
        /\ student'[s].class = IF s \in second THEN b
                               ELSE IF s \in first THEN a ELSE student[s].class
  BY <1>0, <1>2 DEF Join, StudentRow
<1>5. IsFiniteSet(Roster(k))
  <2>1. IsFiniteSet(PresentStudents) /\ Roster(k) \subseteq PresentStudents
    BY DEF SerialInv, Roster
  <2>2. QED
    BY <2>1, FS_Subset
<1>6. proc'[p] # proc[p]
  <2>1. proc'[p] = Idle /\ proc[p].pc = "splitCommit"
    BY DEF SplitCommit, Become, SerialInv, IInv, TypeOK
  <2>2. QED
    BY <2>1 DEF Idle
<1>7. CASE c \notin {a, b}
  <2>1. class'[c].row = class[c].row /\ class'[c].max = class[c].max
    BY <1>0, <1>1, <1>7 DEF SplitClasses, ClassRow
  <2>2. Roster(c)' \subseteq Roster(c)
    <3> HIDE DEF second
    <3>1. QED
      BY <1>4, <1>7 DEF Roster, PresentStudents
  <2>3. QED
    BY <2>1, <2>2, NoGain DEF Present
<1>8. CASE c \in {a, b}
  <2>1. class[c].row = "absent"
    BY <1>1, <1>8
  <2>2. Roster(c) = {}
    BY <2>1, AbsentEmpty
  <2>3. Roster(c)' \subseteq (IF c = a THEN first ELSE second)
    <3> HIDE DEF second
    <3>1. QED
      BY <1>1, <1>4, <1>8, <2>2 DEF Roster, PresentStudents
  <2>4. class'[c].max \in Caps \cup {NoCap}
    <3>1. class'[c].max = proc[p].max
      BY <1>0, <1>1, <1>8 DEF SplitClasses, SubClass
    <3>2. proc[p].max \in Max
      BY SplitFields DEF SplitCommit, SerialInv, IInv
    <3>3. QED
      BY <3>1, <3>2 DEF Max
  <2>5. CASE class'[c].max = NoCap
    BY <2>5 DEF Crowds, Over
  <2>6. CASE class'[c].max \in Caps /\ Cardinality(Roster(k)) > 2 * class'[c].max
    BY <1>6, <2>1, <2>6 DEF TooManyToHalve, SplitCommit
  <2>7. CASE class'[c].max \in Caps /\ ~(Cardinality(Roster(k)) > 2 * class'[c].max)
    <3>1. class'[c].max \in Nat /\ Cardinality(Roster(k)) \in Nat
      BY <1>5, <2>7, CapsAreAtLeastTwo, FS_CardinalityType
    <3>2. Cardinality(Roster(k)) <= 2 * class'[c].max
      BY <2>7, <3>1
    <3>3. /\ IsFiniteSet(first) /\ Cardinality(first) <= class'[c].max
          /\ IsFiniteSet(second) /\ Cardinality(second) <= class'[c].max
      BY <1>1, <1>5, <3>1, <3>2, HalvesFit
    <3> HIDE DEF second
    <3>4. IsFiniteSet(Roster(c)') /\ Cardinality(Roster(c)') <= class'[c].max
      <4>1. CASE c = a
        <5>1. /\ IsFiniteSet(Roster(c)')
              /\ Cardinality(Roster(c)') <= Cardinality(first)
              /\ Cardinality(Roster(c)') \in Nat /\ Cardinality(first) \in Nat
          BY <2>3, <3>3, <4>1, FS_Subset, FS_CardinalityType
        <5>2. QED
          BY <3>1, <3>3, <5>1
      <4>2. CASE c # a
        <5>1. /\ IsFiniteSet(Roster(c)')
              /\ Cardinality(Roster(c)') <= Cardinality(second)
              /\ Cardinality(Roster(c)') \in Nat /\ Cardinality(second) \in Nat
          BY <2>3, <3>3, <4>2, FS_Subset, FS_CardinalityType
        <5>2. QED
          BY <3>1, <3>3, <5>1
      <4>3. QED
        BY <4>1, <4>2
    <3>5. Cardinality(Roster(c)') \in Nat
      BY <3>4, FS_CardinalityType
    <3>6. ~Over(c)'
      BY <3>1, <3>4, <3>5 DEF Over
    <3>7. QED
      BY <3>6 DEF Crowds
  <2>8. QED
    BY <2>4, <2>5, <2>6, <2>7
<1>9. QED
  BY <1>7, <1>8

(* An approval without override enrols a student only where there is a      *)
(* seat: the capacity it compared is the class's.                           *)
LEMMA ApproveSeats ==
  ASSUME SerialInv, NEW p \in Procs, ApproveCommit(p), NEW c \in Classes
  PROVE  Crowds(c) => Uncounted(c)
<1>0. /\ \A s \in Students : student[s] \in StudentRow
      /\ proc[p].class \in Classes /\ proc[p].override \in BOOLEAN
      /\ class' = class /\ proc[p].pc = "approveCommit"
  BY ReviewFields DEF ApproveCommit, SerialInv, IInv, TypeOK
<1>1. CASE student' = student
  BY <1>0, <1>1, NoGain DEF Roster, PresentStudents, Present
<1>2. CASE student' # student
  <2> DEFINE s == proc[p].student
             k == proc[p].class
  <2>1. student' = Join({s}, k) /\ s \in Students
    BY <1>2, ReviewFields DEF ApproveCommit, SerialInv, IInv
  <2>2. \A t \in Students : /\ student'[t].row = student[t].row
                            /\ student'[t].class = IF t = s THEN k ELSE student[t].class
    BY <1>0, <2>1 DEF Join, StudentRow
  <2>3. CASE c # k
    <3>1. Roster(c)' \subseteq Roster(c)
      <4> HIDE DEF s, k
      <4>1. QED
        BY <2>2, <2>3 DEF Roster, PresentStudents
    <3>2. QED
      BY <1>0, <3>1, NoGain DEF Present
  <2>4. CASE c = k /\ proc[p].override
    <3>1. proc'[p].pc = "approveMark"
      <4>1. proc' = [proc EXCEPT ![p] = [pc |-> "approveMark", request |-> proc[p].request,
                                         class |-> k, max |-> proc[p].max,
                                         group |-> proc[p].group]]
        BY <1>2 DEF ApproveCommit, Become
      <4>2. QED
        BY <4>1 DEF SerialInv, IInv, TypeOK
    <3>2. QED
      BY <1>0, <2>4, <3>1 DEF Uncounted
  <2>5. CASE c = k /\ ~proc[p].override
    <3>1. IsFiniteSet(Roster(c)) /\ RunFresh(proc[p])
      <4>1. IsFiniteSet(PresentStudents) /\ Roster(c) \subseteq PresentStudents
        BY DEF SerialInv, Roster
      <4>2. QED
        BY <4>1, FS_Subset DEF SerialInv, RunsFresh
    <3>2. class[c].max # NoCap => ~(Cardinality(Roster(c)) >= class[c].max)
      BY <1>0, <2>5, <3>1 DEF RunFresh, Refused, AtCapacity
    <3>3. class[c].max # NoCap => class[c].max \in Nat
      BY CapsAreAtLeastTwo DEF SerialInv, IInv, TypeOK, ClassRow
    <3>4. Roster(c)' \subseteq Roster(c) \cup {s}
      <4>1. \A t \in Students : t # s => student'[t].class = student[t].class
        BY <2>2
      <4> HIDE DEF s
      <4>2. QED
        BY <2>2, <4>1 DEF Roster, PresentStudents
    <3>5. /\ IsFiniteSet(Roster(c) \cup {s})
          /\ Cardinality(Roster(c)) \in Nat
          /\ Cardinality(Roster(c) \cup {s}) <= Cardinality(Roster(c)) + 1
      <4>1. /\ IsFiniteSet(Roster(c) \cup {proc[p].student})
            /\ Cardinality(Roster(c)) \in Nat
            /\ \/ Cardinality(Roster(c) \cup {proc[p].student}) = Cardinality(Roster(c))
               \/ Cardinality(Roster(c) \cup {proc[p].student}) = Cardinality(Roster(c)) + 1
        BY <3>1, FS_CardinalityType, FS_AddElement
      <4>2. QED
        BY <4>1
    <3>6. Cardinality(Roster(c)') \in Nat /\ Cardinality(Roster(c)') <= Cardinality(Roster(c)) + 1
      <4> HIDE DEF s
      <4>1. /\ IsFiniteSet(Roster(c)')
            /\ Cardinality(Roster(c)') <= Cardinality(Roster(c) \cup {s})
        BY <3>4, <3>5, FS_Subset
      <4>2. Cardinality(Roster(c)') \in Nat /\ Cardinality(Roster(c) \cup {s}) \in Nat
        BY <3>5, <4>1, FS_CardinalityType
      <4>3. QED
        BY <3>5, <4>1, <4>2
    <3>7. ~Over(c)'
      BY <1>0, <3>2, <3>3, <3>5, <3>6 DEF Over
    <3>8. QED
      BY <3>7 DEF Crowds
  <2>6. QED
    BY <1>0, <2>3, <2>4, <2>5
<1>3. QED
  BY <1>1, <1>2

LEMMA TransferSeats ==
  ASSUME SerialInv, NEW p \in Procs, TransferCommit(p), NEW c \in Classes
  PROVE  Crowds(c) => Uncounted(c)
<1>0. /\ \A s \in Students : student[s] \in StudentRow
      /\ class' = class /\ proc[p].pc = "transferCommit"
  BY DEF TransferCommit, SerialInv, IInv, TypeOK
<1>1. proc'[p] # proc[p]
  <2>1. proc'[p] \in {Idle, AfterJoin(proc[p].class, proc[p].max, FALSE)}
    BY DEF TransferCommit, Become, SerialInv, IInv, TypeOK
  <2>2. QED
    BY <1>0, <2>1 DEF Idle, AfterJoin
<1>2. CASE c = proc[p].class
  BY <1>0, <1>1, <1>2 DEF Uncounted
<1>3. CASE c # proc[p].class
  <2>1. student' = student \/ student' = Join({proc[p].student}, proc[p].class)
    BY DEF TransferCommit
  <2>2. \A t \in Students : /\ student'[t].row = student[t].row
                            /\ student'[t].class \in {proc[p].class, student[t].class}
    BY <1>0, <2>1 DEF Join, StudentRow
  <2>3. Roster(c)' \subseteq Roster(c)
    BY <1>3, <2>2 DEF Roster, PresentStudents
  <2>4. QED
    BY <1>0, <2>3, NoGain DEF Present
<1>4. QED
  BY <1>2, <1>3

LEMMA StepSeats ==
  SerialInv /\ Housed /\ [Next /\ Alone]_vars => [CrowdsOnlyUncounted]_vars
<1> SUFFICES ASSUME SerialInv, Housed, [Next]_vars PROVE CrowdsOnlyUncounted
  OBVIOUS
<1>1. CASE Maintain
  BY <1>1, MaintainSeats
<1>2. ASSUME UNCHANGED <<class, student>> PROVE CrowdsOnlyUncounted
  <2>1. \A c \in Classes : ~Crowds(c)
    BY <1>2, NoGain DEF Roster, PresentStudents, Present
  <2>2. QED
    BY <2>1 DEF CrowdsOnlyUncounted
<1>3. ASSUME NEW p \in Procs, DeleteRow(p) PROVE CrowdsOnlyUncounted
  BY <1>2, <1>3, DeleteSeats DEF DeleteRow, CrowdsOnlyUncounted
<1>4. QED
  BY Writers, <1>1, <1>2, <1>3, SplitSeats, ApproveSeats, TransferSeats
  DEF tables, EnrollInsert, ApproveMark, RejectMark, CrowdsOnlyUncounted

(* One handler at a time and whatever fails, a class comes to hold more     *)
(* students than its capacity, or more still, only by a change of its       *)
(* capacity, a new student, a transfer, an override, or a split of more     *)
(* than twice as many: where a request is approved without override there   *)
(* is a seat.                                                               *)
THEOREM SeatsCounted == SerialSpec => SeatsAreCounted
<1>1. SerialSpec => []Housed
  <2>1. SerialInv /\ Housed /\ [Next /\ Alone]_vars => Housed'
    BY HousedStep DEF SerialInv, IInv
  <2>2. QED
    BY <2>1, InitHoused, SerialInvariantHolds, SerialSteps, PTL DEF SerialSpec
<1>2. QED
  BY <1>1, SerialInvariantHolds, SerialSteps, StepSeats, PTL DEF SerialSpec, SeatsAreCounted

=============================================================================
