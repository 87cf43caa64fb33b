--------------------------- MODULE EnrollmentApart ---------------------------
(***************************************************************************)
(* Enrollment with handlers that do not overlap, a discipline its code     *)
(* does not enforce.  Nothing is assumed of what they do, nor that they    *)
(* come to their end, so what holds here and not in Enrollment is lost by  *)
(* interleaving alone.                                                     *)
(***************************************************************************)
EXTENDS Enrollment

VARIABLE
  stopped  \* history: requests whose approval enrolled the student, audited it
           \* and stopped before it marked the request

serialVars == <<class, student, request, lastMove, audited, proc, calls, stopped>>

Alone ==
  /\ \A p, q \in Procs : proc'[p] # Idle /\ proc'[q] # Idle => p = q
  /\ (\E p \in Procs : proc[p] # Idle) => proc' # proc

(* The approval that ends with this step although its request still waits. *)
Stops ==
  {r \in Requests :
     \E p \in Procs : /\ proc[p].pc = "approveMark" /\ proc[p].request = r
                      /\ proc'[p] = Idle
                      /\ request'[r].status = "pending"}

SerialNext == Next /\ Alone /\ stopped' = stopped \cup Stops

SerialSpec == Init /\ stopped = {} /\ [][SerialNext]_serialVars

-----------------------------------------------------------------------------
(* A class becomes a group by a split that takes every student out of it,   *)
(* and is not deleted from above its sub-classes.                           *)
KeepsWhole ==
  /\ \A c \in Classes : ~class[c].group /\ class'[c].group =>
       \A s \in Students : student'[s].class # c
  /\ \A c \in Present : Children(c) # {} => class'[c].row = "present"

GroupsAreWhole == [][KeepsWhole]_vars

(* A student waits for an answer on one request per class, and nobody is    *)
(* enrolled by a request that was rejected, before or after.  Only an       *)
(* approval that stopped half way leaves a request that can be rejected     *)
(* although its student is enrolled.                                        *)
RequestsDecidedOnce ==
  /\ \A s \in Students, c \in Classes : Cardinality(PendingFor(s, c)) <= 1
  /\ \A r \in Requests \ stopped : request[r].status = "rejected" => r \notin audited

(* A decision stands: no later review, and no failure, makes an approved     *)
(* request a rejected one, or the other way round, or asks again.           *)
DecisionsStand ==
  \A r \in Requests : request[r].status \in {"approved", "rejected"} =>
    request'[r].status \in {request[r].status, "deleted"}

DecisionsAreFinal == [][DecisionsStand]_vars

(* More students than the capacity, or more of them than before.            *)
Over(c) ==
  c \in Present /\ class[c].max # NoCap /\ Cardinality(Roster(c)) > class[c].max

Crowds(c) ==
  Over(c)' /\ (Over(c) => Cardinality(Roster(c))' > Cardinality(Roster(c)))

(* Where the code counts no seats of class c: when its capacity is changed,  *)
(* when a student is created in it or transferred to it, when the approval  *)
(* of a request overrides the capacity.                                     *)
Uncounted(c) ==
  \/ class[c].row = "present" /\ class'[c].max # class[c].max
  \/ \E s \in Students : student[s].row = "absent" /\ student'[s].class = c
  \/ \E p \in Procs :
       /\ \/ proc[p].pc = "transferCommit"
          \/ proc[p].pc = "approveCommit" /\ proc[p].override
       /\ proc[p].class = c /\ proc'[p] # proc[p]

(* c takes half of a class that had more than twice its capacity.           *)
TooManyToHalve(c) ==
  \E p \in Procs :
    /\ proc[p].pc = "splitCommit" /\ proc'[p] # proc[p]
    /\ class[c].row = "absent"
    /\ Cardinality(Roster(proc[p].class)) > 2 * class'[c].max

(* A class comes to hold more students than its capacity, or more still,    *)
(* only where the code counts no seats, or by a split that one half of its  *)
(* students still fills: an approval without override never takes it there, *)
(* nor do a deletion, an automatic split, a failure or a crash.             *)
CrowdsOnlyUncounted == \A c \in Classes : Crowds(c) => Uncounted(c) \/ TooManyToHalve(c)

SeatsAreCounted == [][CrowdsOnlyUncounted]_vars

=============================================================================
