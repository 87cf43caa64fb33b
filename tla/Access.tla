-------------------------------- MODULE Access --------------------------------
(***************************************************************************)
(* Roles, memberships and extra permissions of the users of one school,    *)
(* and the cache of permission lists that the guards answer from.          *)
(*                                                                         *)
(* Each server keeps a cache of its own in memory.  A list is put together *)
(* by two statements and stored later; a change of permissions is written  *)
(* first and the entry deleted later, on the server that made the change,  *)
(* and by some handlers not at all.  Whether an actor's role permits a     *)
(* call is left out: a refused call writes nothing.                        *)
(***************************************************************************)
EXTENDS Naturals, FiniteSets

CONSTANTS
  Users,            \* users of the school
  Roles,            \* roles
  Codes,            \* permission codes of the catalog
  RolePermissions,  \* role_permissions[r]: codes that the database gives role r
  Servers,          \* processes of the application
  Procs,            \* concurrent requests
  MaxCalls,         \* how many requests are made in a behaviour
  MaxFaults,        \* how many statements fail
  Absent            \* no entry in the cache

ASSUME MaxCallsNat == MaxCalls \in Nat
ASSUME MaxFaultsNat == MaxFaults \in Nat
ASSUME RolesFinite == IsFiniteSet(Roles)
ASSUME RolePermissionsType == RolePermissions \in [Roles -> SUBSET Codes]

VARIABLES
  roles,      \* roles[u]: user_roles
  members,    \* school_memberships
  grants,     \* grants[u]: user_permissions
  cache,      \* cache[s][u]: list under user_permissions:u, or Absent
  proc,       \* proc[p]: local state of a handler
  calls,      \* requests made so far
  faults,     \* faults so far
  removed,    \* history: who was removed and has joined by no request since
  contended,  \* history: users whose roles two requests worked on at a time
  excused     \* history: <<s, u>> whose entry misses a change that nobody
              \* tells s of, or that overtook the reading of the list

rows == <<roles, members, grants>>
history == <<removed, contended, excused>>
vars == <<roles, members, grants, cache, proc, calls, faults, removed, contended, excused>>

-----------------------------------------------------------------------------

\* A list: the codes of the database and the roles whose capabilities it has.
Lists == [codes : SUBSET Codes, roles : SUBSET Roles]

Idle == [pc |-> "idle"]

ProcRun ==
       [pc : {"codes", "delete"}, server : Servers, user : Users]
  \cup [pc : {"roles"}, server : Servers, user : Users, codes : SUBSET Codes]
  \cup [pc : {"store"}, server : Servers, user : Users, list : Lists]
  \cup [pc : {"holders"}, server : Servers, role : Roles]
  \cup [pc : {"delete all"}, server : Servers, users : SUBSET Users]
  \cup [pc : {"holds", "commit"}, user : Users, from : Roles, to : Roles]
  \cup [pc : {"remove"}, user : Users]

(* Every row and every local state is one the program can name.             *)
TypeOK ==
  /\ roles \in [Users -> SUBSET Roles]
  /\ members \in SUBSET Users
  /\ grants \in [Users -> SUBSET Codes]
  /\ cache \in [Servers -> [Users -> Lists \cup {Absent}]]
  /\ proc \in [Procs -> ProcRun \cup {Idle}]
  /\ calls \in 0..MaxCalls
  /\ faults \in 0..MaxFaults
  /\ removed \in SUBSET Users
  /\ contended \in SUBSET Users
  /\ excused \in SUBSET (Servers \X Users)

\* Everybody has joined with one role.
Init ==
  /\ roles \in [Users -> {{r} : r \in Roles}]
  /\ members = Users
  /\ grants = [u \in Users |-> {}]
  /\ cache = [s \in Servers |-> [u \in Users |-> Absent]]
  /\ proc = [p \in Procs |-> Idle]
  /\ calls = 0 /\ faults = 0
  /\ removed = {} /\ contended = {} /\ excused = {}

\* What listUserPermissions reads of u, if nothing changes meanwhile.
CodesOf(u) == grants[u] \cup UNION {RolePermissions[r] : r \in roles[u]}
Current(u) == [codes |-> CodesOf(u), roles |-> roles[u]]

\* Requests that are putting together a list of u on s, that will delete the
\* entry, and that work on the roles of u.
Listing(s, u) == {p \in Procs : proc[p].pc \in {"codes", "roles", "store"} /\ proc[p].server = s /\ proc[p].user = u}
Deleting(s, u) ==
  {p \in Procs : \/ proc[p].pc = "delete" /\ proc[p].server = s /\ proc[p].user = u
                 \/ proc[p].pc = "holders" /\ proc[p].server = s
                 \/ proc[p].pc = "delete all" /\ proc[p].server = s /\ u \in proc[p].users}
Working(u) == {p \in Procs : proc[p].pc \in {"holds", "commit", "remove"} /\ proc[p].user = u}

Become(p, state) == proc' = [proc EXCEPT ![p] = state]

Begin(p, state) ==
  /\ proc[p] = Idle
  /\ calls < MaxCalls
  /\ calls' = calls + 1
  /\ Become(p, state)
  /\ UNCHANGED faults

Go(p, state) == Become(p, state) /\ UNCHANGED <<calls, faults>>

\* The entries that a change of the users us leaves wrong: those on servers
\* other than the ones told, and those that are being put together.
Overtaken(us, told) ==
  {x \in Servers \X us : \/ cache[x[1]][x[2]] # Absent /\ x[1] \notin told
                         \/ Listing(x[1], x[2]) # {}}

Changed(us, told) == excused' = excused \cup Overtaken(us, told)

Contend(u) == contended' = IF Working(u) = {} THEN contended ELSE contended \cup {u}

-----------------------------------------------------------------------------
(* listUserPermissions, which the guards call for every request.            *)

\* The entry is looked up; if there is one it is the answer.
ListLook(p, s, u) ==
  /\ cache[s][u] = Absent
  /\ Begin(p, [pc |-> "codes", server |-> s, user |-> u])
  /\ UNCHANGED <<rows, cache, history>>

\* Mutant: the capabilities of the roles are left out of the list.
ListCodesOnly(p) ==
  /\ proc[p].pc = "codes"
  /\ LET u == proc[p].user
     IN  Go(p, [pc |-> "store", server |-> proc[p].server, user |-> u, list |-> [codes |-> CodesOf(u)]])
  /\ UNCHANGED <<rows, cache, history>>

ListCodes(p) ==
  /\ proc[p].pc = "codes"
  /\ LET u == proc[p].user
     IN  Go(p, [pc |-> "roles", server |-> proc[p].server, user |-> u, codes |-> CodesOf(u)])
  /\ UNCHANGED <<rows, cache, history>>

ListRoles(p) ==
  /\ proc[p].pc = "roles"
  /\ LET u == proc[p].user
     IN  Go(p, [pc |-> "store", server |-> proc[p].server, user |-> u,
                list |-> [codes |-> proc[p].codes, roles |-> roles[u]]])
  /\ UNCHANGED <<rows, cache, history>>

ListStore(p) ==
  /\ proc[p].pc = "store"
  /\ cache' = [cache EXCEPT ![proc[p].server][proc[p].user] = proc[p].list]
  /\ Go(p, Idle)
  /\ UNCHANGED <<rows, history>>

\* Entries gone from the cache.
Forget(s, us) ==
  /\ cache' = [cache EXCEPT ![s] = [u \in Users |-> IF u \in us THEN Absent ELSE @[u]]]
  /\ excused' = excused \ {<<s, u>> : u \in {v \in us : Listing(s, v) = {}}}

\* The time to live of the cache has passed.
Expire(s, u) ==
  /\ cache[s][u] # Absent
  /\ Forget(s, {u})
  /\ UNCHANGED <<rows, proc, calls, faults, removed, contended>>

-----------------------------------------------------------------------------
(* Extra permissions: assignToUser, revokeFromUser and, for all holders of  *)
(* a role, assignToRole.                                                    *)

Invalidate(s, u) == [pc |-> "delete", server |-> s, user |-> u]

AssignToUser(p, s, u, c) ==
  /\ Begin(p, Invalidate(s, u))
  /\ grants' = [grants EXCEPT ![u] = @ \cup {c}]
  /\ Changed(IF c \in CodesOf(u) THEN {} ELSE {u}, {s})
  /\ UNCHANGED <<roles, members, cache, removed, contended>>

\* Mutant: the entry is left in the cache.
RevokeQuietly(p, s, u, c) ==
  /\ Begin(p, Idle)
  /\ grants' = [grants EXCEPT ![u] = @ \ {c}]
  /\ Changed({u}, {s})
  /\ UNCHANGED <<roles, members, cache, removed, contended>>

RevokeFromUser(p, s, u, c) ==
  /\ Begin(p, Invalidate(s, u))
  /\ grants' = [grants EXCEPT ![u] = @ \ {c}]
  /\ Changed({u}, {s})
  /\ UNCHANGED <<roles, members, cache, removed, contended>>

AssignToRole(p, s, r, c) ==
  LET holders == {u \in Users : r \in roles[u]}
  IN  /\ Begin(p, [pc |-> "holders", server |-> s, role |-> r])
      /\ grants' = [u \in Users |-> grants[u] \cup IF u \in holders THEN {c} ELSE {}]
      /\ Changed(holders, {s})
      /\ UNCHANGED <<roles, members, cache, removed, contended>>

\* invalidateSystemRoleUsersCache asks once more who holds the role.  Who has
\* lost it meanwhile keeps the entry and the code.
ReadHolders(p) ==
  /\ proc[p].pc = "holders"
  /\ LET s == proc[p].server
         holders == {u \in Users : proc[p].role \in roles[u]}
     IN  /\ Go(p, [pc |-> "delete all", server |-> s, users |-> holders])
         /\ excused' = excused \cup Overtaken(Users \ holders, Servers \ {s})
  /\ UNCHANGED <<rows, cache, removed, contended>>

Delete(p) ==
  /\ proc[p].pc \in {"delete", "delete all"}
  /\ Forget(proc[p].server, IF proc[p].pc = "delete" THEN {proc[p].user} ELSE proc[p].users)
  /\ Go(p, Idle)
  /\ UNCHANGED <<rows, removed, contended>>

-----------------------------------------------------------------------------
(* Roles: assignRole and revokeRole, which tell the cache.                  *)

AssignRole(p, s, u, r) ==
  /\ Begin(p, Invalidate(s, u))
  /\ roles' = [roles EXCEPT ![u] = @ \cup {r}]
  /\ removed' = removed \ {u}
  /\ Contend(u)
  /\ Changed({u}, {s})
  /\ UNCHANGED <<members, grants, cache>>

RevokeRole(p, s, u, r) ==
  /\ Begin(p, Invalidate(s, u))
  /\ roles' = [roles EXCEPT ![u] = @ \ {r}]
  /\ Contend(u)
  /\ Changed({u}, {s})
  /\ UNCHANGED <<members, grants, cache, removed>>

-----------------------------------------------------------------------------
(* Roles: changeRole, removeStaff, createInSchool, completeRegistration and *)
(* removeFromSchool, which do not.                                          *)

\* Mutant: nobody asks whether the user holds the role.
ChangeUnchecked(p, u, from, to) ==
  /\ from # to
  /\ Begin(p, [pc |-> "holds", user |-> u, from |-> from, to |-> to])
  /\ Contend(u)
  /\ UNCHANGED <<rows, cache, removed, excused>>

ChangeRole(p, u, from, to) ==
  /\ from # to
  /\ from \in roles[u]
  /\ Begin(p, [pc |-> "holds", user |-> u, from |-> from, to |-> to])
  /\ Contend(u)
  /\ UNCHANGED <<rows, cache, removed, excused>>

\* Prevent assigning a role the target already has.
ChangeHolds(p) ==
  /\ proc[p].pc = "holds"
  /\ Go(p, IF proc[p].to \in roles[proc[p].user] THEN Idle ELSE [proc[p] EXCEPT !.pc = "commit"])
  /\ UNCHANGED <<rows, cache, history>>

\* Mutant: the old role is kept.
CommitAdds(p) ==
  /\ proc[p].pc = "commit"
  /\ LET u == proc[p].user
     IN  /\ proc[p].to \notin roles[u]
         /\ roles' = [roles EXCEPT ![u] = @ \cup {proc[p].to}]
         /\ Changed({u}, {})
  /\ Go(p, Idle)
  /\ UNCHANGED <<members, grants, cache, removed, contended>>

\* The transaction: DELETE of one role, which may find no row, and INSERT of
\* the other, which the unique key may refuse.
ChangeCommit(p) ==
  /\ proc[p].pc = "commit"
  /\ LET u == proc[p].user
     IN  IF proc[p].to \in roles[u] THEN UNCHANGED <<roles, excused>>
         ELSE /\ roles' = [roles EXCEPT ![u] = (@ \ {proc[p].from}) \cup {proc[p].to}]
              /\ Changed({u}, {})
  /\ Go(p, Idle)
  /\ UNCHANGED <<members, grants, cache, removed, contended>>

RemoveStaff(p, u) ==
  /\ roles[u] # {}
  /\ Begin(p, [pc |-> "remove", user |-> u])
  /\ Contend(u)
  /\ UNCHANGED <<rows, cache, removed, excused>>

RemoveCommit(p) ==
  /\ proc[p].pc = "remove"
  /\ LET u == proc[p].user
     IN  /\ roles' = [roles EXCEPT ![u] = {}]
         /\ members' = members \ {u}
         /\ removed' = removed \cup {u}
         /\ Changed({u}, {})
  /\ Go(p, Idle)
  /\ UNCHANGED <<grants, cache, contended>>

\* One transaction, for an account that may have been there before.
Join(p, u, r) ==
  /\ Begin(p, Idle)
  /\ roles' = [roles EXCEPT ![u] = @ \cup {r}]
  /\ members' = members \cup {u}
  /\ removed' = removed \ {u}
  /\ Contend(u)
  /\ Changed({u}, {})
  /\ UNCHANGED <<grants, cache>>

\* It fails when the user is a member or holds the role.
CreateInSchool(p, u, r) == u \notin members /\ r \notin roles[u] /\ Join(p, u, r)

\* An invitation is completed: rows that are there already stay as they are.
CompleteRegistration(p, u, r) == Join(p, u, r)

\* Of the roles nothing is deleted.
RemoveFromSchool(p, u) ==
  /\ Begin(p, Idle)
  /\ members' = members \ {u}
  /\ UNCHANGED <<roles, grants, cache, history>>

-----------------------------------------------------------------------------
\* A statement of a request fails.  A change that was written before stays,
\* and the entry with it.
Fails(p) ==
  /\ faults < MaxFaults
  /\ proc[p].pc \in {"codes", "roles", "holders", "holds", "commit", "remove"}
  /\ faults' = faults + 1
  /\ excused' = IF proc[p].pc = "holders"
                THEN excused \cup Overtaken(Users, Servers \ {proc[p].server})
                ELSE excused
  /\ Become(p, Idle)
  /\ UNCHANGED <<rows, cache, calls, removed, contended>>

\* Requests that work on the cache of a server.
Cached == {"codes", "roles", "store", "holders", "delete", "delete all"}

\* A server stops: its requests and its cache are gone.
Restart(s) ==
  /\ faults < MaxFaults
  /\ faults' = faults + 1
  /\ proc' = [p \in Procs |-> IF proc[p].pc \in Cached /\ proc[p].server = s THEN Idle ELSE proc[p]]
  /\ cache' = [cache EXCEPT ![s] = [u \in Users |-> Absent]]
  /\ excused' = excused \ ({s} \X Users)
  /\ UNCHANGED <<rows, calls, removed, contended>>

-----------------------------------------------------------------------------
ListStep(p) == ListCodes(p) \/ ListRoles(p) \/ ListStore(p)
ChangeStep(p) == ReadHolders(p) \/ Delete(p) \/ ChangeHolds(p) \/ ChangeCommit(p) \/ RemoveCommit(p)

Permit(p, s, u) ==
  \/ \E c \in Codes : AssignToUser(p, s, u, c) \/ RevokeFromUser(p, s, u, c)
  \/ \E r \in Roles : AssignRole(p, s, u, r) \/ RevokeRole(p, s, u, r)

Employ(p, u) ==
  \/ \E r, q \in Roles : ChangeRole(p, u, r, q)
  \/ RemoveStaff(p, u) \/ RemoveFromSchool(p, u)
  \/ \E r \in Roles : CreateInSchool(p, u, r) \/ CompleteRegistration(p, u, r)

Next ==
  \/ \E p \in Procs :
       \/ ListStep(p) \/ ChangeStep(p) \/ Fails(p)
       \/ \E u \in Users : Employ(p, u)
       \/ \E s \in Servers, u \in Users : ListLook(p, s, u) \/ Permit(p, s, u)
       \/ \E s \in Servers, r \in Roles, c \in Codes : AssignToRole(p, s, r, c)
  \/ \E s \in Servers : Restart(s) \/ \E u \in Users : Expire(s, u)

Spec == Init /\ [][Next]_vars

-----------------------------------------------------------------------------
(* Properties.                                                              *)

(* The guards answer from the list that the database would give now, once   *)
(* the requests that changed it on this server have deleted the entry: the  *)
(* exceptions are changes by changeRole, removeStaff and createInSchool,    *)
(* changes on other servers and changes that overtook the reading.          *)
CachedIsCurrent ==
  \A s \in Servers, u \in Users :
    cache[s][u] # Absent /\ <<s, u>> \notin excused /\ Deleting(s, u) = {} => cache[s][u] = Current(u)

(* Who was removed from the staff has no role and no membership until some  *)
(* later request gives them, unless another request was under way.          *)
RemovedStaysOut == \A u \in removed \ contended : roles[u] = {} /\ u \notin members

(* changeRole replaces a role: a user does not come out of it with more     *)
(* roles than before, unless two requests worked on them at a time.         *)
ChangeReplaces ==
  [][\A p \in Procs : proc[p].pc = "commit" /\ proc'[p] = Idle =>
       LET u == proc[p].user
       IN  u \in contended' \/ Cardinality(roles'[u]) = Cardinality(roles[u])]_vars

(* Why they hold: a request that works on the roles of a user is alone with *)
(* them, so what changeRole has found is still so when it commits; and a    *)
(* list under way is the current one as far as it has been put together.    *)
OneWorker == \A u \in Users \ contended : \A p, q \in Working(u) : p = q

NobodyWorksOnRemoved == \A u \in removed \ contended : Working(u) = {}

ChangeIsFresh ==
  \A p \in Procs :
    proc[p].pc \in {"holds", "commit"} /\ proc[p].user \notin contended =>
      /\ proc[p].from \in roles[proc[p].user]
      /\ proc[p].from # proc[p].to
      /\ proc[p].pc = "commit" => proc[p].to \notin roles[proc[p].user]

Fresh(s, u) ==
  /\ cache[s][u] # Absent /\ Deleting(s, u) = {} => cache[s][u] = Current(u)
  /\ \A p \in Listing(s, u) :
       /\ proc[p].pc = "roles" => proc[p].codes = CodesOf(u)
       /\ proc[p].pc = "store" => proc[p].list = Current(u)

IInv ==
  /\ TypeOK
  /\ OneWorker
  /\ NobodyWorksOnRemoved
  /\ RemovedStaysOut
  /\ ChangeIsFresh
  /\ \A s \in Servers, u \in Users : <<s, u>> \notin excused => Fresh(s, u)

=============================================================================
