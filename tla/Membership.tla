------------------------------- MODULE Membership -------------------------------
(***************************************************************************)
(* The members of one organization and of its courses: the RPCs of         *)
(* internal/svc/orgmembers and internal/svc/coursemembers, the creation of *)
(* courses, and the permission checks of internal/authz they call.         *)
(*                                                                         *)
(* A call is a sequence of steps, one per SQL statement that matters.      *)
(* Transactions run under PostgreSQL's READ COMMITTED (db.WithCommitTx     *)
(* asks for nothing else): a statement inside one sees what the others     *)
(* have committed by then, so the reads of a transaction are steps of      *)
(* their own and its last write, with the commit, is one.  Authorization   *)
(* reads on a connection of its own (authz.go).  The reads of one          *)
(* permission check are one step, and a missing row ends the call.         *)
(***************************************************************************)
EXTENDS Integers, FiniteSets

CONSTANTS
    Users,
    SysAdmins,    \* users whose token says USER_ROLE_ADMIN
    Creator,      \* who created the organization
    Courses,      \* ids of the courses that get created
    Calls,        \* RPCs that may be in flight at once
    RPCs          \* bound: the RPCs in play

AllRPCs == {"AddOrganizationMember", "UpdateOrganizationMemberRole",
            "UpdateOrganizationMemberStatus", "RemoveOrganizationMember",
            "RespondToOrganizationInvitation", "CreateCourse", "AddCourseMember",
            "RemoveCourseMember", "EnrollSelf", "CreateJoinRequest", "ReviewJoinRequest"}

OrgRoles == {"owner", "admin", "teacher", "student"}
MemberStatuses == {"active", "invited", "suspended"}
CourseRoles == {"teacher", "student"}
JoinStatuses == {"pending", "approved", "rejected"}

None == "none"
NobodyYet == "nobody"

ASSUME MembershipAssumption ==
    /\ IsFiniteSet(Users)
    /\ SysAdmins \subseteq Users
    /\ Creator \in Users
    /\ NobodyYet \notin Users
    /\ None \notin Courses
    /\ RPCs \subseteq AllRPCs

VARIABLES
    member,       \* organization_members: user -> role and status, None for no row
    courseOwner,  \* courses.owner_id, NobodyYet before the course is created
    courseRole,   \* course_members: course -> user -> role, None for no row
    join,         \* course_join_requests: course -> user -> status and requested role
    rpc,          \* the RPC a call serves, None when it is free
    at,           \* its next step
    req,          \* its request
    seen,         \* the membership its transaction read
    doomed        \* courses whose rows its cascade has deleted and not committed

tables == <<member, courseOwner, courseRole, join>>
callVars == <<rpc, at, req, seen, doomed>>
vars == <<tables, callVars>>

NoRow == [role |-> None, status |-> None]
MemberRows == [role: OrgRoles, status: MemberStatuses]
NoJoin == [status |-> None, role |-> None]
JoinRows == [status: JoinStatuses, role: CourseRoles]

\* Requests with the fields an RPC takes; the others are fixed.
Asking(users, courses, roles, statuses, yes) ==
    [caller: Users, user: users, course: courses, role: roles, status: statuses, yes: yes]

Request ==
    Asking(Users, Courses \union {None}, OrgRoles \union CourseRoles \union {None},
           MemberStatuses \union {None}, BOOLEAN)

NoRequest == [caller |-> Creator, user |-> Creator, course |-> None, role |-> None,
              status |-> None, yes |-> FALSE]

OnlySelf(requests) == {q \in requests : q.user = q.caller}

RequestsOf(p) ==
    CASE p = "AddOrganizationMember" ->
            Asking(Users, {None}, OrgRoles, MemberStatuses, {FALSE})
      [] p = "UpdateOrganizationMemberRole" ->
            Asking(Users, {None}, OrgRoles, {None}, {FALSE})
      [] p = "UpdateOrganizationMemberStatus" ->
            Asking(Users, {None}, {None}, MemberStatuses, {FALSE})
      [] p = "RemoveOrganizationMember" ->
            Asking(Users, {None}, {None}, {None}, {FALSE})
      [] p = "RespondToOrganizationInvitation" ->
            OnlySelf(Asking(Users, {None}, {None}, {None}, BOOLEAN))
      [] p = "CreateCourse" ->
            OnlySelf(Asking(Users, Courses, {None}, {None}, {FALSE}))
      [] p = "AddCourseMember" ->
            Asking(Users, Courses, CourseRoles, {None}, {FALSE})
      [] p = "RemoveCourseMember" ->
            Asking(Users, Courses, {None}, {None}, {FALSE})
      [] p \in {"EnrollSelf", "CreateJoinRequest"} ->
            OnlySelf(Asking(Users, Courses, CourseRoles, {None}, {FALSE}))
      [] p = "ReviewJoinRequest" ->
            Asking(Users, Courses, {None}, {None}, BOOLEAN)

\* CreateOrganization makes its creator the first owner in the same transaction.
Init ==
    /\ member = [u \in Users |-> IF u = Creator THEN [role |-> "owner", status |-> "active"]
                                 ELSE NoRow]
    /\ courseOwner = [c \in Courses |-> NobodyYet]
    /\ courseRole = [c \in Courses |-> [u \in Users |-> None]]
    /\ join = [c \in Courses |-> [u \in Users |-> NoJoin]]
    /\ rpc = [r \in Calls |-> None]
    /\ at = [r \in Calls |-> None]
    /\ req = [r \in Calls |-> NoRequest]
    /\ seen = [r \in Calls |-> NoRow]
    /\ doomed = [r \in Calls |-> {}]

--------------------------------------------------------------------------------
(* Who may do what. *)

\* RequireOrgRole: a system admin, or an active member with one of the roles.
HasOrgRole(u, roles) ==
    u \in SysAdmins \/ (member[u].status = "active" /\ member[u].role \in roles)

CourseBypass_AnyCourse(u, c) == courseOwner[c] = u \/ HasOrgRole(u, {"owner", "admin"})

\* requireCourseBypass: who reaches the course without a course_members row.
CourseBypass(u, c) ==
    courseOwner[c] # NobodyYet /\ (courseOwner[c] = u \/ HasOrgRole(u, {"owner", "admin"}))

\* requireCourseManager.
CourseManager(u, c) ==
    CourseBypass(u, c) \/ (courseOwner[c] # NobodyYet /\ courseRole[c][u] = "teacher")

ActiveOwners == {u \in Users : member[u] = [role |-> "owner", status |-> "active"]}

\* The callers RemoveOrganizationMember lets through before its transaction.
MayRemove(u, target) ==
    \/ u \in SysAdmins
    \/ /\ member[u].status = "active"
       /\ \/ member[u].role = "owner"
          \/ member[u].role = "admin" /\ member[target].role \notin {"owner", None}
          \/ member[u].role \in {"teacher", "student"} /\ u = target

MayRule_AnyAdmin(u, roles) == HasOrgRole(u, {"owner", "admin"})

\* Only an owner gives or takes the role of an owner.
MayRule(u, roles) ==
    HasOrgRole(u, IF "owner" \in roles THEN {"owner"} ELSE {"owner", "admin"})

\* The permission check of RPC p for request q, after its transaction read row.
Allowed(p, q, row) ==
    CASE p = "AddOrganizationMember" -> MayRule(q.caller, {q.role})
      [] p = "UpdateOrganizationMemberRole" -> MayRule(q.caller, {row.role, q.role})
      [] p = "UpdateOrganizationMemberStatus" -> MayRule(q.caller, {row.role})
      [] p = "RemoveOrganizationMember" -> MayRemove(q.caller, q.user)
      [] p = "RespondToOrganizationInvitation" -> TRUE
      [] p = "CreateCourse" -> HasOrgRole(q.caller, {"owner", "admin", "teacher"})
      [] p = "CreateJoinRequest" ->
            courseOwner[q.course] # NobodyYet /\ HasOrgRole(q.caller, OrgRoles)
      [] p = "EnrollSelf" -> CourseBypass(q.caller, q.course)
      [] p \in {"AddCourseMember", "RemoveCourseMember", "ReviewJoinRequest"} ->
            CourseManager(q.caller, q.course)

\* What GetOrganizationMember must return for RPC p to go on.
Acceptable(p, row) ==
    /\ row # NoRow
    /\ p = "RespondToOrganizationInvitation" => row.status = "invited"

--------------------------------------------------------------------------------
(* The steps of a call. *)

Goto(r, step) == at' = [at EXCEPT ![r] = step]

\* The call is answered, with success or an error.
Answer(r) ==
    /\ rpc' = [rpc EXCEPT ![r] = None]
    /\ at' = [at EXCEPT ![r] = None]
    /\ req' = [req EXCEPT ![r] = NoRequest]
    /\ seen' = [seen EXCEPT ![r] = NoRow]
    /\ doomed' = [doomed EXCEPT ![r] = {}]

ReadFirst == {"UpdateOrganizationMemberRole", "UpdateOrganizationMemberStatus",
              "RespondToOrganizationInvitation"}

AfterAuthorize(p) ==
    CASE p \in {"UpdateOrganizationMemberRole", "UpdateOrganizationMemberStatus"} -> "count"
      [] p = "RemoveOrganizationMember" -> "read"
      [] p \in {"AddCourseMember", "CreateJoinRequest", "ReviewJoinRequest"} -> "check"
      [] OTHER -> "write"

\* A call begins with its first statement; one that it ends changes nothing and is
\* left out.
Start(r, p, q) ==
    /\ rpc[r] = None
    /\ IF p \in ReadFirst
       THEN /\ Acceptable(p, member[q.user])
            /\ seen' = [seen EXCEPT ![r] = member[q.user]]
            /\ Goto(r, IF p = "RespondToOrganizationInvitation" THEN "write" ELSE "authorize")
       ELSE /\ Allowed(p, q, NoRow)
            /\ Goto(r, AfterAuthorize(p))
            /\ UNCHANGED seen
    /\ rpc' = [rpc EXCEPT ![r] = p]
    /\ req' = [req EXCEPT ![r] = q]
    /\ UNCHANGED <<tables, doomed>>

\* RequireOrgRole within the transaction of an update.
Authorize(r) ==
    LET ok == Allowed(rpc[r], req[r], seen[r]) IN
    /\ at[r] = "authorize"
    /\ \/ ok /\ Goto(r, AfterAuthorize(rpc[r])) /\ UNCHANGED <<rpc, req, seen, doomed>>
       \/ ~ok /\ Answer(r)
    /\ UNCHANGED tables

\* The first statement of RemoveOrganizationMember's transaction.
Read(r) ==
    LET row == member[req[r].user] IN
    /\ at[r] = "read"
    /\ \/ /\ Acceptable(rpc[r], row)
          /\ seen' = [seen EXCEPT ![r] = row]
          /\ Goto(r, "count")
          /\ UNCHANGED <<rpc, req, doomed>>
       \/ ~Acceptable(rpc[r], row) /\ Answer(r)
    /\ UNCHANGED tables

\* The row that was read is an active owner's and will not be one any more.
LosesOwner(r) ==
    /\ seen[r] = [role |-> "owner", status |-> "active"]
    /\ CASE rpc[r] = "UpdateOrganizationMemberRole" -> req[r].role # "owner"
         [] rpc[r] = "UpdateOrganizationMemberStatus" -> req[r].status # "active"
         [] OTHER -> TRUE

CountOwners_AllowsLast(r) ==
    /\ at[r] = "count"
    /\ \/ /\ LosesOwner(r) => Cardinality(ActiveOwners) > 0
          /\ Goto(r, IF rpc[r] = "RemoveOrganizationMember" THEN "cascade" ELSE "write")
          /\ UNCHANGED <<rpc, req, seen, doomed>>
       \/ /\ LosesOwner(r)
          /\ Cardinality(ActiveOwners) <= 0
          /\ Answer(r)
    /\ UNCHANGED tables

\* The last-owner guard (CountOrganizationOwners).
CountOwners(r) ==
    /\ at[r] = "count"
    /\ \/ /\ LosesOwner(r) => Cardinality(ActiveOwners) > 1
          /\ Goto(r, IF rpc[r] = "RemoveOrganizationMember" THEN "cascade" ELSE "write")
          /\ UNCHANGED <<rpc, req, seen, doomed>>
       \/ /\ LosesOwner(r)
          /\ Cardinality(ActiveOwners) <= 1
          /\ Answer(r)
    /\ UNCHANGED tables

\* A deleted and uncommitted row is locked: whoever writes it waits.
Locked(c, u) == \E r \in Calls : c \in doomed[r] /\ req[r].user = u

Cascade_Skipped(r) ==
    /\ at[r] = "cascade"
    /\ Goto(r, "write")
    /\ UNCHANGED <<tables, rpc, req, seen, doomed>>

\* RemoveCourseMembershipsForUserInOrg deletes the rows that exist by now; they are
\* gone for the others when the transaction commits.
Cascade(r) ==
    LET u == req[r].user
        rows == {c \in Courses : courseRole[c][u] # None}
    IN  /\ at[r] = "cascade"
        /\ \A c \in rows : ~Locked(c, u)
        /\ doomed' = [doomed EXCEPT ![r] = rows]
        /\ Goto(r, "write")
        /\ UNCHANGED <<tables, rpc, req, seen>>

\* AddCourseMember and the approval want an active member of the organization;
\* CreateJoinRequest wants someone who is not a member of the course yet.
CheckPasses(r) ==
    LET q == req[r] IN
    CASE rpc[r] = "AddCourseMember" -> member[q.user].status = "active"
      [] rpc[r] = "ReviewJoinRequest" -> q.yes => member[q.user].status = "active"
      [] rpc[r] = "CreateJoinRequest" -> courseRole[q.course][q.user] = None

Check(r) ==
    /\ at[r] = "check"
    /\ \/ CheckPasses(r) /\ Goto(r, "write") /\ UNCHANGED <<rpc, req, seen, doomed>>
       \/ ~CheckPasses(r) /\ Answer(r)
    /\ UNCHANGED tables

--------------------------------------------------------------------------------
(* The writes, each with its commit. *)

Writes(r, p) == rpc[r] = p /\ at[r] = "write" /\ Answer(r)

\* INSERT: the primary key refuses a second row.
AddOrganizationMember(r) ==
    LET q == req[r] IN
    /\ Writes(r, "AddOrganizationMember")
    /\ member' = IF member[q.user] = NoRow
                 THEN [member EXCEPT ![q.user] = [role |-> q.role, status |-> q.status]]
                 ELSE member
    /\ UNCHANGED <<courseOwner, courseRole, join>>

\* UPDATE ... RETURNING: no row is an error, and nothing changes.
UpdateOrganizationMemberRole(r) ==
    LET u == req[r].user IN
    /\ Writes(r, "UpdateOrganizationMemberRole")
    /\ member' = IF member[u] = NoRow THEN member
                 ELSE [member EXCEPT ![u].role = req[r].role]
    /\ UNCHANGED <<courseOwner, courseRole, join>>

UpdateOrganizationMemberStatus(r) ==
    LET u == req[r].user IN
    /\ Writes(r, "UpdateOrganizationMemberStatus")
    /\ member' = IF member[u] = NoRow THEN member
                 ELSE [member EXCEPT ![u].status = req[r].status]
    /\ UNCHANGED <<courseOwner, courseRole, join>>

\* The second DELETE of the transaction; the commit makes the cascade visible.  Zero
\* rows is reported as NotFound after the commit.
RemoveOrganizationMember(r) ==
    LET u == req[r].user IN
    /\ Writes(r, "RemoveOrganizationMember")
    /\ member' = [member EXCEPT ![u] = NoRow]
    /\ courseRole' = [c \in Courses |->
            IF c \in doomed[r] THEN [courseRole[c] EXCEPT ![u] = None] ELSE courseRole[c]]
    /\ UNCHANGED <<courseOwner, join>>

\* Accepting is UpdateOrganizationMemberStatus(active), declining deletes the row.
RespondToOrganizationInvitation(r) ==
    LET u == req[r].user IN
    /\ Writes(r, "RespondToOrganizationInvitation")
    /\ member' = IF ~req[r].yes THEN [member EXCEPT ![u] = NoRow]
                 ELSE IF member[u] = NoRow THEN member
                 ELSE [member EXCEPT ![u].status = "active"]
    /\ UNCHANGED <<courseOwner, courseRole, join>>

\* The course and its creator's membership, in one transaction; an id is used once.
CreateCourse(r) ==
    LET q == req[r] IN
    /\ Writes(r, "CreateCourse")
    /\ IF courseOwner[q.course] = NobodyYet
       THEN /\ courseOwner' = [courseOwner EXCEPT ![q.course] = q.caller]
            /\ courseRole' = [courseRole EXCEPT ![q.course][q.caller] = "teacher"]
       ELSE UNCHANGED <<courseOwner, courseRole>>
    /\ UNCHANGED <<member, join>>

\* INSERT ... ON CONFLICT DO UPDATE SET role.
AddCourseMember(r) ==
    LET q == req[r] IN
    /\ Writes(r, "AddCourseMember")
    /\ ~Locked(q.course, q.user)
    /\ courseRole' = [courseRole EXCEPT ![q.course][q.user] = q.role]
    /\ UNCHANGED <<member, courseOwner, join>>

RemoveCourseMember(r) ==
    LET q == req[r] IN
    /\ Writes(r, "RemoveCourseMember")
    /\ ~Locked(q.course, q.user)
    /\ courseRole' = [courseRole EXCEPT ![q.course][q.user] = None]
    /\ UNCHANGED <<member, courseOwner, join>>

\* EnrollCourseMemberIfAbsent: an existing row keeps its role.
EnrollSelf(r) ==
    LET q == req[r] IN
    /\ Writes(r, "EnrollSelf")
    /\ ~Locked(q.course, q.user)
    /\ courseRole' = [courseRole EXCEPT ![q.course][q.user] = IF @ = None THEN q.role ELSE @]
    /\ UNCHANGED <<member, courseOwner, join>>

CreateJoinRequest(r) ==
    LET q == req[r] IN
    /\ Writes(r, "CreateJoinRequest")
    /\ join' = [join EXCEPT ![q.course][q.user] = [status |-> "pending", role |-> q.role]]
    /\ UNCHANGED <<member, courseOwner, courseRole>>

\* Whatever the request's status was; an approval adds the member with the requested
\* role in the same transaction.
ReviewJoinRequest(r) ==
    LET q == req[r]  row == join[q.course][q.user] IN
    /\ Writes(r, "ReviewJoinRequest")
    /\ q.yes => ~Locked(q.course, q.user)
    /\ IF row = NoJoin THEN UNCHANGED <<join, courseRole>>
       ELSE /\ join' = [join EXCEPT ![q.course][q.user].status =
                            IF q.yes THEN "approved" ELSE "rejected"]
            /\ courseRole' = IF q.yes THEN [courseRole EXCEPT ![q.course][q.user] = row.role]
                             ELSE courseRole
    /\ UNCHANGED <<member, courseOwner>>

--------------------------------------------------------------------------------

OrgWrite(r) ==
    \/ AddOrganizationMember(r) \/ UpdateOrganizationMemberRole(r)
    \/ UpdateOrganizationMemberStatus(r) \/ RemoveOrganizationMember(r)
    \/ RespondToOrganizationInvitation(r)

CourseWrite(r) ==
    \/ CreateCourse(r) \/ AddCourseMember(r) \/ RemoveCourseMember(r)
    \/ EnrollSelf(r) \/ CreateJoinRequest(r) \/ ReviewJoinRequest(r)

Step(r) ==
    \/ Authorize(r) \/ Read(r) \/ CountOwners(r) \/ Cascade(r) \/ Check(r)
    \/ OrgWrite(r) \/ CourseWrite(r)

Next ==
    \E r \in Calls :
        \/ \E p \in RPCs : \E q \in RequestsOf(p) : Start(r, p, q)
        \/ Step(r)

Spec == Init /\ [][Next]_vars

--------------------------------------------------------------------------------
(* Properties. *)

\* The types of the tables and the calls; a course that was not created has no
\* members and no join requests.
TypeOK ==
    /\ member \in [Users -> MemberRows \union {NoRow}]
    /\ courseOwner \in [Courses -> Users \union {NobodyYet}]
    /\ courseRole \in [Courses -> [Users -> CourseRoles \union {None}]]
    /\ join \in [Courses -> [Users -> JoinRows \union {NoJoin}]]
    /\ rpc \in [Calls -> RPCs \union {None}]
    /\ at \in [Calls -> {None, "authorize", "read", "count", "cascade", "check", "write"}]
    /\ req \in [Calls -> Request]
    /\ seen \in [Calls -> MemberRows \union {NoRow}]
    /\ doomed \in [Calls -> SUBSET Courses]
    /\ \A c \in Courses : courseOwner[c] = NobodyYet =>
            \A u \in Users : courseRole[c][u] = None /\ join[c][u] = NoJoin

\* orgmembers.go: no RPC may demote, deactivate or remove the last owner of an
\* organization ("all permission checks and the update happen inside one transaction
\* to eliminate TOCTOU").
LastOwnerKept == ActiveOwners # {}

\* orgmembers.go, RemoveOrganizationMember: losing the organization membership also
\* revokes course access, so whoever is removed has no course_members row left.
RemovalRevokesCourses ==
    [][\A u \in Users :
          /\ member[u] # NoRow /\ member'[u] = NoRow
          /\ \E r \in Calls : rpc[r] = "RemoveOrganizationMember" /\ rpc'[r] = None
          => \A c \in Courses : courseRole'[c][u] = None]_vars

\* Only an active owner or a system admin makes somebody an owner, changes an owner's
\* role or status, or removes an owner; an owner may leave and an invited one decline.
OwnersRuleOwners ==
    [][\A u \in Users, r \in Calls :
          /\ member'[u] # member[u]
          /\ "owner" \in {member[u].role, member'[u].role}
          /\ rpc[r] # None /\ rpc'[r] = None
          => \/ HasOrgRole(req[r].caller, {"owner"})
             \/ /\ req[r].caller = u
                /\ rpc[r] \in {"RemoveOrganizationMember",
                               "RespondToOrganizationInvitation"}]_vars

================================================================================
