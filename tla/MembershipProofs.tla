---------------------------- MODULE MembershipProofs ----------------------------
(***************************************************************************)
(* What TLAPS proves about Membership: the tables stay well-formed under   *)
(* any number of concurrent calls, and an organization keeps an active     *)
(* owner as long as calls do not overlap.  The guard is right; what the    *)
(* code lacks is the isolation of the transaction it stands in.            *)
(***************************************************************************)
EXTENDS Membership, FiniteSetTheorems, TLAPS

--------------------------------------------------------------------------------
(* Types. *)

MemberTypes == member \in [Users -> MemberRows \union {NoRow}]

CourseTypes ==
    /\ courseOwner \in [Courses -> Users \union {NobodyYet}]
    /\ courseRole \in [Courses -> [Users -> CourseRoles \union {None}]]
    /\ join \in [Courses -> [Users -> JoinRows \union {NoJoin}]]

CallTypes ==
    /\ rpc \in [Calls -> RPCs \union {None}]
    /\ at \in [Calls -> {None, "authorize", "read", "count", "cascade", "check", "write"}]
    /\ req \in [Calls -> Request]
    /\ seen \in [Calls -> MemberRows \union {NoRow}]
    /\ doomed \in [Calls -> SUBSET Courses]

\* What the requests of every RPC are made of.
LEMMA RequestTypes ==
    ASSUME NEW p \in RPCs, NEW q \in RequestsOf(p)
    PROVE  q \in Request
<1>1. p \in AllRPCs
  BY MembershipAssumption
<1>2. \A us \in SUBSET Users : \A cs \in SUBSET (Courses \union {None}) :
        \A rs \in SUBSET (OrgRoles \union CourseRoles \union {None}) :
          \A ss \in SUBSET (MemberStatuses \union {None}) :
            \A ys \in SUBSET BOOLEAN : Asking(us, cs, rs, ss, ys) \subseteq Request
  BY DEF Asking, Request
<1>3. /\ Users \in SUBSET Users /\ Courses \in SUBSET (Courses \union {None})
      /\ {None} \in SUBSET (Courses \union {None})
      /\ OrgRoles \in SUBSET (OrgRoles \union CourseRoles \union {None})
      /\ CourseRoles \in SUBSET (OrgRoles \union CourseRoles \union {None})
      /\ {None} \in SUBSET (OrgRoles \union CourseRoles \union {None})
      /\ MemberStatuses \in SUBSET (MemberStatuses \union {None})
      /\ {None} \in SUBSET (MemberStatuses \union {None})
      /\ BOOLEAN \in SUBSET BOOLEAN /\ {FALSE} \in SUBSET BOOLEAN
  OBVIOUS
<1>4. \A requests : OnlySelf(requests) \subseteq requests
  BY DEF OnlySelf
<1>5. RequestsOf(p) \subseteq Request
  <2>1. CASE p = "AddOrganizationMember"
    BY <1>2, <1>3, <2>1 DEF RequestsOf
  <2>2. CASE p = "UpdateOrganizationMemberRole"
    BY <1>2, <1>3, <2>2 DEF RequestsOf
  <2>3. CASE p = "UpdateOrganizationMemberStatus"
    BY <1>2, <1>3, <2>3 DEF RequestsOf
  <2>4. CASE p = "RemoveOrganizationMember"
    BY <1>2, <1>3, <2>4 DEF RequestsOf
  <2>5. CASE p = "RespondToOrganizationInvitation"
    <3>1. RequestsOf(p) = OnlySelf(Asking(Users, {None}, {None}, {None}, BOOLEAN))
      BY <2>5 DEF RequestsOf
    <3>2. Asking(Users, {None}, {None}, {None}, BOOLEAN) \subseteq Request
      BY <1>2, <1>3
    <3> QED
      BY <1>4, <3>1, <3>2
  <2>6. CASE p = "CreateCourse"
    <3>1. RequestsOf(p) = OnlySelf(Asking(Users, Courses, {None}, {None}, {FALSE}))
      BY <2>6 DEF RequestsOf
    <3>2. Asking(Users, Courses, {None}, {None}, {FALSE}) \subseteq Request
      BY <1>2, <1>3
    <3> QED
      BY <1>4, <3>1, <3>2
  <2>7. CASE p = "AddCourseMember"
    BY <1>2, <1>3, <2>7 DEF RequestsOf
  <2>8. CASE p = "RemoveCourseMember"
    BY <1>2, <1>3, <2>8 DEF RequestsOf
  <2>9. CASE p \in {"EnrollSelf", "CreateJoinRequest"}
    <3>1. RequestsOf(p) = OnlySelf(Asking(Users, Courses, CourseRoles, {None}, {FALSE}))
      BY <2>9 DEF RequestsOf
    <3>2. Asking(Users, Courses, CourseRoles, {None}, {FALSE}) \subseteq Request
      BY <1>2, <1>3
    <3> QED
      BY <1>4, <3>1, <3>2
  <2>10. CASE p = "ReviewJoinRequest"
    BY <1>2, <1>3, <2>10 DEF RequestsOf
  <2> QED
    BY <1>1, <2>1, <2>2, <2>3, <2>4, <2>5, <2>6, <2>7, <2>8, <2>9, <2>10 DEF AllRPCs
<1> QED
  BY <1>5

CourseRPCs == {"AddCourseMember", "RemoveCourseMember", "EnrollSelf", "CreateJoinRequest",
               "ReviewJoinRequest"}

\* The requests of the course RPCs name a course.
LEMMA RequestCourse ==
    ASSUME NEW p \in CourseRPCs, NEW q \in RequestsOf(p)
    PROVE  q.course \in Courses
<1>1. \A us, rs, ss, ys : \A x \in Asking(us, Courses, rs, ss, ys) : x.course \in Courses
  BY DEF Asking
<1>2. CASE p = "AddCourseMember"
  BY <1>1, <1>2 DEF RequestsOf
<1>3. CASE p = "RemoveCourseMember"
  BY <1>1, <1>3 DEF RequestsOf
<1>4. CASE p \in {"EnrollSelf", "CreateJoinRequest"}
  <2>1. RequestsOf(p) = OnlySelf(Asking(Users, Courses, CourseRoles, {None}, {FALSE}))
    BY <1>4 DEF RequestsOf
  <2> QED
    BY <1>1, <2>1 DEF OnlySelf
<1>5. CASE p = "ReviewJoinRequest"
  BY <1>1, <1>5 DEF RequestsOf
<1> QED
  BY <1>2, <1>3, <1>4, <1>5 DEF CourseRPCs

\* A call on a course that got past its permission check found the course.
CourseExists ==
    \A r \in Calls :
        rpc[r] \in CourseRPCs => req[r].course \in Courses /\ courseOwner[req[r].course] # NobodyYet

\* A call serves a request of its RPC.
RequestFits == \A r \in Calls : rpc[r] # None => req[r] \in RequestsOf(rpc[r])

\* Nothing hangs on a course that was not created.
CourseRowsOfCourses ==
    \A c \in Courses : courseOwner[c] = NobodyYet =>
        \A u \in Users : courseRole[c][u] = None /\ join[c][u] = NoJoin

\* The inductive invariant behind the types.
TypeInv ==
    /\ MemberTypes /\ CourseTypes /\ CallTypes
    /\ RequestFits /\ CourseExists /\ CourseRowsOfCourses

\* The organization starts with its creator as the only member, and no course.
LEMMA InitTypeInv == Init => TypeInv
<1> SUFFICES ASSUME Init
             PROVE  TypeInv
  OBVIOUS
<1>1. NoRequest \in Request
  BY MembershipAssumption DEF NoRequest, Request, Asking
<1>2. MemberTypes
  BY DEF Init, MemberTypes, MemberRows, NoRow, OrgRoles, MemberStatuses
<1>3. CourseTypes /\ CourseRowsOfCourses
  BY DEF Init, CourseTypes, CourseRowsOfCourses
<1>4. CallTypes
  BY <1>1 DEF Init, CallTypes
<1>5. CourseExists /\ RequestFits
  BY DEF Init, CourseExists, RequestFits, CourseRPCs, None
<1> QED
  BY <1>2, <1>3, <1>4, <1>5 DEF TypeInv

\* Answering a call frees it.
LEMMA AnswerTypes ==
    ASSUME TypeInv, NEW r \in Calls, Answer(r)
    PROVE  /\ CallTypes' /\ RequestFits'
           /\ rpc'[r] = None
           /\ \A s \in Calls \ {r} : rpc'[s] = rpc[s] /\ req'[s] = req[s]
           /\ courseOwner' = courseOwner => CourseExists'
<1>1. NoRequest \in Request
  BY MembershipAssumption DEF NoRequest, Request, Asking
<1>2. CallTypes'
  BY <1>1 DEF TypeInv, CallTypes, Answer
<1>3. rpc'[r] = None /\ \A s \in Calls \ {r} : rpc'[s] = rpc[s] /\ req'[s] = req[s]
  BY DEF TypeInv, CallTypes, Answer
<1>4. courseOwner' = courseOwner => CourseExists'
  BY <1>3 DEF TypeInv, CourseExists, CourseRPCs, None
<1>5. RequestFits'
  BY <1>3 DEF TypeInv, RequestFits
<1> QED
  BY <1>2, <1>3, <1>4, <1>5

\* A call's first statement leaves the types alone.
LEMMA StartTypes ==
    ASSUME TypeInv, NEW r \in Calls, NEW p \in RPCs, NEW q \in RequestsOf(p), Start(r, p, q)
    PROVE  TypeInv'
<1>1. q \in Request /\ q.user \in Users
  BY RequestTypes DEF Request, Asking
<1>2. MemberTypes' /\ CourseTypes' /\ CourseRowsOfCourses'
  BY DEF TypeInv, Start, tables, MemberTypes, CourseTypes, CourseRowsOfCourses
<1>3. rpc' \in [Calls -> RPCs \union {None}] /\ req' \in [Calls -> Request]
      /\ doomed' \in [Calls -> SUBSET Courses]
  BY <1>1 DEF TypeInv, CallTypes, Start
<1>4. at' \in [Calls -> {None, "authorize", "read", "count", "cascade", "check", "write"}]
  <2>1. AfterAuthorize(p) \in {"count", "read", "check", "write"}
    BY DEF AfterAuthorize
  <2>2. \E step \in {"authorize", "count", "read", "check", "write"} : Goto(r, step)
    BY <2>1 DEF Start
  <2> QED
    BY <2>2 DEF TypeInv, CallTypes, Goto
<1>5. seen' \in [Calls -> MemberRows \union {NoRow}]
  BY <1>1 DEF TypeInv, MemberTypes, CallTypes, Start
<1>6. CourseExists'
  <2>1. ASSUME p \in CourseRPCs
        PROVE  q.course \in Courses /\ courseOwner[q.course] # NobodyYet
    <3>1. q.course \in Courses
      BY <2>1, RequestCourse
    <3>2. Allowed(p, q, NoRow)
      BY <2>1 DEF Start, CourseRPCs, ReadFirst
    <3>3. CASE p = "CreateJoinRequest"
      <4>1. courseOwner[q.course] # NobodyYet /\ HasOrgRole(q.caller, OrgRoles)
        BY <3>2, <3>3 DEF Allowed
      <4> QED
        BY <3>1, <4>1
    <3>4. CASE p = "EnrollSelf"
      <4>1. CourseBypass(q.caller, q.course)
        BY <3>2, <3>4 DEF Allowed
      <4> QED
        BY <3>1, <4>1 DEF CourseBypass
    <3>5. CASE p \in {"AddCourseMember", "RemoveCourseMember", "ReviewJoinRequest"}
      <4>1. CourseManager(q.caller, q.course)
        BY <3>2, <3>5 DEF Allowed
      <4> QED
        BY <3>1, <4>1 DEF CourseManager, CourseBypass
    <3> QED
      BY <2>1, <3>1, <3>3, <3>4, <3>5 DEF CourseRPCs
  <2>2. /\ rpc' = [rpc EXCEPT ![r] = p] /\ req' = [req EXCEPT ![r] = q]
        /\ courseOwner' = courseOwner
    BY DEF Start, tables
  <2> QED
    BY <2>1, <2>2 DEF TypeInv, CallTypes, CourseExists
<1>7. RequestFits'
  BY DEF TypeInv, CallTypes, RequestFits, Start
<1> QED
  BY <1>2, <1>3, <1>4, <1>5, <1>6, <1>7 DEF TypeInv, CallTypes

\* The reads and checks of a call write no table: either they answer the call or
\* they move it to its next step.
LEMMA ReadingTypes ==
    ASSUME TypeInv, NEW r \in Calls, UNCHANGED tables,
           \/ Answer(r)
           \/ /\ UNCHANGED <<rpc, req>>
              /\ \E step \in {"read", "count", "cascade", "check", "write"} : Goto(r, step)
              /\ seen' \in [Calls -> MemberRows \union {NoRow}]
              /\ doomed' \in [Calls -> SUBSET Courses]
    PROVE  TypeInv'
<1>1. MemberTypes' /\ CourseTypes' /\ CourseRowsOfCourses'
  BY DEF TypeInv, tables, MemberTypes, CourseTypes, CourseRowsOfCourses
<1>2. CASE Answer(r)
  BY <1>1, <1>2, AnswerTypes DEF TypeInv, tables
<1>3. CASE ~Answer(r)
  <2>1. CallTypes'
    BY <1>3 DEF TypeInv, CallTypes, Goto
  <2>2. CourseExists' /\ RequestFits'
    BY <1>3 DEF TypeInv, CourseExists, RequestFits, tables
  <2> QED
    BY <1>1, <2>1, <2>2 DEF TypeInv
<1> QED
  BY <1>2, <1>3

\* The writes of the organization's RPCs keep the types.
LEMMA OrgWriteTypes ==
    ASSUME TypeInv, NEW r \in Calls, OrgWrite(r)
    PROVE  TypeInv'
<1>1. Answer(r) /\ courseOwner' = courseOwner /\ join' = join
  BY DEF OrgWrite, Writes, AddOrganizationMember, UpdateOrganizationMemberRole,
     UpdateOrganizationMemberStatus, RemoveOrganizationMember, RespondToOrganizationInvitation
<1>2. CallTypes' /\ CourseExists' /\ RequestFits'
  BY <1>1, AnswerTypes
<1>3. rpc[r] # None => req[r] \in RequestsOf(rpc[r]) /\ req[r].user \in Users
  BY RequestTypes DEF TypeInv, CallTypes, RequestFits, Request, Asking
<1>4. CASE RemoveOrganizationMember(r)
  <2> DEFINE u == req[r].user
  <2>1. /\ member' = [member EXCEPT ![u] = NoRow]
        /\ courseRole' = [c \in Courses |->
               IF c \in doomed[r] THEN [courseRole[c] EXCEPT ![u] = None] ELSE courseRole[c]]
    BY <1>4 DEF RemoveOrganizationMember
  <2>2. MemberTypes'
    BY <2>1 DEF TypeInv, MemberTypes
  <2>3. CourseTypes'
    BY <1>1, <2>1 DEF TypeInv, CourseTypes
  <2>4. CourseRowsOfCourses'
    BY <1>1, <2>1 DEF TypeInv, CourseTypes, CourseRowsOfCourses
  <2> QED
    BY <1>2, <2>2, <2>3, <2>4 DEF TypeInv
<1>5. CASE UNCHANGED courseRole /\ MemberTypes'
  BY <1>1, <1>2, <1>5 DEF TypeInv, CourseTypes, CourseRowsOfCourses
<1>6. CASE AddOrganizationMember(r)
  <2>1. req[r] \in RequestsOf("AddOrganizationMember")
    BY <1>3, <1>6 DEF AddOrganizationMember, Writes, None
  <2>2. req[r].role \in OrgRoles /\ req[r].status \in MemberStatuses
    BY <2>1 DEF RequestsOf, Asking
  <2>3. MemberTypes' /\ UNCHANGED courseRole
    BY <1>6, <2>2 DEF AddOrganizationMember, TypeInv, MemberTypes, MemberRows
  <2> QED
    BY <1>5, <2>3
<1>7. CASE UpdateOrganizationMemberRole(r)
  <2>1. req[r] \in RequestsOf("UpdateOrganizationMemberRole")
    BY <1>3, <1>7 DEF UpdateOrganizationMemberRole, Writes, None
  <2>2. req[r].role \in OrgRoles
    BY <2>1 DEF RequestsOf, Asking
  <2>3. MemberTypes' /\ UNCHANGED courseRole
    BY <1>7, <2>2 DEF UpdateOrganizationMemberRole, TypeInv, MemberTypes, MemberRows
  <2> QED
    BY <1>5, <2>3
<1>8. CASE UpdateOrganizationMemberStatus(r)
  <2>1. req[r] \in RequestsOf("UpdateOrganizationMemberStatus")
    BY <1>3, <1>8 DEF UpdateOrganizationMemberStatus, Writes, None
  <2>2. req[r].status \in MemberStatuses
    BY <2>1 DEF RequestsOf, Asking
  <2>3. MemberTypes' /\ UNCHANGED courseRole
    BY <1>8, <2>2 DEF UpdateOrganizationMemberStatus, TypeInv, MemberTypes, MemberRows
  <2> QED
    BY <1>5, <2>3
<1>9. CASE RespondToOrganizationInvitation(r)
  <2>1. MemberTypes' /\ UNCHANGED courseRole
    BY <1>9 DEF RespondToOrganizationInvitation, TypeInv, MemberTypes, MemberRows, MemberStatuses
  <2> QED
    BY <1>5, <2>1
<1> QED
  BY <1>4, <1>6, <1>7, <1>8, <1>9 DEF OrgWrite

\* The writes of the course RPCs keep the types.
LEMMA CourseWriteTypes ==
    ASSUME TypeInv, NEW r \in Calls, CourseWrite(r)
    PROVE  TypeInv'
<1> DEFINE q == req[r]
<1>1. Answer(r) /\ member' = member
  BY DEF CourseWrite, Writes, CreateCourse, AddCourseMember, RemoveCourseMember, EnrollSelf,
     CreateJoinRequest, ReviewJoinRequest
<1>2. CallTypes' /\ RequestFits' /\ MemberTypes'
  BY <1>1, AnswerTypes DEF TypeInv, MemberTypes
<1>3. /\ rpc[r] # None => q \in RequestsOf(rpc[r]) /\ q.user \in Users /\ q.caller \in Users
      /\ rpc[r] \in CourseRPCs => q.course \in Courses /\ courseOwner[q.course] # NobodyYet
  BY RequestTypes DEF TypeInv, CallTypes, RequestFits, CourseExists, Request, Asking
<1>4. CASE CreateCourse(r)
  <2>1. rpc[r] = "CreateCourse"
    BY <1>4 DEF CreateCourse, Writes
  <2>2. q \in OnlySelf(Asking(Users, Courses, {None}, {None}, {FALSE}))
    BY <1>3, <2>1 DEF RequestsOf, None
  <2>3. q.course \in Courses
    BY <2>2 DEF OnlySelf, Asking
  <2>4. q.caller \in Users /\ q.caller # NobodyYet
    BY <1>3, <2>1, MembershipAssumption DEF None
  <2>5. CASE courseOwner[q.course] # NobodyYet
    BY <1>1, <1>2, <1>4, <2>5, AnswerTypes
    DEF CreateCourse, TypeInv, CourseTypes, CourseRowsOfCourses
  <2>6. CASE courseOwner[q.course] = NobodyYet
    <3>1. /\ courseOwner' = [courseOwner EXCEPT ![q.course] = q.caller]
          /\ courseRole' = [courseRole EXCEPT ![q.course][q.caller] = "teacher"]
          /\ join' = join
      BY <1>4, <2>6 DEF CreateCourse
    <3>2. CourseTypes'
      BY <2>3, <2>4, <3>1 DEF TypeInv, CourseTypes, CourseRoles
    <3>3. CourseRowsOfCourses'
      BY <2>3, <2>4, <3>1 DEF TypeInv, CourseTypes, CourseRowsOfCourses
    <3>4. \A c \in Courses : courseOwner[c] # NobodyYet => courseOwner'[c] # NobodyYet
      BY <2>3, <2>4, <3>1 DEF TypeInv, CourseTypes
    <3>5. CourseExists'
      BY <1>1, <3>4, AnswerTypes DEF TypeInv, CourseExists, CourseRPCs, None
    <3> QED
      BY <1>2, <3>2, <3>3, <3>5 DEF TypeInv
  <2> QED
    BY <2>5, <2>6
<1>5. ASSUME courseOwner' = courseOwner, CourseTypes', CourseRowsOfCourses'
      PROVE  TypeInv'
  BY <1>1, <1>2, <1>5, AnswerTypes DEF TypeInv
<1>6. CASE AddCourseMember(r)
  <2>1. /\ rpc[r] = "AddCourseMember"
        /\ courseRole' = [courseRole EXCEPT ![q.course][q.user] = q.role]
        /\ UNCHANGED <<courseOwner, join>>
    BY <1>6 DEF AddCourseMember, Writes
  <2>2. q.role \in CourseRoles
    BY <1>3, <2>1 DEF RequestsOf, Asking, None
  <2>3. q.course \in Courses /\ courseOwner[q.course] # NobodyYet /\ q.user \in Users
    BY <1>3, <2>1 DEF CourseRPCs, None
  <2>4. CourseTypes'
    BY <2>1, <2>2, <2>3 DEF TypeInv, CourseTypes
  <2>5. CourseRowsOfCourses'
    BY <2>1, <2>3 DEF TypeInv, CourseTypes, CourseRowsOfCourses
  <2> QED
    BY <1>5, <2>1, <2>4, <2>5
<1>7. CASE RemoveCourseMember(r)
  <2>1. /\ rpc[r] = "RemoveCourseMember"
        /\ courseRole' = [courseRole EXCEPT ![q.course][q.user] = None]
        /\ UNCHANGED <<courseOwner, join>>
    BY <1>7 DEF RemoveCourseMember, Writes
  <2>2. CourseTypes'
    BY <2>1 DEF TypeInv, CourseTypes
  <2>3. CourseRowsOfCourses'
    BY <2>1 DEF TypeInv, CourseTypes, CourseRowsOfCourses
  <2> QED
    BY <1>5, <2>1, <2>2, <2>3
<1>8. CASE EnrollSelf(r)
  <2>1. /\ rpc[r] = "EnrollSelf"
        /\ courseRole' = [courseRole EXCEPT ![q.course][q.user] = IF @ = None THEN q.role ELSE @]
        /\ UNCHANGED <<courseOwner, join>>
    BY <1>8 DEF EnrollSelf, Writes
  <2>2. q \in OnlySelf(Asking(Users, Courses, CourseRoles, {None}, {FALSE}))
    BY <1>3, <2>1 DEF RequestsOf, None
  <2>3. q.role \in CourseRoles
    BY <2>2 DEF OnlySelf, Asking
  <2>4. q.course \in Courses /\ courseOwner[q.course] # NobodyYet /\ q.user \in Users
    BY <1>3, <2>1 DEF CourseRPCs, None
  <2>5. CourseTypes'
    BY <2>1, <2>3, <2>4 DEF TypeInv, CourseTypes
  <2>6. CourseRowsOfCourses'
    BY <2>1, <2>4 DEF TypeInv, CourseTypes, CourseRowsOfCourses
  <2> QED
    BY <1>5, <2>1, <2>5, <2>6
<1>9. CASE CreateJoinRequest(r)
  <2>1. /\ rpc[r] = "CreateJoinRequest"
        /\ join' = [join EXCEPT ![q.course][q.user] = [status |-> "pending", role |-> q.role]]
        /\ UNCHANGED <<courseOwner, courseRole>>
    BY <1>9 DEF CreateJoinRequest, Writes
  <2>2. q \in OnlySelf(Asking(Users, Courses, CourseRoles, {None}, {FALSE}))
    BY <1>3, <2>1 DEF RequestsOf, None
  <2>3. [status |-> "pending", role |-> q.role] \in JoinRows
    BY <2>2 DEF OnlySelf, Asking, JoinRows, JoinStatuses
  <2>4. q.course \in Courses /\ courseOwner[q.course] # NobodyYet /\ q.user \in Users
    BY <1>3, <2>1 DEF CourseRPCs, None
  <2>5. CourseTypes'
    BY <2>1, <2>3, <2>4 DEF TypeInv, CourseTypes
  <2>6. CourseRowsOfCourses'
    BY <2>1, <2>4 DEF TypeInv, CourseTypes, CourseRowsOfCourses
  <2> QED
    BY <1>5, <2>1, <2>5, <2>6
<1>10. CASE ReviewJoinRequest(r)
  <2> DEFINE row == join[q.course][q.user]
  <2>1. rpc[r] = "ReviewJoinRequest" /\ courseOwner' = courseOwner
    BY <1>10 DEF ReviewJoinRequest, Writes
  <2>2. q.course \in Courses /\ courseOwner[q.course] # NobodyYet /\ q.user \in Users
    BY <1>3, <2>1 DEF CourseRPCs, None
  <2>3. CASE row = NoJoin
    <3>1. UNCHANGED <<join, courseRole>>
      BY <1>10, <2>3 DEF ReviewJoinRequest
    <3> QED
      BY <1>5, <2>1, <3>1 DEF TypeInv, CourseTypes, CourseRowsOfCourses
  <2>4. CASE row # NoJoin
    <3> DEFINE s == IF q.yes THEN "approved" ELSE "rejected"
    <3>1. s \in JoinStatuses /\ join' = [join EXCEPT ![q.course][q.user].status = s]
      <4>1. join' = [join EXCEPT ![q.course][q.user].status = s]
        BY <1>10, <2>4 DEF ReviewJoinRequest
      <4>2. s \in JoinStatuses
        BY DEF JoinStatuses
      <4> QED
        BY <4>1, <4>2
    <3>2. courseRole' \in {courseRole, [courseRole EXCEPT ![q.course][q.user] = row.role]}
      BY <1>10, <2>4 DEF ReviewJoinRequest
    <3>3. row \in JoinRows /\ row.role \in CourseRoles
      BY <2>2, <2>4 DEF TypeInv, CourseTypes, JoinRows
    <3>4. courseRole' \in [Courses -> [Users -> CourseRoles \union {None}]]
      <4>1. courseRole \in [Courses -> [Users -> CourseRoles \union {None}]]
        BY DEF TypeInv, CourseTypes
      <4>2. \A role \in CourseRoles :
                [courseRole EXCEPT ![q.course][q.user] = role]
                    \in [Courses -> [Users -> CourseRoles \union {None}]]
        BY <2>2, <4>1
      <4> HIDE DEF row
      <4> QED
        BY <3>2, <3>3, <4>1, <4>2
    <3>5. join' = [join EXCEPT ![q.course][q.user] = [row EXCEPT !.status = s]]
          /\ [row EXCEPT !.status = s] \in JoinRows
      BY <2>2, <3>1, <3>3 DEF JoinRows
    <3>6. join' \in [Courses -> [Users -> JoinRows \union {NoJoin}]]
      BY <2>2, <3>5 DEF TypeInv, CourseTypes
    <3>7. CourseRowsOfCourses'
      BY <2>1, <2>2, <3>2, <3>5 DEF TypeInv, CourseTypes, CourseRowsOfCourses
    <3> QED
      BY <1>5, <2>1, <3>4, <3>6, <3>7 DEF TypeInv, CourseTypes
  <2> QED
    BY <2>3, <2>4
<1> QED
  BY <1>4, <1>6, <1>7, <1>8, <1>9, <1>10 DEF CourseWrite

\* Every step keeps the types.
LEMMA NextTypeInv == TypeInv /\ [Next]_vars => TypeInv'
<1> SUFFICES ASSUME TypeInv, [Next]_vars
             PROVE  TypeInv'
  OBVIOUS
<1>1. CASE UNCHANGED vars
  BY <1>1 DEF vars, tables, callVars, TypeInv, MemberTypes, CourseTypes, CallTypes,
     RequestFits, CourseExists, CourseRowsOfCourses
<1>2. ASSUME NEW r \in Calls, NEW p \in RPCs, NEW q \in RequestsOf(p), Start(r, p, q)
      PROVE  TypeInv'
  BY <1>2, StartTypes
<1>3. ASSUME NEW r \in Calls, Authorize(r)
      PROVE  TypeInv'
  <2>1. rpc[r] \in RPCs \union {None}
    BY DEF TypeInv, CallTypes
  <2>2. AfterAuthorize(rpc[r]) \in {"read", "count", "check", "write"}
    BY DEF AfterAuthorize
  <2>3. UNCHANGED tables
    BY <1>3 DEF Authorize
  <2>4. \/ Answer(r)
        \/ Goto(r, AfterAuthorize(rpc[r])) /\ UNCHANGED <<rpc, req, seen, doomed>>
    BY <1>3 DEF Authorize
  <2> QED
    BY <2>2, <2>3, <2>4, ReadingTypes DEF TypeInv, CallTypes
<1>4. ASSUME NEW r \in Calls, Read(r)
      PROVE  TypeInv'
  <2>1. UNCHANGED tables
    BY <1>4 DEF Read
  <2>2. member[req[r].user] \in MemberRows \union {NoRow}
    BY DEF TypeInv, MemberTypes, CallTypes, Request, Asking
  <2>3. \/ Answer(r)
        \/ /\ seen' = [seen EXCEPT ![r] = member[req[r].user]]
           /\ Goto(r, "count") /\ UNCHANGED <<rpc, req, doomed>>
    BY <1>4 DEF Read
  <2>4. seen' = [seen EXCEPT ![r] = member[req[r].user]]
            => seen' \in [Calls -> MemberRows \union {NoRow}]
    BY <2>2 DEF TypeInv, CallTypes
  <2> QED
    BY <2>1, <2>3, <2>4, ReadingTypes DEF TypeInv, CallTypes
<1>5. ASSUME NEW r \in Calls, CountOwners(r)
      PROVE  TypeInv'
  <2>1. \/ Answer(r)
        \/ /\ UNCHANGED <<rpc, req, seen, doomed>>
           /\ \E step \in {"cascade", "write"} : Goto(r, step)
    BY <1>5 DEF CountOwners
  <2> QED
    BY <1>5, <2>1, ReadingTypes DEF CountOwners, TypeInv, CallTypes
<1>6. ASSUME NEW r \in Calls, Cascade(r)
      PROVE  TypeInv'
  <2>1. /\ UNCHANGED <<rpc, req, seen>> /\ Goto(r, "write")
        /\ doomed' \in [Calls -> SUBSET Courses]
    BY <1>6 DEF Cascade, TypeInv, CallTypes
  <2> QED
    BY <1>6, <2>1, ReadingTypes DEF Cascade, TypeInv, CallTypes
<1>7. ASSUME NEW r \in Calls, Check(r)
      PROVE  TypeInv'
  <2>1. \/ Answer(r)
        \/ Goto(r, "write") /\ UNCHANGED <<rpc, req, seen, doomed>>
    BY <1>7 DEF Check
  <2> QED
    BY <1>7, <2>1, ReadingTypes DEF Check, TypeInv, CallTypes
<1> QED
  BY <1>1, <1>2, <1>3, <1>4, <1>5, <1>6, <1>7, OrgWriteTypes, CourseWriteTypes DEF Next, Step

\* The tables and the calls keep their types, whatever RPCs overlap, and nothing hangs
\* on a course that does not exist.
THEOREM MembershipTypes == Spec => []TypeOK
<1>1. TypeInv => TypeOK
  BY DEF TypeInv, TypeOK, MemberTypes, CourseTypes, CallTypes, CourseRowsOfCourses
<1> QED
  BY <1>1, InitTypeInv, NextTypeInv, PTL DEF Spec

--------------------------------------------------------------------------------
(* The last owner, when calls do not overlap. *)

OneCall == \A r, s \in Calls : r = s

AnOwner == [role |-> "owner", status |-> "active"]

\* With one call at a time nothing moves between the first read of a transaction and
\* its write: what was read is still the row.
ReadIsCurrent ==
    \A r \in Calls :
        \/ rpc[r] \in ReadFirst
        \/ rpc[r] = "RemoveOrganizationMember" /\ at[r] \in {"count", "cascade", "write"}
        => seen[r] = member[req[r].user] /\ (rpc[r] = "RespondToOrganizationInvitation"
                                             => seen[r].status = "invited")

Counting == {"UpdateOrganizationMemberRole", "UpdateOrganizationMemberStatus",
             "RemoveOrganizationMember"}

\* Whoever is past the guard and takes an owner away leaves another one.
OtherOwnerLeft ==
    \A r \in Calls :
        rpc[r] \in Counting /\ at[r] \in {"cascade", "write"} /\ LosesOwner(r)
        => \E v \in ActiveOwners : v # req[r].user

\* The RPCs that guard the last owner have no step of the course RPCs.
NoCourseCheck == \A r \in Calls : rpc[r] \in Counting => at[r] # "check"

\* The inductive invariant of the last owner.
OwnersInv == TypeInv /\ LastOwnerKept /\ ReadIsCurrent /\ OtherOwnerLeft /\ NoCourseCheck

\* Two owners are enough for anyone to leave one behind.
LEMMA AnotherOwner ==
    ASSUME Cardinality(ActiveOwners) > 1
    PROVE  \A u : \E v \in ActiveOwners : v # u
<1> SUFFICES ASSUME NEW u, \A v \in ActiveOwners : v = u
             PROVE  FALSE
  OBVIOUS
<1>1. ActiveOwners \subseteq {u}
  OBVIOUS
<1>2. IsFiniteSet({u}) /\ Cardinality({u}) = 1
  BY FS_Singleton
<1>3. Cardinality(ActiveOwners) <= 1 /\ Cardinality(ActiveOwners) \in Nat
  BY <1>1, <1>2, FS_Subset, FS_CardinalityType
<1> QED
  BY <1>3


\* A write to one row keeps an owner when the row stays an owner's or another one is left.
LEMMA OwnerRemains ==
    ASSUME LastOwnerKept, NEW u \in Users,
           \A v \in Users \ {u} : member'[v] = member[v],
           u \in ActiveOwners => member'[u] = AnOwner \/ \E v \in ActiveOwners : v # u
    PROVE  LastOwnerKept'
<1>1. PICK v \in ActiveOwners : u # v \/ member'[u] = AnOwner
  BY DEF LastOwnerKept
<1> QED
  BY <1>1 DEF LastOwnerKept, ActiveOwners, AnOwner

\* The organization's writes keep an owner.
LEMMA OrgWriteKeepsOwner ==
    ASSUME OwnersInv, NEW r \in Calls, OrgWrite(r)
    PROVE  LastOwnerKept'
<1> DEFINE u == req[r].user
<1>1. u \in Users /\ member \in [Users -> MemberRows \union {NoRow}]
  BY DEF OwnersInv, TypeInv, MemberTypes, CallTypes, Request, Asking
<1>2. LastOwnerKept
  BY DEF OwnersInv
<1>3. CASE AddOrganizationMember(r)
  <2>1. u \in ActiveOwners => member' = member
    BY <1>3 DEF AddOrganizationMember, ActiveOwners, NoRow, None
  <2>2. \A v \in Users \ {u} : member'[v] = member[v]
    BY <1>1, <1>3 DEF AddOrganizationMember
  <2>3. u \in ActiveOwners => member'[u] = AnOwner
    BY <2>1 DEF ActiveOwners, AnOwner
  <2> QED
    BY <1>1, <1>2, <2>2, <2>3, OwnerRemains
<1>4. ASSUME rpc[r] \in Counting, at[r] = "write"
      PROVE  /\ seen[r] = member[u]
             /\ LosesOwner(r) => \E v \in ActiveOwners : v # u
  <2>1. OtherOwnerLeft /\ ReadIsCurrent
    BY DEF OwnersInv
  <2>2. seen[r] = member[u]
    BY <1>4, <2>1 DEF ReadIsCurrent, ReadFirst, Counting
  <2> QED
    BY <1>4, <2>1, <2>2 DEF OtherOwnerLeft
<1>5. CASE UpdateOrganizationMemberRole(r)
  <2>1. /\ rpc[r] = "UpdateOrganizationMemberRole" /\ at[r] = "write"
        /\ member' = IF member[u] = NoRow THEN member
                     ELSE [member EXCEPT ![u].role = req[r].role]
    BY <1>5 DEF UpdateOrganizationMemberRole, Writes
  <2>2. \A v \in Users \ {u} : member'[v] = member[v]
    BY <1>1, <2>1
  <2>3. u \in ActiveOwners => seen[r] = AnOwner /\ (LosesOwner(r) => \E v \in ActiveOwners : v # u)
    BY <1>4, <2>1 DEF Counting, ActiveOwners, AnOwner
  <2>4. u \in ActiveOwners /\ ~LosesOwner(r) => req[r].role = "owner"
    BY <2>1, <2>3 DEF LosesOwner, AnOwner
  <2>5. u \in ActiveOwners /\ req[r].role = "owner" => member'[u] = AnOwner
    BY <1>1, <2>1 DEF ActiveOwners, AnOwner, NoRow, None
  <2> QED
    BY <1>1, <1>2, <2>2, <2>3, <2>4, <2>5, OwnerRemains
<1>6. CASE UpdateOrganizationMemberStatus(r)
  <2>1. /\ rpc[r] = "UpdateOrganizationMemberStatus" /\ at[r] = "write"
        /\ member' = IF member[u] = NoRow THEN member
                     ELSE [member EXCEPT ![u].status = req[r].status]
    BY <1>6 DEF UpdateOrganizationMemberStatus, Writes
  <2>2. \A v \in Users \ {u} : member'[v] = member[v]
    BY <1>1, <2>1
  <2>3. u \in ActiveOwners => seen[r] = AnOwner /\ (LosesOwner(r) => \E v \in ActiveOwners : v # u)
    BY <1>4, <2>1 DEF Counting, ActiveOwners, AnOwner
  <2>4. u \in ActiveOwners /\ ~LosesOwner(r) => req[r].status = "active"
    BY <2>1, <2>3 DEF LosesOwner, AnOwner
  <2>5. u \in ActiveOwners /\ req[r].status = "active" => member'[u] = AnOwner
    BY <1>1, <2>1 DEF ActiveOwners, AnOwner, NoRow, None
  <2> QED
    BY <1>1, <1>2, <2>2, <2>3, <2>4, <2>5, OwnerRemains
<1>7. CASE RemoveOrganizationMember(r)
  <2>1. /\ rpc[r] = "RemoveOrganizationMember" /\ at[r] = "write"
        /\ member' = [member EXCEPT ![u] = NoRow]
    BY <1>7 DEF RemoveOrganizationMember, Writes
  <2>2. \A v \in Users \ {u} : member'[v] = member[v]
    BY <1>1, <2>1
  <2>3. u \in ActiveOwners => seen[r] = AnOwner /\ (LosesOwner(r) => \E v \in ActiveOwners : v # u)
    BY <1>4, <2>1 DEF Counting, ActiveOwners, AnOwner
  <2>4. u \in ActiveOwners => LosesOwner(r)
    BY <2>1, <2>3 DEF LosesOwner, AnOwner
  <2> QED
    BY <1>1, <1>2, <2>2, <2>3, <2>4, OwnerRemains
<1>8. CASE RespondToOrganizationInvitation(r)
  <2>1. rpc[r] = "RespondToOrganizationInvitation"
    BY <1>8 DEF RespondToOrganizationInvitation, Writes
  <2>2. member[u].status = "invited"
    BY <2>1 DEF OwnersInv, ReadIsCurrent, ReadFirst
  <2>3. u \notin ActiveOwners
    BY <2>2 DEF ActiveOwners
  <2>4. \A v \in Users \ {u} : member'[v] = member[v]
    BY <1>1, <1>8 DEF RespondToOrganizationInvitation
  <2> QED
    BY <1>1, <1>2, <2>3, <2>4, OwnerRemains
<1> QED
  BY <1>3, <1>5, <1>6, <1>7, <1>8 DEF OrgWrite

\* One step of one call keeps the last owner.
LEMMA NextOwnersInv ==
    ASSUME OneCall, OwnersInv, TypeInv', [Next]_vars
    PROVE  OwnersInv'
<1>1. CASE UNCHANGED vars
  BY <1>1 DEF vars, tables, callVars, OwnersInv, LastOwnerKept, ActiveOwners, ReadIsCurrent,
     OtherOwnerLeft, LosesOwner, NoCourseCheck
<1>2. ASSUME UNCHANGED member, ReadIsCurrent', OtherOwnerLeft', NoCourseCheck'
      PROVE  OwnersInv'
  BY <1>2 DEF OwnersInv, LastOwnerKept, ActiveOwners
<1>3. ASSUME NEW r \in Calls, Answer(r), LastOwnerKept'
      PROVE  OwnersInv'
  <2>1. rpc'[r] = None
    BY <1>3, AnswerTypes DEF OwnersInv
  <2>2. \A s \in Calls : rpc'[s] = None
    BY <2>1 DEF OneCall
  <2> QED
    BY <1>3, <2>2 DEF OwnersInv, ReadIsCurrent, OtherOwnerLeft, NoCourseCheck, ReadFirst, Counting, None
<1>4. ASSUME NEW r \in Calls, Answer(r), UNCHANGED member
      PROVE  OwnersInv'
  BY <1>3, <1>4 DEF OwnersInv, LastOwnerKept, ActiveOwners
<1>5. ASSUME NEW r \in Calls, NEW p \in RPCs, NEW q \in RequestsOf(p), Start(r, p, q)
      PROVE  OwnersInv'
  <2>1. UNCHANGED member /\ rpc' = [rpc EXCEPT ![r] = p] /\ req' = [req EXCEPT ![r] = q]
    BY <1>5 DEF Start, tables
  <2>2. rpc'[r] = p /\ req'[r] = q
    BY <2>1 DEF OwnersInv, TypeInv, CallTypes
  <2>3. CASE p \in ReadFirst
    <3>1. seen'[r] = member[q.user] /\ Acceptable(p, member[q.user])
      BY <1>5, <2>3 DEF Start, OwnersInv, TypeInv, CallTypes
    <3>2. ReadIsCurrent'
      BY <2>1, <2>2, <2>3, <3>1 DEF OneCall, ReadIsCurrent, Acceptable
    <3>3. p \in Counting => at'[r] = "authorize"
      BY <1>5, <2>3 DEF Start, Goto, Counting, OwnersInv, TypeInv, CallTypes
    <3>4. OtherOwnerLeft'
      BY <2>2, <3>3 DEF OneCall, OtherOwnerLeft
    <3>5. NoCourseCheck'
      BY <2>2, <3>3 DEF OneCall, NoCourseCheck
    <3> QED
      BY <1>2, <2>1, <3>2, <3>4, <3>5
  <2>4. CASE p \notin ReadFirst
    <3>1. p = "RemoveOrganizationMember" => at'[r] = "read"
      BY <1>5, <2>4 DEF Start, Goto, AfterAuthorize, OwnersInv, TypeInv, CallTypes
    <3>2. ReadIsCurrent'
      BY <2>2, <2>4, <3>1 DEF OneCall, ReadIsCurrent
    <3>3. OtherOwnerLeft'
      BY <2>2, <2>4, <3>1 DEF OneCall, OtherOwnerLeft, Counting, ReadFirst
    <3>4. NoCourseCheck'
      BY <2>2, <2>4, <3>1 DEF OneCall, NoCourseCheck, Counting, ReadFirst
    <3> QED
      BY <1>2, <2>1, <3>2, <3>3, <3>4
  <2> QED
    BY <2>3, <2>4
<1>6. ASSUME NEW r \in Calls, Authorize(r)
      PROVE  OwnersInv'
  <2>1. CASE Answer(r)
    BY <1>4, <1>6, <2>1 DEF Authorize, tables
  <2>2. CASE ~Answer(r)
    <3>1. /\ Goto(r, AfterAuthorize(rpc[r])) /\ UNCHANGED <<rpc, req, seen>>
          /\ UNCHANGED member
      BY <1>6, <2>2 DEF Authorize, tables
    <3>2. at'[r] = AfterAuthorize(rpc[r])
      BY <3>1 DEF Goto, OwnersInv, TypeInv, CallTypes
    <3>3. rpc[r] \in Counting => at'[r] \in {"read", "count"}
      BY <3>2 DEF AfterAuthorize, Counting
    <3>4. rpc[r] = "RemoveOrganizationMember" => at'[r] = "read"
      BY <3>2 DEF AfterAuthorize
    <3>5. ReadIsCurrent'
      BY <3>1, <3>4 DEF OneCall, OwnersInv, ReadIsCurrent
    <3>6. OtherOwnerLeft' /\ NoCourseCheck'
      BY <3>1, <3>3 DEF OneCall, OtherOwnerLeft, NoCourseCheck
    <3> QED
      BY <1>2, <3>1, <3>5, <3>6
  <2> QED
    BY <2>1, <2>2
<1>7. ASSUME NEW r \in Calls, Read(r)
      PROVE  OwnersInv'
  <2>1. CASE Answer(r)
    BY <1>4, <1>7, <2>1 DEF Read, tables
  <2>2. CASE ~Answer(r)
    <3>1. /\ seen' = [seen EXCEPT ![r] = member[req[r].user]] /\ Goto(r, "count")
          /\ UNCHANGED <<rpc, req, member>> /\ Acceptable(rpc[r], member[req[r].user])
      BY <1>7, <2>2 DEF Read, tables
    <3>2. at'[r] = "count" /\ seen'[r] = member[req[r].user]
      BY <3>1 DEF Goto, OwnersInv, TypeInv, CallTypes
    <3>3. ReadIsCurrent'
      BY <3>1, <3>2 DEF OneCall, ReadIsCurrent, Acceptable
    <3>4. OtherOwnerLeft' /\ NoCourseCheck'
      BY <3>2 DEF OneCall, OtherOwnerLeft, NoCourseCheck
    <3> QED
      BY <1>2, <3>1, <3>3, <3>4
  <2> QED
    BY <2>1, <2>2
<1>8. ASSUME NEW r \in Calls, CountOwners(r)
      PROVE  OwnersInv'
  <2>1. CASE Answer(r)
    BY <1>4, <1>8, <2>1 DEF CountOwners, tables
  <2>2. CASE ~Answer(r)
    <3>1. /\ LosesOwner(r) => Cardinality(ActiveOwners) > 1
          /\ Goto(r, IF rpc[r] = "RemoveOrganizationMember" THEN "cascade" ELSE "write")
          /\ UNCHANGED <<rpc, req, seen, member>> /\ at[r] = "count"
      BY <1>8, <2>2 DEF CountOwners, tables
    <3>2. at'[r] \in {"cascade", "write"}
      BY <3>1 DEF Goto, OwnersInv, TypeInv, CallTypes
    <3>3. ReadIsCurrent'
      BY <3>1 DEF OneCall, OwnersInv, ReadIsCurrent
    <3>4. OtherOwnerLeft'
      BY <3>1, AnotherOwner DEF OneCall, OtherOwnerLeft, LosesOwner, ActiveOwners
    <3>5. NoCourseCheck'
      BY <3>2 DEF OneCall, NoCourseCheck
    <3> QED
      BY <1>2, <3>1, <3>3, <3>4, <3>5
  <2> QED
    BY <2>1, <2>2
<1>9. ASSUME NEW r \in Calls, Cascade(r)
      PROVE  OwnersInv'
  <2>1. Goto(r, "write") /\ UNCHANGED <<rpc, req, seen, member>> /\ at[r] = "cascade"
    BY <1>9 DEF Cascade, tables
  <2>2. at'[r] = "write"
    BY <2>1 DEF Goto, OwnersInv, TypeInv, CallTypes
  <2>3. ReadIsCurrent' /\ NoCourseCheck'
    BY <2>1, <2>2 DEF OneCall, OwnersInv, ReadIsCurrent, NoCourseCheck
  <2>4. OtherOwnerLeft'
    BY <2>1 DEF OneCall, OwnersInv, OtherOwnerLeft, LosesOwner, ActiveOwners
  <2> QED
    BY <1>2, <2>1, <2>3, <2>4
<1>10. ASSUME NEW r \in Calls, Check(r)
       PROVE  OwnersInv'
  <2>1. CASE Answer(r)
    BY <1>4, <1>10, <2>1 DEF Check, tables
  <2>2. CASE ~Answer(r)
    <3>1. /\ Goto(r, "write") /\ UNCHANGED <<rpc, req, seen, member>>
          /\ at[r] = "check" /\ rpc[r] \notin Counting
      BY <1>10, <2>2 DEF Check, tables, OwnersInv, NoCourseCheck
    <3>2. ReadIsCurrent' /\ OtherOwnerLeft' /\ NoCourseCheck'
      BY <3>1 DEF OneCall, OwnersInv, ReadIsCurrent, OtherOwnerLeft, NoCourseCheck, Counting
    <3> QED
      BY <1>2, <3>1, <3>2
  <2> QED
    BY <2>1, <2>2
<1>11. ASSUME NEW r \in Calls, CourseWrite(r)
       PROVE  OwnersInv'
  BY <1>4, <1>11 DEF CourseWrite, Writes, CreateCourse, AddCourseMember, RemoveCourseMember,
     EnrollSelf, CreateJoinRequest, ReviewJoinRequest
<1>12. ASSUME NEW r \in Calls, OrgWrite(r)
       PROVE  OwnersInv'
  <2>1. Answer(r)
    BY <1>12 DEF OrgWrite, Writes, AddOrganizationMember, UpdateOrganizationMemberRole,
       UpdateOrganizationMemberStatus, RemoveOrganizationMember,
       RespondToOrganizationInvitation
  <2> QED
    BY <1>3, <1>12, <2>1, OrgWriteKeepsOwner
<1> QED
  BY <1>1, <1>5, <1>6, <1>7, <1>8, <1>9, <1>10, <1>11, <1>12 DEF Next, Step

\* The creator is an owner, and no call is in flight.
LEMMA InitOwnersInv == Init => OwnersInv
<1> SUFFICES ASSUME Init
             PROVE  OwnersInv
  OBVIOUS
<1>1. Creator \in ActiveOwners
  BY MembershipAssumption DEF Init, ActiveOwners
<1>2. ReadIsCurrent /\ OtherOwnerLeft /\ NoCourseCheck
  BY DEF Init, ReadIsCurrent, OtherOwnerLeft, NoCourseCheck, ReadFirst, Counting, None
<1> QED
  BY <1>1, <1>2, InitTypeInv DEF OwnersInv, LastOwnerKept

\* As long as calls do not overlap, an organization keeps an active owner: the guard of
\* the three RPCs is right, and only the isolation is missing.
THEOREM LastOwner ==
    ASSUME OneCall
    PROVE  Spec => []LastOwnerKept
<1>1. Init => OwnersInv
  BY InitOwnersInv
<1>2. OwnersInv /\ [Next]_vars => OwnersInv'
  BY OneCall, NextTypeInv, NextOwnersInv DEF OwnersInv
<1>3. OwnersInv => LastOwnerKept
  BY DEF OwnersInv
<1> QED
  BY <1>1, <1>2, <1>3, PTL DEF Spec

--------------------------------------------------------------------------------
(* Who may change the owners, and what a removal revokes, when calls do not overlap. *)

Ruling == {"AddOrganizationMember"} \union Counting

\* Past its permission check, the caller still has the permission.
StillAllowed ==
    \A r \in Calls, p \in Ruling, q \in Request, row \in MemberRows \union {NoRow} :
        rpc[r] = p /\ req[r] = q /\ seen[r] = row /\ at[r] # "authorize" => Allowed(p, q, row)

\* The cascade of a removal still covers every course the member is in.
CascadeIsCurrent ==
    \A r \in Calls :
        rpc[r] = "RemoveOrganizationMember" /\ at[r] = "write" =>
            \A c \in Courses : courseRole[c][req[r].user] # None => c \in doomed[r]

\* The inductive invariant of the two action properties.
RulingInv == OwnersInv /\ StillAllowed /\ CascadeIsCurrent

\* A permission to change the members depends on nothing but their rows.
LEMMA AllowedSame ==
    ASSUME UNCHANGED member
    PROVE  \A p \in Ruling : \A q, row : Allowed(p, q, row) => Allowed(p, q, row)'
<1> SUFFICES ASSUME NEW p \in Ruling, NEW q, NEW row, Allowed(p, q, row)
             PROVE  Allowed(p, q, row)'
  OBVIOUS
<1>1. CASE p = "AddOrganizationMember"
  BY <1>1 DEF Allowed, MayRule, HasOrgRole
<1>2. CASE p = "UpdateOrganizationMemberRole"
  BY <1>2 DEF Allowed, MayRule, HasOrgRole
<1>3. CASE p = "UpdateOrganizationMemberStatus"
  BY <1>3 DEF Allowed, MayRule, HasOrgRole
<1>4. CASE p = "RemoveOrganizationMember"
  BY <1>4 DEF Allowed, MayRemove
<1> QED
  BY <1>1, <1>2, <1>3, <1>4 DEF Ruling, Counting

\* A check that passed holds as long as nobody else writes, and the only write is the
\* call's own last step.
LEMMA NextRulingInv ==
    ASSUME OneCall, RulingInv, OwnersInv', [Next]_vars
    PROVE  RulingInv'
<1> USE DEF RulingInv
<1>0. TypeInv
  BY DEF OwnersInv
<1>1. CASE UNCHANGED vars
  BY <1>1, AllowedSame DEF vars, tables, callVars, StillAllowed, CascadeIsCurrent
<1>2. ASSUME NEW r \in Calls, Answer(r)
      PROVE  RulingInv'
  <2>1. rpc'[r] = None
    BY <1>0, <1>2, AnswerTypes
  <2>2. \A s \in Calls : rpc'[s] = None
    BY <2>1 DEF OneCall
  <2> QED
    BY <2>2 DEF StillAllowed, CascadeIsCurrent, Ruling, Counting, None
<1>3. ASSUME NEW r \in Calls, NEW p \in RPCs, NEW q \in RequestsOf(p), Start(r, p, q)
      PROVE  RulingInv'
  <2>1. /\ UNCHANGED <<member, courseOwner>>
        /\ rpc' = [rpc EXCEPT ![r] = p] /\ req' = [req EXCEPT ![r] = q]
    BY <1>3 DEF Start, tables
  <2>2. rpc'[r] = p /\ req'[r] = q
    BY <1>0, <2>1 DEF TypeInv, CallTypes
  <2>3. p \in Ruling => at'[r] = "authorize" \/ Allowed(p, q, NoRow)
    BY <1>0, <1>3 DEF Start, Goto, ReadFirst, Ruling, Counting, TypeInv, CallTypes
  <2>4. p = "RemoveOrganizationMember" => at'[r] = "read"
    BY <1>0, <1>3 DEF Start, Goto, AfterAuthorize, ReadFirst, TypeInv, CallTypes
  <2>5. p \in {"UpdateOrganizationMemberRole", "UpdateOrganizationMemberStatus"} =>
          at'[r] = "authorize"
    BY <1>0, <1>3 DEF Start, Goto, ReadFirst, TypeInv, CallTypes
  <2>6. StillAllowed'
    <3>1. ASSUME p \in Ruling, at'[r] # "authorize", NEW row
          PROVE  Allowed(p, q, row)'
      <4>1. p \in {"AddOrganizationMember", "RemoveOrganizationMember"} /\ Allowed(p, q, NoRow)
        BY <2>3, <2>5, <3>1 DEF Ruling, Counting
      <4>2. Allowed(p, q, row)
        BY <4>1 DEF Allowed
      <4> QED
        BY <2>1, <3>1, <4>2, AllowedSame
    <3> QED
      BY <2>2, <3>1 DEF OneCall, StillAllowed
  <2>7. CascadeIsCurrent'
    BY <2>2, <2>4 DEF OneCall, CascadeIsCurrent
  <2> QED
    BY <2>6, <2>7
<1>4. ASSUME NEW r \in Calls, UNCHANGED <<rpc, req, tables>>,
             \A p \in Ruling, q \in Request, row \in MemberRows \union {NoRow} :
                 rpc[r] = p /\ req[r] = q /\ seen'[r] = row => Allowed(p, q, row),
             rpc[r] = "RemoveOrganizationMember" => at'[r] # "write"
      PROVE  RulingInv'
  <2>1. StillAllowed'
    BY <1>4, AllowedSame DEF OneCall, StillAllowed, tables
  <2>2. CascadeIsCurrent'
    BY <1>4 DEF OneCall, CascadeIsCurrent
  <2> QED
    BY <2>1, <2>2
<1>5. ASSUME NEW r \in Calls, Authorize(r)
      PROVE  RulingInv'
  <2>1. CASE ~Answer(r)
    <3>1. /\ Goto(r, AfterAuthorize(rpc[r])) /\ UNCHANGED <<rpc, req, seen, tables>>
          /\ \A p, q, row : rpc[r] = p /\ req[r] = q /\ seen[r] = row => Allowed(p, q, row)
      BY <1>5, <2>1 DEF Authorize
    <3>2. rpc[r] = "RemoveOrganizationMember" => at'[r] = "read"
      BY <1>0, <3>1 DEF Goto, AfterAuthorize, TypeInv, CallTypes
    <3> QED
      BY <1>4, <3>1, <3>2
  <2> QED
    BY <1>2, <2>1
<1>6. ASSUME NEW r \in Calls, Read(r)
      PROVE  RulingInv'
  <2>1. CASE ~Answer(r)
    <3>1. /\ at[r] = "read" /\ Goto(r, "count") /\ UNCHANGED <<rpc, req, tables>>
          /\ seen' = [seen EXCEPT ![r] = member[req[r].user]]
      BY <1>6, <2>1 DEF Read
    <3>2. at'[r] = "count" /\ seen'[r] = member[req[r].user]
      BY <1>0, <3>1 DEF Goto, TypeInv, CallTypes
    <3>3. rpc[r] \in ReadFirst => seen'[r] = seen[r]
      BY <3>2 DEF OwnersInv, ReadIsCurrent
    <3>4. ASSUME NEW p \in Ruling, NEW q \in Request, NEW row \in MemberRows \union {NoRow},
                 rpc[r] = p, req[r] = q, seen'[r] = row
          PROVE  Allowed(p, q, row)
      <4>1. PICK old \in MemberRows \union {NoRow} : old = seen[r]
        BY <1>0 DEF TypeInv, CallTypes
      <4>2. Allowed(p, q, old)
        BY <3>1, <3>4, <4>1 DEF StillAllowed
      <4>3. p = "RemoveOrganizationMember" \/ p = "AddOrganizationMember" \/ row = old
        BY <3>3, <3>4, <4>1 DEF Ruling, Counting, ReadFirst
      <4> QED
        BY <4>2, <4>3 DEF Allowed
    <3> QED
      BY <1>4, <3>1, <3>2, <3>4
  <2> QED
    BY <1>2, <2>1
<1>7. ASSUME NEW r \in Calls, CountOwners(r)
      PROVE  RulingInv'
  <2>1. CASE ~Answer(r)
    <3>1. /\ at[r] = "count" /\ UNCHANGED <<rpc, req, seen, tables>>
          /\ Goto(r, IF rpc[r] = "RemoveOrganizationMember" THEN "cascade" ELSE "write")
      BY <1>7, <2>1 DEF CountOwners
    <3>2. rpc[r] = "RemoveOrganizationMember" => at'[r] = "cascade"
      BY <1>0, <3>1 DEF Goto, TypeInv, CallTypes
    <3> QED
      BY <1>4, <3>1, <3>2 DEF StillAllowed
  <2> QED
    BY <1>2, <2>1
<1>8. ASSUME NEW r \in Calls, Cascade(r)
      PROVE  RulingInv'
  <2>1. /\ at[r] = "cascade" /\ UNCHANGED <<rpc, req, seen, tables>>
        /\ doomed' = [doomed EXCEPT ![r] = {c \in Courses : courseRole[c][req[r].user] # None}]
    BY <1>8 DEF Cascade
  <2>2. doomed'[r] = {c \in Courses : courseRole[c][req[r].user] # None}
    BY <1>0, <2>1 DEF TypeInv, CallTypes
  <2>3. StillAllowed'
    BY <2>1, AllowedSame DEF OneCall, StillAllowed, tables
  <2>4. CascadeIsCurrent'
    BY <2>1, <2>2 DEF OneCall, CascadeIsCurrent, tables
  <2> QED
    BY <2>3, <2>4
<1>9. ASSUME NEW r \in Calls, Check(r)
      PROVE  RulingInv'
  <2>1. CASE ~Answer(r)
    <3>1. UNCHANGED <<rpc, req, seen, tables>> /\ at[r] = "check" /\ rpc[r] \notin Counting
      BY <1>9, <2>1 DEF Check, OwnersInv, NoCourseCheck
    <3> QED
      BY <1>4, <3>1 DEF StillAllowed, Counting
  <2> QED
    BY <1>2, <2>1
<1>10. ASSUME NEW r \in Calls, OrgWrite(r) \/ CourseWrite(r)
       PROVE  RulingInv'
  <2>1. Answer(r)
    BY <1>10 DEF OrgWrite, CourseWrite, Writes, AddOrganizationMember,
       UpdateOrganizationMemberRole, UpdateOrganizationMemberStatus, RemoveOrganizationMember,
       RespondToOrganizationInvitation, CreateCourse, AddCourseMember, RemoveCourseMember,
       EnrollSelf, CreateJoinRequest, ReviewJoinRequest
  <2> QED
    BY <1>2, <2>1
<1> QED
  BY <1>1, <1>3, <1>5, <1>6, <1>7, <1>8, <1>9, <1>10 DEF Next, Step

\* Only the organization's writes touch its members.
LEMMA MembersWritten ==
    ASSUME OneCall, [Next]_vars, NEW u, member'[u] # member[u], NEW r \in Calls
    PROVE  OrgWrite(r)
<1>1. ~UNCHANGED vars
  BY DEF vars, tables
<1>2. PICK s \in Calls : \/ \E p \in RPCs : \E q \in RequestsOf(p) : Start(s, p, q)
                         \/ Step(s)
  BY <1>1 DEF Next
<1>3. OrgWrite(s)
  BY <1>2 DEF Step, Start, Authorize, Read, CountOwners, Cascade, Check, tables, CourseWrite,
     CreateCourse, AddCourseMember, RemoveCourseMember, EnrollSelf, CreateJoinRequest,
     ReviewJoinRequest
<1> QED
  BY <1>3 DEF OneCall

\* The step of a call that changes an owner had the permission for it.
LEMMA OwnersRuled ==
    ASSUME OneCall, RulingInv, [Next]_vars, NEW u \in Users, NEW r \in Calls,
           member'[u] # member[u], "owner" \in {member[u].role, member'[u].role}
    PROVE  \/ HasOrgRole(req[r].caller, {"owner"})
           \/ /\ req[r].caller = u
              /\ rpc[r] \in {"RemoveOrganizationMember", "RespondToOrganizationInvitation"}
<1> DEFINE v == req[r].user
<1>1. OrgWrite(r)
  BY MembersWritten
<1>2. TypeInv /\ ReadIsCurrent /\ StillAllowed
  BY DEF RulingInv, OwnersInv
<1>3. member \in [Users -> MemberRows \union {NoRow}] /\ v \in Users /\ at[r] = "write"
  BY <1>1, <1>2 DEF TypeInv, MemberTypes, CallTypes, Request, Asking, OrgWrite, Writes,
     AddOrganizationMember, UpdateOrganizationMemberRole, UpdateOrganizationMemberStatus,
     RemoveOrganizationMember, RespondToOrganizationInvitation
<1>4. rpc[r] \in Ruling => Allowed(rpc[r], req[r], seen[r])
  BY <1>2, <1>3 DEF StillAllowed, TypeInv, CallTypes
<1>5. CASE AddOrganizationMember(r)
  <2>1. rpc[r] = "AddOrganizationMember" /\ u = v /\ member[u] = NoRow
        /\ member'[u] = [role |-> req[r].role, status |-> req[r].status]
    BY <1>3, <1>5 DEF AddOrganizationMember, Writes
  <2>2. req[r].role = "owner"
    BY <2>1 DEF NoRow, None
  <2>3. MayRule(req[r].caller, {req[r].role})
    BY <1>4, <2>1 DEF Ruling, Allowed
  <2> QED
    BY <2>2, <2>3 DEF MayRule
<1>6. CASE UpdateOrganizationMemberRole(r)
  <2>1. rpc[r] = "UpdateOrganizationMemberRole" /\ u = v /\ member'[u].role = req[r].role
    BY <1>3, <1>6 DEF UpdateOrganizationMemberRole, Writes, MemberRows
  <2>2. seen[r] = member[u]
    BY <1>2, <2>1 DEF ReadIsCurrent, ReadFirst
  <2>3. MayRule(req[r].caller, {seen[r].role, req[r].role})
    BY <1>4, <2>1 DEF Ruling, Counting, Allowed
  <2> QED
    BY <2>1, <2>2, <2>3 DEF MayRule
<1>7. CASE UpdateOrganizationMemberStatus(r)
  <2>1. rpc[r] = "UpdateOrganizationMemberStatus" /\ u = v /\ member'[u].role = member[u].role
    BY <1>3, <1>7 DEF UpdateOrganizationMemberStatus, Writes, MemberRows
  <2>2. seen[r] = member[u]
    BY <1>2, <2>1 DEF ReadIsCurrent, ReadFirst
  <2>3. MayRule(req[r].caller, {seen[r].role})
    BY <1>4, <2>1 DEF Ruling, Counting, Allowed
  <2> QED
    BY <2>1, <2>2, <2>3 DEF MayRule
<1>8. CASE RemoveOrganizationMember(r)
  <2>1. rpc[r] = "RemoveOrganizationMember" /\ u = v /\ member'[u] = NoRow
    BY <1>3, <1>8 DEF RemoveOrganizationMember, Writes
  <2>2. member[u].role = "owner"
    BY <2>1 DEF NoRow, None
  <2>3. MayRemove(req[r].caller, u)
    BY <1>4, <2>1 DEF Ruling, Counting, Allowed
  <2> QED
    BY <2>1, <2>2, <2>3 DEF MayRemove, HasOrgRole
<1>9. CASE RespondToOrganizationInvitation(r)
  <2>1. rpc[r] = "RespondToOrganizationInvitation" /\ u = v
    BY <1>3, <1>9 DEF RespondToOrganizationInvitation, Writes
  <2>2. req[r] \in RequestsOf("RespondToOrganizationInvitation")
    BY <1>2, <2>1 DEF TypeInv, RequestFits, None
  <2>3. req[r].caller = u
    BY <2>1, <2>2 DEF RequestsOf, OnlySelf
  <2> QED
    BY <2>1, <2>3
<1> QED
  BY <1>1, <1>5, <1>6, <1>7, <1>8, <1>9 DEF OrgWrite

\* The commit of a removal takes every course membership with it.
LEMMA RemovalRevoked ==
    ASSUME OneCall, RulingInv, [Next]_vars, NEW u \in Users, member'[u] # member[u],
           NEW r \in Calls, rpc[r] = "RemoveOrganizationMember", NEW c \in Courses
    PROVE  courseRole'[c][u] = None
<1>1. OrgWrite(r)
  BY MembersWritten
<1>2. RemoveOrganizationMember(r) /\ at[r] = "write"
  BY <1>1 DEF OrgWrite, AddOrganizationMember, UpdateOrganizationMemberRole, Writes,
     UpdateOrganizationMemberStatus, RemoveOrganizationMember, RespondToOrganizationInvitation
<1>3. /\ member \in [Users -> MemberRows \union {NoRow}]
      /\ courseRole \in [Courses -> [Users -> CourseRoles \union {None}]]
  BY DEF RulingInv, OwnersInv, TypeInv, MemberTypes, CourseTypes
<1>4. req[r].user = u
  BY <1>2, <1>3 DEF RemoveOrganizationMember
<1>5. courseRole'[c] = IF c \in doomed[r] THEN [courseRole[c] EXCEPT ![u] = None] ELSE courseRole[c]
  BY <1>2, <1>4 DEF RemoveOrganizationMember
<1>6. c \notin doomed[r] => courseRole[c][u] = None
  BY <1>2, <1>4 DEF RulingInv, CascadeIsCurrent
<1> QED
  BY <1>3, <1>5, <1>6

\* The permissions a call was granted, and what its cascade saw, are current when it commits.
LEMMA RulingInvariant ==
    ASSUME OneCall
    PROVE  Spec => []RulingInv
<1>1. Init => RulingInv
  <2> SUFFICES ASSUME Init
               PROVE  RulingInv
    OBVIOUS
  <2>1. StillAllowed /\ CascadeIsCurrent
    BY DEF Init, StillAllowed, CascadeIsCurrent, Ruling, Counting, None
  <2> QED
    BY <2>1, InitOwnersInv DEF RulingInv
<1>2. RulingInv /\ [Next]_vars => RulingInv'
  BY OneCall, NextTypeInv, NextOwnersInv, NextRulingInv DEF RulingInv, OwnersInv
<1> QED
  BY <1>1, <1>2, PTL DEF Spec

\* As long as calls do not overlap, nobody but an owner or a system admin gives or takes
\* an owner's role, however the RPCs follow each other.
THEOREM OwnersRule ==
    ASSUME OneCall
    PROVE  Spec => OwnersRuleOwners
<1>1. RulingInv /\ [Next]_vars =>
        [\A u \in Users, r \in Calls :
          /\ member'[u] # member[u]
          /\ "owner" \in {member[u].role, member'[u].role}
          /\ rpc[r] # None /\ rpc'[r] = None
          => \/ HasOrgRole(req[r].caller, {"owner"})
             \/ /\ req[r].caller = u
                /\ rpc[r] \in {"RemoveOrganizationMember",
                               "RespondToOrganizationInvitation"}]_vars
  BY OneCall, OwnersRuled
<1> QED
  BY <1>1, RulingInvariant, PTL DEF Spec, OwnersRuleOwners

\* As long as calls do not overlap, whoever is removed from the organization loses every
\* course with it.
THEOREM RemovalRevokes ==
    ASSUME OneCall
    PROVE  Spec => RemovalRevokesCourses
<1>1. RulingInv /\ [Next]_vars =>
        [\A u \in Users :
          /\ member[u] # NoRow /\ member'[u] = NoRow
          /\ \E r \in Calls : rpc[r] = "RemoveOrganizationMember" /\ rpc'[r] = None
          => \A c \in Courses : courseRole'[c][u] = None]_vars
  BY OneCall, RemovalRevoked
<1> QED
  BY <1>1, RulingInvariant, PTL DEF Spec, RemovalRevokesCourses
================================================================================
