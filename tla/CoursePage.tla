------------------------------ MODULE CoursePage ------------------------------
(***************************************************************************)
(* The course page and what it lets its viewers do.  One render reads the  *)
(* viewer's standing with one RPC after the other, derives from it who is  *)
(* locked out, who manages and who learns, and draws the controls; each    *)
(* control is a call the services check against the tables of that moment. *)
(* The tabs are one page here.  Changes made elsewhere (the organization   *)
(* page, another manager) are steps of their own.                          *)
(***************************************************************************)
EXTENDS Naturals, FiniteSets

CONSTANTS
    Users,
    Viewers,   \* those whose page is modelled; the others act elsewhere
    MaxClicks, \* bound: calls made from the page
    MaxElse,   \* bound: changes made elsewhere
    None

OrgRoles == {"admin", "teacher", "student"} \* admin: OWNER and ADMIN
CourseRoles == {"teacher", "student"}

VARIABLES
    owner,      \* courses.owner_id
    orgRole,    \* user -> role of an active member of the organization, None
    courseRole, \* course_members: user -> role, None
    join,       \* course_join_requests: user -> [status, role]
    page,       \* user -> the page shown
    load,       \* user -> the render under way
    busy,       \* user -> the call in flight, None
    clicks, elsewhere,
    removed     \* history: users who have lost their course_members row

vars == <<owner, orgRole, courseRole, join, page, load, busy, clicks, elsewhere, removed>>

NoJoin == [status |-> None, role |-> None]
NoPage == [stage |-> "none", mode |-> "manage", role |-> None, access |-> FALSE,
           member |-> None, join |-> NoJoin, requests |-> {}, news |-> {}]

Init ==
    /\ owner \in Users
    /\ orgRole \in {r \in [Users -> OrgRoles] : r[owner] = "teacher"}
    /\ courseRole = [u \in Users |-> IF u = owner THEN "teacher" ELSE None]
    /\ join = [u \in Users |-> NoJoin]
    /\ page = [u \in Viewers |-> NoPage] /\ load = [u \in Viewers |-> NoPage]
    /\ busy = [u \in Viewers |-> None]
    /\ clicks = 0 /\ elsewhere = 0 /\ removed = {}

-----------------------------------------------------------------------------
(* The services.                                                           *)

Bypass(u) == u = owner \/ orgRole[u] = "admin"
CourseMember(u) == Bypass(u) \/ courseRole[u] # None
CourseManager(u) == Bypass(u) \/ courseRole[u] = "teacher"

Pending == {v \in Users : join[v].status = "pending"}

\* Chapters, lessons, uploads and the course's texts; the results of a class.
Author(u) == orgRole[u] \in {"admin", "teacher"}
Reader(u) == orgRole[u] \in {"admin", "teacher"}

Accepts(u, op) ==
    CASE op = "author" -> Author(u)
      [] op = "results" -> Reader(u)
      [] op = "status" -> orgRole[u] = "admin"
      [] op \in {"members", "review"} -> CourseManager(u)
      [] op = "learn" -> Bypass(u)
      [] op = "request" -> orgRole[u] # None /\ courseRole[u] = None

-----------------------------------------------------------------------------
(* What the page derives from its reads.                                   *)

\* Mutant of CanManage: a teacher of the organization manages every course.
CanManageAny(p, u) == u = owner \/ p.role \in {"admin", "teacher"} \/ p.member = "teacher"

CanManage(p, u) == u = owner \/ p.role = "admin" \/ p.member = "teacher"

LearnMode(p, u) == CanManage(p, u) /\ p.mode = "learn"

RenderAsManager(p, u) == CanManage(p, u) /\ ~LearnMode(p, u)

Locked(p, u) == ~p.access /\ ~CanManage(p, u)

CanSubmit(p) == p.join.status \in {None, "rejected"}

RequestedRoles(p) == IF p.role \in {"admin", "teacher"} THEN CourseRoles ELSE {"student"}

\* QuickCreateTrigger, EditCourseForm, the class pulse; CourseStatusSelect and
\* DeleteCourseButton; the mode toggle's first entry.
OverviewControls(p, u) ==
    {op \in {"author", "results"} : RenderAsManager(p, u)}
    \cup {op \in {"status"} : RenderAsManager(p, u) /\ p.role = "admin"}
    \cup {op \in {"learn"} : RenderAsManager(p, u) /\ p.member = None}

\* The dialogs and menus of the chapters and lessons.
LessonControls(p, u) == {op \in {"author"} : RenderAsManager(p, u)}

MemberControls(p, u) == {op \in {"members"} : RenderAsManager(p, u)}
RequestControls(p, u) == {op \in {"review"} : RenderAsManager(p, u) /\ p.requests # {}}
ResultControls(p, u) == {op \in {"results"} : RenderAsManager(p, u)}

LockControls(p) == {op \in {"request"} : CanSubmit(p)}

\* What one can do from the page.
Offered(p, u) ==
    IF p.stage # "ready" THEN {}
    ELSE IF Locked(p, u) THEN LockControls(p)
    ELSE OverviewControls(p, u) \cup LessonControls(p, u) \cup MemberControls(p, u)
         \cup RequestControls(p, u) \cup ResultControls(p, u)

-----------------------------------------------------------------------------
(* One render.                                                             *)

Begin(mode) == [NoPage EXCEPT !.stage = "org", !.mode = mode]

\* A reload, a tab, a link of the mode toggle.
Open(u, mode) ==
    /\ load[u].stage = "none" /\ busy[u] = None
    /\ mode # page[u].mode \/ page[u].news # {} \/ page[u].stage = "none"
    /\ mode = "learn" =>
                         \/ page[u].mode = "learn"
                         \/ (RenderAsManager(page[u], u) /\ page[u].member # None)
    /\ load' = [load EXCEPT ![u] = Begin(mode)]
    /\ UNCHANGED <<owner, orgRole, courseRole, join, page, busy, clicks, elsewhere, removed>>

\* The page as it is put on the screen.
Put(u, p) ==
    /\ page' = [page EXCEPT ![u] = p]
    /\ load' = [load EXCEPT ![u] = NoPage]

Read(u, from, p) ==
    /\ load[u].stage = from
    /\ load' = [load EXCEPT ![u] = p]
    /\ UNCHANGED page

\* requireOrgMember sends everybody else away.
ReadOrgMember(u) ==
    /\ load[u].stage = "org"
    /\ IF orgRole[u] = None THEN Put(u, [NoPage EXCEPT !.stage = "away", !.news = load[u].news])
       ELSE Read(u, "org", [load[u] EXCEPT !.stage = "course", !.role = orgRole[u]])
    /\ UNCHANGED <<owner, orgRole, courseRole, join, busy, clicks, elsewhere, removed>>

\* GetCourseById wants an active member of the organization; notFound() otherwise.
ReadCourse(u) ==
    /\ load[u].stage = "course"
    /\ IF orgRole[u] = None THEN Put(u, [NoPage EXCEPT !.stage = "away", !.news = load[u].news])
       ELSE Read(u, "course", [load[u] EXCEPT !.stage = "membership", !.access = CourseMember(u)])
    /\ UNCHANGED <<owner, orgRole, courseRole, join, busy, clicks, elsewhere, removed>>

\* A failure is logged and counts as no membership.
ReadMembership(u) ==
    /\ \E m \in {courseRole[u], None} :
         Read(u, "membership", [load[u] EXCEPT !.stage = "requests", !.member = m])
    /\ UNCHANGED <<owner, orgRole, courseRole, join, busy, clicks, elsewhere, removed>>

\* A locked viewer's own request, or the list of pending ones for a manager; a
\* failure counts as none.
ReadRequests(u) ==
    LET p == load[u]
        mine == IF Locked(p, u) THEN {join[u], NoJoin} ELSE {NoJoin}
        theirs == IF RenderAsManager(p, u) /\ CourseManager(u)
                  THEN {{[user |-> v, role |-> join[v].role] : v \in Pending}, {}} ELSE {{}}
    IN
    /\ p.stage = "requests"
    /\ \E j \in mine, rs \in theirs :
         Put(u, [p EXCEPT !.stage = "ready", !.join = j, !.requests = rs])
    /\ UNCHANGED <<owner, orgRole, courseRole, join, busy, clicks, elsewhere, removed>>

-----------------------------------------------------------------------------
(* The controls.                                                           *)

Call(op, v, role) == [op |-> op, user |-> v, role |-> role]

Click(u, call) ==
    /\ busy[u] = None /\ clicks < MaxClicks
    /\ call.op \in Offered(page[u], u)
    /\ busy' = [busy EXCEPT ![u] = call]
    /\ clicks' = clicks + 1
    /\ UNCHANGED <<owner, orgRole, courseRole, join, page, load, elsewhere, removed>>

\* CourseLockScreen: with the role chosen, if there is a choice.
RequestJoin(u) == \E r \in RequestedRoles(page[u]) : Click(u, Call("request", u, r))

\* JoinRequestsTab: approve (role) or reject (None).
Review(u) == \E q \in page[u].requests : \E r \in {q.role, None} : Click(u, Call("review", q.user, r))

\* AddCourseMemberDialog (role), CourseMemberActionsMenu (None; not for the owner).
ChangeMember(u) ==
    \E v \in Users, r \in CourseRoles \cup {None} :
        /\ r = None => v # owner /\ courseRole[v] # None
        /\ Click(u, Call("members", v, r))

\* CourseModeToggle's first entry.
EnterLearn(u) == Click(u, Call("learn", u, "teacher"))

-----------------------------------------------------------------------------
(* The calls.                                                              *)

\* Everybody's screens and renders are behind what has happened to v.
Behind(p, v) == [u \in Viewers |-> IF p[u].stage = "none" THEN p[u]
                                 ELSE [p[u] EXCEPT !.news = @ \cup {v}]]

SetRole(v, r) ==
    /\ courseRole' = [courseRole EXCEPT ![v] = r]
    /\ removed' = IF r = None /\ courseRole[v] # None THEN removed \cup {v} ELSE removed

\* ReviewJoinRequest: the role comes from the row, whatever its status.
Reviewed(v, approve) ==
    /\ join[v] # NoJoin
    /\ approve => orgRole[v] # None
    /\ join' = [join EXCEPT ![v].status = IF approve THEN "approved" ELSE "rejected"]
    /\ IF approve THEN SetRole(v, join[v].role) ELSE UNCHANGED <<courseRole, removed>>

\* AddCourseMember, RemoveCourseMember.
MemberChanged(v, r) ==
    /\ IF r = None THEN courseRole[v] # None ELSE orgRole[v] # None
    /\ SetRole(v, r)
    /\ UNCHANGED join

\* EnrollCourseMemberIfAbsent.
Enrolled(u) ==
    /\ SetRole(u, IF courseRole[u] = None THEN "teacher" ELSE courseRole[u])
    /\ UNCHANGED join

\* Mutant of Requested: the status is left as it is.
RequestedQuietly(u, r) ==
    /\ join' = [join EXCEPT ![u].role = r]
    /\ UNCHANGED <<courseRole, removed>>

Requested(u, r) ==
    /\ join' = [join EXCEPT ![u] = [status |-> "pending", role |-> r]]
    /\ UNCHANGED <<courseRole, removed>>

\* What a call the service lets through does.
Done(u, c) ==
    CASE c.op = "request" -> Requested(u, c.role)
      [] c.op = "review" -> Reviewed(c.user, c.role # None)
      [] c.op = "members" -> MemberChanged(c.user, c.role)
      [] c.op = "learn" -> Enrolled(u)

\* Success is followed by a refresh, of the first entry by learn mode.
Refreshed(l, u, c) ==
    LET mode == IF c.op = "learn" THEN "learn" ELSE page[u].mode IN
    [l EXCEPT ![u] = Begin(mode)]

Serve(u) ==
    LET c == busy[u] IN
    /\ c # None /\ Accepts(u, c.op)
    /\ Done(u, c)
    /\ page' = Behind(page, c.user)
    /\ load' = Refreshed(Behind(load, c.user), u, c)
    /\ busy' = [busy EXCEPT ![u] = None]
    /\ UNCHANGED <<owner, orgRole, clicks, elsewhere>>

\* The change is made and its answer lost: an error, and no refresh.
ServeUnheard(u) ==
    LET c == busy[u] IN
    /\ c # None /\ Accepts(u, c.op)
    /\ Done(u, c)
    /\ page' = Behind(page, c.user) /\ load' = Behind(load, c.user)
    /\ busy' = [busy EXCEPT ![u] = None]
    /\ UNCHANGED <<owner, orgRole, clicks, elsewhere>>

\* The service refuses the call, or it never arrives.
Refuse(u) ==
    /\ busy[u] # None
    /\ busy' = [busy EXCEPT ![u] = None]
    /\ UNCHANGED <<owner, orgRole, courseRole, join, page, load, clicks, elsewhere, removed>>

-----------------------------------------------------------------------------
(* Changes made elsewhere.                                                 *)

Elsewhere(v) ==
    /\ elsewhere < MaxElse /\ elsewhere' = elsewhere + 1
    /\ page' = Behind(page, v) /\ load' = Behind(load, v)
    /\ UNCHANGED <<busy, clicks>>

\* A role in the organization, or None: RemoveOrganizationMember takes the rows
\* of the courses along.
OrgRoleChanged(v, r) ==
    /\ orgRole[v] # r
    /\ orgRole' = [orgRole EXCEPT ![v] = r]
    /\ IF r = None THEN SetRole(v, None) ELSE UNCHANGED <<courseRole, removed>>
    /\ UNCHANGED <<owner, join>>
    /\ Elsewhere(v)

\* Another manager's page.
ReviewedElsewhere(v, approve) ==
    /\ Reviewed(v, approve)
    /\ Elsewhere(v)
    /\ UNCHANGED <<owner, orgRole>>

MemberChangedElsewhere(v, r) ==
    /\ r = None => v # owner
    /\ MemberChanged(v, r)
    /\ Elsewhere(v)
    /\ UNCHANGED <<owner, orgRole>>

\* The lock screen of v, or a second one left open.
RequestedElsewhere(v, r) ==
    /\ Accepts(v, "request")
    /\ Requested(v, r)
    /\ Elsewhere(v)
    /\ UNCHANGED <<owner, orgRole>>

RenderStep(u) == ReadOrgMember(u) \/ ReadCourse(u) \/ ReadMembership(u) \/ ReadRequests(u)

Next ==
    \/ \E u \in Viewers :
         \/ \E mode \in {"manage", "learn"} : Open(u, mode)
         \/ RenderStep(u)
         \/ RequestJoin(u) \/ Review(u) \/ ChangeMember(u) \/ EnterLearn(u)
         \/ Serve(u) \/ ServeUnheard(u) \/ Refuse(u)
    \/ \E v \in Users :
         \/ \E r \in OrgRoles \cup {None} : OrgRoleChanged(v, r)
         \/ \E yes \in BOOLEAN : ReviewedElsewhere(v, yes)
         \/ \E r \in CourseRoles \cup {None} : MemberChangedElsewhere(v, r)
         \/ \E r \in CourseRoles : RequestedElsewhere(v, r)

Spec == Init /\ [][Next]_vars

-----------------------------------------------------------------------------

\* Roles and requests keep their shapes, a request has its role exactly when it
\* has a status, and a render is in one of its stages.
TypeOK ==
    /\ orgRole \in [Users -> OrgRoles \cup {None}]
    /\ courseRole \in [Users -> CourseRoles \cup {None}]
    /\ \A u \in Users : join[u].status \in {None, "pending", "approved", "rejected"}
    /\ \A u \in Users : join[u].status = None <=> join[u].role = None
    /\ \A u \in Viewers :
         /\ page[u].stage \in {"none", "ready", "away"}
         /\ load[u].stage \in {"none", "org", "course", "membership", "requests"}

\* Nothing has happened to u since the render of u's page began.
Current(u) == page[u].stage = "ready" /\ u \notin page[u].news

\* The services accept every control the page offers, as long as nobody has
\* changed the viewer's standing since its render began; but for authoring and
\* results, which a manager of the course needs a teacher's role in the
\* organization for.
OfferedIsAccepted ==
    \A u \in Viewers : Current(u) =>
        \A op \in Offered(page[u], u) :
            Accepts(u, op) \/ (op \in {"author", "results"} /\ orgRole[u] = "student")

\* Who is locked out can ask to join or waits for an answer; but for one who has
\* been a member before: the approved request stays, the button stays disabled,
\* and no manager has a request to review.
LockedCanAsk ==
    \A u \in Viewers : Current(u) /\ Locked(page[u], u) =>
        \/ "request" \in Offered(page[u], u)
        \/ u \in Pending
        \/ u \in removed

\* A manager in learn mode has a membership row, if nobody has removed one: the
\* toggle leaves for learn mode only after the enrolment or on the word of a
\* render that has seen the row.
LearnHasRow ==
    \A u \in Viewers :
        page[u].stage = "ready" /\ LearnMode(page[u], u) /\ u \notin removed => courseRole[u] # None

\* A request on the screen is the one a review decides, unless its author has asked
\* again or been reviewed since the render began.
RequestsAreTrue ==
    \A u \in Viewers : page[u].stage = "ready" =>
        \A q \in page[u].requests : q.user \notin page[u].news =>
            join[q.user] = [status |-> "pending", role |-> q.role]

\* The page's idea of its viewer is the services' (page.tsx, course-lock-screen.tsx,
\* course-mode-toggle.tsx, join-requests-tab.tsx).
PageHolds == OfferedIsAccepted /\ LockedCanAsk /\ LearnHasRow /\ RequestsAreTrue
=============================================================================
