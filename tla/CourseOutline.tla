---------------------------- MODULE CourseOutline -----------------------------
(***************************************************************************)
(* The chapters and lessons of a course, edited by several teachers on the *)
(* lessons tab of the course page.  A row carries an order_index that its  *)
(* author's screen has computed (the number of rows it shows); every       *)
(* change goes to the server as a call of its own and is followed by a     *)
(* refresh, which reads the chapters and the lessons with two RPCs.        *)
(***************************************************************************)
EXTENDS Naturals, FiniteSets, SequencesExt

CONSTANTS
    Teachers,
    MaxRows,  \* bound: rows ever created
    MaxOps,   \* bound: changes submitted
    MaxCalls, \* bound: calls in flight
    MaxFaults,\* bound: answers lost and lists that fail to load
    None

Course == 0            \* the parent of the chapters
Ids == 1..MaxRows      \* uuidv7: ids grow with the time of creation

VARIABLES
    rows,    \* id -> [parent, order, text, seen], None
    made,    \* rows created so far
    view,    \* teacher -> what the page shows: chapters with their lessons
    calls,   \* calls in flight and answers on their way back
    load,    \* teacher -> the refresh being rendered, None
    again,   \* teacher -> a refresh waits for that one
    crashed, \* teachers whose page shows the error boundary
    ops,     \* changes submitted so far
    faults,  \* faults so far
    emptied, \* history: parents that have lost a row
    behind   \* history: teachers whose screen somebody else's change has left behind

vars == <<rows, made, view, calls, load, again, crashed, ops, faults, emptied, behind>>

-----------------------------------------------------------------------------
(* The queries.                                                            *)

Live == {r \in Ids : rows[r] # None}
Children(p) == {r \in Live : rows[r].parent = p}

\* ORDER BY order_index ASC, id ASC
Before(a, b) == rows[a].order < rows[b].order \/ (rows[a].order = rows[b].order /\ a < b)

Item(r) == [id |-> r, order |-> rows[r].order, text |-> rows[r].text]

List(p) == LET ids == SetToSortSeq(Children(p), Before) IN [i \in DOMAIN ids |-> Item(ids[i])]

ListCourseModules == List(Course)
ListLessonsByCourse == [c \in Children(Course) |-> List(c)]

\* lessonsByModule: a chapter's lessons, none if the other list has none of it.
Outline(chapters, lessons) ==
    [i \in DOMAIN chapters |->
        [chapter |-> chapters[i],
         lessons |-> IF chapters[i].id \in DOMAIN lessons THEN lessons[chapters[i].id] ELSE <<>>]]

NewRow(p, order, seen) == [parent |-> p, order |-> order, text |-> 0, seen |-> seen]

Init ==
    /\ rows = [r \in Ids |-> IF r = 1 THEN NewRow(Course, 0, {}) ELSE None]
    /\ made = 1
    /\ view = [t \in Teachers |-> Outline(ListCourseModules, ListLessonsByCourse)]
    /\ calls = <<>>
    /\ load = [t \in Teachers |-> None] /\ again = [t \in Teachers |-> FALSE]
    /\ crashed = {} /\ ops = 0 /\ faults = 0 /\ emptied = {} /\ behind = {}

-----------------------------------------------------------------------------
(* The dialogs.                                                            *)

\* The rows a dialog's parent shows.
Shown(t, p) ==
    IF p = Course THEN [i \in DOMAIN view[t] |-> view[t][i].chapter]
    ELSE LET i == CHOOSE k \in DOMAIN view[t] : view[t][k].chapter.id = p IN view[t][i].lessons

ShownParents(t) == {Course} \cup {view[t][i].chapter.id : i \in DOMAIN view[t]}
ShownRows(t) == UNION {Range(Shown(t, p)) : p \in ShownParents(t)}

\* For an added row, id is the parent's and seen the rows its author sees.
Call(t, op, id, order, text, seen) ==
    [who |-> t, stage |-> "sent", op |-> op, id |-> id, order |-> order, text |-> text, seen |-> seen]

Submit(t, call) ==
    /\ t \notin crashed
    /\ ops < MaxOps /\ ops' = ops + 1
    /\ Len(calls) < MaxCalls
    /\ calls' = Append(calls, call)
    /\ UNCHANGED <<faults, rows, made, view, load, again, crashed, emptied, behind>>

\* AddModuleDialog, AddLessonDialog: nextOrder is the number of rows shown.
Add(t, p) ==
    /\ Cardinality({i \in DOMAIN calls : calls[i].op = "add"}) < MaxRows - made
    /\ Submit(t, Call(t, "add", p, Len(Shown(t, p)), 0, {item.id : item \in Range(Shown(t, p))}))

\* EditModuleForm, EditLessonForm: the order_index shown goes back unchanged.
Edit(t, item) == Submit(t, Call(t, "edit", item.id, item.order, 1 - item.text, {}))

Delete(t, item) == Submit(t, Call(t, "delete", item.id, 0, 0, {}))

-----------------------------------------------------------------------------
(* The services.                                                           *)

Stage(i, s) == calls' = [calls EXCEPT ![i].stage = s]

\* A change leaves every other screen behind.
Changed(t) == behind' = behind \cup (Teachers \ {t})

CreateRow(i) ==
    LET c == calls[i] IN
    /\ c.stage = "sent" /\ c.op = "add"
    /\ c.id \in {Course} \cup Live
    /\ made' = made + 1
    /\ rows' = [rows EXCEPT ![made + 1] = NewRow(c.id, c.order, c.seen)]
    /\ Stage(i, "done") /\ Changed(c.who)
    /\ UNCHANGED <<faults, view, load, again, crashed, ops, emptied>>

UpdateRow(i) ==
    LET c == calls[i] IN
    /\ c.stage = "sent" /\ c.op = "edit"
    /\ rows[c.id] # None
    /\ rows' = [rows EXCEPT ![c.id].order = c.order, ![c.id].text = c.text]
    /\ Stage(i, "done") /\ Changed(c.who)
    /\ UNCHANGED <<faults, made, view, load, again, crashed, ops, emptied>>

\* Mutant of DeleteRow: the lessons stay behind.
DeleteRowOnly(i) ==
    LET c == calls[i] IN
    /\ c.stage = "sent" /\ c.op = "delete"
    /\ rows[c.id] # None
    /\ rows' = [rows EXCEPT ![c.id] = None]
    /\ emptied' = emptied \cup {rows[c.id].parent}
    /\ Stage(i, "done") /\ Changed(c.who)
    /\ UNCHANGED <<faults, made, view, load, again, crashed, ops>>

\* ON DELETE CASCADE: the lessons of the chapter go with it.
DeleteRow(i) ==
    LET c == calls[i] IN
    /\ c.stage = "sent" /\ c.op = "delete"
    /\ rows[c.id] # None
    /\ rows' = [r \in Ids |-> IF r = c.id \/ r \in Children(c.id) THEN None ELSE rows[r]]
    /\ emptied' = emptied \cup {rows[c.id].parent}
    /\ Stage(i, "done") /\ Changed(c.who)
    /\ UNCHANGED <<faults, made, view, load, again, crashed, ops>>

\* The row, or the parent of the new row, is gone.
Refuse(i) ==
    LET c == calls[i] IN
    /\ c.stage = "sent"
    /\ c.id \notin {Course} \cup Live
    /\ Stage(i, "refused")
    /\ UNCHANGED <<faults, rows, made, view, load, again, crashed, ops, emptied, behind>>

-----------------------------------------------------------------------------
(* The answers.                                                            *)

\* Mutant of Refresh: a refresh during a refresh is dropped.
RefreshOnce(t) ==
    /\ load' = [load EXCEPT ![t] = IF @ = None THEN [chapters |-> None, lessons |-> None] ELSE @]
    /\ behind' = IF load[t] = None THEN behind \ {t} ELSE behind
    /\ UNCHANGED again

\* router.refresh(): one at a time, the others wait.
Refresh(t) ==
    IF load[t] = None
    THEN /\ load' = [load EXCEPT ![t] = [chapters |-> None, lessons |-> None]]
         /\ behind' = behind \ {t}
         /\ UNCHANGED again
    ELSE /\ again' = [again EXCEPT ![t] = TRUE]
         /\ UNCHANGED <<load, behind>>

Answer(i) ==
    LET c == calls[i] IN
    /\ c.stage = "done" /\ c.who \notin crashed
    /\ calls' = RemoveAt(calls, i)
    /\ Refresh(c.who)
    /\ UNCHANGED <<faults, rows, made, view, crashed, ops, emptied>>

\* Refused or lost.  The forms show the error; the delete buttons do not catch
\* it, and the page goes down with their transition.
Fail(i) ==
    LET c == calls[i] IN
    /\ c.who \notin crashed
    /\ calls' = RemoveAt(calls, i)
    /\ crashed' = IF c.op = "delete" THEN crashed \cup {c.who} ELSE crashed
    /\ behind' = IF c.stage = "done" THEN behind \cup {c.who} ELSE behind
    /\ IF c.stage = "refused" THEN UNCHANGED faults ELSE faults < MaxFaults /\ faults' = faults + 1
    /\ UNCHANGED <<rows, made, view, load, again, ops, emptied>>

-----------------------------------------------------------------------------
(* The page render of a refresh.                                           *)

ReadChapters(t) ==
    /\ load[t] # None /\ load[t].chapters = None
    /\ load' = [load EXCEPT ![t].chapters = ListCourseModules]
    /\ UNCHANGED <<faults, rows, made, view, calls, again, crashed, ops, emptied, behind>>

ReadLessons(t) ==
    /\ load[t] # None /\ load[t].lessons = None
    /\ load' = [load EXCEPT ![t].lessons = ListLessonsByCourse]
    /\ UNCHANGED <<faults, rows, made, view, calls, again, crashed, ops, emptied, behind>>

\* The next refresh starts, if one waits.
Settle(t) ==
    /\ load' = [load EXCEPT ![t] = IF again[t] THEN [chapters |-> None, lessons |-> None] ELSE None]
    /\ again' = [again EXCEPT ![t] = FALSE]

Render(t) ==
    /\ load[t] # None /\ load[t].chapters # None /\ load[t].lessons # None
    /\ view' = [view EXCEPT ![t] = Outline(load[t].chapters, load[t].lessons)]
    /\ Settle(t)
    /\ behind' = IF again[t] THEN behind \ {t} ELSE behind
    /\ UNCHANGED <<faults, rows, made, calls, crashed, ops, emptied>>

\* Either list fails: the page logs it and renders a course without chapters.
RenderEmpty(t) ==
    /\ load[t] # None
    /\ faults < MaxFaults /\ faults' = faults + 1
    /\ view' = [view EXCEPT ![t] = <<>>]
    /\ Settle(t)
    /\ behind' = IF again[t] THEN behind \ {t} ELSE behind \cup {t}
    /\ UNCHANGED <<rows, made, calls, crashed, ops, emptied>>

\* The teacher loads the page again (bound: only with a change still to come).
Reload(t) ==
    /\ ops < MaxOps
    /\ \A i \in DOMAIN calls : calls[i].who # t
    /\ load[t] = None /\ (t \in behind \/ t \in crashed)
    /\ load' = [load EXCEPT ![t] = [chapters |-> None, lessons |-> None]]
    /\ crashed' = crashed \ {t}
    /\ behind' = behind \ {t}
    /\ UNCHANGED <<faults, rows, made, view, calls, again, ops, emptied>>

Next ==
    \/ \E t \in Teachers :
         \/ \E p \in ShownParents(t) : Add(t, p)
         \/ \E item \in ShownRows(t) : Edit(t, item) \/ Delete(t, item)
         \/ ReadChapters(t) \/ ReadLessons(t) \/ Render(t) \/ RenderEmpty(t) \/ Reload(t)
    \/ \E i \in DOMAIN calls :
         CreateRow(i) \/ UpdateRow(i) \/ DeleteRow(i) \/ Refuse(i) \/ Answer(i) \/ Fail(i)

Spec == Init /\ [][Next]_vars

-----------------------------------------------------------------------------

\* The rows and the calls keep their shapes, every lesson has its chapter,
\* and a refresh waits only for another one.
TypeOK ==
    /\ \A r \in Live : /\ r <= made
                       /\ rows[r].order \in 0..MaxRows /\ rows[r].text \in {0, 1}
                       /\ rows[r].parent = Course \/ rows[r].parent \in Children(Course)
    /\ \A i \in DOMAIN calls : calls[i].stage \in {"sent", "done", "refused"}
    /\ \A t \in Teachers : again[t] => load[t] # None
    /\ crashed \subseteq Teachers

\* A new chapter or lesson comes after every row its author saw when adding
\* it, whatever the others add and rename at the same time, as long as no row
\* of that parent has ever been deleted: nextOrder is a count, so that after a
\* deletion it falls among the order_index values still in use.
NewIsLast ==
    \A r \in Live : rows[r].parent \notin emptied =>
        \A s \in rows[r].seen \cap Live : Before(s, r)

\* A teacher whose calls are answered and whose page has settled sees the
\* chapters and lessons as they are, unless somebody else has changed them since
\* the last refresh began or a call or refresh failed: of several refreshes none
\* is lost, and each reads both lists after the change it follows.
ScreenIsTrue ==
    \A t \in Teachers \ (behind \cup crashed) :
        load[t] = None /\ (\A i \in DOMAIN calls : calls[i].who # t) =>
            view[t] = Outline(ListCourseModules, ListLessonsByCourse)

\* The order of the rows and what each teacher sees of them (page.tsx, the
\* dialogs of chapters and lessons).
OutlineHolds == NewIsLast /\ ScreenIsTrue
=============================================================================
