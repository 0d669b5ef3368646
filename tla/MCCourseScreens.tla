-------------------------- MODULE MCCourseScreens ---------------------------
(***************************************************************************)
(* The teacher's editing screens on small instances: the outline of a      *)
(* course, the settings of a lesson, the chunks of a lesson.  A behaviour  *)
(* has one of them open; the variables of the others stay None.            *)
(***************************************************************************)
EXTENDS Naturals, Sequences, TLC

CONSTANTS
    Teachers,  \* two teachers who edit the outline
    None

VARIABLES
    open,  \* the screen of this behaviour
    rows, made, view, calls, load, again, crashed, ops, faults, emptied,
    behind, row, shown, saving, title, queue, existing, rename, clicks,
    failed, unsure, raced, text, words, busy, error, server, reloads, edits,
    loading, damaged, mixed, overtaken

vars == <<open,
          rows, made, view, calls, load, again, crashed, ops, faults, emptied,
          behind, row, shown, saving, title, queue, existing, rename, clicks,
          failed, unsure, raced, text, words, busy, error, server, reloads,
          edits, loading, damaged, mixed, overtaken>>

SameTeachers == Permutations(Teachers)

Outline == INSTANCE CourseOutline WITH
    MaxRows <- 3, MaxOps <- 3, MaxCalls <- 2, MaxFaults <- 1

Settings == INSTANCE LessonSettings WITH
    Values <- {0, 1}, MaxClicks <- 4, MaxNames <- 1

Chunks == INSTANCE ChunkEditing WITH
    Length <- 3, Ids <- {1, 2, 3}, MaxQueue <- 2, MaxClicks <- 3, Reworded <- {2}, MaxEdits <- 1

-----------------------------------------------------------------------------
Init ==
    \/ /\ open = "outline" /\ Outline!Init
       /\ row = None /\ shown = None /\ saving = None /\ title = None
       /\ queue = None /\ existing = None /\ rename = None /\ clicks = None
       /\ failed = None /\ unsure = None /\ raced = None /\ text = None
       /\ words = None /\ busy = None /\ error = None /\ server = None
       /\ reloads = None /\ edits = None /\ loading = None /\ damaged = None
       /\ mixed = None /\ overtaken = None
    \/ /\ open = "settings" /\ Settings!Init
       /\ rows = None /\ made = None /\ view = None /\ calls = None
       /\ load = None /\ again = None /\ crashed = None /\ ops = None
       /\ faults = None /\ emptied = None /\ behind = None /\ text = None
       /\ words = None /\ busy = None /\ error = None /\ server = None
       /\ reloads = None /\ edits = None /\ loading = None /\ damaged = None
       /\ mixed = None /\ overtaken = None
    \/ /\ open = "chunks" /\ Chunks!Init
       /\ view = None /\ calls = None /\ load = None /\ again = None
       /\ crashed = None /\ ops = None /\ faults = None /\ emptied = None
       /\ behind = None /\ row = None /\ saving = None /\ title = None
       /\ existing = None /\ rename = None /\ failed = None /\ unsure = None
       /\ raced = None

Next ==
    \/ /\ open = "outline" /\ Outline!Next
       /\ UNCHANGED <<open,
                    row, shown, saving, title, queue, existing, rename,
                    clicks, failed, unsure, raced, text, words, busy, error,
                    server, reloads, edits, loading, damaged, mixed, overtaken>>
    \/ /\ open = "settings" /\ Settings!Next
       /\ UNCHANGED <<open,
                    rows, made, view, calls, load, again, crashed, ops,
                    faults, emptied, behind, text, words, busy, error, server,
                    reloads, edits, loading, damaged, mixed, overtaken>>
    \/ /\ open = "chunks" /\ Chunks!Next
       /\ UNCHANGED <<open,
                    view, calls, load, again, crashed, ops, faults, emptied,
                    behind, row, saving, title, existing, rename, failed,
                    unsure, raced>>

Spec == Init /\ [][Next]_vars

-----------------------------------------------------------------------------
\* The shape of the state of each screen.
TypeOK ==
    /\ open = "outline" => Outline!TypeOK
    /\ open = "settings" => Settings!TypeOK
    /\ open = "chunks" => Chunks!TypeOK

\* New chapters and lessons come after those their author saw, and a settled
\* page shows the rows as they are (NewIsLast and ScreenIsTrue of
\* CourseOutline: the dialogs that compute order_index, and router.refresh).
OutlineHolds == open = "outline" => Outline!OutlineHolds

\* The four settings shown are those stored, and no save resets the audio
\* language or the feedback mode (SettingsShown and AudioIsKept of
\* LessonSettings: use-lesson-analysis-settings.ts).
SettingsHold == open = "settings" => Settings!SettingsHold

\* Chunks never overlap, carry the text of their sentences and are shown as
\* they are (ChunksApart, TextIsOwn and ShownIsCurrent of ChunkEditing:
\* chunkops.go, analysis-chunk-mutations.ts).
ChunksHold == open = "chunks" => Chunks!ChunksHold

=============================================================================
