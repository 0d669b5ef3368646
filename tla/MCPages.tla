------------------------------ MODULE MCPages -------------------------------
(***************************************************************************)
(* The course page of one viewer and the exercises step of a lesson, on    *)
(* small instances.  A behaviour has one of them open; the variables of    *)
(* the other stay None.                                                    *)
(***************************************************************************)
EXTENDS Naturals, Sequences, TLC

CONSTANTS
    viewer, other,  \* the viewer of the course page and somebody else
    Chunks,         \* two chunks of the lesson
    None

VARIABLES
    open,  \* the screen of this behaviour
    owner, orgRole, courseRole, join, page, load, busy, clicks, elsewhere,
    removed, rows, jobs, tab, old, runs, ops, reads, used

vars == <<open,
          owner, orgRole, courseRole, join, page, load, busy, clicks,
          elsewhere, removed, rows, jobs, tab, old, runs, ops, reads, used>>

SameChunks == Permutations(Chunks)

Course == INSTANCE CoursePage WITH
    Users <- {viewer, other}, Viewers <- {viewer}, MaxClicks <- 2, MaxElse <- 2

Exercises == INSTANCE ExerciseTab WITH
    Chunks <- Chunks, MaxForms <- 1, MaxRows <- 2, MaxDeeds <- 2, MaxLeaves <- 1,
    Overtaking <- FALSE, Lossy <- TRUE

-----------------------------------------------------------------------------
Init ==
    \/ /\ open = "course" /\ Course!Init
       /\ rows = None /\ jobs = None /\ tab = None /\ old = None
       /\ runs = None /\ ops = None /\ reads = None /\ used = None
    \/ /\ open = "exercises" /\ Exercises!Init
       /\ owner = None /\ orgRole = None /\ courseRole = None /\ join = None
       /\ load = None /\ busy = None /\ clicks = None /\ elsewhere = None
       /\ removed = None

Next ==
    \/ /\ open = "course" /\ Course!Next
       /\ UNCHANGED <<open,
                    rows, jobs, tab, old, runs, ops, reads, used>>
    \/ /\ open = "exercises" /\ Exercises!Next
       /\ UNCHANGED <<open,
                    owner, orgRole, courseRole, join, load, busy, clicks,
                    elsewhere, removed>>

Spec == Init /\ [][Next]_vars

-----------------------------------------------------------------------------
\* The shape of the state of each screen.
TypeOK ==
    /\ open = "course" => Course!TypeOK
    /\ open = "exercises" => Exercises!TypeOK

\* The services accept what the course page offers, who is locked out can ask
\* to join, and the page's requests are the stored ones (the four parts of
\* PageHolds of CoursePage: page.tsx, course-lock-screen.tsx, course-mode-
\* toggle.tsx, join-requests-tab.tsx).
PageHolds == open = "course" => Course!PageHolds

\* The list of exercises at rest is the list stored, and every spinner has a
\* run that will answer for it (AtRestTrue and SpinnerHasRun of ExerciseTab:
\* tab-exercises.tsx).
TabHolds == open = "exercises" => Exercises!TabHolds

=============================================================================
