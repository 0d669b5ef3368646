---------------------------- MODULE LessonSettings ----------------------------
(***************************************************************************)
(* The settings of a lesson on the teacher's screen: question language,    *)
(* audio language, number of attempts and feedback mode.  Each control     *)
(* shows its new value at once, is disabled while its own save runs, and   *)
(* falls back when that save fails.  The first three are saved by one RPC  *)
(* that writes the whole row, so a save carries what the screen shows of   *)
(* the other fields; another teacher's rename goes through the same RPC.   *)
(***************************************************************************)
EXTENDS Naturals, Sequences

CONSTANTS
    Values,    \* values of a setting
    MaxClicks, \* bound: changes made in one visit
    MaxNames,  \* bound: titles given by the other teacher
    None

Fields == {"language", "audio", "attempts", "feedback"}
Titles == 0..MaxNames

VARIABLES
    row,      \* the lessons row: the four settings and the title
    shown,    \* the four states of useLessonAnalysisSettings
    saving,   \* the fields whose control is disabled
    title,    \* the title the page was loaded with
    queue,    \* server actions, the first one is being served
    existing, \* the row UpdateLesson has fetched for that action, None
    rename,   \* the other teacher's call: None, or what it has fetched
    clicks,
    failed,   \* history: fields one of whose saves broke
    unsure,   \* history: fields stored by a save that broke, and not saved since
    raced     \* history: a rename overlapped a save

vars == <<row, shown, saving, title, queue, existing, rename, clicks, failed, unsure, raced>>

Row == [language : Values, audio : Values, attempts : Values, feedback : Values, title : Titles]

Init ==
    /\ row \in [language : Values, audio : Values, attempts : Values, feedback : Values, title : {0}]
    /\ shown = [f \in Fields |-> row[f]]
    /\ saving = {} /\ title = row.title
    /\ queue = <<>> /\ existing = None /\ rename = None
    /\ clicks = 0 /\ failed = {} /\ unsure = {} /\ raced = FALSE

-----------------------------------------------------------------------------
(* What each control sends.  None stands for a field the request leaves    *)
(* out; the feedback mode has an RPC of its own.                           *)

Feedback(value) == [feedback |-> value]

\* Mutant of Language: the attempts are those of the first render.
LanguageOld(value) == [language |-> value, audio |-> None, attempts |-> CHOOSE v \in Values : TRUE, title |-> title]

Language(value) == [language |-> value, audio |-> None, attempts |-> shown.attempts, title |-> title]

AudioLanguage(value) == [language |-> shown.language, audio |-> value, attempts |-> shown.attempts, title |-> title]

MaxAttempts(value) == [language |-> shown.language, audio |-> None, attempts |-> value, title |-> title]

Request(field, value) ==
    CASE field = "language" -> Language(value)
      [] field = "audio"    -> AudioLanguage(value)
      [] field = "attempts" -> MaxAttempts(value)
      [] field = "feedback" -> Feedback(value)

Change(field, value) ==
    /\ field \notin saving
    /\ value # shown[field]
    /\ clicks < MaxClicks /\ clicks' = clicks + 1
    /\ queue' = Append(queue, [field |-> field, value |-> value, previous |-> shown[field],
                               body |-> Request(field, value)])
    /\ shown' = [shown EXCEPT ![field] = value]
    /\ saving' = saving \cup {field}
    /\ raced' = (raced \/ rename # None)
    /\ UNCHANGED <<row, title, existing, rename, failed, unsure>>

-----------------------------------------------------------------------------
(* The server.                                                             *)

\* UpdateLesson: a field that is left out is written as it was fetched.
Stored(body, old) ==
    [old EXCEPT !.language = IF body.language = None THEN @ ELSE body.language,
                !.audio    = IF body.audio = None THEN @ ELSE body.audio,
                !.attempts = IF body.attempts = None THEN @ ELSE body.attempts,
                !.title    = body.title]

\* The UPDATE sets these columns and leaves the feedback mode alone.
Written(new) == [new EXCEPT !.feedback = row.feedback]

Served == Head(queue)

Fetch ==
    /\ queue # <<>> /\ Served.field # "feedback" /\ existing = None
    /\ existing' = row
    /\ UNCHANGED <<row, shown, saving, title, queue, rename, clicks, failed, unsure, raced>>

NewRow ==
    IF Served.field = "feedback" THEN [row EXCEPT !.feedback = Served.body.feedback]
    ELSE Written(Stored(Served.body, existing))

Ready == queue # <<>> /\ (Served.field = "feedback" \/ existing # None)

Answer ==
    /\ queue' = Tail(queue)
    /\ existing' = None
    /\ saving' = saving \ {Served.field}
    /\ UNCHANGED <<title, rename, clicks, raced>>

Saved ==
    /\ Ready
    /\ row' = NewRow
    /\ unsure' = unsure \ {Served.field}
    /\ Answer
    /\ UNCHANGED <<shown, failed>>

\* {ok: false}: the control falls back; the row may have been written.
Failed ==
    /\ queue # <<>>
    /\ shown' = [shown EXCEPT ![Served.field] = Served.previous]
    /\ failed' = failed \cup {Served.field}
    /\ Answer
    /\ \/ UNCHANGED <<row, unsure>>
       \/ Ready /\ row' = NewRow /\ unsure' = unsure \cup {Served.field}

-----------------------------------------------------------------------------
(* The course page of another teacher: LessonActions saves a new title,    *)
(* leaving language, audio language and attempts out.                      *)

StartRename ==
    /\ rename = None /\ row.title < MaxNames
    /\ rename' = row
    /\ raced' = (raced \/ queue # <<>>)
    /\ UNCHANGED <<row, shown, saving, title, queue, existing, clicks, failed, unsure>>

FinishRename ==
    /\ rename # None
    /\ row' = Written(Stored([language |-> None, audio |-> None, attempts |-> None,
                              title |-> rename.title + 1], rename))
    /\ rename' = None
    /\ UNCHANGED <<shown, saving, title, queue, existing, clicks, failed, unsure, raced>>

\* A fresh visit of the page.
Reload ==
    /\ queue = <<>>
    /\ shown # [f \in Fields |-> row[f]] \/ title # row.title
    /\ shown' = [f \in Fields |-> row[f]]
    /\ title' = row.title
    /\ failed' = {} /\ unsure' = {} /\ raced' = (rename # None)
    /\ UNCHANGED <<row, saving, queue, existing, rename, clicks>>

Next ==
    \/ \E f \in Fields, v \in Values : Change(f, v)
    \/ Fetch \/ Saved \/ Failed
    \/ StartRename \/ FinishRename
    \/ Reload

Spec == Init /\ [][Next]_vars

-----------------------------------------------------------------------------

\* The row keeps its shape, and a control is disabled exactly while one save
\* of its field is on its way (the disabled={saving...} of the settings bar).
TypeOK ==
    /\ row \in Row
    /\ shown \in [Fields -> Values]
    /\ title \in Titles
    /\ saving = {queue[i].field : i \in DOMAIN queue}
    /\ \A i, j \in DOMAIN queue : queue[i].field = queue[j].field => i = j

\* Once everything is answered, the screen shows what is stored, however
\* the four controls were used while the others were being saved, as long as no
\* save broke and no rename overlapped one (every request carries the latest
\* values of the other fields, the refs of use-lesson-analysis-settings).
SettingsShown ==
    queue = <<>> /\ failed = {} /\ ~raced => \A f \in Fields : shown[f] = row[f]

\* "saving the OUTPUT language never clears the audio one": whatever broke
\* in between, the audio language and the feedback mode are those shown, unless
\* a save of their own was stored, broke, and was not followed by a good one.
AudioIsKept ==
    queue = <<>> /\ ~raced =>
        \A f \in {"audio", "feedback"} \ unsure : shown[f] = row[f]

\* The four controls and the stored row agree (use-lesson-analysis-settings.ts).
SettingsHold == SettingsShown /\ AudioIsKept
=============================================================================
