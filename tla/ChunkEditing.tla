----------------------------- MODULE ChunkEditing -----------------------------
(***************************************************************************)
(* The teacher's hand edits of a transcript: the buttons of the chunk      *)
(* editor (merge, delete, split, move a sentence over the boundary), which *)
(* go through server actions and so reach the server one at a time, and    *)
(* the sentence editor, whose saves are calls of their own and overlap     *)
(* them.  Rows live in PostgreSQL, the chunks' texts and the sentences in  *)
(* FoundationDB; no call covers both.                                      *)
(***************************************************************************)
EXTENDS Naturals, FiniteSets, SequencesExt

CONSTANTS
    Length,    \* sentences of the transcript; sentence i runs from i - 1 to i
    Ids,       \* chunk ids, in the order they are given out
    MaxQueue,  \* bound: clicks waiting for the server
    MaxClicks, \* bound: clicks of one visit
    Reworded,  \* bound: the sentences that get edited
    MaxEdits,  \* bound: sentence saves in flight
    None

Sentences == 1..Length
Times == 0..Length

VARIABLES
    rows,     \* PostgreSQL: chunk id -> [from, to], None if there is no row
    text,     \* FoundationDB: chunk id -> its text: the sentences in their wording
    words,    \* FoundationDB: sentence -> 1 once it was edited
    shown,    \* the screen's list of chunks
    busy,     \* mutatingChunkId, None
    error,    \* mutatingError is shown
    queue,    \* server actions, the first one is being served
    server,   \* what the served action has read and how far it is
    reloads,  \* list calls in flight: what each has read
    edits,    \* sentence saves in flight
    loading,  \* isReloadingChunks: the list is hidden
    made,     \* chunk ids given out
    clicks,   \* clicks so far
    damaged,  \* history: a store failed, or a merge bridged a deleted chunk
    mixed,    \* history: two edits were in flight at a time
    overtaken \* history: two list calls were in flight at a time

stores == <<rows, text, words, made>>
screen == <<shown, busy, error, loading>>
calls == <<queue, server, reloads, edits>>
history == <<damaged, mixed, overtaken>>
vars == <<stores, screen, calls, clicks, history>>

-----------------------------------------------------------------------------

Rows(rs) == {c \in Ids : rs[c] # None}

\* ListLessonTranscriptChunks after ReorderLessonChunks: by start.
Listed(rs) ==
    LET order == SetToSortSeq(Rows(rs), LAMBDA a, b : rs[a].from < rs[b].from)
    IN  [i \in DOMAIN order |-> [id |-> order[i], from |-> rs[order[i]].from, to |-> rs[order[i]].to]]

Adjacent(rs, a, b) ==
    \E i \in 1..(Cardinality(Rows(rs)) - 1) : Listed(rs)[i].id = a /\ Listed(rs)[i + 1].id = b

\* BuildChunkTranscript: the sentences that start in the half-open range.
Text(wording, from, to) == {<<i, wording[i]>> : i \in {s \in Sentences : from <= s - 1 /\ s - 1 < to}}

Init ==
    /\ \E cut \in 1..(Length - 1) :
         rows = [c \in Ids |-> IF c = 1 THEN [from |-> 0, to |-> cut]
                               ELSE IF c = 2 THEN [from |-> cut, to |-> Length] ELSE None]
    /\ words = [s \in Sentences |-> 0]
    /\ text = [c \in Ids |-> IF rows[c] = None THEN {} ELSE Text(words, rows[c].from, rows[c].to)]
    /\ shown = Listed(rows)
    /\ busy = None /\ error = FALSE
    /\ queue = <<>> /\ server = None
    /\ reloads = <<>> /\ edits = <<>>
    /\ loading = FALSE /\ made = 2 /\ clicks = 0
    /\ damaged = FALSE /\ mixed = FALSE /\ overtaken = FALSE

-----------------------------------------------------------------------------
(* The buttons.  Only the chunk that is being changed is disabled.         *)

Op(name, a, b, at) == [op |-> name, a |-> a, b |-> b, at |-> at]

\* getChunkSegments: the starts of the sentences shown under a chunk.
Starts(chunk) == {t \in 0..(Length - 1) : chunk.from <= t /\ t < chunk.to}

MergeButtons(i) ==
    {Op("merge", shown[k].id, shown[k + 1].id, 0) : k \in {i - 1, i} \cap 1..(Len(shown) - 1)}

\* Up: the first of several sentences; the boundary becomes the second's start.
MoveUpButtons(i) ==
    {Op("move", shown[i - 1].id, shown[i].id, t) :
        t \in IF i = 1 THEN {} ELSE {x \in Starts(shown[i]) : x = shown[i].from + 1}}

\* Down: the last sentence; the boundary becomes its start.
MoveDownButtons(i) ==
    {Op("move", shown[i].id, shown[i + 1].id, t) :
        t \in IF i = Len(shown) THEN {} ELSE {x \in Starts(shown[i]) : x = shown[i].to - 1}}

SplitButtons(i) == {Op("split", shown[i].id, None, t) : t \in Starts(shown[i]) \ {shown[i].from}}

Buttons(i) ==
    MergeButtons(i) \cup MoveUpButtons(i) \cup MoveDownButtons(i) \cup SplitButtons(i)
        \cup {Op("delete", shown[i].id, None, 0)}

Click(i, op) ==
    /\ ~loading
    /\ busy # shown[i].id
    /\ op \in Buttons(i)
    /\ Len(queue) < MaxQueue
    /\ clicks < MaxClicks /\ clicks' = clicks + 1
    /\ queue' = Append(queue, op)
    /\ busy' = shown[i].id
    /\ error' = FALSE
    /\ mixed' = (mixed \/ edits # <<>>)
    /\ UNCHANGED <<stores, shown, loading, server, reloads, edits, damaged, overtaken>>

-----------------------------------------------------------------------------
(* The server's half of the first action of the queue.                     *)

Served == queue[1]
Serving(stage) == queue # <<>> /\ server # None /\ server.stage = stage
Snap(c) == server.rows[c]

\* The action returns, {ok: false} as well as {ok: true}: the list is loaded.
Answered ==
    /\ queue' = Tail(queue)
    /\ server' = None
    /\ reloads' = Append(reloads, None)
    /\ loading' = TRUE
    /\ overtaken' = (overtaken \/ reloads # <<>>)
    /\ UNCHANGED <<shown, busy, error, edits, mixed>>

\* The call itself breaks: runMutation's catch, no list.
Thrown ==
    /\ queue' = Tail(queue)
    /\ server' = None
    /\ error' = TRUE
    /\ busy' = None
    /\ UNCHANGED <<shown, loading, reloads, edits, mixed, overtaken>>

Valid(op) ==
    /\ rows[op.a] # None
    /\ op.b # None => rows[op.b] # None
    /\ op.op = "merge" => Adjacent(rows, op.a, op.b) \/ Adjacent(rows, op.b, op.a)
    /\ op.op = "split" => op.at > rows[op.a].from /\ op.at < rows[op.a].to
    /\ op.op = "move" => /\ Adjacent(rows, op.a, op.b)
                         /\ op.at > rows[op.a].from /\ op.at < rows[op.b].to

\* The reads of Merge, Delete, Split and AdjustBoundary before they write.
ReadRows ==
    /\ queue # <<>> /\ server = None
    /\ \/ /\ Valid(Served)
          /\ server' = [stage |-> IF Served.op = "merge" THEN "merge" ELSE "commit",
                        rows |-> rows, words |-> words]
          /\ UNCHANGED <<queue, reloads, edits, screen, mixed, overtaken>>
       \/ ~Valid(Served) /\ Answered
       \/ Thrown                  \* never reached the server
    /\ UNCHANGED <<clicks, stores, damaged>>

\* Merge writes the joined text before its transaction.
WriteMerged ==
    /\ Serving("merge")
    /\ \/ /\ text' = [text EXCEPT ![Served.a] = @ \cup text[Served.b]]
          /\ server' = [server EXCEPT !.stage = "commit"]
          /\ UNCHANGED <<queue, reloads, edits, screen, mixed, overtaken>>
       \/ Answered /\ UNCHANGED text
    /\ UNCHANGED <<clicks, rows, words, made, damaged>>

Merged(rs, op) == [rs EXCEPT ![op.b] = None, ![op.a] = [from |-> Snap(op.a).from, to |-> Snap(op.b).to]]

Split(rs, op, new) ==
    [rs EXCEPT ![op.a] = [from |-> Snap(op.a).from, to |-> op.at],
               ![new] = [from |-> op.at, to |-> Snap(op.a).to]]

\* AdjustBoundary reads both rows again in its transaction.
Moved(rs, op) == [rs EXCEPT ![op.a].to = op.at, ![op.b].from = op.at]

\* A merge over a deleted chunk takes its seconds but not its sentences.
Bridges(op) == op.op = "merge" /\ Snap(op.a).to < Snap(op.b).from

Commit ==
    /\ Serving("commit")
    /\ \/ /\ CASE Served.op = "merge"  -> rows' = Merged(rows, Served) /\ UNCHANGED made
               [] Served.op = "delete" -> rows' = [rows EXCEPT ![Served.a] = None] /\ UNCHANGED made
               [] Served.op = "move"   -> rows' = Moved(rows, Served) /\ UNCHANGED made
               [] Served.op = "split"  -> /\ made + 1 \in Ids
                                         /\ made' = made + 1
                                         /\ rows' = Split(rows, Served, made + 1)
          /\ server' = [server EXCEPT !.stage = "texts"]
          /\ damaged' = (damaged \/ Bridges(Served))
          /\ UNCHANGED <<queue, reloads, edits, screen, mixed, overtaken>>
       \/ /\ Answered
          /\ damaged' = (damaged \/ Served.op = "merge")
          /\ UNCHANGED <<rows, made>>
    /\ UNCHANGED <<clicks, text, words>>

\* The chunks whose text is written, or dropped, after the transaction.
Rewritten == CASE Served.op = "split" -> {Served.a, made}
               [] Served.op = "move"  -> {Served.a, Served.b}
               [] OTHER              -> {}
Dropped == CASE Served.op = "merge"  -> {Served.b}
             [] Served.op = "delete" -> {Served.a}
             [] OTHER               -> {}

\* Each write may fail; the code only warns.  The texts are built from the
\* sentences read at the start.
WriteTexts ==
    /\ Serving("texts")
    /\ \E done \in SUBSET Rewritten :
         /\ text' = [c \in Ids |->
              IF c \in Dropped THEN {}
              ELSE IF c \in done THEN Text(server.words, rows[c].from, rows[c].to) ELSE text[c]]
         /\ damaged' = (damaged \/ done # Rewritten)
    /\ Answered \/ Thrown
    /\ UNCHANGED <<clicks, rows, words, made>>

-----------------------------------------------------------------------------
(* The list calls.                                                         *)

ReadList(i) ==
    /\ reloads[i] = None
    /\ reloads' = [reloads EXCEPT ![i] = Listed(rows)]
    /\ UNCHANGED <<clicks, stores, screen, queue, server, edits, history>>

ListArrives(i) ==
    /\ \/ reloads[i] # None /\ shown' = reloads[i] /\ UNCHANGED error
       \/ error' = TRUE /\ UNCHANGED shown
    /\ reloads' = RemoveAt(reloads, i)
    /\ loading' = FALSE
    /\ busy' = None
    /\ UNCHANGED <<clicks, stores, queue, server, edits, history>>

-----------------------------------------------------------------------------
(* The sentence editor: updateTranscriptSegment, one call per row.         *)

SaveSentence(s) ==
    /\ words[s] = 0
    /\ Len(edits) < MaxEdits
    /\ \A i \in DOMAIN edits : edits[i].sentence # s
    /\ edits' = Append(edits, [sentence |-> s, words |-> None, saved |-> FALSE])
    /\ mixed' = (mixed \/ edits # <<>> \/ queue # <<>>)
    /\ UNCHANGED <<clicks, stores, screen, queue, server, reloads, damaged, overtaken>>

LoadSegments(i) ==
    /\ edits[i].words = None
    /\ edits' = [edits EXCEPT ![i].words = [words EXCEPT ![edits[i].sentence] = 1]]
    /\ UNCHANGED <<clicks, stores, screen, queue, server, reloads, history>>

\* SaveSegments writes the whole list that was loaded.
SaveSegments(i) ==
    /\ edits[i].words # None /\ ~edits[i].saved
    /\ words' = edits[i].words
    /\ edits' = [edits EXCEPT ![i].saved = TRUE]
    /\ UNCHANGED <<clicks, rows, text, made, screen, queue, server, reloads, history>>

\* Mutant of RebuildTexts: only the lesson's own text is rebuilt.
RebuildNothing(i) ==
    /\ edits[i].saved
    /\ edits' = RemoveAt(edits, i)
    /\ UNCHANGED <<clicks, stores, screen, queue, server, reloads, history>>

\* The text of every chunk is built from the list that was loaded.
RebuildTexts(i) ==
    /\ edits[i].saved
    /\ edits' = RemoveAt(edits, i)
    /\ \/ /\ text' = [c \in Ids |-> IF rows[c] = None THEN text[c]
                                    ELSE Text(edits[i].words, rows[c].from, rows[c].to)]
          /\ UNCHANGED damaged
       \/ damaged' = TRUE /\ UNCHANGED text
    /\ UNCHANGED <<clicks, rows, words, made, screen, queue, server, reloads, mixed, overtaken>>

EditFails(i) ==
    /\ ~edits[i].saved
    /\ edits' = RemoveAt(edits, i)
    /\ UNCHANGED <<clicks, stores, screen, queue, server, reloads, history>>

Next ==
    \/ \E i \in DOMAIN shown : \E op \in Buttons(i) : Click(i, op)
    \/ ReadRows \/ WriteMerged \/ Commit \/ WriteTexts
    \/ \E i \in DOMAIN reloads : ReadList(i) \/ ListArrives(i)
    \/ \E s \in Reworded : SaveSentence(s)
    \/ \E i \in DOMAIN edits :
         LoadSegments(i) \/ SaveSegments(i) \/ RebuildTexts(i) \/ EditFails(i)

Spec == Init /\ [][Next]_vars

-----------------------------------------------------------------------------

AtRest == queue = <<>> /\ reloads = <<>> /\ edits = <<>>

\* The rows, the calls and the screen keep their shapes, a screen that is
\* loading has a list call, and a chunk marked as changing has a call.
TypeOK ==
    /\ \A c \in Rows(rows) : rows[c] \in [from : Times, to : Times] /\ c <= made
    /\ \A c \in Ids : text[c] \subseteq Sentences \X {0, 1}
    /\ words \in [Sentences -> {0, 1}]
    /\ busy \in Ids \cup {None} /\ error \in BOOLEAN
    /\ Len(queue) <= MaxQueue /\ Len(edits) <= MaxEdits
    /\ server # None => queue # <<>> /\ server.stage \in {"merge", "commit", "texts"}
    /\ loading => reloads # <<>>
    /\ busy # None => queue # <<>> \/ reloads # <<>>

\* However merges, deletions, splits and moves clicked on lists of any age
\* follow each other, and wherever one fails, the chunks never overlap and
\* none is empty (Merge, Split and AdjustBoundary check what they read).
ChunksApart ==
    /\ \A c \in Rows(rows) : rows[c].from < rows[c].to
    /\ \A c, d \in Rows(rows) : c # d => rows[c].to <= rows[d].from \/ rows[d].to <= rows[c].from

\* Once everything is answered, the text of every chunk is that of its
\* sentences in their latest wording, unless a store failed (the code warns
\* and goes on), two edits overlapped, or a merge closed the gap a deleted chunk
\* had left: its range then covers sentences its joined text has not.
TextIsOwn ==
    AtRest /\ ~damaged /\ ~mixed =>
        \A c \in Rows(rows) : text[c] = Text(words, rows[c].from, rows[c].to)

\* Once everything is answered, a screen without an error shows the chunks as
\* they are, unless two list calls were in flight together: runMutation loads
\* the list after a refused action too, and says so when a call breaks.
ShownIsCurrent ==
    AtRest /\ ~error /\ ~overtaken => shown = Listed(rows)

\* What the chunk editor and the service keep between them: the partition, the
\* texts and the list shown (chunkops.go, analysis-chunk-mutations.ts).
ChunksHold == ChunksApart /\ TextIsOwn /\ ShownIsCurrent
=============================================================================
