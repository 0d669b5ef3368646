--------------------------- MODULE StudentPlayer ---------------------------
(***************************************************************************)
(* The student's video player (student-lesson-view.tsx, video-player.tsx,  *)
(* lesson-sidebar.tsx and the transcript panel) and the watch progress it  *)
(* reports (watch_progress.go, watch_coverage.go).                         *)
(*                                                                         *)
(* Playback stops at the questions of the lesson: the view pauses when it  *)
(* crosses an unanswered one, a seek past it is pulled back, a resumed     *)
(* position that already reached one opens it, and the end of the video    *)
(* opens whatever is left.  The player saves the resume position and the   *)
(* stretch really played, never past the next unanswered question.         *)
(*                                                                         *)
(* Time is in whole seconds: playback advances one second at a time, which *)
(* is inside both continuity windows of the code (1.5 s), and a larger     *)
(* step is a jump.  `page' holds the browser's state and refs; saved,      *)
(* covered and stored are the server's; cleared is history.  The answers   *)
(* themselves are in StudentAttempt: here a question is passed.            *)
(***************************************************************************)
EXTENDS Integers, FiniteSets, FiniteSetsExt

CONSTANTS
  Items,        \* interactions of the lesson, numbered in list order
  Lessons,      \* the startSeconds functions an instance tries
  Duration,     \* length of the video
  SaveInterval, \* SAVE_INTERVAL_S
  ResumeMin,    \* positions up to this one are not resumed
  MaxMoves,     \* scrubs and pauses of the student
  MaxOpens,     \* visits to the page and failures of the stream
  MaxInFlight,  \* progress calls under way at once
  None

ASSUME PlayerAssumption ==
  /\ Items \subseteq Nat /\ IsFiniteSet(Items) /\ None \notin Nat
  /\ Lessons \subseteq [Items -> Nat]
  /\ Duration \in Nat \ {0} /\ SaveInterval \in Nat \ {0} /\ ResumeMin \in Nat
  /\ {MaxMoves, MaxOpens} \subseteq Nat /\ MaxInFlight \in Nat \ {0}

VARIABLES
  start,    \* startSeconds of each question
  preview,  \* a teacher's ?preview=1 visit
  page,     \* the view and the player in this tab
  saved,    \* the resume position the server keeps
  covered,  \* the seconds of its coverage bitmap
  stored,   \* a submitted attempt exists
  cleared,  \* questions answered in some visit
  moves, opens

vars == <<start, preview, page, saved, covered, stored, cleared, moves, opens>>

Slack == 1
Gap == 1
Seconds == 0 .. Duration

----------------------------------------------------------------------------
(* What is still to be asked. *)

Pending(p) == {i \in Items : start[i] > 0 /\ i \notin p.passed}

Early == {i \in Items : start[i] = 0}

First(S) ==
  IF S = {} THEN None
  ELSE CHOOSE i \in S : \A j \in S : \/ start[i] < start[j]
                                     \/ start[i] = start[j] /\ i <= j

NextGate(p) == First(Pending(p))

(* Mutant: the resume position is saved as it is. *)
CapNone(p) == Duration

(* maxSavablePositionSeconds: the next gate, unless it is a preview. *)
Cap(p) == IF preview \/ NextGate(p) = None THEN Duration ELSE start[NextGate(p)]

----------------------------------------------------------------------------
(* saveProgress: the position, and the stretch played since the last save  *)
(* when no jump happened in between.                                       *)

Report(at, p) ==
  [at |-> at, from |-> IF ~p.seeked /\ at > p.from THEN p.from ELSE at, to |-> at]

(* Mutant: the gate is saved instead of a position before it. *)
SaveAtGate(p) ==
  LET at == IF NextGate(p) = None THEN p.pos ELSE start[NextGate(p)]
  IN IF at = p.lastSaved THEN p
     ELSE [p EXCEPT !.lastSaved = at, !.from = at, !.seeked = FALSE,
                    !.out = @ \cup {Report(at, p)}]

Save(p) ==
  LET at == Min({p.pos, Cap(p)})
  IN IF at = p.lastSaved THEN p
     ELSE [p EXCEPT !.lastSaved = at, !.from = at, !.seeked = FALSE,
                    !.out = @ \cup {Report(at, p)}]

(* handleTimeUpdate: the high-water mark moves with real playback only, and *)
(* the first pending question between the last position and this one stops  *)
(* the video.                                                               *)

Watched(p, t) ==
  IF p.active = None /\ ~p.submitted /\ ~p.loading /\ t - p.prev \in 1 .. Gap
  THEN [p EXCEPT !.high = Max({@, t})] ELSE p

Moved(p, t) == p.loading /\ t - p.initial \in -1 .. 1

Hit(p, t) == First({i \in Pending(p) : p.prev < start[i] /\ t >= start[i]})

TimeUpdate(p, t) ==
  LET q == [Watched(p, t) EXCEPT !.loading = Moved(p, t)]
      open == [q EXCEPT !.prev = t, !.active = Hit(p, t),
                        !.playing = @ /\ Hit(p, t) = None]
  IN CASE p.submitted \/ p.active /= None -> Watched(p, t)
       [] q.loading \/ t = 0 -> q
       [] OTHER -> open

(* handleNativeTimeUpdate: a step backwards or too long is a jump, which   *)
(* re-anchors the stretch; the position is saved every SaveInterval.       *)

Discontinuous(p) == p.pos - p.lastTick \notin 0 .. Gap

Anchored(p) ==
  IF Discontinuous(p) THEN [p EXCEPT !.seeked = TRUE, !.from = p.pos, !.lastTick = p.pos]
  ELSE [p EXCEPT !.lastTick = p.pos]

NativeTick(p) ==
  LET q == Anchored(p)
  IN TimeUpdate(IF q.pos - q.lastSaved >= SaveInterval THEN Save(q) ELSE q, q.pos)

(* A pause is announced by a timeupdate and saved at once. *)
PauseEvent(p) == Save(NativeTick([p EXCEPT !.playing = FALSE]))

----------------------------------------------------------------------------
(* Playing.  While a question is open its card is in the document and the  *)
(* player refuses to play; the first play starts the hit test where the    *)
(* video stands and passes the questions that have no time.                *)

FirstPlay(p) ==
  IF p.played THEN p
  ELSE [p EXCEPT !.played = TRUE, !.loading = FALSE, !.prev = p.pos,
                 !.passed = @ \cup Early]

Play(p) ==
  IF p.active /= None /\ ~p.submitted THEN PauseEvent(p)
  ELSE FirstPlay([p EXCEPT !.playing = TRUE, !.ended = FALSE,
                           !.pos = IF p.ended THEN 0 ELSE @,
                           !.settling = @ \/ p.ended])

(* While a question is open playback stops again at the high-water mark. *)
Held(p) ==
  IF p.active /= None /\ p.playing /\ p.pos >= p.high - Slack THEN PauseEvent(p) ELSE p

(* guardSeek: past the next unanswered question, back to it and open it.  *)
GuardSeek(p) ==
  LET gate == NextGate(p)
  IN IF gate = None \/ p.loading THEN p
     ELSE IF p.pos <= start[gate] + Slack THEN p
     ELSE [p EXCEPT !.pos = start[gate], !.prev = start[gate],
                    !.active = IF @ = None THEN gate ELSE @]

(* The pause that the hit test asked for reaches the player as an event. *)
Announce(p, q) == Held(IF p.playing /\ ~q.playing THEN PauseEvent(q) ELSE q)

(* Mutant: only questions inside the video are asked at its end. *)
HandleEndedInside(p) ==
  IF p.submitted \/ p.active /= None THEN p
  ELSE [p EXCEPT !.active = First({i \in Pending(p) : start[i] <= Duration})]

(* handleEnded: whatever is left is asked now, past the end or not. *)
HandleEnded(p) ==
  IF p.submitted \/ p.active /= None THEN p ELSE [p EXCEPT !.active = NextGate(p)]

----------------------------------------------------------------------------
(* A visit to the page. *)

InitialPosition == IF preview \/ stored THEN 0 ELSE saved

ResumeAt(initial) ==
  IF initial <= ResumeMin \/ initial >= Duration - 1 THEN 0 ELSE initial

(* The gate the resumed position already reached. *)
Missed(initial) ==
  IF preview \/ stored \/ initial = 0 THEN None
  ELSE First({i \in Items : start[i] > 0 /\ initial >= start[i]})

Visit(initial, calls) ==
  [pos |-> ResumeAt(initial), playing |-> FALSE, ended |-> FALSE,
   settling |-> ResumeAt(initial) > 0, failed |-> FALSE,
   initial |-> initial, loading |-> TRUE, played |-> FALSE, prev |-> initial,
   high |-> initial, active |-> Missed(initial),
   passed |-> IF stored THEN Items ELSE {}, submitted |-> stored,
   retaken |-> FALSE, lastSaved |-> -1, from |-> initial, lastTick |-> initial,
   seeked |-> FALSE, out |-> calls]

Init ==
  /\ start \in Lessons /\ preview \in BOOLEAN
  /\ saved = 0 /\ covered = {} /\ stored = FALSE /\ cleared = {}
  /\ moves = 0 /\ opens = 0
  /\ page = Visit(0, {})

Room == Cardinality(page.out) < MaxInFlight

Usable == ~page.failed /\ Room

(* Nothing but the page and the history of it changes. *)
Local ==
  /\ UNCHANGED <<start, preview, saved, covered, stored, opens>>
  /\ cleared' = cleared \cup page'.passed

(* One second of playback; at the end the player pauses and tells the view. *)
Tick ==
  /\ Usable /\ page.playing /\ ~page.settling /\ page.pos < Duration
  /\ LET p == [page EXCEPT !.pos = @ + 1]
         q == Announce(p, NativeTick(p))
         atEnd == [Held(NativeTick([p EXCEPT !.playing = FALSE])) EXCEPT !.ended = TRUE]
     IN page' = IF p.pos = Duration THEN HandleEnded(atEnd) ELSE q
  /\ Local /\ UNCHANGED moves

PlayClick ==
  /\ Usable /\ ~page.playing /\ page.active = None
  /\ page' = Play(page)
  /\ Local /\ UNCHANGED moves

PauseClick ==
  /\ Usable /\ page.playing /\ moves < MaxMoves
  /\ page' = PauseEvent(page)
  /\ moves' = moves + 1
  /\ Local

(* The slider, the markers of the questions, the outline and the transcript *)
(* lead inside the video.                                                  *)
SliderTargets == 0 .. (Duration - 1)
Markers == {start[i] : i \in Items} \cap SliderTargets
OutlineTargets == 0 .. (Duration - 1)

(* handleSeekChange: the slider and the markers tell the view at once. *)
Scrub(x) ==
  /\ Usable /\ moves < MaxMoves /\ x /= page.pos
  /\ LET p == TimeUpdate([page EXCEPT !.pos = x, !.ended = FALSE], x)
     IN page' = Announce(page, [GuardSeek(p) EXCEPT !.settling = TRUE])
  /\ moves' = moves + 1
  /\ Local

(* The outline and the transcript set the position and ask to play: the    *)
(* view hears of it from the media events only.                            *)
OutlineClick(x) ==
  /\ Usable /\ moves < MaxMoves /\ x /= page.pos
  /\ LET p == GuardSeek([page EXCEPT !.pos = x, !.ended = FALSE])
     IN page' = [Play(p) EXCEPT !.settling = TRUE]
  /\ moves' = moves + 1
  /\ Local

(* The `seeked' event: the guard once more, then a timeupdate. *)
Settle ==
  /\ page.settling /\ Room
  /\ LET p == GuardSeek([page EXCEPT !.settling = FALSE])
     IN page' = Announce(p, NativeTick(p))
  /\ Local /\ UNCHANGED moves

(* handleContinue: the next question of this point or before it, else the  *)
(* video goes on, unless it has ended.                                     *)
Continue ==
  /\ Usable /\ page.active /= None /\ ~page.submitted
  /\ LET i == page.active
         p == [page EXCEPT !.passed = @ \cup {i}]
         next == First({j \in Pending(p) : start[j] <= start[i]})
         q == [p EXCEPT !.active = next]
     IN page' = IF next /= None THEN Held(q) ELSE IF page.ended THEN q ELSE Play(q)
  /\ Local /\ UNCHANGED moves

Submit ==
  /\ ~page.submitted /\ page.active = None /\ page.passed = Items
  /\ page' = [page EXCEPT !.submitted = TRUE]
  /\ stored' = (stored \/ ~preview)
  /\ UNCHANGED <<start, preview, saved, covered, cleared, moves, opens>>

(* handleRetake: the page starts over, the stored attempt stays. *)
Retake ==
  /\ page.submitted /\ opens < MaxOpens
  /\ page' = [page EXCEPT !.submitted = FALSE, !.passed = {}, !.active = None,
       !.pos = 0, !.playing = FALSE, !.ended = FALSE, !.settling = page.pos > 0,
       !.prev = 0, !.high = 0, !.loading = TRUE, !.played = FALSE, !.failed = FALSE,
       !.retaken = TRUE, !.lastSaved = -1, !.from = 0, !.lastTick = 0, !.seeked = FALSE]
  /\ opens' = opens + 1
  /\ UNCHANGED <<start, preview, saved, covered, stored, cleared, moves>>

(* The tab is closed and the lesson opened again; calls may still be out. *)
Reopen ==
  /\ opens < MaxOpens
  /\ page' = Visit(InitialPosition, page.out)
  /\ opens' = opens + 1
  /\ UNCHANGED <<start, preview, saved, covered, stored, cleared, moves>>

(* onError shows an overlay; its button refreshes the page for a new URL,  *)
(* which reloads the video at the position the server now knows.           *)
StreamError ==
  /\ ~page.failed /\ opens < MaxOpens
  /\ page' = [page EXCEPT !.failed = TRUE, !.playing = FALSE, !.settling = FALSE]
  /\ opens' = opens + 1
  /\ UNCHANGED <<start, preview, saved, covered, stored, cleared, moves>>

RefreshUrl ==
  /\ page.failed
  /\ LET at == IF page.retaken THEN 0 ELSE ResumeAt(InitialPosition)
     IN page' = GuardSeek([page EXCEPT !.failed = FALSE, !.ended = FALSE,
                  !.initial = InitialPosition, !.pos = at, !.settling = TRUE])
  /\ Local /\ UNCHANGED moves

(* UpdateWatchProgress and AddWatchCoverage; calls are not awaited, so they *)
(* may be lost or arrive in another order.                                  *)
Deliver(c) ==
  /\ saved' = c.at
  /\ covered' = covered \cup (c.from .. (c.to - 1))
  /\ page' = [page EXCEPT !.out = @ \ {c}]
  /\ UNCHANGED <<start, preview, stored, cleared, moves, opens>>

Lose(c) ==
  /\ page' = [page EXCEPT !.out = @ \ {c}]
  /\ Local /\ UNCHANGED moves

Next ==
  \/ Tick \/ PlayClick \/ PauseClick \/ Settle \/ Continue
  \/ \E x \in SliderTargets \cup Markers : Scrub(x)
  \/ \E x \in OutlineTargets : OutlineClick(x)
  \/ Submit \/ Retake \/ Reopen \/ StreamError \/ RefreshUrl
  \/ \E c \in page.out : Deliver(c) \/ Lose(c)

(* The media events arrive, calls come to an end, and the student goes on   *)
(* watching and answering.                                                 *)
GoOn == Tick \/ PlayClick \/ Settle \/ Continue \/ RefreshUrl \/ \E c \in page.out : Deliver(c) \/ Lose(c)

CanGoOn == page.settling \/ page.out /= {} \/ page.failed \/ page.active /= None \/ ~page.submitted

Fairness == []<>~CanGoOn \/ []<><<GoOn>>_vars

Spec == Init /\ [][Next]_vars
LiveSpec == Spec /\ Fairness

----------------------------------------------------------------------------
Positions == -1 .. Duration

(* The shape of the state. *)
TypeOK ==
  /\ start \in Lessons /\ preview \in BOOLEAN /\ stored \in BOOLEAN
  /\ saved \in Seconds /\ covered \subseteq Seconds
  /\ page.pos \in Seconds /\ page.high \in Seconds /\ page.prev \in Seconds
  /\ page.lastSaved \in Positions /\ page.passed \subseteq Items
  /\ page.active \in Items \cup {None} /\ cleared \subseteq Items
  /\ Cardinality(page.out) <= MaxInFlight + 1

(* Neither the position the server hands out on the next visit nor any     *)
(* second it counts as watched lies past a question no visit has answered  *)
(* yet, whatever the student scrubs and in whatever order calls arrive.    *)
SavedBeforeGate ==
  ~preview => \A i \in Items : start[i] > 0 /\ i \notin cleared =>
    saved <= start[i] /\ \A s \in covered : s < start[i]

(* A student who goes on watching and answering is asked every question,   *)
(* those past the end of the video too.                                    *)
EveryQuestionAsked == []<>(page.passed = Items)
=============================================================================
