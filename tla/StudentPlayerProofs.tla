------------------------- MODULE StudentPlayerProofs -------------------------
(***************************************************************************)
(* Proofs about the student's video player, for every lesson, duration and *)
(* number of visits, seeks and calls under way.  An action of StudentPlayer *)
(* is a chain of the handlers one event runs; the lemmas follow the chain: *)
(* first handlers that send nothing (Quiet), then handlers that may save   *)
(* the position (Saves), once at most in all.                              *)
(***************************************************************************)
EXTENDS StudentPlayer, FiniteSetTheorems, WellFoundedInduction, TLAPS

Reports == [at : Seconds, from : Seconds, to : Seconds]

(* The page with every field and its type. *)
Pages ==
  [pos : Seconds, playing : BOOLEAN, ended : BOOLEAN, settling : BOOLEAN,
   failed : BOOLEAN, initial : Seconds, loading : BOOLEAN, played : BOOLEAN,
   prev : Seconds, high : Seconds, active : Items \cup {None},
   passed : SUBSET Items, submitted : BOOLEAN, retaken : BOOLEAN,
   lastSaved : Positions, from : Seconds, lastTick : Seconds,
   seeked : BOOLEAN, out : SUBSET Reports]

Lesson == start \in [Items -> Nat] /\ preview \in BOOLEAN

(* The position a save of this page reports. *)
At(p) == Min({p.pos, Cap(p)})

(* A handler that sends nothing and forgets no answer. *)
Quiet(p, q) ==
  /\ q \in Pages
  /\ q.out = p.out
  /\ p.passed \subseteq q.passed

(* A handler that leaves position and answers alone and saves at most once. *)
Saves(p, q) ==
  /\ q \in Pages
  /\ q.pos = p.pos /\ q.passed = p.passed
  /\ \/ q.out = p.out /\ q.lastSaved = p.lastSaved
     \/ \E r \in Reports : /\ r.at = At(p) /\ r.to = At(p)
                           /\ q.out = p.out \cup {r}
                           /\ p.lastSaved # At(p) /\ q.lastSaved = At(p)

-----------------------------------------------------------------------------
(* The next question and the position that may be saved. *)

\* A nonempty set of naturals has a least element.
LEMMA LeastOf ==
    ASSUME NEW S \in SUBSET Nat, S # {}
    PROVE  \E n \in S : \A m \in S : n <= m
<1> DEFINE T == {0..n : n \in S}
<1>2. T \subseteq FiniteSubsetsOf(Nat) /\ T # {}
  <2>1. \A n \in S : IsFiniteSet(0..n)
    BY FS_Interval
  <2>2. \A n \in S : 0..n \subseteq Nat
    OBVIOUS
  <2> QED
    BY <2>1, <2>2 DEF FiniteSubsetsOf
<1>3. PICK I \in T : \A J \in T : ~(<<J, I>> \in StrictSubsetOrdering(Nat))
  BY <1>2, FS_StrictSubsetOrderingWellFounded, WFMin
<1>4. PICK n \in S : I = 0..n
  BY <1>3
<1>5. ASSUME NEW m \in S, m < n PROVE FALSE
  <2>1. 0..m \subseteq 0..n /\ 0..m # 0..n
    BY <1>5, SMT
  <2>2. 0..m \in T /\ 0..m \in SUBSET Nat /\ I \in SUBSET Nat
    BY <1>4
  <2>3. <<0..m, I>> \in StrictSubsetOrdering(Nat)
    BY <1>4, <2>1, <2>2 DEF StrictSubsetOrdering
  <2> QED
    BY <1>3, <2>2, <2>3
<1> QED
  BY <1>5

\* First finds the earliest question of a set, and nothing in the empty set only.
LEMMA FirstIsEarliest ==
    ASSUME Lesson, NEW S \in SUBSET Items
    PROVE  /\ First(S) \in S \cup {None}
           /\ S = {} <=> First(S) = None
           /\ S # {} => First(S) \in S /\ \A j \in S : start[First(S)] <= start[j]
<1>1. CASE S = {}
  BY <1>1 DEF First
<1>2. CASE S # {}
  <2> DEFINE Times == {start[i] : i \in S}
  <2>1. PICK t \in Times : \A u \in Times : t <= u
    <3>1. Times \in SUBSET Nat /\ Times # {}
      BY <1>2 DEF Lesson
    <3> HIDE DEF Times
    <3> QED
      BY <3>1, LeastOf
  <2> DEFINE Ties == {i \in S : start[i] = t}
  <2>2. PICK i \in Ties : \A j \in Ties : i <= j
    <3>1. Ties \in SUBSET Nat /\ Ties # {}
      BY <2>1, PlayerAssumption
    <3> HIDE DEF Ties
    <3> QED
      BY <3>1, LeastOf
  <2>3. i \in S /\ \A j \in S : start[i] < start[j] \/ (start[i] = start[j] /\ i <= j)
    <3> SUFFICES ASSUME NEW j \in S
                 PROVE  start[i] < start[j] \/ (start[i] = start[j] /\ i <= j)
      BY <2>2
    <3>1. start[i] \in Nat /\ start[j] \in Nat /\ start[i] <= start[j] /\ start[i] = t
      BY <2>1, <2>2 DEF Lesson
    <3>2. start[j] = t => i <= j
      BY <2>2
    <3> QED
      BY <3>1, <3>2
  <2> DEFINE Wins(k) == \A j \in S : start[k] < start[j] \/ (start[k] = start[j] /\ k <= j)
  <2>4. First(S) = CHOOSE k \in S : Wins(k)
    BY <1>2 DEF First
  <2>5. First(S) \in S /\ Wins(First(S))
    <3>1. \E k \in S : Wins(k)
      BY <2>3
    <3> HIDE DEF Wins
    <3> QED
      BY <2>4, <3>1
  <2>6. \A j \in S : start[First(S)] <= start[j]
    BY <2>5 DEF Lesson
  <2>7. First(S) # None
    BY <2>5, PlayerAssumption
  <2> QED
    BY <1>2, <2>5, <2>6, <2>7
<1> QED
  BY <1>1, <1>2

\* The smaller and the larger of two numbers.
LEMMA MinMax ==
    ASSUME NEW m \in Int, NEW n \in Int
    PROVE  /\ Min({m, n}) \in {m, n} /\ Min({m, n}) <= m /\ Min({m, n}) <= n
           /\ Max({m, n}) \in {m, n}
<1>1. \E x \in {m, n} : \A y \in {m, n} : x <= y
  <2>1. CASE m <= n
    BY <2>1
  <2>2. CASE n <= m
    BY <2>2
  <2> QED
    BY <2>1, <2>2
<1>2. \E x \in {m, n} : \A y \in {m, n} : x >= y
  <2>1. CASE m >= n
    BY <2>1
  <2>2. CASE n >= m
    BY <2>2
  <2> QED
    BY <2>1, <2>2
<1>3. Min({m, n}) \in {m, n} /\ \A y \in {m, n} : Min({m, n}) <= y
  BY <1>1 DEF Min
<1>4. Max({m, n}) \in {m, n}
  BY <1>2 DEF Max
<1> QED
  BY <1>3, <1>4

\* What is saved is inside the video, and outside a preview never past a
\* question that is still to be asked (maxSavablePositionSeconds).
LEMMA SavedPosition ==
    ASSUME Lesson, NEW p \in Pages
    PROVE  /\ At(p) \in Seconds
           /\ ~preview => \A i \in Pending(p) : At(p) <= start[i]
<1>1. p.pos \in Seconds /\ Duration \in Nat
  BY PlayerAssumption DEF Pages
<1>2. Pending(p) \in SUBSET Items
  BY DEF Pending
<1>3. /\ NextGate(p) \in Pending(p) \cup {None}
      /\ Pending(p) = {} <=> NextGate(p) = None
      /\ Pending(p) # {} => \A j \in Pending(p) : start[NextGate(p)] <= start[j]
  BY <1>2, FirstIsEarliest DEF NextGate
<1>4. Cap(p) \in Nat
  BY <1>1, <1>2, <1>3 DEF Cap, Lesson
<1>5. At(p) \in {p.pos, Cap(p)} /\ At(p) <= p.pos /\ At(p) <= Cap(p)
  <2>1. p.pos \in Int /\ Cap(p) \in Int
    BY <1>1, <1>4 DEF Seconds
  <2> QED
    BY <2>1, MinMax DEF At
<1>6. At(p) \in Seconds
  BY <1>1, <1>4, <1>5 DEF Seconds
<1>7. ASSUME ~preview, NEW i \in Pending(p) PROVE At(p) <= start[i]
  <2>1. Cap(p) = start[NextGate(p)] /\ start[NextGate(p)] <= start[i]
    BY <1>3, <1>7 DEF Cap
  <2>2. start[i] \in Nat
    BY <1>2, <1>7 DEF Lesson
  <2>3. At(p) \in Nat
    BY <1>6 DEF Seconds
  <2> QED
    BY <1>4, <1>5, <2>1, <2>2, <2>3
<1> QED
  BY <1>6, <1>7

-----------------------------------------------------------------------------
(* The handlers, one by one. *)

\* A page that saved nothing, and one save after another of the same position.
LEMMA SavesChain ==
    ASSUME NEW p \in Pages, NEW q, NEW s
    PROVE  /\ Saves(p, p)
           /\ Saves(p, q) /\ Saves(q, s) => Saves(p, s)
<1>1. Saves(p, p)
  BY DEF Saves
<1>2. ASSUME Saves(p, q), Saves(q, s) PROVE Saves(p, s)
  <2>1. At(q) = At(p)
    BY <1>2 DEF Saves, At, Cap, NextGate, Pending
  <2>2. s \in Pages /\ s.pos = p.pos /\ s.passed = p.passed
    BY <1>2 DEF Saves
  <2>3. CASE q.out = p.out /\ q.lastSaved = p.lastSaved
    BY <1>2, <2>1, <2>2, <2>3 DEF Saves
  <2>4. CASE \E r \in Reports : /\ r.at = At(p) /\ r.to = At(p)
                                /\ q.out = p.out \cup {r}
                                /\ p.lastSaved # At(p) /\ q.lastSaved = At(p)
    <3>1. s.out = q.out /\ s.lastSaved = q.lastSaved
      BY <1>2, <2>1, <2>4 DEF Saves
    <3> QED
      BY <2>2, <2>4, <3>1 DEF Saves
  <2> QED
    BY <1>2, <2>3, <2>4 DEF Saves
<1> QED
  BY <1>1, <1>2

\* saveProgress.
LEMMA SaveSaves ==
    ASSUME Lesson, NEW p \in Pages
    PROVE  Saves(p, Save(p))
<1> DEFINE r == Report(At(p), p)
           q == [p EXCEPT !.lastSaved = At(p), !.from = At(p), !.seeked = FALSE,
                          !.out = @ \cup {r}]
<1>1. Save(p) = IF At(p) = p.lastSaved THEN p ELSE q
  BY DEF Save, At
<1>2. CASE At(p) = p.lastSaved
  BY <1>1, <1>2, SavesChain
<1>3. CASE At(p) # p.lastSaved
  <2>1. At(p) \in Seconds /\ At(p) \in Positions
    BY SavedPosition, PlayerAssumption DEF Seconds, Positions
  <2>2. r \in Reports /\ r.at = At(p) /\ r.to = At(p)
    BY <2>1 DEF Report, Reports, Pages
  <2> HIDE DEF r
  <2>3. q \in Pages
    BY <2>1, <2>2 DEF Pages
  <2>4. /\ q.pos = p.pos /\ q.passed = p.passed
        /\ q.out = p.out \cup {r} /\ q.lastSaved = At(p)
    BY DEF Pages
  <2> HIDE DEF q
  <2> QED
    BY <1>1, <1>3, <2>2, <2>3, <2>4 DEF Saves
<1> QED
  BY <1>2, <1>3

\* A question chosen to be asked is one of the lesson, or none.
LEMMA Hits ==
    ASSUME Lesson, NEW S \in SUBSET Items
    PROVE  First(S) \in Items \cup {None}
BY FirstIsEarliest

\* handleTimeUpdate saves nothing and moves nothing.
LEMMA TimeUpdateSilent ==
    ASSUME Lesson, NEW p \in Pages, NEW t \in Seconds
    PROVE  /\ Saves(p, TimeUpdate(p, t))
           /\ TimeUpdate(p, t).out = p.out
<1> DEFINE w == Watched(p, t)
           q == [w EXCEPT !.loading = Moved(p, t)]
           hit == Hit(p, t)
           open == [q EXCEPT !.prev = t, !.active = hit, !.playing = @ /\ hit = None]
<1> DEFINE Same(a) == a \in Pages /\ a.pos = p.pos /\ a.passed = p.passed
                      /\ a.out = p.out /\ a.lastSaved = p.lastSaved
<1>1. Same(w)
  <2>1. Max({p.high, t}) \in Seconds
    <3>1. p.high \in Seconds /\ p.high \in Int /\ t \in Int
      BY DEF Pages, Seconds
    <3> QED
      BY <3>1, MinMax
  <2> QED
    BY <2>1 DEF Watched, Pages
<1> HIDE DEF w
<1>2. Moved(p, t) \in BOOLEAN
  BY DEF Moved, Pages
<1>3. Same(q)
  BY <1>1, <1>2 DEF Pages
<1>4. hit \in Items \cup {None}
  BY Hits DEF Hit, Pending
<1>5. hit = First({i \in Pending(p) : p.prev < start[i] /\ t >= start[i]})
  BY DEF Hit
<1> HIDE DEF q, hit
<1>6. (q.playing /\ hit = None) \in BOOLEAN
  BY <1>3 DEF Pages
<1>7. Same(open)
  BY <1>3, <1>4, <1>6 DEF Pages
<1> HIDE DEF open
<1>8. TimeUpdate(p, t) = CASE p.submitted \/ p.active /= None -> w
                           [] q.loading \/ t = 0 -> q
                           [] OTHER -> open
  BY DEF TimeUpdate, q, w, open, hit
<1>9. TimeUpdate(p, t) \in {w, q, open}
  BY <1>8
<1>10. Same(TimeUpdate(p, t))
  <2> HIDE DEF Same
  <2> QED
    BY <1>1, <1>3, <1>7, <1>9
<1> QED
  BY <1>10 DEF Saves

\* handleNativeTimeUpdate.
LEMMA NativeTickSaves ==
    ASSUME Lesson, NEW p \in Pages
    PROVE  Saves(p, NativeTick(p))
<1> DEFINE q == Anchored(p)
           s == IF q.pos - q.lastSaved >= SaveInterval THEN Save(q) ELSE q
<1>1. Saves(p, q)
  BY DEF Anchored, Pages, Saves
<1>2. q \in Pages /\ q.pos = p.pos /\ q.pos \in Seconds
  BY <1>1 DEF Saves, Pages
<1> HIDE DEF q
<1>3. Saves(q, s)
  BY <1>2, SaveSaves, SavesChain
<1>4. s \in Pages
  BY <1>3 DEF Saves
<1> HIDE DEF s
<1>5. Saves(s, TimeUpdate(s, q.pos))
  BY <1>2, <1>4, TimeUpdateSilent
<1>6. Saves(p, s)
  BY <1>1, <1>3, SavesChain
<1>7. NativeTick(p) = TimeUpdate(s, q.pos)
  BY DEF NativeTick, s, q
<1> QED
  BY <1>5, <1>6, <1>7, SavesChain

\* A pause and what follows from it.
LEMMA PauseSaves ==
    ASSUME Lesson, NEW p \in Pages
    PROVE  /\ Saves(p, PauseEvent(p))
           /\ Saves(p, Held(p))
<1> DEFINE q == [p EXCEPT !.playing = FALSE]
<1>1. Saves(p, q) /\ q \in Pages
  BY DEF Pages, Saves
<1> HIDE DEF q
<1>2. Saves(q, NativeTick(q)) /\ NativeTick(q) \in Pages
  BY <1>1, NativeTickSaves DEF Saves
<1>3. Saves(NativeTick(q), Save(NativeTick(q)))
  BY <1>2, SaveSaves
<1>4. Saves(p, Save(NativeTick(q)))
  BY <1>1, <1>2, <1>3, SavesChain
<1>5. Saves(p, PauseEvent(p))
  BY <1>4 DEF PauseEvent, q
<1> QED
  BY <1>5, SavesChain DEF Held

\* The pause the hit test asked for.
LEMMA AnnounceSaves ==
    ASSUME Lesson, NEW p, NEW q \in Pages
    PROVE  Saves(q, Announce(p, q))
<1> DEFINE s == IF p.playing /\ ~q.playing THEN PauseEvent(q) ELSE q
<1>1. Saves(q, s) /\ s \in Pages
  BY PauseSaves, SavesChain DEF Saves
<1> HIDE DEF s
<1>2. Saves(s, Held(s))
  BY <1>1, PauseSaves
<1>3. Announce(p, q) = Held(s)
  BY DEF Announce, s
<1> QED
  BY <1>1, <1>2, <1>3, SavesChain

\* A seek past the next question ends at it (guardSeek).
LEMMA GuardSeekQuiet ==
    ASSUME Lesson, NEW p \in Pages
    PROVE  Quiet(p, GuardSeek(p))
<1> DEFINE gate == NextGate(p)
           q == [p EXCEPT !.pos = start[gate], !.prev = start[gate],
                          !.active = IF @ = None THEN gate ELSE @]
<1>1. gate \in Items \cup {None}
  BY Hits DEF NextGate, Pending
<1>2. GuardSeek(p) = IF gate = None \/ p.loading THEN p
                     ELSE IF p.pos <= start[gate] + Slack THEN p ELSE q
  BY DEF GuardSeek
<1> HIDE DEF gate
<1>3. ASSUME gate # None, ~(p.pos <= start[gate] + Slack) PROVE Quiet(p, q)
  <2>1. start[gate] \in Seconds
    <3>1. start[gate] \in Nat /\ p.pos \in 0..Duration
      BY <1>1, <1>3 DEF Lesson, Pages, Seconds
    <3> QED
      BY <1>3, <3>1, PlayerAssumption DEF Seconds, Slack
  <2> QED
    BY <1>1, <1>3, <2>1 DEF Quiet, Pages
<1>4. Quiet(p, p)
  BY DEF Quiet
<1> QED
  BY <1>2, <1>3, <1>4

\* An event: handlers that send nothing, then handlers that save at most once.
Step(p, q) == \E s \in Pages : Quiet(p, s) /\ Saves(s, q)

\* Events are composed of handlers.
LEMMA StepChain ==
    ASSUME NEW p \in Pages, NEW q \in Pages, NEW s
    PROVE  /\ Quiet(p, q) => Step(p, q)
           /\ Saves(p, s) => Step(p, s)
           /\ Quiet(p, q) /\ Saves(q, s) => Step(p, s)
           /\ Quiet(p, q) /\ Step(q, s) => Step(p, s)
           /\ Step(p, q) /\ Saves(q, s) => Step(p, s)
<1>1. Quiet(p, p) /\ Saves(p, p) /\ Saves(q, q)
  BY SavesChain DEF Quiet
<1>2. ASSUME Quiet(p, q), Step(q, s) PROVE Step(p, s)
  <2>1. PICK u \in Pages : Quiet(q, u) /\ Saves(u, s)
    BY <1>2 DEF Step
  <2>2. Quiet(p, u)
    BY <1>2, <2>1 DEF Quiet
  <2> QED
    BY <2>1, <2>2 DEF Step
<1>3. ASSUME Step(p, q), Saves(q, s) PROVE Step(p, s)
  <2>1. PICK u \in Pages : Quiet(p, u) /\ Saves(u, q)
    BY <1>3 DEF Step
  <2>2. Saves(u, s)
    BY <1>3, <2>1, SavesChain
  <2> QED
    BY <2>1, <2>2 DEF Step
<1> QED
  BY <1>1, <1>2, <1>3 DEF Step

\* The first play, and a play refused while a question is open.
LEMMA PlaySteps ==
    ASSUME Lesson, NEW p \in Pages
    PROVE  Step(p, Play(p))
<1> DEFINE q == [p EXCEPT !.playing = TRUE, !.ended = FALSE,
                          !.pos = IF p.ended THEN 0 ELSE @,
                          !.settling = @ \/ p.ended]
<1>1. Quiet(p, q) /\ q \in Pages
  <2>1. (IF p.ended THEN 0 ELSE p.pos) \in Seconds
    BY PlayerAssumption DEF Pages, Seconds
  <2>2. (p.settling \/ p.ended) \in BOOLEAN
    BY DEF Pages
  <2>3. q \in Pages
    BY <2>1, <2>2 DEF Pages
  <2>4. q.out = p.out /\ q.passed = p.passed
    BY DEF Pages
  <2> QED
    BY <2>3, <2>4 DEF Quiet
<1>2. Play(p) = IF p.active # None /\ ~p.submitted THEN PauseEvent(p) ELSE FirstPlay(q)
  BY DEF Play
<1> HIDE DEF q
<1>3. Quiet(q, FirstPlay(q))
  <2>1. Early \in SUBSET Items
    BY DEF Early
  <2> HIDE DEF Early
  <2> QED
    BY <1>1, <2>1 DEF Quiet, FirstPlay, Pages
<1>4. Quiet(p, FirstPlay(q)) /\ FirstPlay(q) \in Pages
  BY <1>1, <1>3 DEF Quiet
<1>5. Step(p, PauseEvent(p)) /\ Step(p, FirstPlay(q))
  BY <1>4, PauseSaves, StepChain
<1> QED
  BY <1>2, <1>5

-----------------------------------------------------------------------------
(* The invariant.  What is on its way is as honest as what arrived: a call *)
(* may be delivered visits later, and only answers given meanwhile may     *)
(* have moved the gate it must respect, which they move forward.           *)

PlayerTyped ==
  /\ start \in Lessons /\ preview \in BOOLEAN /\ stored \in BOOLEAN
  /\ saved \in Seconds /\ covered \in SUBSET Seconds /\ page \in Pages
  /\ IsFiniteSet(page.out) /\ Cardinality(page.out) <= MaxInFlight
  /\ cleared \in SUBSET Items

(* Answers of this visit are remembered, and a stored attempt has them all. *)
AnswersKept ==
  /\ page.passed \subseteq cleared
  /\ stored => cleared = Items

(* No position or stretch on its way passes a question never answered. *)
CallsBeforeGate ==
  ~preview => \A i \in Items : start[i] > 0 /\ i \notin cleared =>
    \A c \in page.out : c.at <= start[i] /\ c.to <= start[i]

PlayerInv == PlayerTyped /\ AnswersKept /\ CallsBeforeGate /\ SavedBeforeGate

\* An event keeps the invariant: a question no visit has answered is one this page
\* has still to ask, and that is what bounds the position it saves.
LEMMA StepKeeps ==
    ASSUME PlayerInv, Lesson, Step(page, page'), Local,
           Room \/ page'.out = page.out
    PROVE  PlayerInv'
<1> USE DEF PlayerInv
<1>1. PICK p \in Pages : Quiet(page, p) /\ Saves(p, page')
  BY DEF Step
<1>2. /\ page' \in Pages /\ p.out = page.out
      /\ page'.passed = p.passed /\ page.passed \subseteq p.passed
  BY <1>1 DEF Quiet, Saves
<1>3. \/ page'.out = page.out
      \/ \E r \in Reports : /\ r.at = At(p) /\ r.to = At(p)
                            /\ page'.out = page.out \cup {r}
  BY <1>1, <1>2 DEF Saves
<1>4. cleared' = cleared \cup p.passed /\ cleared' \in SUBSET Items
  BY <1>2 DEF Local, PlayerTyped, Pages
<1>5. IsFiniteSet(page'.out) /\ Cardinality(page'.out) <= MaxInFlight
  <2>1. CASE page'.out = page.out
    BY <2>1 DEF PlayerTyped
  <2>2. CASE page'.out # page.out
    <3>1. PICK r \in Reports : page'.out = page.out \cup {r}
      BY <1>3, <2>2
    <3>2. /\ IsFiniteSet(page.out) /\ Cardinality(page.out) \in Nat
          /\ Cardinality(page.out) < MaxInFlight
      BY <2>2, FS_CardinalityType DEF PlayerTyped, Room
    <3>3. /\ IsFiniteSet(page.out \cup {r})
          /\ Cardinality(page.out \cup {r}) \in {Cardinality(page.out), Cardinality(page.out) + 1}
      BY <3>2, FS_AddElement
    <3>4. MaxInFlight \in Nat
      BY PlayerAssumption
    <3> QED
      BY <3>1, <3>2, <3>3, <3>4
  <2> QED
    BY <2>1, <2>2
<1>6. PlayerTyped'
  BY <1>2, <1>4, <1>5 DEF PlayerTyped, Local, Seconds
<1>7. AnswersKept'
  BY <1>2, <1>4 DEF AnswersKept, Local
<1>8. start' = start /\ preview' = preview /\ saved' = saved /\ covered' = covered
  BY DEF Local
<1>9. CallsBeforeGate'
  <2> SUFFICES ASSUME ~preview, NEW i \in Items, start[i] > 0, i \notin cleared',
                      NEW c \in page'.out
               PROVE  c.at <= start[i] /\ c.to <= start[i]
    BY <1>8 DEF CallsBeforeGate
  <2>1. CASE c \in page.out
    BY <1>4, <2>1 DEF CallsBeforeGate
  <2>2. CASE c \notin page.out
    <3>1. c.at = At(p) /\ c.to = At(p)
      BY <1>3, <2>2
    <3>2. i \in Pending(p)
      BY <1>4 DEF Pending
    <3> QED
      BY <3>1, <3>2, SavedPosition
  <2> QED
    BY <2>1, <2>2
<1>10. SavedBeforeGate'
  BY <1>4, <1>8 DEF SavedBeforeGate
<1> QED
  BY <1>6, <1>7, <1>9, <1>10

-----------------------------------------------------------------------------
(* The actions. *)

\* A second of playback.
LEMMA TickSteps ==
    ASSUME PlayerInv, Lesson, Tick
    PROVE  Step(page, page')
<1> DEFINE p == [page EXCEPT !.pos = @ + 1]
           n == NativeTick(p)
           q == Announce(p, n)
           h == [p EXCEPT !.playing = FALSE]
           a == Held(NativeTick(h))
           atEnd == [a EXCEPT !.ended = TRUE]
<1>1. page \in Pages /\ page.pos \in Seconds /\ page.pos < Duration
  BY DEF PlayerInv, PlayerTyped, Tick, Pages
<1>2. page.pos + 1 \in Seconds
  BY <1>1, PlayerAssumption DEF Seconds
<1>3. Quiet(page, p) /\ p \in Pages
  BY <1>1, <1>2 DEF Quiet, Pages
<1>4. page' = IF p.pos = Duration THEN HandleEnded(atEnd) ELSE q
  BY DEF Tick
<1> HIDE DEF p
<1>5. Step(page, q)
  <2>1. Saves(p, n) /\ n \in Pages
    BY <1>3, NativeTickSaves DEF Saves
  <2>2. Saves(n, q)
    BY <2>1, AnnounceSaves
  <2> QED
    BY <1>1, <1>3, <2>1, <2>2, SavesChain, StepChain
<1>6. Step(page, HandleEnded(atEnd))
  <2>1. Saves(p, h) /\ h \in Pages
    BY <1>3 DEF Saves, Pages
  <2> HIDE DEF h
  <2>2. Saves(h, NativeTick(h)) /\ NativeTick(h) \in Pages
    BY <2>1, NativeTickSaves DEF Saves
  <2>3. Saves(NativeTick(h), a) /\ a \in Pages
    BY <2>2, PauseSaves DEF Saves
  <2>4. Saves(p, a)
    BY <1>3, <2>1, <2>2, <2>3, SavesChain
  <2> HIDE DEF a
  <2>5. Saves(a, atEnd) /\ atEnd \in Pages
    BY <2>3 DEF Saves, Pages
  <2> HIDE DEF atEnd
  <2>6. NextGate(atEnd) \in Items \cup {None}
    BY Hits DEF NextGate, Pending
  <2>7. Saves(atEnd, HandleEnded(atEnd))
    BY <2>5, <2>6 DEF HandleEnded, Saves, Pages
  <2>8. Saves(p, HandleEnded(atEnd))
    BY <1>3, <2>3, <2>4, <2>5, <2>7, SavesChain
  <2> QED
    BY <1>1, <1>3, <2>8, StepChain
<1> QED
  BY <1>4, <1>5, <1>6

\* A click on play or pause.
LEMMA ClickSteps ==
    ASSUME PlayerInv, Lesson, PlayClick \/ PauseClick
    PROVE  Step(page, page')
<1>1. page \in Pages
  BY DEF PlayerInv, PlayerTyped
<1>2. CASE PlayClick
  BY <1>1, <1>2, PlaySteps DEF PlayClick
<1>3. CASE PauseClick
  BY <1>1, <1>3, PauseSaves, StepChain DEF PauseClick
<1> QED
  BY <1>2, <1>3

\* The slider and the markers.
LEMMA ScrubSteps ==
    ASSUME PlayerInv, Lesson, NEW x \in Seconds, Scrub(x)
    PROVE  Step(page, page')
<1> DEFINE a == [page EXCEPT !.pos = x, !.ended = FALSE]
           p == TimeUpdate(a, x)
           g == GuardSeek(p)
           q == [g EXCEPT !.settling = TRUE]
<1>1. page \in Pages
  BY DEF PlayerInv, PlayerTyped
<1>2. Quiet(page, a) /\ a \in Pages
  BY <1>1 DEF Quiet, Pages
<1>3. page' = Announce(page, q)
  BY DEF Scrub
<1> HIDE DEF a
<1>4. Saves(a, p) /\ p \in Pages
  BY <1>2, TimeUpdateSilent DEF Saves
<1>5. Quiet(a, p)
  <2>1. TimeUpdate(a, x).out = a.out
    BY <1>2, TimeUpdateSilent
  <2> QED
    BY <1>4, <2>1 DEF Quiet, Saves
<1> HIDE DEF p
<1>6. Quiet(p, g) /\ g \in Pages
  BY <1>4, GuardSeekQuiet DEF Quiet
<1> HIDE DEF g
<1>7. Quiet(g, q) /\ q \in Pages
  BY <1>6 DEF Quiet, Pages
<1> HIDE DEF q
<1>8. Quiet(page, q)
  BY <1>2, <1>5, <1>6, <1>7 DEF Quiet
<1>9. Saves(q, page')
  BY <1>3, <1>7, AnnounceSaves
<1> QED
  BY <1>1, <1>7, <1>8, <1>9, StepChain

\* The outline and the transcript.
LEMMA OutlineSteps ==
    ASSUME PlayerInv, Lesson, NEW x \in Seconds, OutlineClick(x)
    PROVE  Step(page, page')
<1> DEFINE a == [page EXCEPT !.pos = x, !.ended = FALSE]
           p == GuardSeek(a)
           b == Play(p)
<1>1. page \in Pages
  BY DEF PlayerInv, PlayerTyped
<1>2. Quiet(page, a) /\ a \in Pages
  BY <1>1 DEF Quiet, Pages
<1>3. page' = [b EXCEPT !.settling = TRUE]
  BY DEF OutlineClick
<1> HIDE DEF a
<1>4. Quiet(a, p) /\ p \in Pages
  BY <1>2, GuardSeekQuiet DEF Quiet
<1> HIDE DEF p
<1>5. Step(p, b) /\ b \in Pages
  BY <1>4, PlaySteps DEF Step, Saves
<1> HIDE DEF b
<1>6. Saves(b, page')
  BY <1>3, <1>5 DEF Saves, Pages
<1>7. Quiet(page, p)
  BY <1>2, <1>4 DEF Quiet
<1>8. Step(page, b)
  BY <1>1, <1>4, <1>5, <1>7, StepChain
<1> QED
  BY <1>1, <1>5, <1>6, <1>8, StepChain

\* The `seeked' event.
LEMMA SettleSteps ==
    ASSUME PlayerInv, Lesson, Settle
    PROVE  Step(page, page')
<1> DEFINE a == [page EXCEPT !.settling = FALSE]
           p == GuardSeek(a)
           n == NativeTick(p)
<1>1. page \in Pages
  BY DEF PlayerInv, PlayerTyped
<1>2. Quiet(page, a) /\ a \in Pages
  BY <1>1 DEF Quiet, Pages
<1>3. page' = Announce(p, n)
  BY DEF Settle
<1> HIDE DEF a
<1>4. Quiet(a, p) /\ p \in Pages
  BY <1>2, GuardSeekQuiet DEF Quiet
<1> HIDE DEF p
<1>5. Saves(p, n) /\ n \in Pages
  BY <1>4, NativeTickSaves DEF Saves
<1>6. Saves(n, page')
  BY <1>3, <1>5, AnnounceSaves
<1>7. Saves(p, page') /\ Quiet(page, p)
  BY <1>2, <1>4, <1>5, <1>6, SavesChain DEF Quiet
<1> QED
  BY <1>1, <1>4, <1>7, StepChain

\* A question is answered and the next one asked, or the video goes on.
LEMMA ContinueSteps ==
    ASSUME PlayerInv, Lesson, Continue
    PROVE  Step(page, page')
<1> DEFINE i == page.active
           p == [page EXCEPT !.passed = @ \cup {i}]
           next == First({j \in Pending(p) : start[j] <= start[i]})
           q == [p EXCEPT !.active = next]
<1>1. page \in Pages
  BY DEF PlayerInv, PlayerTyped
<1>2. i \in Items
  BY <1>1 DEF Continue, Pages
<1>3. Quiet(page, p) /\ p \in Pages
  BY <1>1, <1>2 DEF Quiet, Pages
<1>4. next \in Items \cup {None}
  BY Hits DEF Pending
<1>5. page' \in {Held(q), q, Play(q)}
  BY DEF Continue
<1> HIDE DEF p, next
<1>6. Quiet(p, q) /\ q \in Pages
  BY <1>3, <1>4 DEF Quiet, Pages
<1> HIDE DEF q
<1>7. Quiet(page, q)
  BY <1>3, <1>6 DEF Quiet
<1>8. Saves(q, Held(q)) /\ Step(q, Play(q))
  BY <1>6, PauseSaves, PlaySteps
<1>9. Step(page, Held(q)) /\ Step(page, q) /\ Step(page, Play(q))
  BY <1>1, <1>6, <1>7, <1>8, StepChain
<1> QED
  BY <1>5, <1>9

\* The stream failed and the page reloads it.
LEMMA RefreshSteps ==
    ASSUME PlayerInv, Lesson, RefreshUrl
    PROVE  Step(page, page') /\ page'.out = page.out
<1> DEFINE at == IF page.retaken THEN 0 ELSE ResumeAt(InitialPosition)
           a == [page EXCEPT !.failed = FALSE, !.ended = FALSE,
                  !.initial = InitialPosition, !.pos = at, !.settling = TRUE]
<1>1. page \in Pages
  BY DEF PlayerInv, PlayerTyped
<1>2. at \in Seconds /\ InitialPosition \in Seconds
  BY PlayerAssumption DEF PlayerInv, PlayerTyped, InitialPosition, ResumeAt, Seconds
<1>3. page' = GuardSeek(a)
  BY DEF RefreshUrl
<1> HIDE DEF at
<1>4. Quiet(page, a) /\ a \in Pages
  BY <1>1, <1>2 DEF Quiet, Pages
<1> HIDE DEF a
<1>5. Quiet(a, page')
  BY <1>3, <1>4, GuardSeekQuiet
<1>6. Quiet(page, page') /\ page' \in Pages
  BY <1>4, <1>5 DEF Quiet
<1> QED
  BY <1>1, <1>6, StepChain DEF Quiet

\* A visit starts from what the server keeps.
LEMMA VisitIsPage ==
    ASSUME Lesson, stored \in BOOLEAN, NEW initial \in Seconds, NEW calls \in SUBSET Reports
    PROVE  /\ Visit(initial, calls) \in Pages
           /\ Visit(initial, calls).out = calls
           /\ Visit(initial, calls).passed \subseteq (IF stored THEN Items ELSE {})
<1>1. ResumeAt(initial) \in Seconds
  BY PlayerAssumption DEF ResumeAt, Seconds
<1>2. Missed(initial) \in Items \cup {None}
  BY Hits DEF Missed
<1>3. (ResumeAt(initial) > 0) \in BOOLEAN /\ -1 \in Positions
  BY PlayerAssumption DEF Positions
<1> QED
  BY <1>1, <1>2, <1>3 DEF Visit, Pages

\* A retake starts the page over.
LEMMA RetakenIsPage ==
    ASSUME NEW p \in Pages, NEW z \in Seconds, NEW m \in Positions, NEW b \in BOOLEAN
    PROVE  [p EXCEPT !.submitted = FALSE, !.passed = {}, !.active = None,
              !.pos = z, !.playing = FALSE, !.ended = FALSE, !.settling = b,
              !.prev = z, !.high = z, !.loading = TRUE, !.played = FALSE, !.failed = FALSE,
              !.retaken = TRUE, !.lastSaved = m, !.from = z, !.lastTick = z, !.seeked = FALSE]
             \in Pages
<1> DEFINE q == [p EXCEPT !.submitted = FALSE, !.passed = {}, !.active = None,
                   !.pos = z, !.playing = FALSE, !.ended = FALSE, !.settling = b]
           r == [q EXCEPT !.prev = z, !.high = z, !.loading = TRUE, !.played = FALSE,
                   !.failed = FALSE]
<1>1. q \in Pages
  BY DEF Pages
<1> HIDE DEF q
<1>2. r \in Pages
  BY <1>1 DEF Pages
<1> HIDE DEF r
<1>3. [r EXCEPT !.retaken = TRUE, !.lastSaved = m, !.from = z, !.lastTick = z,
         !.seeked = FALSE] \in Pages
  BY <1>2 DEF Pages
<1> QED
  BY <1>3 DEF q, r

\* Every step: the events above, the start of a visit, the fate of a call.
LEMMA PlayerNext ==
    ASSUME PlayerInv, [Next]_vars
    PROVE  PlayerInv'
<1> USE DEF PlayerInv
<1>0. Lesson /\ page \in Pages
  BY PlayerAssumption DEF Lesson, PlayerTyped
<1>1. ASSUME Tick \/ PlayClick \/ PauseClick \/ Settle \/ Continue \/ RefreshUrl
             \/ (\E x \in SliderTargets \cup Markers : Scrub(x))
             \/ (\E x \in OutlineTargets : OutlineClick(x))
      PROVE  PlayerInv'
  <2>1. /\ SliderTargets \cup Markers \subseteq Seconds
        /\ OutlineTargets \subseteq Seconds
    BY PlayerAssumption DEF SliderTargets, Markers, OutlineTargets, Seconds
  <2>2. CASE Tick
    BY <1>0, <2>2, TickSteps, StepKeeps DEF Tick, Usable
  <2>3. CASE PlayClick \/ PauseClick
    BY <1>0, <2>3, ClickSteps, StepKeeps DEF PlayClick, PauseClick, Usable
  <2>4. CASE Settle
    BY <1>0, <2>4, SettleSteps, StepKeeps DEF Settle
  <2>5. CASE Continue
    BY <1>0, <2>5, ContinueSteps, StepKeeps DEF Continue, Usable
  <2>6. CASE RefreshUrl
    BY <1>0, <2>6, RefreshSteps, StepKeeps DEF RefreshUrl
  <2>7. ASSUME NEW x \in SliderTargets \cup Markers, Scrub(x) PROVE PlayerInv'
    BY <1>0, <2>1, <2>7, ScrubSteps, StepKeeps DEF Scrub, Usable
  <2>8. ASSUME NEW x \in OutlineTargets, OutlineClick(x) PROVE PlayerInv'
    BY <1>0, <2>1, <2>8, OutlineSteps, StepKeeps DEF OutlineClick, Usable
  <2> QED
    BY <1>1, <2>2, <2>3, <2>4, <2>5, <2>6, <2>7, <2>8
<1>2. CASE Submit
  <2>1. /\ page'.out = page.out /\ page'.passed = page.passed /\ page' \in Pages
        /\ page.passed = Items /\ stored' \in BOOLEAN
    BY <1>0, <1>2 DEF Submit, Pages, PlayerTyped
  <2>2. UNCHANGED <<start, preview, saved, covered, cleared>>
    BY <1>2 DEF Submit
  <2>3. PlayerTyped'
    BY <2>1, <2>2 DEF PlayerTyped, Seconds
  <2>4. AnswersKept'
    BY <2>1, <2>2 DEF AnswersKept, PlayerTyped
  <2>5. CallsBeforeGate' /\ SavedBeforeGate'
    BY <2>1, <2>2 DEF CallsBeforeGate, SavedBeforeGate
  <2> QED
    BY <2>3, <2>4, <2>5
<1>3. ASSUME Retake \/ Reopen \/ StreamError PROVE PlayerInv'
  <2>1. UNCHANGED <<start, preview, saved, covered, stored, cleared>>
    BY <1>3 DEF Retake, Reopen, StreamError
  <2>2. page' \in Pages /\ page'.out = page.out /\ page'.passed \subseteq cleared
    <3>1. CASE Retake
      <4>1. 0 \in Seconds /\ -1 \in Positions /\ (page.pos > 0) \in BOOLEAN
        BY PlayerAssumption DEF Seconds, Positions
      <4>2. page' \in Pages
        BY <1>0, <3>1, <4>1, RetakenIsPage DEF Retake
      <4>3. page'.out = page.out /\ page'.passed = {}
        BY <1>0, <3>1 DEF Retake, Pages
      <4> QED
        BY <4>2, <4>3
    <3>2. CASE Reopen
      <4>1. InitialPosition \in Seconds /\ page.out \in SUBSET Reports
        BY <1>0, PlayerAssumption DEF InitialPosition, PlayerTyped, Pages, Seconds
      <4>2. page' = Visit(InitialPosition, page.out)
        BY <3>2 DEF Reopen
      <4> QED
        BY <1>0, <4>1, <4>2, VisitIsPage DEF PlayerTyped, AnswersKept
    <3>3. CASE StreamError
      BY <1>0, <3>3 DEF StreamError, Pages, AnswersKept
    <3> QED
      BY <1>3, <3>1, <3>2, <3>3
  <2>3. PlayerTyped' /\ AnswersKept'
    BY <2>1, <2>2 DEF PlayerTyped, AnswersKept, Seconds
  <2>4. CallsBeforeGate' /\ SavedBeforeGate'
    BY <2>1, <2>2 DEF CallsBeforeGate, SavedBeforeGate
  <2> QED
    BY <2>3, <2>4
<1>4. ASSUME NEW c \in page.out, Deliver(c) \/ Lose(c) PROVE PlayerInv'
  <2>1. /\ page' \in Pages /\ page'.out = page.out \ {c} /\ page'.passed = page.passed
        /\ c \in Reports
    BY <1>0, <1>4 DEF Deliver, Lose, Pages
  <2>2. IsFiniteSet(page'.out) /\ Cardinality(page'.out) <= MaxInFlight
    <3>1. /\ IsFiniteSet(page'.out) /\ Cardinality(page'.out) = Cardinality(page.out) - 1
          /\ Cardinality(page.out) \in Nat
      BY <2>1, FS_RemoveElement, FS_CardinalityType DEF PlayerTyped
    <3> QED
      BY <3>1, PlayerAssumption DEF PlayerTyped
  <2>3. UNCHANGED <<start, preview, stored>> /\ cleared' = cleared
    BY <1>4, <2>1 DEF Deliver, Lose, Local, AnswersKept
  <2>4. \/ saved' = saved /\ covered' = covered
        \/ saved' = c.at /\ covered' = covered \cup (c.from .. (c.to - 1))
    BY <1>4 DEF Deliver, Lose, Local
  <2>5. saved' \in Seconds /\ covered' \in SUBSET Seconds
    <3>1. c.at \in Seconds /\ c.from \in Seconds /\ c.to \in Seconds
      BY <2>1 DEF Reports
    <3>2. c.from .. (c.to - 1) \in SUBSET Seconds
      BY <3>1, PlayerAssumption DEF Seconds
    <3> QED
      BY <2>4, <3>1, <3>2 DEF PlayerTyped
  <2>6. PlayerTyped' /\ AnswersKept'
    BY <2>1, <2>2, <2>3, <2>5 DEF PlayerTyped, AnswersKept, Seconds
  <2>7. CallsBeforeGate'
    BY <2>1, <2>3 DEF CallsBeforeGate
  <2>8. SavedBeforeGate'
    <3> SUFFICES ASSUME ~preview, NEW i \in Items, start[i] > 0, i \notin cleared
                 PROVE  saved' <= start[i] /\ \A s \in covered' : s < start[i]
      BY <2>3 DEF SavedBeforeGate
    <3>1. saved <= start[i] /\ \A s \in covered : s < start[i]
      BY DEF SavedBeforeGate
    <3>2. c.at <= start[i] /\ c.to <= start[i]
      BY DEF CallsBeforeGate
    <3>3. \A s \in c.from .. (c.to - 1) : s < start[i]
      <4>1. c.from \in Int /\ c.to \in Int /\ start[i] \in Int
        BY <1>0, <2>1 DEF Reports, Seconds, Lesson
      <4> QED
        BY <3>2, <4>1
    <3> QED
      BY <2>4, <3>1, <3>2, <3>3
  <2> QED
    BY <2>6, <2>7, <2>8
<1>5. CASE UNCHANGED vars
  <2>1. UNCHANGED <<start, preview, page, saved, covered, stored, cleared>>
    BY <1>5 DEF vars
  <2> QED
    BY <2>1 DEF PlayerTyped, AnswersKept, CallsBeforeGate, SavedBeforeGate, Seconds
<1> QED
  BY <1>1, <1>2, <1>3, <1>4, <1>5 DEF Next

\* The first visit finds nothing saved.
LEMMA PlayerInit ==
    ASSUME Init
    PROVE  PlayerInv
<1>1. Lesson /\ 0 \in Seconds /\ stored \in BOOLEAN /\ {} \in SUBSET Reports
  <2>1. Lesson
    BY PlayerAssumption DEF Init, Lesson
  <2>2. 0 \in Seconds
    BY PlayerAssumption DEF Seconds
  <2>3. stored \in BOOLEAN
    BY DEF Init
  <2> QED
    BY <2>1, <2>2, <2>3
<1>2. page \in Pages /\ page.out = {} /\ page.passed = {}
  BY <1>1, VisitIsPage DEF Init
<1>3. IsFiniteSet(page.out) /\ Cardinality(page.out) <= MaxInFlight
  BY <1>2, FS_EmptySet, PlayerAssumption
<1>4. PlayerTyped
  BY <1>1, <1>2, <1>3 DEF PlayerTyped, Init
<1>5. AnswersKept
  BY <1>2 DEF AnswersKept, Init
<1>6. CallsBeforeGate /\ SavedBeforeGate
  BY <1>1, <1>2 DEF CallsBeforeGate, SavedBeforeGate, Init, Lesson
<1> QED
  BY <1>4, <1>5, <1>6 DEF PlayerInv

-----------------------------------------------------------------------------

(* The page, what it sends and what the server keeps have their shape: no  *)
(* chain of media events leaves the video or has more calls under way than *)
(* there is room for (handleNativeTimeUpdate, handleTimeUpdate, guardSeek). *)
THEOREM PlayerTypes == Spec => []TypeOK
<1>1. PlayerInv => TypeOK
  <2> SUFFICES ASSUME PlayerInv PROVE TypeOK
    OBVIOUS
  <2>1. Cardinality(page.out) <= MaxInFlight + 1
    BY FS_CardinalityType, PlayerAssumption DEF PlayerInv, PlayerTyped
  <2> QED
    BY <2>1 DEF PlayerInv, PlayerTyped, TypeOK, Pages
<1> QED
  BY <1>1, PlayerInit, PlayerNext, PTL DEF Spec

(* Whatever the student scrubs, reloads and retakes, and in whatever order *)
(* the calls arrive, neither the resume position nor the coverage the      *)
(* server keeps (UpdateWatchProgress, AddWatchCoverage) passes a question  *)
(* that no visit has answered.                                             *)
THEOREM SavedStaysBeforeGate == Spec => []SavedBeforeGate
<1>1. PlayerInv => SavedBeforeGate
  BY DEF PlayerInv
<1> QED
  BY <1>1, PlayerInit, PlayerNext, PTL DEF Spec

================================================================================
