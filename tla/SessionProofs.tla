----------------------------- MODULE SessionProofs -----------------------------
(***************************************************************************)
(* What TLAPS proves about Session, for every number of tabs, components,  *)
(* users, tokens and faults: the calls of a page share one refresh, all of *)
(* them are woken by it, they act for the user the page shows, and nobody  *)
(* loses a good session but by a login or logout.                          *)
(*                                                                         *)
(* Who a call acts for is decided by tokens that travelled through the     *)
(* cookies, other tabs' requests and the refs of a page, so the invariant  *)
(* follows them there: the requests under way and the pages shown since    *)
(* the last login or logout all stand for one user, the pairs of answers   *)
(* that have not arrived are held by nobody else, and a page rendered      *)
(* before that was rendered with a pair that nothing current still holds.  *)
(***************************************************************************)
EXTENDS Session, SequenceTheorems, TLAPS

--------------------------------------------------------------------------------
(* Types. *)

Pairs == 0..Len(issued)
Jars == [access: Pairs, refresh: Pairs]
Replies == [cookies: {"keep", "clear", "both"}, pair: Pairs,
            show: {"page", "login", "error", "200", "401", "500"}]
Trips == [kind: {"nav", "login", "logout"}, user: Users \union {None}, jar: Jars,
          since: 0..epoch, reply: Replies \union {None}]
Refreshes == [tab: Tabs, jar: Jars, since: 0..epoch, reply: Replies \union {None}]
Pages == [at: {"page", "login", "error"}, user: Users, since: 0..epoch, prop: DOMAIN issued]
CallRecords == [stage: {"idle", "done", "failed"} \union InFlight, token: Pairs,
                user: Users \union {None}, since: 0..epoch, as: Users \union {None},
                same: BOOLEAN]

TokenTypes ==
    /\ issued \in Seq(Users)
    /\ old \subseteq DOMAIN issued /\ dead \subseteq DOMAIN issued
    /\ jar \in Jars
    /\ epoch \in Nat /\ raced \in BOOLEAN

PageTypes ==
    /\ tabs \in [Tabs -> Pages]
    /\ refs \in [Tabs -> [Slots -> DOMAIN issued]]
    /\ calls \in [Tabs -> [Slots -> CallRecords]]

RequestTypes ==
    /\ trip \in [Tabs -> Trips \union {None}]
    /\ fetches \in Seq(Refreshes)
    /\ promise \subseteq Tabs

Types == TokenTypes /\ PageTypes /\ RequestTypes

--------------------------------------------------------------------------------
(* The invariant. *)

\* The requests to /api/auth/refresh under way.
Fetches == {fetches[i] : i \in DOMAIN fetches}

Fresh(x) == x.reply # None /\ x.reply.cookies = "both"
FreshTrip(t) == trip[t] # None /\ Fresh(trip[t])

\* What an answer to a navigation or form can be.
TripReplies ==
    \A t \in Tabs :
        trip[t] # None /\ trip[t].reply # None =>
            LET x == trip[t]  r == x.reply IN
            /\ r.show \in {"page", "login", "error"}
            /\ r.cookies = "both" => r.show = "page" /\ r.pair # 0 /\ x.kind # "logout"
            /\ r.cookies = "keep" /\ r.show = "page" =>
                    x.kind = "nav" /\ r.pair # 0 /\ r.pair = x.jar.access
            /\ r.cookies = "clear" =>
                    r.show = "login" /\ (x.kind = "nav" => ~Good(x.jar.refresh))

\* A login form has a user.
LoginUsers ==
    \A t \in Tabs : trip[t] # None /\ trip[t].kind = "login" => trip[t].user \in Users

\* What an answer of /api/auth/refresh can be.
FetchReplies ==
    \A x \in Fetches :
        x.reply # None =>
            LET r == x.reply IN
            /\ r.show \in {"200", "401", "500"}
            /\ r.cookies = "both" <=> r.show = "200"
            /\ r.cookies = "both" => r.pair # 0
            /\ r.cookies = "clear" => ~Good(x.jar.refresh)

Holds(j, n) == j.access = n \/ j.refresh = n

\* No cookie, no page and no request under way has the pair.
Unused(n) ==
    /\ ~Holds(jar, n)
    /\ \A t \in Tabs : tabs[t].prop # n /\ (trip[t] # None => ~Holds(trip[t].jar, n))
    /\ \A x \in Fetches : ~Holds(x.jar, n)

\* The pair of an answer on its way is in that answer only.
Pending(n) ==
    \/ \E t \in Tabs : FreshTrip(t) /\ trip[t].reply.pair = n
    \/ \E x \in Fetches : Fresh(x) /\ x.reply.pair = n

FreshUnused == \A n \in Nat : Pending(n) => Unused(n)

FreshDistinct ==
    /\ \A t, u \in Tabs :
          FreshTrip(t) /\ FreshTrip(u) /\ t # u => trip[t].reply.pair # trip[u].reply.pair
    /\ \A t \in Tabs, x \in Fetches :
          FreshTrip(t) /\ Fresh(x) => trip[t].reply.pair # x.reply.pair
    /\ \A x, y \in Fetches :
          Fresh(x) /\ Fresh(y) /\ x.tab # y.tab => x.reply.pair # y.reply.pair

\* Cookies of u, or none.
JarOf(u, j) ==
    (j.access # 0 => issued[j.access] = u) /\ (j.refresh # 0 => issued[j.refresh] = u)

\* Everything since the last login or logout is u's: cookies, pages, requests, calls.
PagesOf(u) ==
    \A t \in Tabs :
        tabs[t].at = "page" /\ tabs[t].since = epoch =>
            tabs[t].user = u /\ \A s \in Slots : issued[refs[t][s]] = u

TripsOf(u) ==
    \A t \in Tabs :
        trip[t] # None /\ trip[t].since = epoch =>
            /\ JarOf(u, trip[t].jar)
            /\ trip[t].kind = "nav" /\ Fresh(trip[t]) => issued[trip[t].reply.pair] = u

FetchesOf(u) ==
    \A x \in Fetches :
        x.since = epoch => JarOf(u, x.jar) /\ (Fresh(x) => issued[x.reply.pair] = u)

CallsOf(u) ==
    \A t \in Tabs, s \in Slots :
        calls[t][s].stage \in InFlight /\ calls[t][s].since = epoch =>
            calls[t][s].user = u /\ issued[calls[t][s].token] = u

EpochOf(u) == JarOf(u, jar) /\ PagesOf(u) /\ TripsOf(u) /\ FetchesOf(u) /\ CallsOf(u)

\* An access token a page may yet be rendered with as a current one.
Current(n) ==
    \/ jar.access = n
    \/ \E t \in Tabs : trip[t] # None /\ trip[t].since = epoch /\ trip[t].jar.access = n

\* An access token of a page rendered, or to be, from before the last login or logout.
Older(n) ==
    \E t \in Tabs :
        \/ tabs[t].at = "page" /\ tabs[t].since # epoch /\ tabs[t].prop = n
        \/ trip[t] # None /\ trip[t].since # epoch /\ trip[t].jar.access = n

OldApart == \A n \in Nat \ {0} : ~(Older(n) /\ Current(n))

\* As long as no late answer has touched the cookies.
EpochHolds == ~raced => OldApart /\ \E u \in Users : EpochOf(u)

\* A call in flight has a token.
TokensCarried ==
    \A t \in Tabs, s \in Slots : calls[t][s].stage \in InFlight => calls[t][s].token # 0

\* The promise of a tab stands for its request.
PromiseKept == \A t \in Tabs : t \in promise <=> \E x \in Fetches : x.tab = t

Awaited == \A t \in Tabs, s \in Slots : calls[t][s].stage = "wait" => t \in promise

Answers == LoginUsers /\ TripReplies /\ FetchReplies /\ FreshUnused /\ FreshDistinct
Waits == OneRefresh /\ PromiseKept /\ Awaited
CallsKept == TokensCarried /\ ActsAsShown

\* The inductive invariant.
SessionInv ==
    /\ Types /\ Answers /\ EpochHolds /\ Waits /\ CallsKept

--------------------------------------------------------------------------------
(* The requests as a set. *)

\* Removing position i from a sequence keeps its other elements in order.
LEMMA RemoveAtElements ==
    ASSUME NEW S, NEW q \in Seq(S), NEW i \in DOMAIN q
    PROVE  /\ RemoveAt(q, i) \in Seq(S)
           /\ DOMAIN RemoveAt(q, i) = 1..(Len(q) - 1)
           /\ \A j \in 1..(i - 1) : RemoveAt(q, i)[j] = q[j]
           /\ \A j \in i..(Len(q) - 1) : RemoveAt(q, i)[j] = q[j + 1]
<1> DEFINE l == SubSeq(q, 1, i - 1)  r == SubSeq(q, i + 1, Len(q))
<1>1. i \in 1..Len(q) /\ Len(q) \in Nat
  BY LenProperties
<1>2. l \in Seq(S) /\ Len(l) = i - 1 /\ \A j \in 1..(i - 1) : l[j] = q[j]
  BY <1>1, SubSeqProperties, LenProperties
<1>3. r \in Seq(S) /\ Len(r) = Len(q) - i /\ \A j \in 1..(Len(q) - i) : r[j] = q[i + j]
  BY <1>1, SubSeqProperties, LenProperties
<1> HIDE DEF l, r
<1>4. /\ l \o r \in Seq(S)
      /\ Len(l \o r) = Len(l) + Len(r)
      /\ \A j \in 1 .. Len(l) + Len(r) :
            (l \o r)[j] = IF j <= Len(l) THEN l[j] ELSE r[j - Len(l)]
  BY <1>2, <1>3, ConcatProperties
<1>5. Len(l \o r) = Len(q) - 1 /\ \A j \in 1..(i - 1) : (l \o r)[j] = q[j]
  BY <1>1, <1>2, <1>3, <1>4
<1>6. ASSUME NEW j \in i..(Len(q) - 1)
      PROVE  (l \o r)[j] = q[j + 1]
  <2>1. j - (i - 1) \in 1..(Len(q) - i) /\ j \in 1 .. Len(l) + Len(r) /\ ~(j <= Len(l))
    BY <1>1, <1>2, <1>3
  <2>2. (l \o r)[j] = r[j - (i - 1)] /\ r[j - (i - 1)] = q[i + (j - (i - 1))]
    BY <1>2, <1>3, <1>4, <2>1
  <2> QED
    BY <1>1, <2>2
<1>7. RemoveAt(q, i) = l \o r
  BY DEF RemoveAt, l, r
<1> QED
  BY <1>4, <1>5, <1>6, <1>7, LenProperties

\* An answer takes the only request of its tab away.
LEMMA FetchRemoved ==
    ASSUME fetches \in Seq(Refreshes), OneRefresh, NEW i \in DOMAIN fetches,
           fetches' = RemoveAt(fetches, i)
    PROVE  /\ fetches' \in Seq(Refreshes)
           /\ \A x : x \in Fetches' <=> x \in Fetches /\ x.tab # fetches[i].tab
           /\ OneRefresh'
<1>1. i \in 1..Len(fetches) /\ Len(fetches) \in Nat /\ DOMAIN fetches = 1..Len(fetches)
  BY LenProperties
<1>2. /\ fetches' \in Seq(Refreshes)
      /\ DOMAIN fetches' = 1..(Len(fetches) - 1)
      /\ \A j \in 1..(i - 1) : fetches'[j] = fetches[j]
      /\ \A j \in i..(Len(fetches) - 1) : fetches'[j] = fetches[j + 1]
  BY RemoveAtElements
<1>3. \A j \in DOMAIN fetches' : \E k \in DOMAIN fetches :
        /\ k # i /\ fetches'[j] = fetches[k]
        /\ j < i => k = j
        /\ ~(j < i) => k = j + 1
  BY <1>1, <1>2
<1>4. \A k \in DOMAIN fetches : k # i => \E j \in DOMAIN fetches' : fetches'[j] = fetches[k]
  <2> SUFFICES ASSUME NEW k \in DOMAIN fetches, k # i
               PROVE  \E j \in DOMAIN fetches' : fetches'[j] = fetches[k]
    OBVIOUS
  <2>1. CASE k < i
    <3>1. k \in 1..(i - 1) /\ k \in DOMAIN fetches'
      BY <1>1, <1>2, <2>1
    <3> QED
      BY <1>2, <3>1
  <2>2. CASE k > i
    <3>1. k - 1 \in i..(Len(fetches) - 1) /\ k - 1 \in DOMAIN fetches' /\ (k - 1) + 1 = k
      BY <1>1, <1>2, <2>2
    <3> QED
      BY <1>2, <3>1
  <2> QED
    BY <1>1, <2>1, <2>2
<1>5. OneRefresh'
  <2> SUFFICES ASSUME NEW a \in DOMAIN fetches', NEW b \in DOMAIN fetches',
                      fetches'[a].tab = fetches'[b].tab
               PROVE  a = b
    BY DEF OneRefresh
  <2>1. PICK k \in DOMAIN fetches : /\ fetches'[a] = fetches[k]
                                    /\ a < i => k = a
                                    /\ ~(a < i) => k = a + 1
    BY <1>3
  <2>2. PICK m \in DOMAIN fetches : /\ fetches'[b] = fetches[m]
                                    /\ b < i => m = b
                                    /\ ~(b < i) => m = b + 1
    BY <1>3
  <2>3. k = m
    BY <2>1, <2>2 DEF OneRefresh
  <2> QED
    BY <1>1, <1>2, <2>1, <2>2, <2>3
<1>6. \A x : x \in Fetches' => x \in Fetches /\ x.tab # fetches[i].tab
  BY <1>3 DEF Fetches, OneRefresh
<1>7. \A x : x \in Fetches /\ x.tab # fetches[i].tab => x \in Fetches'
  BY <1>4 DEF Fetches
<1> QED
  BY <1>2, <1>5, <1>6, <1>7

\* A request that starts is the only one of its tab.
LEMMA FetchAppended ==
    ASSUME fetches \in Seq(Refreshes), OneRefresh, NEW x \in Refreshes,
           \A y \in Fetches : y.tab # x.tab,
           fetches' = Append(fetches, x)
    PROVE  /\ fetches' \in Seq(Refreshes)
           /\ \A y : y \in Fetches' <=> y \in Fetches \/ y = x
           /\ OneRefresh'
<1>1. /\ fetches' \in Seq(Refreshes)
      /\ Len(fetches) \in Nat /\ DOMAIN fetches = 1..Len(fetches)
      /\ DOMAIN fetches' = 1..(Len(fetches) + 1)
      /\ \A j \in DOMAIN fetches : fetches'[j] = fetches[j]
      /\ fetches'[Len(fetches) + 1] = x
  BY AppendProperties, LenProperties
<1>2. \A y : y \in Fetches' <=> y \in Fetches \/ y = x
  <2>1. \A j \in DOMAIN fetches' : j \in DOMAIN fetches \/ j = Len(fetches) + 1
    BY <1>1
  <2>2. Len(fetches) + 1 \in DOMAIN fetches' /\ DOMAIN fetches \subseteq DOMAIN fetches'
    BY <1>1
  <2> QED
    BY <1>1, <2>1, <2>2 DEF Fetches
<1>3. OneRefresh'
  BY <1>1 DEF OneRefresh, Fetches
<1> QED
  BY <1>1, <1>2, <1>3

\* The route answers a request: it is replaced in its place.
LEMMA FetchServed ==
    ASSUME fetches \in Seq(Refreshes), OneRefresh, NEW i \in DOMAIN fetches,
           NEW x, x.tab = fetches[i].tab, fetches' = [fetches EXCEPT ![i] = x]
    PROVE  /\ \A y : y \in Fetches' <=> y = x \/ (y \in Fetches /\ y.tab # x.tab)
           /\ \A S : fetches \in Seq(S) /\ x \in S => fetches' \in Seq(S)
           /\ OneRefresh'
<1>1. DOMAIN fetches = 1..Len(fetches) /\ Len(fetches) \in Nat
  BY LenProperties
<1>2. DOMAIN fetches' = DOMAIN fetches /\ fetches'[i] = x
      /\ \A j \in DOMAIN fetches : j # i => fetches'[j] = fetches[j]
  OBVIOUS
<1>3. \A y : y \in Fetches' <=> y = x \/ (y \in Fetches /\ y.tab # x.tab)
  BY <1>2 DEF Fetches, OneRefresh
<1>4. \A S : fetches \in Seq(S) /\ x \in S => fetches' \in Seq(S)
  BY <1>1, ExceptSeq
<1>5. OneRefresh'
  BY <1>2 DEF OneRefresh
<1> QED
  BY <1>3, <1>4, <1>5

--------------------------------------------------------------------------------
(* Answers. *)

\* No pair is forgotten, and none changes hands.
LEMMA Grown ==
    ASSUME issued \in Seq(Users), epoch \in Nat, epoch' \in Nat, epoch <= epoch',
           issued' = issued \/ \E u \in Users : issued' = Append(issued, u)
    PROVE  /\ issued' \in Seq(Users)
           /\ Pairs \subseteq Pairs' /\ DOMAIN issued \subseteq DOMAIN issued'
           /\ Jars \subseteq Jars' /\ Replies \subseteq Replies' /\ Trips \subseteq Trips'
           /\ Refreshes \subseteq Refreshes' /\ Pages \subseteq Pages'
           /\ CallRecords \subseteq CallRecords'
           /\ \A n \in DOMAIN issued : issued'[n] = issued[n]
           /\ Len(issued) \in Nat /\ DOMAIN issued = 1..Len(issued)
           /\ DOMAIN issued' = 1..Len(issued')
<1>1. /\ issued' \in Seq(Users)
      /\ Len(issued) \in Nat /\ Len(issued') \in Nat /\ Len(issued) <= Len(issued')
      /\ DOMAIN issued = 1..Len(issued) /\ DOMAIN issued' = 1..Len(issued')
      /\ \A n \in DOMAIN issued : issued'[n] = issued[n]
  <2>1. CASE issued' = issued
    BY <2>1, LenProperties
  <2>2. CASE \E u \in Users : issued' = Append(issued, u)
    BY <2>2, AppendProperties, LenProperties
  <2> QED
    BY <2>1, <2>2
<1>2. Pairs \subseteq Pairs' /\ DOMAIN issued \subseteq DOMAIN issued' /\ 0..epoch \subseteq 0..epoch'
  <2>1. \A m, n \in Nat : m <= n => 0..m \subseteq 0..n /\ 1..m \subseteq 1..n
    OBVIOUS
  <2>2. Pairs \subseteq Pairs'
    BY <1>1, <2>1 DEF Pairs
  <2>3. DOMAIN issued \subseteq DOMAIN issued'
    BY <1>1, <2>1
  <2> QED
    BY <2>1, <2>2, <2>3
<1>3. Jars \subseteq Jars' /\ Replies \subseteq Replies'
  BY <1>2 DEF Jars, Replies
<1>4. Trips \subseteq Trips' /\ Refreshes \subseteq Refreshes'
  BY <1>2, <1>3 DEF Trips, Refreshes
<1>5. Pages \subseteq Pages' /\ CallRecords \subseteq CallRecords'
  BY <1>2 DEF Pages, CallRecords
<1> QED
  BY <1>1, <1>2, <1>3, <1>4, <1>5

\* What the proxy and the forms answer, before the pair they set is issued.
LEMMA TripAnswer ==
    ASSUME Types, NEW x \in Trips, NEW r \in ReplyTo(x)
    PROVE  /\ r.cookies \in {"keep", "clear", "both"} /\ r.show \in {"page", "login", "error"}
           /\ r.pair \in Pairs \/ r.pair = NextPair
           /\ r = [cookies |-> r.cookies, pair |-> r.pair, show |-> r.show]
           /\ r.cookies = "both" <=> r.pair = NextPair
           /\ r.cookies = "both" => r.show = "page" /\ x.kind # "logout"
           /\ r.cookies = "both" /\ x.kind = "nav" => x.jar.refresh # 0
           /\ r.cookies = "keep" /\ r.show = "page" =>
                    x.kind = "nav" /\ r.pair # 0 /\ r.pair = x.jar.access
           /\ r.cookies = "clear" => r.show = "login" /\ (x.kind = "nav" => ~Good(x.jar.refresh))
<1>1. Len(issued) \in Nat /\ NextPair = Len(issued) + 1 /\ NextPair \notin Pairs /\ 0 \in Pairs
      /\ x.jar.access \in Pairs
  BY LenProperties DEF Types, TokenTypes, NextPair, Pairs, Trips, Jars
<1>2. CASE x.kind = "nav"
  <2>1. r = ProxyReply(x.jar)
    BY <1>2 DEF ReplyTo
  <2>2. CASE Valid(x.jar.access)
    BY <1>1, <1>2, <2>1, <2>2 DEF ProxyReply, Reply, Valid
  <2>3. CASE ~Valid(x.jar.access) /\ x.jar.refresh = 0
    BY <1>1, <1>2, <2>1, <2>3 DEF ProxyReply, Reply, Good
  <2>4. CASE ~Valid(x.jar.access) /\ x.jar.refresh # 0
    <3>1. CASE ~up
      BY <1>1, <1>2, <2>1, <2>4, <3>1 DEF ProxyReply, Reply, SilentRefresh
    <3>2. CASE up /\ Good(x.jar.refresh)
      BY <1>1, <1>2, <2>1, <2>4, <3>2 DEF ProxyReply, Reply, SilentRefresh
    <3>3. CASE up /\ ~Good(x.jar.refresh)
      BY <1>1, <1>2, <2>1, <2>4, <3>3 DEF ProxyReply, Reply, SilentRefresh
    <3> QED
      BY <3>1, <3>2, <3>3
  <2> QED
    BY <2>2, <2>3, <2>4
<1>3. CASE x.kind = "login"
  BY <1>1, <1>3 DEF ReplyTo, LoginReply, Reply
<1>4. CASE x.kind = "logout"
  BY <1>1, <1>4 DEF ReplyTo, Reply
<1> QED
  BY <1>2, <1>3, <1>4 DEF Trips

\* What /api/auth/refresh answers.
LEMMA FetchAnswer ==
    ASSUME Types, NEW j \in Jars, NEW r, r = RefreshReply(j)
    PROVE  /\ r.cookies \in {"keep", "clear", "both"} /\ r.show \in {"200", "401", "500"}
           /\ r.pair \in Pairs \/ r.pair = NextPair
           /\ r = [cookies |-> r.cookies, pair |-> r.pair, show |-> r.show]
           /\ r.cookies = "both" <=> r.pair = NextPair
           /\ r.cookies = "both" <=> r.show = "200"
           /\ r.cookies = "both" => j.refresh # 0
           /\ r.cookies = "clear" => ~Good(j.refresh)
<1>1. Len(issued) \in Nat /\ NextPair = Len(issued) + 1 /\ NextPair \notin Pairs /\ 0 \in Pairs
  BY LenProperties DEF Types, TokenTypes, NextPair, Pairs
<1>2. CASE j.refresh = 0
  BY <1>1, <1>2 DEF RefreshReply, Reply, Good
<1>3. CASE j.refresh # 0 /\ ~up
  BY <1>1, <1>3 DEF RefreshReply, Reply, SilentRefresh
<1>4. CASE j.refresh # 0 /\ up /\ Good(j.refresh)
  BY <1>1, <1>4 DEF RefreshReply, Reply, SilentRefresh
<1>5. CASE j.refresh # 0 /\ up /\ ~Good(j.refresh)
  BY <1>1, <1>5 DEF RefreshReply, Reply, SilentRefresh
<1> QED
  BY <1>2, <1>3, <1>4, <1>5

--------------------------------------------------------------------------------
(* Steps that only take requests, pages or cookies away, or touch a call. *)

\* What Types says, variable by variable.
LEMMA TypesUsed ==
    ASSUME Types
    PROVE  /\ Len(issued) \in Nat /\ DOMAIN issued = 1..Len(issued)
           /\ \A n \in DOMAIN issued : issued[n] \in Users
           /\ \A n \in Pairs : n \in Nat /\ (n # 0 => n \in DOMAIN issued)
           /\ jar.access \in Pairs /\ jar.refresh \in Pairs
           /\ \A t \in Tabs : trip[t] # None =>
                /\ trip[t] \in Trips
                /\ trip[t].jar.access \in Pairs /\ trip[t].jar.refresh \in Pairs
                /\ trip[t].reply # None => trip[t].reply \in Replies /\ trip[t].reply.pair \in Pairs
           /\ \A x \in Fetches :
                /\ x \in Refreshes
                /\ x.jar.access \in Pairs /\ x.jar.refresh \in Pairs
                /\ x.reply # None => x.reply \in Replies /\ x.reply.pair \in Pairs
           /\ \A t \in Tabs : tabs[t].prop \in Pairs /\ tabs[t].prop # 0
<1>1. /\ Len(issued) \in Nat /\ DOMAIN issued = 1..Len(issued)
      /\ \A n \in DOMAIN issued : issued[n] \in Users
  BY LenProperties DEF Types, TokenTypes
<1>2. \A n \in Pairs : n \in Nat /\ (n # 0 => n \in DOMAIN issued)
  BY <1>1 DEF Pairs
<1>3. \A x \in Fetches : x \in Refreshes
  BY LenProperties DEF Fetches, Types, RequestTypes
<1>4. \A x \in Refreshes :
        /\ x.jar.access \in Pairs /\ x.jar.refresh \in Pairs
        /\ x.reply # None => x.reply \in Replies /\ x.reply.pair \in Pairs
  BY DEF Refreshes, Jars, Replies
<1>5. \A x \in Trips :
        /\ x.jar.access \in Pairs /\ x.jar.refresh \in Pairs
        /\ x.reply # None => x.reply \in Replies /\ x.reply.pair \in Pairs
  BY DEF Trips, Jars, Replies
<1>6. \A t \in Tabs : trip[t] # None => trip[t] \in Trips
  BY DEF Types, RequestTypes
<1>7. jar.access \in Pairs /\ jar.refresh \in Pairs
  BY DEF Types, TokenTypes, Jars
<1>8. \A t \in Tabs : tabs[t].prop \in Pairs /\ tabs[t].prop # 0
  <2>1. \A t \in Tabs : tabs[t].prop \in DOMAIN issued
    BY DEF Types, PageTypes, Pages
  <2> QED
    BY <1>1, <2>1 DEF Pairs
<1> QED
  BY <1>1, <1>2, <1>3, <1>4, <1>5, <1>6, <1>7, <1>8

\* A pair that is pending is one.
LEMMA PendingPairs ==
    ASSUME Types, Answers, NEW n, Pending(n)
    PROVE  n \in Pairs /\ n # 0 /\ n \in Nat
BY TypesUsed DEF Pending, Answers, TripReplies, FetchReplies, FreshTrip, Fresh

\* Requests end, pages close, cookies are cleared: nothing that held is lost.
LEMMA Dwindling ==
    ASSUME SessionInv, issued' = issued, epoch' = epoch, dead \subseteq dead',
           refs' = refs,
           jar' = jar \/ jar' = [access |-> 0, refresh |-> 0],
           \A t \in Tabs : trip'[t] = None \/ trip'[t] = trip[t],
           \A t \in Tabs : /\ tabs'[t].prop = tabs[t].prop
                           /\ tabs'[t] = tabs[t] \/ tabs'[t].at # "page",
           \A x \in Fetches' : x \in Fetches
    PROVE  /\ Answers'
           /\ OldApart => OldApart'
           /\ \A u : JarOf(u, jar) /\ PagesOf(u) /\ TripsOf(u) /\ FetchesOf(u) =>
                     JarOf(u, jar)' /\ PagesOf(u)' /\ TripsOf(u)' /\ FetchesOf(u)'
<1> USE DEF SessionInv
<1>1. TripReplies'
  BY DEF Answers, TripReplies, Good
<1>2. FetchReplies'
  BY DEF Answers, FetchReplies, Good
<1>3. \A n : Pending(n)' => Pending(n)
  BY DEF Pending, FreshTrip, Fresh
<1>4. \A n \in Nat \ {0} : Unused(n) => Unused(n)'
  BY DEF Unused, Holds
<1>5. FreshUnused'
  BY <1>3, <1>4, PendingPairs DEF Answers, FreshUnused
<1>6. FreshDistinct'
  BY DEF Answers, FreshDistinct, FreshTrip, Fresh
<1>7. OldApart => OldApart'
  <2>1. \A n : Older(n)' => Older(n)
    BY DEF Older
  <2>2. \A n \in Nat \ {0} : Current(n)' => Current(n)
    BY DEF Current
  <2> QED
    BY <2>1, <2>2 DEF OldApart
<1>8. ASSUME NEW u, JarOf(u, jar), PagesOf(u), TripsOf(u), FetchesOf(u)
      PROVE  JarOf(u, jar)' /\ PagesOf(u)' /\ TripsOf(u)' /\ FetchesOf(u)'
  <2>1. JarOf(u, jar)'
    BY <1>8 DEF JarOf
  <2>2. PagesOf(u)'
    BY <1>8 DEF PagesOf
  <2>3. TripsOf(u)'
    BY <1>8 DEF TripsOf, JarOf, Fresh
  <2>4. FetchesOf(u)'
    BY <1>8 DEF FetchesOf, JarOf, Fresh
  <2> QED
    BY <2>1, <2>2, <2>3, <2>4
<1>9. LoginUsers'
  BY DEF Answers, LoginUsers
<1> QED
  BY <1>1, <1>2, <1>5, <1>6, <1>7, <1>8, <1>9 DEF Answers

\* One call changes.
LEMMA CallPut ==
    ASSUME Types, NEW t \in Tabs, NEW s \in Slots, NEW c, Put(t, s, c)
    PROVE  /\ calls'[t][s] = c
           /\ \A u \in Tabs, z \in Slots : ~(u = t /\ z = s) => calls'[u][z] = calls[u][z]
           /\ c \in CallRecords => calls' \in [Tabs -> [Slots -> CallRecords]]
<1>1. calls \in [Tabs -> [Slots -> CallRecords]] /\ calls' = [calls EXCEPT ![t][s] = c]
  BY DEF Types, PageTypes, Put
<1>2. /\ calls'[t] = [calls[t] EXCEPT ![s] = c]
      /\ \A u \in Tabs \ {t} : calls'[u] = calls[u]
      /\ calls[t] \in [Slots -> CallRecords]
  BY <1>1
<1>3. c \in CallRecords => calls'[t] \in [Slots -> CallRecords]
  BY <1>2
<1>4. c \in CallRecords => calls' \in [Tabs -> [Slots -> CallRecords]]
  BY <1>1, <1>2, <1>3
<1> QED
  BY <1>2, <1>4

\* What a step leaves alone keeps its type.
LEMMA TypesKept ==
    ASSUME Types, epoch' \in Nat, epoch <= epoch',
           issued' = issued \/ \E u \in Users : issued' = Append(issued, u),
           old' = old \/ old' \subseteq DOMAIN issued, dead' = dead \/ dead' \subseteq DOMAIN issued,
           jar' = jar \/ jar' \in Jars', raced' \in BOOLEAN,
           tabs' = tabs \/ tabs' \in [Tabs -> Pages'],
           refs' = refs \/ refs' \in [Tabs -> [Slots -> DOMAIN issued']],
           calls' = calls \/ calls' \in [Tabs -> [Slots -> CallRecords']],
           trip' = trip \/ trip' \in [Tabs -> Trips' \union {None}],
           fetches' = fetches \/ fetches' \in Seq(Refreshes'),
           promise' \subseteq Tabs
    PROVE  Types'
<1>1. /\ issued' \in Seq(Users)
      /\ Pairs \subseteq Pairs' /\ DOMAIN issued \subseteq DOMAIN issued'
      /\ Jars \subseteq Jars' /\ Replies \subseteq Replies' /\ Trips \subseteq Trips'
      /\ Refreshes \subseteq Refreshes' /\ Pages \subseteq Pages'
      /\ CallRecords \subseteq CallRecords'
  BY Grown DEF Types, TokenTypes
<1>2. TokenTypes'
  BY <1>1 DEF Types, TokenTypes
<1>3. PageTypes'
  <2>1. tabs' \in [Tabs -> Pages']
    BY <1>1 DEF Types, PageTypes
  <2>2. refs' \in [Tabs -> [Slots -> DOMAIN issued']]
    BY <1>1 DEF Types, PageTypes
  <2>3. calls' \in [Tabs -> [Slots -> CallRecords']]
    BY <1>1 DEF Types, PageTypes
  <2> QED
    BY <2>1, <2>2, <2>3 DEF PageTypes
<1>4. RequestTypes'
  <2>1. trip' \in [Tabs -> Trips' \union {None}]
    BY <1>1 DEF Types, RequestTypes
  <2>2. fetches' \in Seq(Refreshes')
    BY <1>1, SeqMonotonic DEF Types, RequestTypes
  <2> QED
    BY <2>1, <2>2 DEF RequestTypes
<1> QED
  BY <1>2, <1>3, <1>4 DEF Types

\* A tab leaves its page and remembers what it was rendered with.
LEMMA PageClosed ==
    ASSUME Types, NEW t \in Tabs,
           \/ tabs' = [tabs EXCEPT ![t].at = "login"]
           \/ tabs' = [tabs EXCEPT ![t].at = "error"]
    PROVE  /\ tabs' \in [Tabs -> Pages]
           /\ \A u \in Tabs : /\ tabs'[u].prop = tabs[u].prop
                              /\ tabs'[u] = tabs[u] \/ tabs'[u].at # "page"
<1>1. tabs \in [Tabs -> Pages]
  BY DEF Types, PageTypes
<1>2. /\ \/ tabs'[t] = [tabs[t] EXCEPT !.at = "login"]
         \/ tabs'[t] = [tabs[t] EXCEPT !.at = "error"]
      /\ \A u \in Tabs \ {t} : tabs'[u] = tabs[u]
  BY <1>1
<1>3. tabs'[t] \in Pages /\ tabs'[t].prop = tabs[t].prop /\ tabs'[t].at # "page"
  BY <1>1, <1>2 DEF Pages
<1>4. tabs' \in [Tabs -> Pages]
  BY <1>1, <1>2, <1>3
<1> QED
  BY <1>2, <1>3, <1>4

\* Time passes, and the backend goes and comes.
LEMMA TokenStep ==
    ASSUME SessionInv, Expire \/ Outage \/ Recover \/ UNCHANGED vars
    PROVE  SessionInv'
<1> USE DEF SessionInv
<1>1. /\ UNCHANGED <<issued, jar, tabs, refs, calls, trip, fetches, promise, epoch, raced>>
      /\ dead \subseteq dead'
      /\ old' \subseteq DOMAIN issued /\ dead' \subseteq DOMAIN issued
  BY DEF Expire, Outage, Recover, vars, Types, TokenTypes
<1>2. Types'
  BY <1>1, TypesKept DEF Types, TokenTypes, RequestTypes
<1>3. Fetches' = Fetches
  BY <1>1 DEF Fetches
<1>4. /\ Answers'
      /\ OldApart => OldApart'
      /\ \A u : JarOf(u, jar) /\ PagesOf(u) /\ TripsOf(u) /\ FetchesOf(u) =>
                JarOf(u, jar)' /\ PagesOf(u)' /\ TripsOf(u)' /\ FetchesOf(u)'
  BY <1>1, <1>3, Dwindling
<1>5. \A u : CallsOf(u) => CallsOf(u)'
  BY <1>1 DEF CallsOf
<1>6. EpochHolds'
  BY <1>1, <1>4, <1>5 DEF EpochHolds, EpochOf
<1>7. Waits' /\ CallsKept'
  BY <1>1, <1>3 DEF Waits, OneRefresh, PromiseKept, Awaited, CallsKept, TokensCarried, ActsAsShown
<1> QED
  BY <1>2, <1>4, <1>6, <1>7

\* A navigation or form fails.
LEMMA LoseTripStep ==
    ASSUME SessionInv, NEW t \in Tabs, LoseTrip(t)
    PROVE  SessionInv'
<1> USE DEF SessionInv
<1>1. /\ UNCHANGED <<issued, old, dead, jar, refs, calls, fetches, promise, epoch, raced>>
      /\ trip' = [trip EXCEPT ![t] = None]
      /\ tabs' = [tabs EXCEPT ![t].at = "error"] \/ tabs' = tabs
  BY DEF LoseTrip, tokens
<1>2. /\ tabs' \in [Tabs -> Pages]
      /\ \A u \in Tabs : /\ tabs'[u].prop = tabs[u].prop
                         /\ tabs'[u] = tabs[u] \/ tabs'[u].at # "page"
  <2>1. CASE tabs' = [tabs EXCEPT ![t].at = "error"]
    <3>1. tabs' \in [Tabs -> Pages]
      BY <2>1, PageClosed
    <3>2. \A u \in Tabs : tabs'[u].prop = tabs[u].prop
      BY <2>1, PageClosed
    <3>3. \A u \in Tabs : tabs'[u] = tabs[u] \/ tabs'[u].at # "page"
      BY <2>1, PageClosed
    <3> QED
      BY <3>1, <3>2, <3>3
  <2>2. CASE tabs' = tabs
    BY <2>2 DEF Types, PageTypes
  <2> QED
    BY <1>1, <2>1, <2>2
<1>3. \A u \in Tabs : trip'[u] = None \/ trip'[u] = trip[u]
  BY <1>1 DEF Types, RequestTypes
<1>4. Types'
  <2>1. Pages' = Pages /\ Trips' = Trips
    BY <1>1 DEF Pages, Trips, Jars, Replies, Pairs
  <2>2. trip' \in [Tabs -> Trips' \union {None}]
    BY <1>1, <2>1 DEF Types, RequestTypes
  <2> QED
    BY <1>1, <1>2, <2>1, <2>2, TypesKept DEF Types, TokenTypes, RequestTypes
<1>5. Fetches' = Fetches
  BY <1>1 DEF Fetches
<1>6. /\ Answers'
      /\ OldApart => OldApart'
      /\ \A u : JarOf(u, jar) /\ PagesOf(u) /\ TripsOf(u) /\ FetchesOf(u) =>
                JarOf(u, jar)' /\ PagesOf(u)' /\ TripsOf(u)' /\ FetchesOf(u)'
  BY <1>1, <1>2, <1>3, <1>5, Dwindling
<1>7. \A u : CallsOf(u) => CallsOf(u)'
  BY <1>1 DEF CallsOf
<1>8. EpochHolds'
  BY <1>1, <1>6, <1>7 DEF EpochHolds, EpochOf
<1>9. Waits' /\ CallsKept'
  BY <1>1, <1>5 DEF Waits, OneRefresh, PromiseKept, Awaited, CallsKept, TokensCarried, ActsAsShown
<1> QED
  BY <1>4, <1>6, <1>8, <1>9

\* A step of one call that needs no refresh.
LEMMA CallChanges ==
    ASSUME SessionInv, NEW t \in Tabs, NEW s \in Slots, NEW c \in CallRecords, Put(t, s, c),
           UNCHANGED <<issued, old, dead, jar, tabs, refs, trip, fetches, promise, epoch, raced>>,
           c.stage # "wait",
           c.stage \in InFlight => c.token # 0,
           c.stage \in InFlight /\ c.since = epoch =>
              \A u : ~raced /\ EpochOf(u) => c.user = u /\ issued[c.token] = u,
           c.as # None /\ c.same /\ ~raced => c.as = c.user
    PROVE  SessionInv'
<1> USE DEF SessionInv
<1>1. /\ calls'[t][s] = c
      /\ \A u \in Tabs, z \in Slots : ~(u = t /\ z = s) => calls'[u][z] = calls[u][z]
      /\ calls' \in [Tabs -> [Slots -> CallRecords]]
  BY CallPut
<1>2. CallRecords' = CallRecords
  BY DEF CallRecords, Pairs
<1>3. Types'
  BY <1>1, <1>2, TypesKept DEF Types, TokenTypes, RequestTypes
<1>4. Fetches' = Fetches
  BY DEF Fetches
<1>5. /\ Answers'
      /\ OldApart => OldApart'
      /\ \A u : JarOf(u, jar) /\ PagesOf(u) /\ TripsOf(u) /\ FetchesOf(u) =>
                JarOf(u, jar)' /\ PagesOf(u)' /\ TripsOf(u)' /\ FetchesOf(u)'
  BY <1>4, Dwindling
<1>6. \A u : ~raced /\ EpochOf(u) => CallsOf(u)'
  BY <1>1 DEF CallsOf, EpochOf
<1>7. EpochHolds'
  BY <1>5, <1>6 DEF EpochHolds, EpochOf
<1>8. Waits'
  BY <1>1, <1>4 DEF Waits, OneRefresh, PromiseKept, Awaited
<1>9. CallsKept'
  BY <1>1 DEF CallsKept, TokensCarried, ActsAsShown
<1> QED
  BY <1>3, <1>5, <1>7, <1>8, <1>9

\* A call is sent with the token its component holds.
LEMMA SendStep ==
    ASSUME SessionInv, NEW t \in Tabs, NEW s \in Slots, Send(t, s)
    PROVE  SessionInv'
<1> USE DEF SessionInv
<1>1. PICK c : /\ c = [Idle EXCEPT !.stage = "sent", !.token = refs[t][s],
                                   !.user = tabs[t].user, !.since = tabs[t].since]
               /\ Put(t, s, c) /\ tabs[t].at = "page"
  BY DEF Send
<1>2. /\ c.stage = "sent" /\ c.token = refs[t][s] /\ c.user = tabs[t].user
      /\ c.since = tabs[t].since /\ c.as = None
      /\ c = [stage |-> "sent", token |-> refs[t][s], user |-> tabs[t].user,
              since |-> tabs[t].since, as |-> None, same |-> TRUE]
  BY <1>1 DEF Idle
<1>3. refs[t][s] \in Pairs /\ refs[t][s] # 0
  <2>1. refs[t][s] \in DOMAIN issued
    BY DEF Types, PageTypes
  <2> QED
    BY <2>1, TypesUsed DEF Pairs
<1>4. c \in CallRecords
  BY <1>2, <1>3 DEF CallRecords, InFlight, Types, PageTypes, Pages
<1>5. \A u : EpochOf(u) /\ c.since = epoch => c.user = u /\ issued[c.token] = u
  BY <1>1, <1>2 DEF EpochOf, PagesOf
<1>6. UNCHANGED <<issued, old, dead, jar, tabs, refs, trip, fetches, promise, epoch, raced>>
  BY DEF Send, tokens
<1> QED
  BY <1>1, <1>2, <1>3, <1>4, <1>5, <1>6, CallChanges

\* A call that acts does so for the user it was made for.
LEMMA ActsFor ==
    ASSUME SessionInv, NEW t \in Tabs, NEW s \in Slots, calls[t][s].stage \in InFlight,
           calls[t][s].since = epoch, ~raced
    PROVE  issued[calls[t][s].token] = calls[t][s].user
BY DEF SessionInv, EpochHolds, EpochOf, CallsOf

\* Execution, a lost answer, a transient error, a final 401 and the retry.
LEMMA CallStepKeeps ==
    ASSUME SessionInv, NEW t \in Tabs, NEW s \in Slots, CallStep(t, s),
           UNCHANGED <<fetches, promise>>, calls'[t][s].stage # "wait"
    PROVE  SessionInv'
<1> USE DEF SessionInv
<1> DEFINE o == calls[t][s]
<1>1. /\ UNCHANGED <<issued, old, dead, jar, tabs, refs, trip, epoch, raced>>
      /\ o.stage \in InFlight
  BY DEF CallStep, Execute, ExecuteUnheard, Deny, Break, Resend, calling, InFlight
<1>2. o \in CallRecords
  BY DEF Types, PageTypes
<1>3. PICK c : /\ Put(t, s, c)
               /\ \/ \E g \in {"retry", "resent", "failed", "wait"} : c = [o EXCEPT !.stage = g]
                  \/ \E g \in {"done", "retry", "failed"} :
                        /\ Valid(o.token)
                        /\ c = [o EXCEPT !.stage = g, !.as = issued[o.token],
                                         !.same = (o.since = epoch)]
  <2>1. CASE Execute(t, s)
    BY <2>1 DEF Execute
  <2>2. CASE ExecuteUnheard(t, s)
    BY <2>2 DEF ExecuteUnheard, Broken
  <2>3. CASE Deny(t, s)
    BY <2>3 DEF Deny, To
  <2>4. CASE Break(t, s)
    BY <2>4 DEF Break, To, Broken
  <2>5. CASE Resend(t, s)
    BY <2>5 DEF Resend, To
  <2> QED
    BY <2>1, <2>2, <2>3, <2>4, <2>5 DEF CallStep
<1>4. c.stage # "wait"
  BY <1>3, CallPut
<1>5. /\ c.token = o.token /\ c.user = o.user /\ c.since = o.since
      /\ c.stage \in {"done", "retry", "resent", "failed", "wait"}
  BY <1>2, <1>3 DEF CallRecords
<1>6. o.token # 0 /\ o.token \in Pairs
  BY <1>1, <1>2 DEF CallsKept, TokensCarried, CallRecords
<1>7. c \in CallRecords
  <2>1. issued[o.token] \in Users
    BY <1>6, TypesUsed
  <2> QED
    BY <1>2, <1>3, <2>1 DEF CallRecords, InFlight
<1>8. c.as # None /\ c.same /\ ~raced => c.as = c.user
  <2>1. CASE c.as = o.as /\ c.same = o.same
    BY <1>5, <2>1 DEF CallsKept, ActsAsShown
  <2>2. CASE c.as = issued[o.token] /\ c.same = (o.since = epoch)
    BY <1>1, <1>5, <2>2, ActsFor
  <2> QED
    BY <1>2, <1>3, <2>1, <2>2 DEF CallRecords
<1>9. \A u : EpochOf(u) /\ c.since = epoch => c.user = u /\ issued[c.token] = u
  BY <1>1, <1>5 DEF EpochOf, CallsOf
<1> QED
  BY <1>1, <1>3, <1>4, <1>5, <1>6, <1>7, <1>8, <1>9, CallChanges

--------------------------------------------------------------------------------
(* Requests begin: with the cookies of the moment. *)

\* A navigation or form is sent.
LEMMA StartStep ==
    ASSUME SessionInv, NEW t \in Tabs, NEW kind \in {"nav", "login", "logout"},
           NEW user \in Users \union {None}, kind = "login" => user \in Users,
           Start(t, kind, user)
    PROVE  SessionInv'
<1> USE DEF SessionInv
<1>1. /\ UNCHANGED <<issued, old, dead, jar, tabs, refs, calls, fetches, promise, epoch, raced>>
      /\ trip' = [trip EXCEPT ![t] = [kind |-> kind, user |-> user, jar |-> jar,
                                      since |-> epoch, reply |-> None]]
  BY DEF Start, tokens
<1>2. PICK x : /\ x = [kind |-> kind, user |-> user, jar |-> jar, since |-> epoch, reply |-> None]
               /\ trip'[t] = x
               /\ \A u \in Tabs \ {t} : trip'[u] = trip[u]
  BY <1>1 DEF Types, RequestTypes
<1>3. x.kind = kind /\ x.user = user /\ x.jar = jar /\ x.since = epoch /\ x.reply = None
  BY <1>2
<1>4. x \in Trips /\ trip' \in [Tabs -> Trips \union {None}]
  <2>1. x \in Trips
    BY <1>2 DEF Trips, Types, TokenTypes
  <2> QED
    BY <1>1, <1>2, <2>1 DEF Types, RequestTypes
<1>5. Types'
  <2>1. Trips' = Trips
    BY <1>1 DEF Trips, Jars, Replies, Pairs
  <2> QED
    BY <1>1, <1>4, <2>1, TypesKept DEF Types, TokenTypes, RequestTypes
<1>6. Fetches' = Fetches
  BY <1>1 DEF Fetches
<1>7. Answers'
  <2>1. TripReplies'
    BY <1>1, <1>2, <1>3 DEF Answers, TripReplies, Good
  <2>2. FetchReplies'
    BY <1>1, <1>6 DEF Answers, FetchReplies, Good
  <2>3. \A u \in Tabs : FreshTrip(u)' => u # t /\ FreshTrip(u) /\ trip'[u] = trip[u]
    BY <1>2, <1>3 DEF FreshTrip, Fresh
  <2>4. \A n : Pending(n)' => Pending(n)
    BY <1>6, <2>3 DEF Pending, Fresh
  <2>5. \A n : Unused(n) => Unused(n)'
    BY <1>1, <1>2, <1>3, <1>6 DEF Unused, Holds
  <2>6. FreshUnused'
    BY <2>4, <2>5 DEF Answers, FreshUnused
  <2>7. FreshDistinct'
    BY <1>6, <2>3 DEF Answers, FreshDistinct, Fresh
  <2>8. LoginUsers'
    BY <1>2, <1>3 DEF Answers, LoginUsers
  <2> QED
    BY <2>1, <2>2, <2>6, <2>7, <2>8 DEF Answers
<1>8. EpochHolds'
  <2>1. OldApart => OldApart'
    <3>1. \A n : Older(n)' => Older(n)
      BY <1>1, <1>2, <1>3 DEF Older
    <3>2. \A n : Current(n)' => Current(n)
      BY <1>1, <1>2, <1>3 DEF Current
    <3> QED
      BY <3>1, <3>2 DEF OldApart
  <2>2. ASSUME NEW u, EpochOf(u)
        PROVE  EpochOf(u)'
    <3>1. JarOf(u, jar)' /\ PagesOf(u)' /\ FetchesOf(u)' /\ CallsOf(u)'
      BY <1>1, <1>6, <2>2 DEF EpochOf, JarOf, PagesOf, FetchesOf, CallsOf, Fresh
    <3>2. TripsOf(u)'
      BY <1>1, <1>2, <1>3, <2>2 DEF EpochOf, JarOf, TripsOf, Fresh
    <3> QED
      BY <3>1, <3>2 DEF EpochOf
  <2> QED
    BY <1>1, <2>1, <2>2 DEF EpochHolds
<1>9. Waits' /\ CallsKept'
  BY <1>1, <1>6 DEF Waits, OneRefresh, PromiseKept, Awaited, CallsKept, TokensCarried, ActsAsShown
<1> QED
  BY <1>5, <1>7, <1>8, <1>9

\* A 401 on the first attempt: the call waits for the tab's refresh, which starts if none
\* is under way.
LEMMA DenyStep ==
    ASSUME SessionInv, NEW t \in Tabs, NEW s \in Slots, Deny(t, s), calls[t][s].stage = "sent"
    PROVE  SessionInv'
<1> USE DEF SessionInv
<1>1. UNCHANGED <<issued, old, dead, jar, tabs, refs, trip, epoch, raced>>
  BY DEF Deny, calling
<1>2. PICK c : c = [calls[t][s] EXCEPT !.stage = "wait"] /\ Put(t, s, c) /\ Await(t)
  BY DEF Deny, To
<1>3. /\ c.stage = "wait" /\ c.token = calls[t][s].token /\ c.user = calls[t][s].user
      /\ c.since = calls[t][s].since /\ c.as = calls[t][s].as /\ c.same = calls[t][s].same
      /\ c \in CallRecords
      /\ c.token # 0 /\ (c.as # None /\ c.same /\ ~raced => c.as = c.user)
  <2>1. calls[t][s] \in CallRecords
    BY DEF Types, PageTypes
  <2>2. /\ c.stage = "wait" /\ c.token = calls[t][s].token /\ c.user = calls[t][s].user
        /\ c.since = calls[t][s].since /\ c.as = calls[t][s].as /\ c.same = calls[t][s].same
    BY <1>2, <2>1 DEF CallRecords
  <2>3. c \in CallRecords
    BY <1>2, <2>1 DEF CallRecords, InFlight
  <2>4. calls[t][s].token # 0
    BY DEF CallsKept, TokensCarried, InFlight
  <2>5. calls[t][s].as # None /\ calls[t][s].same /\ ~raced => calls[t][s].as = calls[t][s].user
    BY DEF CallsKept, ActsAsShown
  <2> QED
    BY <2>2, <2>3, <2>4, <2>5
<1>4. /\ calls'[t][s] = c
      /\ \A u \in Tabs, z \in Slots : ~(u = t /\ z = s) => calls'[u][z] = calls[u][z]
      /\ calls' \in [Tabs -> [Slots -> CallRecords]]
  BY <1>2, <1>3, CallPut
<1>5. promise' = promise \union {t}
  BY <1>2 DEF Await
<1>6. CallRecords' = CallRecords /\ Refreshes' = Refreshes
  BY <1>1 DEF CallRecords, Refreshes, Jars, Replies, Pairs
<1>7. CallsKept'
  <2>1. TokensCarried'
    BY <1>3, <1>4 DEF CallsKept, TokensCarried
  <2>2. ActsAsShown'
    BY <1>1, <1>3, <1>4 DEF CallsKept, ActsAsShown
  <2> QED
    BY <2>1, <2>2 DEF CallsKept
<1>8. CASE t \in promise
  <2>1. fetches' = fetches /\ promise' = promise
    BY <1>2, <1>5, <1>8 DEF Await
  <2>2. Fetches' = Fetches
    BY <2>1 DEF Fetches
  <2>3. Types'
    BY <1>1, <1>4, <1>6, <2>1, TypesKept DEF Types, TokenTypes, RequestTypes
  <2>4. /\ Answers'
        /\ OldApart => OldApart'
        /\ \A u : JarOf(u, jar) /\ PagesOf(u) /\ TripsOf(u) /\ FetchesOf(u) =>
                  JarOf(u, jar)' /\ PagesOf(u)' /\ TripsOf(u)' /\ FetchesOf(u)'
    BY <1>1, <2>2, Dwindling
  <2>5. \A u : EpochOf(u) => CallsOf(u)'
    BY <1>1, <1>3, <1>4 DEF EpochOf, CallsOf, InFlight
  <2>6. EpochHolds'
    BY <1>1, <2>4, <2>5 DEF EpochHolds, EpochOf
  <2>7. Waits'
    BY <1>4, <1>8, <2>1, <2>2 DEF Waits, OneRefresh, PromiseKept, Awaited
  <2>8. CallsKept'
    BY <1>7
  <2> QED
    BY <2>3, <2>4, <2>6, <2>7, <2>8
<1>9. CASE t \notin promise
  <2>1. PICK x : /\ x = [tab |-> t, jar |-> jar, since |-> epoch, reply |-> None]
                 /\ fetches' = Append(fetches, x)
    BY <1>2, <1>9 DEF Await
  <2>2. x.tab = t /\ x.jar = jar /\ x.since = epoch /\ x.reply = None /\ x \in Refreshes
    BY <2>1 DEF Refreshes, Types, TokenTypes
  <2>3. /\ fetches' \in Seq(Refreshes)
        /\ \A y : y \in Fetches' <=> y \in Fetches \/ y = x
        /\ OneRefresh'
    <3>1. \A y \in Fetches : y.tab # x.tab
      BY <1>9, <2>2 DEF Waits, PromiseKept
    <3> QED
      BY <2>1, <2>2, <3>1, FetchAppended DEF Types, RequestTypes, Waits
  <2>4. Types'
    BY <1>1, <1>4, <1>5, <1>6, <2>3, TypesKept DEF Types, TokenTypes, RequestTypes
  <2>5. Answers'
    <3>1. TripReplies'
      BY <1>1 DEF Answers, TripReplies, Good
    <3>2. FetchReplies'
      BY <1>1, <2>2, <2>3 DEF Answers, FetchReplies, Good
    <3>3. \A n : Pending(n)' => Pending(n)
      BY <1>1, <2>2, <2>3 DEF Pending, FreshTrip, Fresh
    <3>4. \A n : Unused(n) => Unused(n)'
      BY <1>1, <2>2, <2>3 DEF Unused, Holds
    <3>5. FreshUnused'
      BY <3>3, <3>4 DEF Answers, FreshUnused
    <3>6. FreshDistinct'
      BY <1>1, <2>2, <2>3 DEF Answers, FreshDistinct, FreshTrip, Fresh
    <3>7. LoginUsers'
      BY <1>1 DEF Answers, LoginUsers
    <3> QED
      BY <3>1, <3>2, <3>5, <3>6, <3>7 DEF Answers
  <2>6. EpochHolds'
    <3>1. OldApart => OldApart'
      BY <1>1 DEF OldApart, Older, Current
    <3>2. ASSUME NEW u, EpochOf(u)
          PROVE  EpochOf(u)'
      <4>1. JarOf(u, jar)' /\ PagesOf(u)' /\ TripsOf(u)'
        BY <1>1, <3>2 DEF EpochOf, JarOf, PagesOf, TripsOf, Fresh
      <4>2. FetchesOf(u)'
        BY <1>1, <2>2, <2>3, <3>2 DEF EpochOf, JarOf, FetchesOf, Fresh
      <4>3. CallsOf(u)'
        BY <1>1, <1>3, <1>4, <3>2 DEF EpochOf, CallsOf, InFlight
      <4> QED
        BY <4>1, <4>2, <4>3 DEF EpochOf
    <3> QED
      BY <1>1, <3>1, <3>2 DEF EpochHolds
  <2>7. Waits'
    BY <1>4, <1>5, <2>2, <2>3 DEF Waits, PromiseKept, Awaited
  <2>8. CallsKept'
    BY <1>7
  <2> QED
    BY <2>4, <2>5, <2>6, <2>7, <2>8
<1> QED
  BY <1>8, <1>9

--------------------------------------------------------------------------------
(* A pair is issued. *)

\* What is u's stays u's: pairs are only added.
LEMMA EpochGrown ==
    ASSUME SessionInv, issued' = issued \/ \E v \in Users : issued' = Append(issued, v),
           UNCHANGED <<jar, tabs, refs, calls, epoch>>, NEW u, EpochOf(u)
    PROVE  /\ \A j \in Jars : JarOf(u, j) => JarOf(u, j)'
           /\ JarOf(u, jar)' /\ PagesOf(u)' /\ CallsOf(u)'
<1> USE DEF SessionInv
<1>1. \A n \in Pairs : n # 0 => n \in DOMAIN issued /\ issued'[n] = issued[n]
  BY Grown, TypesUsed DEF Types, TokenTypes
<1>2. \A j \in Jars : JarOf(u, j) => JarOf(u, j)'
  BY <1>1 DEF Jars, JarOf
<1>3. JarOf(u, jar)'
  BY <1>1, TypesUsed DEF EpochOf, JarOf
<1>4. PagesOf(u)'
  <2>1. \A t \in Tabs, s \in Slots : issued'[refs[t][s]] = issued[refs[t][s]]
    BY Grown DEF Types, TokenTypes, PageTypes
  <2> QED
    BY <2>1 DEF EpochOf, PagesOf
<1>5. CallsOf(u)'
  <2>1. \A t \in Tabs, s \in Slots : calls[t][s].token \in Pairs
    BY DEF Types, PageTypes, CallRecords
  <2> QED
    BY <1>1, <2>1 DEF EpochOf, CallsOf, CallsKept, TokensCarried
<1> QED
  BY <1>2, <1>3, <1>4, <1>5

\* Neither the cookies nor what travels has the pair issued next.
LEMMA NextUnused ==
    ASSUME Types
    PROVE  /\ NextPair \notin Pairs /\ NextPair # 0 /\ NextPair \in Nat
           /\ Unused(NextPair)
<1>1. NextPair \notin Pairs /\ NextPair # 0 /\ NextPair \in Nat
  BY TypesUsed DEF NextPair, Pairs
<1> QED
  BY <1>1, TypesUsed DEF Unused, Holds

\* A navigation or form is answered.
LEMMA ServeStep ==
    ASSUME SessionInv, NEW t \in Tabs, Serve(t)
    PROVE  SessionInv'
<1> USE DEF SessionInv
<1> DEFINE x == trip[t]
<1>1. /\ UNCHANGED <<old, dead, up, jar, tabs, refs, calls, fetches, promise, epoch, raced>>
      /\ x # None /\ x.reply = None
  BY DEF Serve
<1>2. PICK r \in ReplyTo(x) :
        /\ trip' = [trip EXCEPT ![t].reply = r]
        /\ IF r.pair = NextPair
           THEN Issue(IF x.kind = "login" THEN x.user ELSE issued[x.jar.refresh])
           ELSE UNCHANGED issued
  BY DEF Serve
<1>3. x \in Trips /\ x.jar.refresh \in Pairs
  BY <1>1, TypesUsed
<1>4. /\ r.cookies \in {"keep", "clear", "both"} /\ r.show \in {"page", "login", "error"}
      /\ r.pair \in Pairs \/ r.pair = NextPair
      /\ r = [cookies |-> r.cookies, pair |-> r.pair, show |-> r.show]
      /\ r.cookies = "both" <=> r.pair = NextPair
      /\ r.cookies = "both" => r.show = "page" /\ x.kind # "logout"
      /\ r.cookies = "both" /\ x.kind = "nav" => x.jar.refresh # 0
      /\ r.cookies = "keep" /\ r.show = "page" =>
               x.kind = "nav" /\ r.pair # 0 /\ r.pair = x.jar.access
      /\ r.cookies = "clear" => r.show = "login" /\ (x.kind = "nav" => ~Good(x.jar.refresh))
  BY <1>2, <1>3, TripAnswer
<1>5. PICK y : /\ y = [x EXCEPT !.reply = r] /\ trip'[t] = y
               /\ \A w \in Tabs \ {t} : trip'[w] = trip[w]
  BY <1>2 DEF Types, RequestTypes
<1>6. /\ y.kind = x.kind /\ y.user = x.user /\ y.jar = x.jar /\ y.since = x.since
      /\ y.reply = r
  BY <1>3, <1>5 DEF Trips
<1>7. /\ issued' = issued \/ \E v \in Users : issued' = Append(issued, v)
      /\ r.cookies = "both" => r.pair \in Pairs'
      /\ r.cookies = "both" /\ x.kind = "nav" => issued'[r.pair] = issued[x.jar.refresh]
  <2>1. CASE r.cookies = "both"
    <3>1. x.kind = "nav" \/ x.kind = "login"
      BY <1>3, <1>4, <2>1 DEF Trips
    <3>2. CASE x.kind = "login"
      <4>1. issued' = Append(issued, x.user) /\ x.user \in Users
        BY <1>1, <1>2, <1>4, <2>1, <3>2 DEF Issue, Answers, LoginUsers
      <4>2. Len(issued') = NextPair
        BY <4>1, AppendProperties DEF NextPair, Types, TokenTypes
      <4> QED
        BY <1>4, <2>1, <3>2, <4>1, <4>2, NextUnused DEF Pairs
    <3>3. CASE x.kind = "nav"
      <4>1. PICK v : v = issued[x.jar.refresh]
        OBVIOUS
      <4>2. issued' = Append(issued, v) /\ v \in Users
        BY <1>2, <1>3, <1>4, <2>1, <3>3, <4>1, TypesUsed DEF Issue
      <4>3. Len(issued') = NextPair /\ issued'[NextPair] = v
        BY <4>2, AppendProperties DEF NextPair, Types, TokenTypes
      <4> QED
        BY <1>4, <2>1, <4>1, <4>2, <4>3, NextUnused DEF Pairs
    <3> QED
      BY <3>1, <3>2, <3>3
  <2>2. CASE r.cookies # "both"
    BY <1>2, <1>4, <2>2
  <2> QED
    BY <2>1, <2>2
<1>8. /\ Trips \subseteq Trips' /\ Pairs \subseteq Pairs' /\ Jars \subseteq Jars'
      /\ \A n \in DOMAIN issued : issued'[n] = issued[n]
  BY <1>1, <1>7, Grown DEF Types, TokenTypes
<1>9. Types'
  <2>1. r \in Replies'
    BY <1>4, <1>7, <1>8 DEF Replies
  <2>2. y \in Trips'
    BY <1>1, <1>3, <1>5, <1>8, <2>1 DEF Trips
  <2>3. trip' \in [Tabs -> Trips' \union {None}]
    BY <1>2, <1>5, <1>8, <2>2 DEF Types, RequestTypes
  <2> QED
    BY <1>1, <1>7, <2>3, TypesKept DEF Types, TokenTypes, RequestTypes
<1>10. Fetches' = Fetches
  BY <1>1 DEF Fetches
<1>11. /\ \A w \in Tabs : FreshTrip(w)' /\ w # t => FreshTrip(w) /\ trip'[w] = trip[w]
       /\ FreshTrip(t)' => r.cookies = "both" /\ trip'[t].reply.pair = NextPair
  BY <1>4, <1>5, <1>6 DEF FreshTrip, Fresh
<1>12. \A w \in Tabs : trip'[w] # None =>
          trip[w] # None /\ trip'[w].jar = trip[w].jar /\ trip'[w].since = trip[w].since
  BY <1>1, <1>5, <1>6
<1>13. Answers'
  <2>1. TripReplies'
    <3> SUFFICES ASSUME NEW w \in Tabs, trip'[w] # None, trip'[w].reply # None
                 PROVE  LET z == trip'[w]  q == z.reply IN
                        /\ q.show \in {"page", "login", "error"}
                        /\ q.cookies = "both" =>
                                q.show = "page" /\ q.pair # 0 /\ z.kind # "logout"
                        /\ q.cookies = "keep" /\ q.show = "page" =>
                                z.kind = "nav" /\ q.pair # 0 /\ q.pair = z.jar.access
                        /\ q.cookies = "clear" =>
                                q.show = "login" /\ (z.kind = "nav" => ~Good(z.jar.refresh))
      BY <1>1 DEF TripReplies, Good
    <3>1. CASE w = t
      <4>1. /\ trip'[w].reply = r /\ trip'[w].kind = x.kind /\ trip'[w].jar = x.jar
        BY <1>5, <1>6, <3>1
      <4>2. r.cookies = "both" => r.pair # 0
        BY <1>4, NextUnused
      <4> QED
        BY <1>4, <4>1, <4>2
    <3>2. CASE w # t
      BY <1>5, <3>2 DEF Answers, TripReplies
    <3> QED
      BY <3>1, <3>2
  <2>2. FetchReplies'
    BY <1>1, <1>10 DEF Answers, FetchReplies, Good
  <2>3. \A n : Pending(n)' => Pending(n) \/ n = NextPair
    BY <1>10, <1>11 DEF Pending, Fresh
  <2>4. \A n : Unused(n) => Unused(n)'
    BY <1>1, <1>10, <1>12 DEF Unused, Holds
  <2>5. FreshUnused'
    BY <2>3, <2>4, NextUnused DEF Answers, FreshUnused
  <2>6. FreshDistinct'
    <3>1. \A w \in Tabs : FreshTrip(w) => trip[w].reply.pair # NextPair
      BY TypesUsed, NextUnused DEF FreshTrip, Fresh
    <3>2. \A z \in Fetches : Fresh(z) => z.reply.pair # NextPair
      BY TypesUsed, NextUnused DEF Fresh
    <3> QED
      BY <1>10, <1>11, <3>1, <3>2 DEF Answers, FreshDistinct, Fresh
  <2>7. LoginUsers'
    BY <1>1, <1>5, <1>6 DEF Answers, LoginUsers
  <2> QED
    BY <2>1, <2>2, <2>5, <2>6, <2>7 DEF Answers
<1>14. EpochHolds'
  <2>1. OldApart => OldApart'
    <3>1. \A n : Older(n)' => Older(n)
      BY <1>1, <1>12 DEF Older
    <3>2. \A n : Current(n)' => Current(n)
      BY <1>1, <1>12 DEF Current
    <3> QED
      BY <3>1, <3>2 DEF OldApart
  <2>2. ASSUME NEW u, EpochOf(u)
        PROVE  EpochOf(u)'
    <3>1. /\ \A j \in Jars : JarOf(u, j) => JarOf(u, j)'
          /\ JarOf(u, jar)' /\ PagesOf(u)' /\ CallsOf(u)'
      BY <1>1, <1>7, <2>2, EpochGrown
    <3>2. \A n \in Pairs : n # 0 => issued'[n] = issued[n]
      BY <1>8, TypesUsed
    <3>3. FetchesOf(u)'
      <4> SUFFICES ASSUME NEW z \in Fetches, z.since = epoch
                   PROVE  JarOf(u, z.jar)' /\ (Fresh(z) => issued'[z.reply.pair] = u)
        BY <1>1, <1>10 DEF FetchesOf, Fresh
      <4>1. z.jar \in Jars /\ JarOf(u, z.jar)
        BY <2>2, TypesUsed DEF EpochOf, FetchesOf, Refreshes
      <4>2. Fresh(z) => issued[z.reply.pair] = u /\ z.reply.pair # 0 /\ z.reply.pair \in Pairs
        BY <2>2, TypesUsed DEF EpochOf, FetchesOf, Answers, FetchReplies, Fresh
      <4> QED
        BY <3>1, <3>2, <4>1, <4>2
    <3>4. TripsOf(u)'
      <4> SUFFICES ASSUME NEW w \in Tabs, trip'[w] # None, trip'[w].since = epoch
                   PROVE  /\ JarOf(u, trip[w].jar)' /\ trip'[w].jar = trip[w].jar
                          /\ trip'[w].kind = "nav" /\ FreshTrip(w)' => issued'[trip'[w].reply.pair] = u
        BY <1>1 DEF TripsOf, FreshTrip, Fresh, JarOf
      <4>1. /\ trip'[w].jar = trip[w].jar /\ trip[w].since = epoch /\ trip[w] # None
            /\ trip'[w].kind = trip[w].kind
        BY <1>1, <1>5, <1>6
      <4>2. trip[w].jar \in Jars /\ JarOf(u, trip[w].jar)
        BY <2>2, <4>1, TypesUsed DEF EpochOf, TripsOf, Trips
      <4>3. JarOf(u, trip[w].jar)'
        <5>1. PICK j : j = trip[w].jar
          OBVIOUS
        <5> QED
          BY <3>1, <4>2, <4>1, <5>1 DEF JarOf
      <4>4. CASE w = t
        BY <1>4, <1>5, <1>6, <1>7, <1>11, <4>1, <4>2, <4>3, <4>4 DEF JarOf
      <4>5. CASE w # t
        <5>1. FreshTrip(w)' => FreshTrip(w) /\ trip'[w] = trip[w]
          BY <1>11, <4>5
        <5>2. FreshTrip(w) => trip[w].reply.pair # 0 /\ trip[w].reply.pair \in Pairs
          BY TypesUsed DEF Answers, TripReplies, FreshTrip, Fresh
        <5> QED
          BY <2>2, <3>2, <4>1, <4>3, <5>1, <5>2 DEF EpochOf, TripsOf, FreshTrip
      <4> QED
        BY <4>4, <4>5
    <3> QED
      BY <3>1, <3>3, <3>4 DEF EpochOf
  <2> QED
    BY <1>1, <2>1, <2>2 DEF EpochHolds
<1>15. Waits' /\ CallsKept'
  BY <1>1, <1>10 DEF Waits, OneRefresh, PromiseKept, Awaited, CallsKept, TokensCarried, ActsAsShown
<1> QED
  BY <1>9, <1>13, <1>14, <1>15

\* The route answers a refresh.
LEMMA ServeRefreshStep ==
    ASSUME SessionInv, NEW i \in DOMAIN fetches, ServeRefresh(i)
    PROVE  SessionInv'
<1> USE DEF SessionInv
<1> DEFINE z == fetches[i]
<1>1. /\ UNCHANGED <<old, dead, up, jar, tabs, refs, calls, trip, promise, epoch, raced>>
      /\ z.reply = None
  BY DEF ServeRefresh
<1>2. PICK r : /\ r = RefreshReply(z.jar)
               /\ fetches' = [fetches EXCEPT ![i].reply = r]
               /\ IF r.pair = NextPair THEN Issue(issued[z.jar.refresh]) ELSE UNCHANGED issued
  BY DEF ServeRefresh
<1>3. z \in Fetches /\ z \in Refreshes /\ z.jar \in Jars /\ z.jar.refresh \in Pairs
  BY TypesUsed DEF Fetches, Refreshes
<1>4. /\ r.cookies \in {"keep", "clear", "both"} /\ r.show \in {"200", "401", "500"}
      /\ r.pair \in Pairs \/ r.pair = NextPair
      /\ r = [cookies |-> r.cookies, pair |-> r.pair, show |-> r.show]
      /\ r.cookies = "both" <=> r.pair = NextPair
      /\ r.cookies = "both" <=> r.show = "200"
      /\ r.cookies = "both" => z.jar.refresh # 0
      /\ r.cookies = "clear" => ~Good(z.jar.refresh)
  BY <1>2, <1>3, FetchAnswer
<1>5. PICK x : /\ x.tab = z.tab /\ x.jar = z.jar /\ x.since = z.since /\ x.reply = r
               /\ \A y : y \in Fetches' <=> y = x \/ (y \in Fetches /\ y.tab # x.tab)
               /\ \A S : fetches \in Seq(S) /\ x \in S => fetches' \in Seq(S)
               /\ x = [z EXCEPT !.reply = r]
               /\ OneRefresh'
  <2>1. PICK x : x = [z EXCEPT !.reply = r]
    OBVIOUS
  <2>2. x.tab = z.tab /\ x.jar = z.jar /\ x.since = z.since /\ x.reply = r
    BY <1>3, <2>1 DEF Refreshes
  <2>3. fetches' = [fetches EXCEPT ![i] = x]
    BY <1>2, <2>1
  <2>4. /\ \A y : y \in Fetches' <=> y = x \/ (y \in Fetches /\ y.tab # x.tab)
        /\ \A S : fetches \in Seq(S) /\ x \in S => fetches' \in Seq(S)
        /\ OneRefresh'
    BY <2>2, <2>3, FetchServed DEF Types, RequestTypes, Waits
  <2> QED
    BY <2>1, <2>2, <2>4
<1>6. /\ issued' = issued \/ \E v \in Users : issued' = Append(issued, v)
      /\ r.cookies = "both" => r.pair \in Pairs' /\ issued'[r.pair] = issued[z.jar.refresh]
  <2>1. CASE r.cookies = "both"
    <3>1. PICK v : v = issued[z.jar.refresh]
      OBVIOUS
    <3>2. issued' = Append(issued, v) /\ v \in Users
      BY <1>2, <1>3, <1>4, <2>1, <3>1, TypesUsed DEF Issue
    <3>3. Len(issued') = NextPair /\ issued'[NextPair] = v
      BY <3>2, AppendProperties DEF NextPair, Types, TokenTypes
    <3> QED
      BY <1>4, <2>1, <3>1, <3>2, <3>3, NextUnused DEF Pairs
  <2>2. CASE r.cookies # "both"
    BY <1>2, <1>4, <2>2
  <2> QED
    BY <2>1, <2>2
<1>7. /\ Refreshes \subseteq Refreshes' /\ Pairs \subseteq Pairs' /\ Jars \subseteq Jars'
      /\ \A n \in DOMAIN issued : issued'[n] = issued[n]
  BY <1>1, <1>6, Grown DEF Types, TokenTypes
<1>8. Types'
  <2>1. r \in Replies'
    BY <1>4, <1>6, <1>7 DEF Replies
  <2>2. x \in Refreshes'
    BY <1>1, <1>3, <1>5, <1>7, <2>1 DEF Refreshes
  <2>3. fetches' \in Seq(Refreshes')
    <3>1. fetches \in Seq(Refreshes')
      BY <1>7, SeqMonotonic DEF Types, RequestTypes
    <3> QED
      BY <1>5, <2>2, <3>1
  <2> QED
    BY <1>1, <1>6, <2>3, TypesKept DEF Types, TokenTypes, RequestTypes
<1>9. \A y \in Fetches' : Fresh(y) => (y \in Fetches /\ Fresh(y) /\ y.tab # x.tab)
                                      \/ (y = x /\ y.reply.pair = NextPair)
  BY <1>4, <1>5 DEF Fresh
<1>10. Answers'
  <2>1. TripReplies'
    BY <1>1 DEF Answers, TripReplies, Good
  <2>2. FetchReplies'
    BY <1>1, <1>4, <1>5, NextUnused DEF Answers, FetchReplies, Good
  <2>3. \A n : Pending(n)' => Pending(n) \/ n = NextPair
    BY <1>1, <1>9 DEF Pending, FreshTrip, Fresh
  <2>4. \A n : Unused(n) => Unused(n)'
    BY <1>1, <1>3, <1>5 DEF Unused, Holds
  <2>5. FreshUnused'
    BY <2>3, <2>4, NextUnused DEF Answers, FreshUnused
  <2>6. FreshDistinct'
    <3>1. \A w \in Tabs : FreshTrip(w) => trip[w].reply.pair # NextPair
      BY TypesUsed, NextUnused DEF FreshTrip, Fresh
    <3>2. \A y \in Fetches : Fresh(y) => y.reply.pair # NextPair
      BY TypesUsed, NextUnused DEF Fresh
    <3>3. \A w \in Tabs : FreshTrip(w)' <=> FreshTrip(w)
      BY <1>1 DEF FreshTrip, Fresh
    <3> QED
      BY <1>1, <1>9, <3>1, <3>2, <3>3 DEF Answers, FreshDistinct, Fresh
  <2>7. LoginUsers'
    BY <1>1 DEF Answers, LoginUsers
  <2> QED
    BY <2>1, <2>2, <2>5, <2>6, <2>7 DEF Answers
<1>11. EpochHolds'
  <2>1. OldApart => OldApart'
    BY <1>1 DEF OldApart, Older, Current
  <2>2. ASSUME NEW u, EpochOf(u)
        PROVE  EpochOf(u)'
    <3>1. /\ \A j \in Jars : JarOf(u, j) => JarOf(u, j)'
          /\ JarOf(u, jar)' /\ PagesOf(u)' /\ CallsOf(u)'
      BY <1>1, <1>6, <2>2, EpochGrown
    <3>2. \A n \in Pairs : n # 0 => issued'[n] = issued[n]
      BY <1>7, TypesUsed
    <3>3. FetchesOf(u)'
      <4> SUFFICES ASSUME NEW y \in Fetches', y.since = epoch
                   PROVE  JarOf(u, y.jar)' /\ (Fresh(y) => issued'[y.reply.pair] = u)
        BY <1>1 DEF FetchesOf, Fresh
      <4>1. CASE y = x
        <5>1. z.jar \in Jars /\ JarOf(u, z.jar) /\ z.jar = y.jar
          BY <1>3, <1>5, <2>2, <4>1 DEF EpochOf, FetchesOf
        <5>2. PICK j \in Jars : j = y.jar /\ JarOf(u, j)
          BY <5>1
        <5>3. JarOf(u, j)'
          BY <3>1, <5>2
        <5>4. JarOf(u, y.jar)'
          BY <5>2, <5>3 DEF JarOf
        <5>5. Fresh(y) => issued'[y.reply.pair] = u
          BY <1>4, <1>5, <1>6, <4>1, <5>1 DEF Fresh, JarOf
        <5> QED
          BY <5>4, <5>5
      <4>2. CASE y \in Fetches /\ y.tab # x.tab
        <5>1. y.jar \in Jars /\ JarOf(u, y.jar)
          BY <2>2, <4>2, TypesUsed DEF EpochOf, FetchesOf, Refreshes
        <5>2. Fresh(y) => issued[y.reply.pair] = u /\ y.reply.pair # 0 /\ y.reply.pair \in Pairs
          BY <2>2, <4>2, TypesUsed DEF EpochOf, FetchesOf, Answers, FetchReplies, Fresh
        <5>3. JarOf(u, y.jar)'
          BY <3>1, <5>1
        <5> QED
          BY <3>2, <5>2, <5>3
      <4> QED
        BY <1>5, <4>1, <4>2
    <3>4. TripsOf(u)'
      <4> SUFFICES ASSUME NEW w \in Tabs, trip[w] # None, trip[w].since = epoch
                   PROVE  /\ JarOf(u, trip[w].jar)'
                          /\ trip[w].kind = "nav" /\ FreshTrip(w) => issued'[trip[w].reply.pair] = u
        BY <1>1 DEF TripsOf, FreshTrip, Fresh, JarOf
      <4>1. PICK j \in Jars : j = trip[w].jar /\ JarOf(u, j)
        BY <2>2, TypesUsed DEF EpochOf, TripsOf, Trips
      <4>2. JarOf(u, j)'
        BY <3>1, <4>1
      <4>3. JarOf(u, trip[w].jar)'
        BY <1>1, <4>1, <4>2 DEF JarOf
      <4>4. FreshTrip(w) => trip[w].reply.pair # 0 /\ trip[w].reply.pair \in Pairs
        BY TypesUsed DEF Answers, TripReplies, FreshTrip, Fresh
      <4> QED
        BY <2>2, <3>2, <4>3, <4>4 DEF EpochOf, TripsOf, FreshTrip
    <3> QED
      BY <3>1, <3>3, <3>4 DEF EpochOf
  <2> QED
    BY <1>1, <2>1, <2>2 DEF EpochHolds
<1>12. Waits'
  <2>1. PromiseKept'
    BY <1>1, <1>3, <1>5 DEF Waits, PromiseKept
  <2> QED
    BY <1>1, <1>5, <2>1 DEF Waits, Awaited
<1>13. CallsKept'
  BY <1>1 DEF CallsKept, TokensCarried, ActsAsShown
<1> QED
  BY <1>8, <1>10, <1>11, <1>12, <1>13

--------------------------------------------------------------------------------
(* A refresh ends. *)

\* Without a token the tab's document goes, and with it all its calls.
LEMMA GivenUp ==
    ASSUME SessionInv, NEW i \in DOMAIN fetches, GiveUp(fetches[i].tab),
           fetches' = RemoveAt(fetches, i), promise' = promise \ {fetches[i].tab},
           UNCHANGED <<issued, old, dead, epoch>>,
           jar' = jar \/ jar' = [access |-> 0, refresh |-> 0],
           raced' \in BOOLEAN, raced => raced'
    PROVE  SessionInv'
<1> USE DEF SessionInv
<1>1. PICK t \in Tabs : t = fetches[i].tab
  <2>1. fetches[i] \in Refreshes
    BY TypesUsed DEF Fetches
  <2> QED
    BY <2>1 DEF Refreshes
<1>2. /\ calls' = [calls EXCEPT ![t] = [s \in Slots |->
                     IF @[s].stage \in InFlight THEN [@[s] EXCEPT !.stage = "failed"] ELSE @[s]]]
      /\ tabs' = [tabs EXCEPT ![t].at = "login"]
      /\ trip' = [trip EXCEPT ![t] = None]
      /\ refs' = refs
  BY <1>1 DEF GiveUp
<1>3. tabs' \in [Tabs -> Pages] /\ \A u \in Tabs : tabs'[u].prop = tabs[u].prop
  <2>1. tabs' \in [Tabs -> Pages]
    BY <1>2, PageClosed
  <2>2. \A u \in Tabs : tabs'[u].prop = tabs[u].prop
    BY <1>2, PageClosed
  <2> QED
    BY <2>1, <2>2
<1>4. \A u \in Tabs : tabs'[u] = tabs[u] \/ tabs'[u].at # "page"
  BY <1>2, PageClosed
<1>5. \A u \in Tabs : trip'[u] = None \/ trip'[u] = trip[u]
  BY <1>2 DEF Types, RequestTypes
<1>6. /\ fetches' \in Seq(Refreshes)
      /\ \A x : x \in Fetches' <=> x \in Fetches /\ x.tab # t
      /\ OneRefresh'
  BY <1>1, FetchRemoved DEF Types, RequestTypes, Waits
<1>7. /\ calls' \in [Tabs -> [Slots -> CallRecords]]
      /\ \A u \in Tabs, s \in Slots :
            /\ calls'[u][s].stage \in InFlight => u # t /\ calls'[u][s] = calls[u][s]
            /\ calls'[u][s].as = calls[u][s].as /\ calls'[u][s].same = calls[u][s].same
            /\ calls'[u][s].user = calls[u][s].user
  <2>1. calls \in [Tabs -> [Slots -> CallRecords]]
    BY DEF Types, PageTypes
  <2>2. /\ \A u \in Tabs \ {t} : calls'[u] = calls[u]
        /\ calls'[t] = [s \in Slots |-> IF calls[t][s].stage \in InFlight
                                        THEN [calls[t][s] EXCEPT !.stage = "failed"] ELSE calls[t][s]]
    BY <1>2, <2>1
  <2>3. \A s \in Slots :
            /\ calls'[t][s] \in CallRecords /\ calls'[t][s].stage \notin InFlight
            /\ calls'[t][s].as = calls[t][s].as /\ calls'[t][s].same = calls[t][s].same
            /\ calls'[t][s].user = calls[t][s].user
    <3> SUFFICES ASSUME NEW s \in Slots
                 PROVE  /\ calls'[t][s] \in CallRecords /\ calls'[t][s].stage \notin InFlight
                        /\ calls'[t][s].as = calls[t][s].as /\ calls'[t][s].same = calls[t][s].same
                        /\ calls'[t][s].user = calls[t][s].user
      OBVIOUS
    <3>1. calls[t][s] \in CallRecords
      BY <2>1
    <3>2. calls'[t][s] = IF calls[t][s].stage \in InFlight
                         THEN [calls[t][s] EXCEPT !.stage = "failed"] ELSE calls[t][s]
      BY <2>2
    <3> QED
      BY <3>1, <3>2 DEF CallRecords, InFlight
  <2>4. calls'[t] \in [Slots -> CallRecords]
    BY <2>2, <2>3
  <2> QED
    BY <1>2, <2>1, <2>2, <2>3, <2>4
<1>8. Types'
  <2>1. /\ Pages' = Pages /\ Trips' = Trips /\ Refreshes' = Refreshes
        /\ CallRecords' = CallRecords /\ Jars' = Jars /\ 0 \in Pairs
    BY TypesUsed DEF Pages, Trips, Refreshes, CallRecords, Jars, Replies, Pairs
  <2>2. trip' \in [Tabs -> Trips' \union {None}]
    BY <1>2, <2>1 DEF Types, RequestTypes
  <2>3. jar' = jar \/ jar' \in Jars'
    BY <2>1 DEF Jars
  <2> QED
    BY <1>2, <1>3, <1>6, <1>7, <2>1, <2>2, <2>3, TypesKept DEF Types, TokenTypes, RequestTypes
<1>9. /\ Answers'
      /\ OldApart => OldApart'
      /\ \A u : JarOf(u, jar) /\ PagesOf(u) /\ TripsOf(u) /\ FetchesOf(u) =>
                JarOf(u, jar)' /\ PagesOf(u)' /\ TripsOf(u)' /\ FetchesOf(u)'
  BY <1>2, <1>3, <1>4, <1>5, <1>6, Dwindling
<1>10. \A u : CallsOf(u) => CallsOf(u)'
  BY <1>7 DEF CallsOf
<1>11. EpochHolds'
  BY <1>9, <1>10 DEF EpochHolds, EpochOf, Types, TokenTypes
<1>12. Waits'
  <2>1. PromiseKept'
    BY <1>1, <1>6 DEF Waits, PromiseKept
  <2>2. Awaited'
    BY <1>1, <1>7 DEF Waits, Awaited, InFlight
  <2> QED
    BY <1>6, <2>1, <2>2 DEF Waits
<1>13. CallsKept'
  <2>1. TokensCarried'
    BY <1>7 DEF CallsKept, TokensCarried
  <2>2. ActsAsShown'
    BY <1>7 DEF CallsKept, ActsAsShown
  <2> QED
    BY <2>1, <2>2 DEF CallsKept
<1> QED
  BY <1>8, <1>9, <1>11, <1>12, <1>13

\* The calls of a tab that wait go on with the new pair, its other calls as they were.
LEMMA Woken ==
    ASSUME Types, NEW t \in Tabs, NEW n \in DOMAIN issued, n \in Pairs, Wake(t, n)
    PROVE  /\ calls' \in [Tabs -> [Slots -> CallRecords]]
           /\ refs' \in [Tabs -> [Slots -> DOMAIN issued]]
           /\ \A u \in Tabs, s \in Slots : refs'[u][s] = refs[u][s] \/ refs'[u][s] = n
           /\ \A u \in Tabs, s \in Slots : calls'[u][s].stage = "wait" => u # t
           /\ \A u \in Tabs, s \in Slots :
                \/ calls'[u][s] = calls[u][s]
                \/ /\ calls[u][s].stage = "wait"
                   /\ calls'[u][s] = [calls[u][s] EXCEPT !.stage = "again", !.token = n]
<1>1. calls \in [Tabs -> [Slots -> CallRecords]] /\ refs \in [Tabs -> [Slots -> DOMAIN issued]]
  BY DEF Types, PageTypes
<1>2. /\ \A u \in Tabs \ {t} : calls'[u] = calls[u] /\ refs'[u] = refs[u]
      /\ calls'[t] = [s \in Slots |-> IF s \in Waiting(t)
                                      THEN [calls[t][s] EXCEPT !.stage = "again", !.token = n]
                                      ELSE calls[t][s]]
      /\ refs'[t] = [s \in Slots |-> IF s \in Waiting(t) THEN n ELSE refs[t][s]]
  BY <1>1 DEF Wake
<1>3. \A s \in Slots :
        /\ calls'[t][s] \in CallRecords /\ calls'[t][s].stage # "wait"
        /\ \/ calls'[t][s] = calls[t][s]
           \/ /\ calls[t][s].stage = "wait"
              /\ calls'[t][s] = [calls[t][s] EXCEPT !.stage = "again", !.token = n]
  <2> SUFFICES ASSUME NEW s \in Slots
               PROVE  /\ calls'[t][s] \in CallRecords /\ calls'[t][s].stage # "wait"
                      /\ \/ calls'[t][s] = calls[t][s]
                         \/ /\ calls[t][s].stage = "wait"
                            /\ calls'[t][s] = [calls[t][s] EXCEPT !.stage = "again", !.token = n]
    OBVIOUS
  <2>1. calls[t][s] \in CallRecords
    BY <1>1
  <2>2. CASE calls[t][s].stage = "wait"
    <3>1. calls'[t][s] = [calls[t][s] EXCEPT !.stage = "again", !.token = n]
      BY <1>2, <2>2 DEF Waiting
    <3>2. calls'[t][s] \in CallRecords /\ calls'[t][s].stage = "again"
      BY <2>1, <3>1 DEF CallRecords, InFlight
    <3> QED
      BY <2>2, <3>1, <3>2
  <2>3. CASE calls[t][s].stage # "wait"
    BY <1>2, <2>1, <2>3 DEF Waiting
  <2> QED
    BY <2>2, <2>3
<1>4. \A s \in Slots : refs'[t][s] = refs[t][s] \/ refs'[t][s] = n
  BY <1>2
<1>5. refs' \in [Tabs -> [Slots -> DOMAIN issued]]
  <2>1. \A s \in Slots : refs'[t][s] \in DOMAIN issued
    BY <1>1, <1>4
  <2>2. refs'[t] = [s \in Slots |-> refs'[t][s]]
    BY <1>2
  <2>3. refs'[t] \in [Slots -> DOMAIN issued]
    BY <2>1, <2>2
  <2> QED
    BY <1>1, <1>2, <2>3 DEF Wake
<1>6. calls' \in [Tabs -> [Slots -> CallRecords]]
  <2>1. calls'[t] \in [Slots -> CallRecords]
    BY <1>2, <1>3
  <2> QED
    BY <1>1, <1>2, <2>1 DEF Wake
<1> QED
  BY <1>2, <1>3, <1>4, <1>5, <1>6

\* No answer comes.
LEMMA FetchLostStep ==
    ASSUME SessionInv, NEW i \in DOMAIN fetches, FetchLost(i)
    PROVE  SessionInv'
<1>1. raced' \in BOOLEAN /\ (raced => raced')
  BY DEF FetchLost, SessionInv, Types, TokenTypes
<1> QED
  BY <1>1, GivenUp DEF FetchLost, tokens

\* The answer of /api/auth/refresh arrives.
LEMMA FetchArrivesStep ==
    ASSUME SessionInv, NEW i \in DOMAIN fetches, FetchArrives(i)
    PROVE  SessionInv'
<1> USE DEF SessionInv
<1>1. PICK x : x = fetches[i]
  OBVIOUS
<1>2. PICK t \in Tabs : t = x.tab
  <2>1. x \in Refreshes
    BY <1>1, TypesUsed DEF Fetches
  <2> QED
    BY <2>1 DEF Refreshes
<1>3. /\ x.reply # None /\ SetCookies(x.reply, x.since, x.jar)
      /\ IF x.reply.show = "200" THEN Wake(t, x.reply.pair) /\ UNCHANGED <<tabs, trip>> ELSE GiveUp(t)
      /\ promise' = promise \ {t}
      /\ fetches' = RemoveAt(fetches, i)
      /\ UNCHANGED <<issued, old, dead, epoch>>
  BY <1>1, <1>2 DEF FetchArrives, tokens
<1>4. x \in Fetches /\ x \in Refreshes /\ x.reply \in Replies /\ x.reply.pair \in Pairs
  BY <1>1, <1>3, TypesUsed DEF Fetches
<1>5. /\ x.reply.show \in {"200", "401", "500"}
      /\ x.reply.cookies = "both" <=> x.reply.show = "200"
      /\ x.reply.cookies = "both" => x.reply.pair # 0
      /\ x.reply.cookies \in {"keep", "clear", "both"}
  BY <1>3, <1>4 DEF Answers, FetchReplies, Replies
<1>6. raced' \in BOOLEAN /\ (raced => raced')
  BY <1>3 DEF SetCookies, Types, TokenTypes
<1>7. CASE x.reply.show # "200"
  <2>1. jar' = jar \/ jar' = [access |-> 0, refresh |-> 0]
    BY <1>3, <1>5, <1>7 DEF SetCookies
  <2> QED
    BY <1>1, <1>2, <1>3, <1>6, <1>7, <2>1, GivenUp
<1>8. CASE x.reply.show = "200"
  <2>1. PICK n \in DOMAIN issued : n = x.reply.pair /\ n \in Pairs /\ n # 0 /\ n \in Nat
    BY <1>4, <1>5, <1>8, TypesUsed
  <2>2. /\ jar' = [access |-> n, refresh |-> n]
        /\ Wake(t, n) /\ UNCHANGED <<tabs, trip>>
        /\ ~raced' => ~raced /\ x.since = epoch
    BY <1>3, <1>5, <1>8, <2>1 DEF SetCookies
  <2>3. /\ calls' \in [Tabs -> [Slots -> CallRecords]]
        /\ refs' \in [Tabs -> [Slots -> DOMAIN issued]]
        /\ \A u \in Tabs, s \in Slots :
             /\ refs'[u][s] = refs[u][s] \/ refs'[u][s] = n
             /\ calls'[u][s].stage = "wait" => u # t
             /\ \/ calls'[u][s] = calls[u][s]
                \/ /\ calls[u][s].stage = "wait"
                   /\ calls'[u][s] = [calls[u][s] EXCEPT !.stage = "again", !.token = n]
    <3>1. Types /\ Wake(t, n) /\ n \in Pairs
      BY <2>1, <2>2
    <3> HIDE DEF SessionInv
    <3>2. calls' \in [Tabs -> [Slots -> CallRecords]]
      BY <3>1, Woken
    <3>3. refs' \in [Tabs -> [Slots -> DOMAIN issued]]
      BY <3>1, Woken
    <3>4. \A u \in Tabs, s \in Slots : refs'[u][s] = refs[u][s] \/ refs'[u][s] = n
      BY <3>1, Woken
    <3>5. \A u \in Tabs, s \in Slots : calls'[u][s].stage = "wait" => u # t
      BY <3>1, Woken
    <3>6. \A u \in Tabs, s \in Slots :
             \/ calls'[u][s] = calls[u][s]
             \/ /\ calls[u][s].stage = "wait"
                /\ calls'[u][s] = [calls[u][s] EXCEPT !.stage = "again", !.token = n]
      BY <3>1, Woken
    <3> QED
      BY <3>2, <3>3, <3>4, <3>5, <3>6
  <2>4. \A u \in Tabs, s \in Slots :
             /\ calls'[u][s].as = calls[u][s].as /\ calls'[u][s].same = calls[u][s].same
             /\ calls'[u][s].user = calls[u][s].user /\ calls'[u][s].since = calls[u][s].since
             /\ calls'[u][s].stage \in InFlight => calls[u][s].stage \in InFlight
             /\ calls'[u][s].token = calls[u][s].token \/ calls'[u][s].token = n
    <3> SUFFICES ASSUME NEW u \in Tabs, NEW s \in Slots
                 PROVE  /\ calls'[u][s].as = calls[u][s].as /\ calls'[u][s].same = calls[u][s].same
                        /\ calls'[u][s].user = calls[u][s].user /\ calls'[u][s].since = calls[u][s].since
                        /\ calls'[u][s].stage \in InFlight => calls[u][s].stage \in InFlight
                        /\ calls'[u][s].token = calls[u][s].token \/ calls'[u][s].token = n
      OBVIOUS
    <3>1. calls[u][s] \in CallRecords
      BY DEF Types, PageTypes
    <3>2. CASE calls'[u][s] = calls[u][s]
      BY <3>2
    <3>3. CASE /\ calls[u][s].stage = "wait"
               /\ calls'[u][s] = [calls[u][s] EXCEPT !.stage = "again", !.token = n]
      BY <3>1, <3>3 DEF CallRecords, InFlight
    <3> QED
      BY <2>3, <3>2, <3>3
  <2>5. /\ fetches' \in Seq(Refreshes)
        /\ \A y : y \in Fetches' <=> y \in Fetches /\ y.tab # t
        /\ OneRefresh'
    BY <1>1, <1>2, <1>3, FetchRemoved DEF Types, RequestTypes, Waits
  <2>6. Types'
    <3>1. Refreshes' = Refreshes /\ CallRecords' = CallRecords /\ Jars' = Jars
      BY <1>3 DEF Refreshes, CallRecords, Jars, Replies, Pairs
    <3>2. jar' \in Jars'
      BY <2>1, <2>2, <3>1 DEF Jars
    <3>3. epoch \in Nat /\ epoch <= epoch /\ promise \subseteq Tabs
      BY DEF Types, TokenTypes, RequestTypes
    <3> QED
      BY <1>3, <1>6, <2>2, <2>3, <2>5, <3>1, <3>2, <3>3, TypesKept
  <2>7. Unused(n)
    BY <1>3, <1>4, <1>5, <1>8, <2>1 DEF Answers, FreshUnused, Pending, Fresh
  <2>8. Answers'
    <3>1. TripReplies' /\ LoginUsers'
      BY <1>3, <2>2 DEF Answers, TripReplies, LoginUsers, Good
    <3>2. FetchReplies'
      BY <1>3, <2>5 DEF Answers, FetchReplies, Good
    <3>3. \A w \in Tabs : FreshTrip(w)' => FreshTrip(w)
      BY <2>2 DEF FreshTrip, Fresh
    <3>4. \A m : Pending(m)' => Pending(m) /\ m # n
      BY <1>2, <1>3, <1>4, <1>5, <1>8, <2>1, <2>2, <2>5, <3>3
        DEF Pending, Answers, FreshDistinct, Fresh
    <3>5. \A m : Unused(m) /\ m # n => Unused(m)'
      BY <2>2, <2>5 DEF Unused, Holds
    <3>6. FreshUnused'
      BY <3>4, <3>5 DEF Answers, FreshUnused
    <3>7. FreshDistinct'
      BY <2>2, <2>5, <3>3 DEF Answers, FreshDistinct, Fresh
    <3> QED
      BY <3>1, <3>2, <3>6, <3>7 DEF Answers
  <2>9. EpochHolds'
    <3> SUFFICES ASSUME ~raced'
                 PROVE  OldApart' /\ \E u \in Users : EpochOf(u)'
      BY DEF EpochHolds
    <3>1. ~raced /\ x.since = epoch
      BY <2>2
    <3>2. OldApart'
      <4>1. \A m : Older(m)' => Older(m)
        BY <1>3, <2>2 DEF Older
      <4>2. \A m : Current(m)' => Current(m) \/ m = n
        BY <1>3, <2>2 DEF Current
      <4>3. ~Older(n)
        BY <2>7 DEF Older, Unused, Holds
      <4> QED
        BY <3>1, <4>1, <4>2, <4>3 DEF OldApart, EpochHolds
    <3>3. PICK u \in Users : EpochOf(u)
      BY <3>1 DEF EpochHolds
    <3>4. issued[n] = u
      BY <1>3, <1>4, <1>5, <1>8, <2>1, <3>1, <3>3 DEF EpochOf, FetchesOf, Fresh
    <3>5. JarOf(u, jar)'
      BY <1>3, <2>2, <3>4 DEF JarOf
    <3>6. PagesOf(u)'
      <4>1. \A w \in Tabs, s \in Slots : issued[refs[w][s]] = u => issued[refs'[w][s]] = u
        BY <2>3, <3>4
      <4>2. \A w \in Tabs : tabs[w].at = "page" /\ tabs[w].since = epoch =>
                tabs[w].user = u /\ \A s \in Slots : issued[refs'[w][s]] = u
        BY <3>3, <4>1 DEF EpochOf, PagesOf
      <4> QED
        BY <1>3, <2>2, <4>2 DEF PagesOf
    <3>7. TripsOf(u)'
      BY <1>3, <2>2, <3>3 DEF EpochOf, TripsOf, JarOf, Fresh
    <3>8. FetchesOf(u)'
      BY <1>3, <2>5, <3>3 DEF EpochOf, FetchesOf, JarOf, Fresh
    <3>9. CallsOf(u)'
      BY <1>3, <2>4, <3>3, <3>4 DEF EpochOf, CallsOf
    <3> QED
      BY <3>2, <3>5, <3>6, <3>7, <3>8, <3>9 DEF EpochOf
  <2>10. Waits'
    <3>1. PromiseKept'
      BY <1>3, <2>5 DEF Waits, PromiseKept
    <3>2. Awaited'
      BY <1>3, <2>3 DEF Waits, Awaited
    <3> QED
      BY <2>5, <3>1, <3>2 DEF Waits
  <2>11. CallsKept'
    <3>1. TokensCarried'
      BY <2>1, <2>4 DEF CallsKept, TokensCarried
    <3>2. ActsAsShown'
      BY <1>6, <2>4 DEF CallsKept, ActsAsShown, Types, TokenTypes
    <3> QED
      BY <3>1, <3>2 DEF CallsKept
  <2> QED
    BY <2>6, <2>8, <2>9, <2>10, <2>11
<1> QED
  BY <1>7, <1>8

--------------------------------------------------------------------------------
(* A navigation or form ends. *)

\* A page is rendered with its pair, and a component of it keeps its ref only if the tab
\* showed a page of the same pair; otherwise the tab may leave its page.
LEMMA Shown ==
    ASSUME Types, NEW t \in Tabs, NEW x, NEW r, NEW now \in Nat, Show(t, x, r, now),
           r.show \in {"page", "login", "error"},
           r.show = "page" => r.pair \in DOMAIN issued
    PROVE  /\ tabs' \in [Tabs -> [at : {"page", "login", "error"}, user : Users,
                                  since : Nat, prop : DOMAIN issued]]
           /\ refs' \in [Tabs -> [Slots -> DOMAIN issued]]
           /\ \A w \in Tabs : w # t => tabs'[w] = tabs[w]
           /\ \A w \in Tabs, s \in Slots : w # t => refs'[w][s] = refs[w][s]
           /\ r.show = "page" =>
                /\ tabs'[t].user = issued[r.pair] /\ tabs'[t].since = now
                /\ tabs'[t].prop = r.pair /\ tabs'[t].at = "page"
           /\ r.show = "page" => \A s \in Slots :
                \/ refs'[t][s] = r.pair
                \/ refs'[t][s] = refs[t][s] /\ tabs[t].at = "page" /\ tabs[t].prop = r.pair
           /\ r.show # "page" => refs' = refs
           /\ r.show # "page" => tabs'[t].prop = tabs[t].prop
           /\ r.show # "page" => tabs'[t] = tabs[t] \/ tabs'[t].at # "page"
           /\ r.show # "page" => tabs'[t].since = tabs[t].since
<1> DEFINE P == [at : {"page", "login", "error"}, user : Users, since : Nat, prop : DOMAIN issued]
<1>1. /\ tabs \in [Tabs -> P] /\ refs \in [Tabs -> [Slots -> DOMAIN issued]]
      /\ \A n \in DOMAIN issued : issued[n] \in Users
  <2>1. Pages \subseteq P
    BY DEF Pages, Types, TokenTypes
  <2> QED
    BY <2>1, TypesUsed DEF Types, PageTypes
<1>2. CASE r.show = "page"
  <2>1. PICK p \in P : /\ p = [at |-> "page", user |-> issued[r.pair], since |-> now, prop |-> r.pair]
                       /\ p.at = "page" /\ p.user = issued[r.pair] /\ p.since = now /\ p.prop = r.pair
    <3>1. issued[r.pair] \in Users /\ r.pair \in DOMAIN issued
      BY <1>1, <1>2
    <3>2. PICK p : p = [at |-> "page", user |-> issued[r.pair], since |-> now, prop |-> r.pair]
      OBVIOUS
    <3>3. p.at = "page" /\ p.user = issued[r.pair] /\ p.since = now /\ p.prop = r.pair
      BY <3>2
    <3>4. p \in P
      BY <3>1, <3>2
    <3> QED
      BY <3>2, <3>3, <3>4
  <2>2. tabs' = [tabs EXCEPT ![t] = p]
    BY <1>2, <2>1 DEF Show
  <2>3. PICK f : /\ f = [s \in Slots |-> IF r.pair = tabs[t].prop /\ tabs[t].at = "page"
                                         THEN refs[t][s] ELSE r.pair]
                 /\ refs' = [refs EXCEPT ![t] = f]
    BY <1>2 DEF Show
  <2>4. /\ f \in [Slots -> DOMAIN issued]
        /\ \A s \in Slots : \/ f[s] = r.pair
                            \/ f[s] = refs[t][s] /\ tabs[t].at = "page" /\ tabs[t].prop = r.pair
    BY <1>1, <1>2, <2>3
  <2>5. /\ refs' \in [Tabs -> [Slots -> DOMAIN issued]]
        /\ refs'[t] = f /\ \A w \in Tabs : w # t => refs'[w] = refs[w]
    BY <1>1, <2>3, <2>4
  <2>6. /\ tabs' \in [Tabs -> P]
        /\ tabs'[t] = p /\ \A w \in Tabs : w # t => tabs'[w] = tabs[w]
    BY <1>1, <2>1, <2>2
  <2> QED
    BY <1>2, <2>1, <2>4, <2>5, <2>6
<1>3. CASE r.show # "page"
  <2>1. refs' = refs
    BY <1>3 DEF Show
  <2>2. \/ tabs' = tabs
        \/ tabs' = [tabs EXCEPT ![t].at = "login"]
        \/ tabs' = [tabs EXCEPT ![t].at = "error"]
    BY <1>3 DEF Show
  <2>3. \A w \in Tabs : w # t => tabs'[w] = tabs[w]
    BY <1>1, <2>2
  <2>4. \/ tabs'[t] = tabs[t]
        \/ tabs'[t] = [tabs[t] EXCEPT !.at = "login"]
        \/ tabs'[t] = [tabs[t] EXCEPT !.at = "error"]
    BY <1>1, <2>2
  <2>5. /\ tabs'[t] \in P /\ tabs'[t].prop = tabs[t].prop /\ tabs'[t].since = tabs[t].since
        /\ tabs'[t] = tabs[t] \/ tabs'[t].at # "page"
    <3>1. tabs[t] \in P
      BY <1>1
    <3> QED
      BY <2>4, <3>1
  <2>6. tabs' \in [Tabs -> P]
    BY <1>1, <2>2, <2>3, <2>5
  <2> QED
    BY <1>1, <1>3, <2>1, <2>3, <2>5, <2>6
<1> QED
  BY <1>2, <1>3

\* The answer of a navigation or form arrives.
LEMMA ArriveStep ==
    ASSUME SessionInv, NEW t \in Tabs, Arrive(t)
    PROVE  SessionInv'
<1> USE DEF SessionInv
<1>1. PICK x : x = trip[t]
  OBVIOUS
<1>2. PICK r : r = x.reply
  OBVIOUS
<1>3. PICK signs \in BOOLEAN : signs <=> r.cookies # "keep" /\ x.kind # "nav"
  OBVIOUS
<1>4. /\ x # None /\ r # None
      /\ IF signs THEN SetCookies(r, epoch, jar) ELSE SetCookies(r, x.since, x.jar)
      /\ epoch' = IF signs THEN epoch + 1 ELSE epoch
      /\ Show(t, x, r, IF signs THEN epoch + 1 ELSE x.since)
      /\ trip' = [trip EXCEPT ![t] = None]
      /\ UNCHANGED <<issued, old, dead, calls, fetches, promise>>
  BY <1>1, <1>2, <1>3 DEF Arrive, tokens
<1>5. /\ x \in Trips /\ r \in Replies /\ r.pair \in Pairs
      /\ x.since \in Nat /\ x.since <= epoch /\ epoch \in Nat /\ x.jar.access \in Pairs
  BY <1>1, <1>2, <1>4, TypesUsed DEF Trips, Types, TokenTypes
<1>6. /\ r.show \in {"page", "login", "error"}
      /\ r.cookies \in {"keep", "clear", "both"}
      /\ r.cookies = "both" => r.show = "page" /\ r.pair # 0 /\ x.kind # "logout"
      /\ r.cookies = "keep" /\ r.show = "page" =>
              x.kind = "nav" /\ r.pair # 0 /\ r.pair = x.jar.access
      /\ r.cookies = "clear" => r.show = "login"
  BY <1>1, <1>2, <1>4, <1>5 DEF Answers, TripReplies, Replies
<1>7. r.show = "page" => r.pair \in DOMAIN issued /\ r.pair # 0 /\ r.pair \in Nat
  BY <1>5, <1>6, TypesUsed
<1>8. /\ r.cookies = "keep" => jar' = jar
      /\ r.cookies = "clear" => jar' = [access |-> 0, refresh |-> 0]
      /\ r.cookies = "both" => jar' = [access |-> r.pair, refresh |-> r.pair]
      /\ raced' \in BOOLEAN
      /\ ~raced' => ~raced
      /\ ~raced' /\ r.cookies # "keep" /\ ~signs => x.since = epoch
  BY <1>4, <1>6 DEF SetCookies, Types, TokenTypes
<1>9. PICK now \in Nat : /\ now = (IF signs THEN epoch + 1 ELSE x.since)
                         /\ now <= epoch' /\ Show(t, x, r, now)
                         /\ epoch' \in Nat /\ epoch <= epoch'
  BY <1>4, <1>5
<1>10. /\ tabs' \in [Tabs -> [at : {"page", "login", "error"}, user : Users,
                              since : Nat, prop : DOMAIN issued]]
       /\ refs' \in [Tabs -> [Slots -> DOMAIN issued]]
       /\ \A w \in Tabs : w # t => tabs'[w] = tabs[w]
       /\ \A w \in Tabs, s \in Slots : w # t => refs'[w][s] = refs[w][s]
       /\ r.show = "page" =>
            /\ tabs'[t].user = issued[r.pair] /\ tabs'[t].since = now
            /\ tabs'[t].prop = r.pair /\ tabs'[t].at = "page"
       /\ r.show = "page" => \A s \in Slots :
            \/ refs'[t][s] = r.pair
            \/ refs'[t][s] = refs[t][s] /\ tabs[t].at = "page" /\ tabs[t].prop = r.pair
       /\ r.show # "page" => refs' = refs
       /\ r.show # "page" => tabs'[t].prop = tabs[t].prop
       /\ r.show # "page" => tabs'[t] = tabs[t] \/ tabs'[t].at # "page"
       /\ r.show # "page" => tabs'[t].since = tabs[t].since
  BY <1>6, <1>7, <1>9, Shown
<1>11. trip'[t] = None /\ \A w \in Tabs : w # t => trip'[w] = trip[w]
  BY <1>4 DEF Types, RequestTypes
<1>12. \A w \in Tabs : tabs[w].since \in Nat /\ tabs[w].since <= epoch
  BY <1>5 DEF Types, PageTypes, Pages
<1>13. Types'
  <2>1. Trips \subseteq Trips' /\ Refreshes \subseteq Refreshes'
        /\ Pairs' = Pairs /\ Jars' = Jars
    <3>1. 0..epoch \subseteq 0..epoch'
      BY <1>5, <1>9
    <3>2. Pairs' = Pairs /\ Jars' = Jars /\ Replies' = Replies
      BY <1>4 DEF Pairs, Jars, Replies
    <3> QED
      BY <3>1, <3>2 DEF Trips, Refreshes
  <2>2. tabs' \in [Tabs -> Pages']
    <3>1. \A w \in Tabs : tabs'[w].since \in 0..epoch'
      BY <1>5, <1>9, <1>10, <1>12
    <3>2. \A w \in Tabs : tabs'[w] \in Pages'
      <4> SUFFICES ASSUME NEW w \in Tabs
                   PROVE  tabs'[w] \in Pages'
        OBVIOUS
      <4>1. tabs'[w] \in [at : {"page", "login", "error"}, user : Users,
                          since : Nat, prop : DOMAIN issued]
        BY <1>10
      <4> QED
        BY <1>4, <3>1, <4>1 DEF Pages
    <3> QED
      BY <1>10, <3>2
  <2>3. trip' \in [Tabs -> Trips' \union {None}]
    BY <1>4, <2>1 DEF Types, RequestTypes
  <2>4. jar' = jar \/ jar' \in Jars'
    BY <1>5, <1>6, <1>8, <2>1, TypesUsed DEF Jars, Pairs
  <2>5. promise \subseteq Tabs
    BY DEF Types, RequestTypes
  <2> QED
    BY <1>4, <1>5, <1>8, <1>9, <1>10, <2>1, <2>2, <2>3, <2>4, <2>5, TypesKept
<1>14. Fetches' = Fetches
  BY <1>4 DEF Fetches
<1>15. r.cookies = "both" => FreshTrip(t) /\ Unused(r.pair)
  BY <1>1, <1>2, <1>4, <1>6, <1>7 DEF Answers, FreshUnused, Pending, FreshTrip, Fresh
<1>16. Answers'
  <2>1. TripReplies'
    BY <1>4, <1>11 DEF Answers, TripReplies, Good
  <2>2. LoginUsers'
    BY <1>11 DEF Answers, LoginUsers
  <2>3. FetchReplies'
    BY <1>4, <1>14 DEF Answers, FetchReplies, Good
  <2>4. \A w \in Tabs : FreshTrip(w)' => w # t /\ FreshTrip(w) /\ trip'[w] = trip[w]
    BY <1>11 DEF FreshTrip, Fresh
  <2>5. \A n : Pending(n)' => Pending(n) /\ (r.cookies = "both" => n # r.pair)
    <3>1. \A n : Pending(n)' => Pending(n)
      BY <1>14, <2>4 DEF Pending, Fresh
    <3>2. ASSUME r.cookies = "both"
          PROVE  ~Pending(r.pair)'
      <4>1. \A w \in Tabs : FreshTrip(w)' => trip'[w].reply.pair # r.pair
        BY <1>1, <1>2, <1>15, <2>4, <3>2 DEF Answers, FreshDistinct
      <4>2. \A y \in Fetches : Fresh(y) => y.reply.pair # r.pair
        BY <1>1, <1>2, <1>15, <3>2 DEF Answers, FreshDistinct
      <4> QED
        BY <1>4, <1>14, <4>1, <4>2 DEF Pending, Fresh
    <3> QED
      BY <3>1, <3>2
  <2>6. ASSUME NEW n \in Nat \ {0}, Unused(n), r.cookies = "both" => n # r.pair
        PROVE  Unused(n)'
    <3>1. ~Holds(jar', n)
      BY <1>6, <1>8, <2>6 DEF Unused, Holds
    <3>2. \A w \in Tabs : w # t => tabs'[w].prop # n /\ (trip'[w] # None => ~Holds(trip'[w].jar, n))
      BY <1>10, <1>11, <2>6 DEF Unused
    <3>3. tabs'[t].prop # n
      BY <1>1, <1>4, <1>6, <1>10, <2>6 DEF Unused, Holds
    <3> QED
      BY <1>11, <1>14, <2>6, <3>1, <3>2, <3>3 DEF Unused, Holds
  <2>7. FreshUnused'
    BY <2>5, <2>6, PendingPairs DEF Answers, FreshUnused
  <2>8. FreshDistinct'
    BY <1>14, <2>4 DEF Answers, FreshDistinct, Fresh
  <2> QED
    BY <2>1, <2>2, <2>3, <2>7, <2>8 DEF Answers
<1>17. ASSUME signs
       PROVE  EpochHolds'
  <2>1. epoch' = epoch + 1 /\ epoch' # epoch
    BY <1>4, <1>5, <1>17
  <2>2. \A w \in Tabs : trip'[w] # None => trip'[w].since # epoch'
    BY <1>4, <1>5, <1>11, <2>1 DEF Types, RequestTypes, Trips
  <2>3. \A w \in Tabs : tabs'[w].since = epoch' => w = t /\ r.cookies = "both"
    BY <1>3, <1>5, <1>6, <1>10, <1>12, <1>17, <2>1
  <2>4. \A y \in Fetches : y.since # epoch'
    BY <1>5, <2>1, TypesUsed DEF Refreshes
  <2>5. \A w \in Tabs, s \in Slots : calls[w][s].since # epoch'
    BY <1>5, <2>1 DEF Types, PageTypes, CallRecords
  <2>6. CASE r.cookies = "clear"
    <3>1. \A n \in Nat \ {0} : ~Current(n)'
      BY <1>8, <2>2, <2>6 DEF Current
    <3>2. OldApart'
      BY <3>1 DEF OldApart
    <3>3. PICK u \in Users : TRUE
      BY DEF Types, PageTypes, Pages
    <3>4. EpochOf(u)'
      BY <1>4, <1>8, <1>14, <2>2, <2>3, <2>4, <2>5, <2>6
        DEF EpochOf, JarOf, PagesOf, TripsOf, FetchesOf, CallsOf
    <3> QED
      BY <3>2, <3>3, <3>4 DEF EpochHolds
  <2>7. CASE r.cookies = "both"
    <3>1. r.pair \in Nat /\ r.pair # 0 /\ Unused(r.pair) /\ r.show = "page"
      BY <1>6, <1>7, <1>15, <2>7
    <3>2. \A n : Current(n)' => n = r.pair
      BY <1>8, <2>2, <2>7 DEF Current
    <3>3. ~Older(r.pair)'
      <4>1. tabs'[t].since = epoch'
        BY <1>9, <1>10, <1>17, <2>1, <3>1
      <4>2. \A w \in Tabs : w # t => tabs'[w].prop # r.pair
        BY <1>10, <3>1 DEF Unused
      <4>3. \A w \in Tabs : trip'[w] # None => trip'[w].jar.access # r.pair
        BY <1>11, <3>1 DEF Unused, Holds
      <4> QED
        BY <1>8, <2>7, <4>1, <4>2, <4>3 DEF Older
    <3>4. OldApart'
      BY <3>2, <3>3 DEF OldApart
    <3>5. PICK u \in Users : u = issued[r.pair]
      BY <1>7, <3>1, TypesUsed
    <3>6. JarOf(u, jar)'
      BY <1>4, <1>8, <2>7, <3>5 DEF JarOf
    <3>7. PagesOf(u)'
      <4>1. \A s \in Slots : refs'[t][s] = r.pair
        BY <1>10, <3>1 DEF Unused
      <4> QED
        BY <1>4, <1>10, <2>3, <3>1, <3>5, <4>1 DEF PagesOf
    <3>8. TripsOf(u)' /\ FetchesOf(u)' /\ CallsOf(u)'
      BY <1>4, <1>14, <2>2, <2>4, <2>5 DEF TripsOf, FetchesOf, CallsOf
    <3> QED
      BY <3>4, <3>5, <3>6, <3>7, <3>8 DEF EpochHolds, EpochOf
  <2> QED
    BY <1>3, <1>6, <1>17, <2>6, <2>7
<1>18. ASSUME ~signs
       PROVE  EpochHolds'
  <2> SUFFICES ASSUME ~raced'
               PROVE  OldApart' /\ \E u \in Users : EpochOf(u)'
    BY DEF EpochHolds
  <2>1. /\ epoch' = epoch /\ now = x.since /\ ~raced
        /\ r.cookies # "keep" => x.since = epoch
    BY <1>4, <1>8, <1>9, <1>18
  <2>2. PICK u \in Users : EpochOf(u)
    BY <2>1 DEF EpochHolds
  <2>3. r.show = "page" => x.kind = "nav"
    BY <1>3, <1>5, <1>6, <1>18 DEF Trips
  <2>4. OldApart'
    <3>1. CASE r.cookies = "both"
      <4>1. \A n : Current(n)' => Current(n) \/ n = r.pair
        BY <1>8, <1>11, <2>1, <3>1 DEF Current
      <4>2. \A n : Older(n)' => Older(n)
        BY <1>6, <1>10, <1>11, <2>1, <3>1 DEF Older
      <4>3. ~Older(r.pair)
        BY <1>15, <3>1 DEF Older, Unused, Holds
      <4> QED
        BY <2>1, <4>1, <4>2, <4>3 DEF EpochHolds, OldApart
    <3>2. CASE r.cookies # "both"
      <4>1. \A n \in Nat \ {0} : Current(n)' => Current(n)
        BY <1>6, <1>8, <1>11, <2>1, <3>2 DEF Current
      <4>2. \A n : Older(n)' => Older(n)
        <5>1. CASE r.show = "page"
          <6>1. tabs'[t].prop = x.jar.access /\ tabs'[t].since = x.since
            BY <1>6, <1>10, <2>1, <3>2, <5>1
          <6> QED
            BY <1>1, <1>4, <1>10, <1>11, <2>1, <6>1 DEF Older
        <5>2. CASE r.show # "page"
          BY <1>10, <1>11, <2>1, <5>2 DEF Older
        <5> QED
          BY <5>1, <5>2
      <4> QED
        BY <2>1, <4>1, <4>2 DEF EpochHolds, OldApart
    <3> QED
      BY <3>1, <3>2
  <2>5. r.show = "page" /\ x.since = epoch => issued[r.pair] = u
    <3>1. r.cookies = "both" /\ x.kind = "nav" /\ x.since = epoch => issued[r.pair] = u
      BY <1>1, <1>2, <1>4, <2>2 DEF EpochOf, TripsOf, Fresh
    <3>2. r.pair = x.jar.access /\ r.pair # 0 /\ x.since = epoch => issued[r.pair] = u
      BY <1>1, <1>4, <2>2 DEF EpochOf, TripsOf, JarOf
    <3> QED
      BY <1>6, <2>3, <3>1, <3>2
  <2>6. JarOf(u, jar)'
    BY <1>4, <1>6, <1>8, <2>1, <2>2, <2>5 DEF EpochOf, JarOf
  <2>7. PagesOf(u)'
    <3>1. ASSUME r.show = "page", x.since = epoch, NEW s \in Slots
          PROVE  issued[refs'[t][s]] = u
      <4>1. CASE refs'[t][s] = r.pair
        BY <2>5, <3>1, <4>1
      <4>2. CASE refs'[t][s] = refs[t][s] /\ tabs[t].at = "page" /\ tabs[t].prop = r.pair
        <5>1. r.cookies = "keep" /\ r.pair = x.jar.access
          BY <1>6, <1>15, <3>1, <4>2 DEF Unused
        <5>2. Current(r.pair)
          BY <1>1, <1>4, <3>1, <5>1 DEF Current
        <5>3. ~Older(r.pair)
          BY <1>7, <2>1, <3>1, <5>2 DEF EpochHolds, OldApart
        <5>4. tabs[t].since = epoch
          BY <4>2, <5>3 DEF Older
        <5> QED
          BY <2>2, <4>2, <5>4 DEF EpochOf, PagesOf
      <4> QED
        BY <1>10, <3>1, <4>1, <4>2
    <3>2. \A w \in Tabs : w # t /\ tabs'[w].at = "page" /\ tabs'[w].since = epoch =>
            tabs'[w].user = u /\ \A s \in Slots : issued[refs'[w][s]] = u
      <4> SUFFICES ASSUME NEW w \in Tabs, w # t, tabs'[w].at = "page", tabs'[w].since = epoch
                   PROVE  tabs'[w].user = u /\ \A s \in Slots : issued[refs'[w][s]] = u
        OBVIOUS
      <4>1. tabs'[w] = tabs[w] /\ \A s \in Slots : refs'[w][s] = refs[w][s]
        BY <1>10
      <4>2. tabs[w].user = u /\ \A s \in Slots : issued[refs[w][s]] = u
        BY <2>2, <4>1 DEF EpochOf, PagesOf
      <4> QED
        BY <4>1, <4>2
    <3>3. tabs'[t].at = "page" /\ tabs'[t].since = epoch =>
            tabs'[t].user = u /\ \A s \in Slots : issued[refs'[t][s]] = u
      <4>1. CASE r.show = "page"
        BY <1>10, <2>1, <2>5, <3>1, <4>1
      <4>2. CASE r.show # "page"
        BY <1>10, <2>2, <4>2 DEF EpochOf, PagesOf
      <4> QED
        BY <4>1, <4>2
    <3> QED
      BY <1>4, <2>1, <3>2, <3>3 DEF PagesOf
  <2>8. TripsOf(u)'
    BY <1>4, <1>11, <2>1, <2>2 DEF EpochOf, TripsOf, JarOf, Fresh
  <2>9. FetchesOf(u)' /\ CallsOf(u)'
    BY <1>4, <1>14, <2>1, <2>2 DEF EpochOf, FetchesOf, CallsOf, JarOf, Fresh
  <2> QED
    BY <2>2, <2>4, <2>6, <2>7, <2>8, <2>9 DEF EpochOf
<1>19. Waits' /\ CallsKept'
  <2>1. Waits'
    BY <1>4, <1>14 DEF Waits, OneRefresh, PromiseKept, Awaited
  <2>2. TokensCarried'
    BY <1>4 DEF CallsKept, TokensCarried
  <2>3. ActsAsShown'
    BY <1>4, <1>8 DEF CallsKept, ActsAsShown
  <2> QED
    BY <2>1, <2>2, <2>3 DEF CallsKept
<1> QED
  BY <1>13, <1>16, <1>17, <1>18, <1>19

--------------------------------------------------------------------------------
(* The invariant holds. *)

LEMMA InitSessionInv ==
    Init => SessionInv
<1> SUFFICES ASSUME Init
             PROVE  SessionInv
  OBVIOUS
<1>1. PICK u \in Users :
        /\ issued = <<u>> /\ old = {} /\ dead = {} /\ up = TRUE
        /\ jar = [access |-> 1, refresh |-> 1]
        /\ tabs = [t \in Tabs |-> [at |-> "page", user |-> u, since |-> 0, prop |-> 1]]
        /\ refs = [t \in Tabs |-> [s \in Slots |-> 1]]
        /\ calls = [t \in Tabs |-> [s \in Slots |-> Idle]]
        /\ trip = [t \in Tabs |-> None] /\ fetches = <<>> /\ promise = {}
        /\ epoch = 0 /\ raced = FALSE
  BY DEF Init
<1>2. /\ issued \in Seq(Users) /\ Len(issued) = 1 /\ DOMAIN issued = {1} /\ issued[1] = u
      /\ Pairs = {0, 1}
  BY <1>1 DEF Pairs
<1>3. Fetches = {} /\ DOMAIN fetches = {} /\ fetches \in Seq(Refreshes)
  BY <1>1 DEF Fetches
<1>4. Idle \in CallRecords /\ Idle.stage = "idle" /\ Idle.as = None
  BY <1>1, <1>2 DEF Idle, CallRecords
<1>5. /\ \A t \in Tabs : /\ tabs[t].at = "page" /\ tabs[t].user = u
                         /\ tabs[t].since = 0 /\ tabs[t].prop = 1
      /\ \A t \in Tabs, s \in Slots : refs[t][s] = 1 /\ calls[t][s] = Idle
      /\ \A t \in Tabs : trip[t] = None
  BY <1>1
<1>6. Types
  <2>1. TokenTypes
    BY <1>1, <1>2 DEF TokenTypes, Jars
  <2>2. PageTypes
    BY <1>1, <1>2, <1>4 DEF PageTypes, Pages
  <2>3. RequestTypes
    BY <1>1, <1>3 DEF RequestTypes
  <2> QED
    BY <2>1, <2>2, <2>3 DEF Types
<1>7. Answers
  BY <1>3, <1>5
    DEF Answers, LoginUsers, TripReplies, FetchReplies, FreshUnused, FreshDistinct, Pending, FreshTrip
<1>8. EpochHolds
  <2>1. OldApart
    BY <1>1, <1>5 DEF OldApart, Older
  <2>2. EpochOf(u)
    BY <1>1, <1>2, <1>3, <1>4, <1>5
      DEF EpochOf, JarOf, PagesOf, TripsOf, FetchesOf, CallsOf, InFlight
  <2> QED
    BY <2>1, <2>2 DEF EpochHolds
<1>9. Waits
  BY <1>1, <1>3, <1>4, <1>5 DEF Waits, OneRefresh, PromiseKept, Awaited
<1>10. CallsKept
  BY <1>4, <1>5 DEF CallsKept, TokensCarried, ActsAsShown, InFlight
<1> QED
  BY <1>6, <1>7, <1>8, <1>9, <1>10 DEF SessionInv

\* A step of a call.
LEMMA CallStepInv ==
    ASSUME SessionInv, NEW t \in Tabs, NEW s \in Slots, CallStep(t, s)
    PROVE  SessionInv'
<1> DEFINE o == calls[t][s]
<1>1. CASE Deny(t, s) /\ o.stage = "sent"
  BY <1>1, DenyStep
<1>2. CASE ~(Deny(t, s) /\ o.stage = "sent")
  <2>1. o \in CallRecords /\ Types
    BY DEF SessionInv, Types, PageTypes
  <2>2. UNCHANGED <<fetches, promise>>
    BY <1>2 DEF CallStep, Execute, ExecuteUnheard, Deny, Break, Resend
  <2>3. \E c : Put(t, s, c) /\ c.stage # "wait"
    <3>1. CASE Execute(t, s)
      <4>1. PICK c : /\ c = [o EXCEPT !.stage = "done", !.as = issued[o.token],
                                      !.same = (o.since = epoch)]
                     /\ Put(t, s, c)
        BY <3>1 DEF Execute
      <4>2. c.stage = "done"
        BY <2>1, <4>1 DEF CallRecords
      <4> QED
        BY <4>1, <4>2
    <3>2. CASE ExecuteUnheard(t, s)
      <4>1. PICK c : /\ c = [o EXCEPT !.stage = Broken(o), !.as = issued[o.token],
                                      !.same = (o.since = epoch)]
                     /\ Put(t, s, c)
        BY <3>2 DEF ExecuteUnheard
      <4>2. c.stage = Broken(o)
        BY <2>1, <4>1 DEF CallRecords
      <4>3. Broken(o) # "wait"
        BY DEF Broken
      <4> QED
        BY <4>1, <4>2, <4>3
    <3>3. CASE Deny(t, s)
      <4>1. PICK c : c = [o EXCEPT !.stage = "failed"] /\ Put(t, s, c)
        BY <1>2, <3>3 DEF Deny, To
      <4> QED
        BY <2>1, <4>1 DEF CallRecords
    <3>4. CASE Break(t, s)
      <4>1. PICK c : c = [o EXCEPT !.stage = Broken(o)] /\ Put(t, s, c)
        BY <3>4 DEF Break, To
      <4>2. c.stage = Broken(o)
        BY <2>1, <4>1 DEF CallRecords
      <4>3. Broken(o) # "wait"
        BY DEF Broken
      <4> QED
        BY <4>1, <4>2, <4>3
    <3>5. CASE Resend(t, s)
      <4>1. PICK c : c = [o EXCEPT !.stage = "resent"] /\ Put(t, s, c)
        BY <3>5 DEF Resend, To
      <4> QED
        BY <2>1, <4>1 DEF CallRecords
    <3> QED
      BY <3>1, <3>2, <3>3, <3>4, <3>5 DEF CallStep
  <2>4. calls'[t][s].stage # "wait"
    BY <2>1, <2>3, CallPut
  <2> QED
    BY <2>2, <2>4, CallStepKeeps
<1> QED
  BY <1>1, <1>2

\* Every step keeps the session invariant.
LEMMA NextSessionInv ==
    SessionInv /\ [Next]_vars => SessionInv'
<1> SUFFICES ASSUME SessionInv, [Next]_vars
             PROVE  SessionInv'
  OBVIOUS
<1>1. CASE Expire \/ Outage \/ Recover \/ UNCHANGED vars
  BY <1>1, TokenStep
<1>2. ASSUME NEW t \in Tabs, Navigate(t) \/ SubmitLogin(t) \/ SubmitLogout(t)
      PROVE  SessionInv'
  BY <1>2, StartStep DEF Navigate, SubmitLogin, SubmitLogout
<1>3. ASSUME NEW t \in Tabs, Serve(t)
      PROVE  SessionInv'
  BY <1>3, ServeStep
<1>4. ASSUME NEW t \in Tabs, Arrive(t)
      PROVE  SessionInv'
  BY <1>4, ArriveStep
<1>5. ASSUME NEW t \in Tabs, LoseTrip(t)
      PROVE  SessionInv'
  BY <1>5, LoseTripStep
<1>6. ASSUME NEW t \in Tabs, NEW s \in Slots, Send(t, s)
      PROVE  SessionInv'
  BY <1>6, SendStep
<1>7. ASSUME NEW t \in Tabs, NEW s \in Slots, CallStep(t, s)
      PROVE  SessionInv'
  BY <1>7, CallStepInv
<1>8. ASSUME NEW i \in DOMAIN fetches, ServeRefresh(i)
      PROVE  SessionInv'
  BY <1>8, ServeRefreshStep
<1>9. ASSUME NEW i \in DOMAIN fetches, FetchArrives(i)
      PROVE  SessionInv'
  BY <1>9, FetchArrivesStep
<1>10. ASSUME NEW i \in DOMAIN fetches, FetchLost(i)
       PROVE  SessionInv'
  BY <1>10, FetchLostStep
<1> QED
  BY <1>1, <1>2, <1>3, <1>4, <1>5, <1>6, <1>7, <1>8, <1>9, <1>10 DEF Next, FetchStep

\* The session's state is in order at every moment.
THEOREM SessionInvariant ==
    Spec => []SessionInv
<1> QED
  BY InitSessionInv, NextSessionInv, PTL DEF Spec

\* Cookies and refs hold pairs that were issued, and the refreshPromise of a tab stands
\* exactly for its request (proxy.ts, connect-webclient.ts).
THEOREM SessionTypes ==
    Spec => []TypeOK
<1>1. SessionInv => TypeOK
  <2> SUFFICES ASSUME SessionInv
               PROVE  TypeOK
    OBVIOUS
  <2>1. jar.access \in Pairs /\ jar.refresh \in Pairs /\ old \union dead \subseteq DOMAIN issued
    BY TypesUsed DEF SessionInv, Types, TokenTypes
  <2>2. \A t \in Tabs : /\ tabs[t].at \in {"page", "login", "error"}
                        /\ \A s \in Slots : refs[t][s] \in DOMAIN issued
    BY DEF SessionInv, Types, PageTypes, Pages
  <2>3. \A t \in Tabs : t \in promise <=> \E i \in DOMAIN fetches : fetches[i].tab = t
    BY DEF SessionInv, Waits, PromiseKept, Fetches
  <2> QED
    BY <2>1, <2>2, <2>3 DEF TypeOK, Pairs
<1> QED
  BY <1>1, SessionInvariant, PTL

\* The calls of a page share one refresh, each of them is woken by it, and a call acts for
\* the user the page showed (connect-webclient.ts, refresh.ts).
THEOREM CallsShareAndAct ==
    Spec => []CallsHold
<1>1. SessionInv => CallsHold
  <2> SUFFICES ASSUME SessionInv
               PROVE  CallsHold
    OBVIOUS
  <2>1. WaitersAreWoken
    <3> SUFFICES ASSUME NEW t \in Tabs, NEW s \in Slots, calls[t][s].stage = "wait"
                 PROVE  \E i \in DOMAIN fetches : fetches[i].tab = t
      BY DEF WaitersAreWoken, Waiting
    <3> QED
      BY DEF SessionInv, Waits, Awaited, PromiseKept, Fetches
  <2> QED
    BY <2>1 DEF SessionInv, Waits, CallsKept, CallsHold
<1> QED
  BY <1>1, SessionInvariant, PTL

\* The cookies of a good session go only with a login or logout, or with the answer to a
\* request made with other cookies (proxy.ts and the route of /api/auth/refresh).
THEOREM SessionKept ==
    Spec => KeepsSession
<1>1. SessionInv /\ [Next]_vars => [KeptOnStep]_vars
  <2> SUFFICES ASSUME SessionInv, Next, jar.refresh # 0, jar'.refresh = 0
               PROVE  ~Good(jar.refresh) \/ epoch' # epoch \/ raced'
    BY DEF KeptOnStep
  <2> USE DEF SessionInv
  <2>1. ASSUME NEW t \in Tabs, Arrive(t)
        PROVE  ~Good(jar.refresh) \/ epoch' # epoch \/ raced'
    <3>1. PICK x : x = trip[t]
      OBVIOUS
    <3>2. /\ x # None /\ x.reply # None
          /\ LET signs == x.reply.cookies # "keep" /\ x.kind # "nav" IN
             /\ IF signs THEN SetCookies(x.reply, epoch, jar)
                         ELSE SetCookies(x.reply, x.since, x.jar)
             /\ epoch' = IF signs THEN epoch + 1 ELSE epoch
      BY <2>1, <3>1 DEF Arrive
    <3>3. /\ x.reply.cookies \in {"keep", "clear", "both"} /\ epoch \in Nat
          /\ x.reply.cookies = "both" => x.reply.pair # 0
          /\ x.reply.cookies = "clear" /\ x.kind = "nav" => ~Good(x.jar.refresh)
      BY <3>1, <3>2, TypesUsed DEF Answers, TripReplies, Replies, Types, TokenTypes
    <3>4. CASE x.reply.cookies # "keep" /\ x.kind # "nav"
      BY <3>2, <3>3, <3>4
    <3>5. CASE ~(x.reply.cookies # "keep" /\ x.kind # "nav")
      <4>1. SetCookies(x.reply, x.since, x.jar)
        BY <3>2, <3>5
      <4>2. x.reply.cookies = "clear"
        BY <3>3, <4>1 DEF SetCookies
      <4>3. raced' \/ x.jar = jar
        BY <4>1, <4>2 DEF SetCookies, Types, TokenTypes
      <4> QED
        BY <3>3, <3>5, <4>2, <4>3
    <3> QED
      BY <3>4, <3>5
  <2>2. ASSUME NEW i \in DOMAIN fetches, FetchArrives(i)
        PROVE  ~Good(jar.refresh) \/ epoch' # epoch \/ raced'
    <3>1. PICK x : x = fetches[i]
      OBVIOUS
    <3>2. x.reply # None /\ SetCookies(x.reply, x.since, x.jar)
      BY <2>2, <3>1 DEF FetchArrives
    <3>3. /\ x.reply.cookies \in {"keep", "clear", "both"}
          /\ x.reply.cookies = "both" => x.reply.pair # 0
          /\ x.reply.cookies = "clear" => ~Good(x.jar.refresh)
      BY <3>1, <3>2, TypesUsed DEF Answers, FetchReplies, Fetches, Replies
    <3>4. x.reply.cookies = "clear"
      BY <3>2, <3>3 DEF SetCookies
    <3>5. raced' \/ x.jar = jar
      BY <3>2, <3>4 DEF SetCookies, Types, TokenTypes
    <3> QED
      BY <3>3, <3>4, <3>5
  <2>3. \/ \E t \in Tabs : Arrive(t)
        \/ \E i \in DOMAIN fetches : FetchArrives(i)
    <3>1. Expire \/ Outage \/ Recover => jar' = jar
      BY DEF Expire, Outage, Recover
    <3>2. ASSUME NEW t \in Tabs,
                 \/ Navigate(t) \/ SubmitLogin(t) \/ SubmitLogout(t)
                 \/ Serve(t) \/ LoseTrip(t) \/ \E s \in Slots : Send(t, s)
          PROVE  jar' = jar
      BY <3>2 DEF Navigate, SubmitLogin, SubmitLogout, Start, Serve, LoseTrip, Send
    <3>3. ASSUME NEW t \in Tabs, NEW s \in Slots, CallStep(t, s)
          PROVE  jar' = jar
      BY <3>3 DEF CallStep, Execute, ExecuteUnheard, Deny, Break, Resend, calling
    <3>4. ASSUME NEW i \in DOMAIN fetches, ServeRefresh(i) \/ FetchLost(i)
          PROVE  jar' = jar
      BY <3>4 DEF ServeRefresh, FetchLost
    <3> QED
      BY <3>1, <3>2, <3>3, <3>4 DEF Next, FetchStep
  <2> QED
    BY <2>1, <2>2, <2>3
<1> QED
  BY <1>1, SessionInvariant, PTL DEF Spec, KeepsSession

================================================================================
