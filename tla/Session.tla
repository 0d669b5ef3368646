-------------------------------- MODULE Session --------------------------------
(***************************************************************************)
(* The session of one browser: the two cookies of proxy.ts and their pair  *)
(* of tokens, several tabs with pages rendered from them, and the calls of *)
(* the pages, which carry a token of their own and refresh it through      *)
(* /api/auth/refresh.  The tokens are stateless: a pair is a number, the   *)
(* server keeps nothing, and a pair issued later leaves earlier ones good. *)
(***************************************************************************)
EXTENDS Naturals, Sequences, SequencesExt

CONSTANTS
    Tabs, Slots,  \* Slots: the components of a page, each with its client
    Users,
    MaxTokens,    \* bound: pairs issued
    MaxClicks,    \* bound: calls, navigations, logins and logouts
    MaxFaults,    \* bound: outages and lost answers
    MaxLost,      \* bound: lost answers
    None

VARIABLES
    issued,  \* pair -> its user
    old,     \* pairs whose access token has expired
    dead,    \* pairs whose refresh token has expired, or whose user is suspended
    up,      \* the backend can be reached
    jar,     \* the cookies: access, refresh (pair numbers; 0: none)
    tabs,    \* tab -> what it shows
    refs,    \* tab -> slot -> tokenRef
    calls,   \* tab -> slot -> its call
    trip,    \* tab -> the navigation or form under way, None
    fetches, \* the requests to /api/auth/refresh
    promise, \* tabs whose refreshPromise is set
    epoch,   \* history: logins and logouts that have reached the browser
    raced,   \* history: an answer to a request older than that has set cookies, or one to
             \* a request with other cookies has cleared them
    clicks, outages, lost

vars == <<issued, old, dead, up, jar, tabs, refs, calls, trip, fetches, promise,
          epoch, raced, clicks, outages, lost>>
tokens == <<issued, old, dead, up>>
bounds == <<clicks, outages, lost>>

Idle == [stage |-> "idle", token |-> 0, user |-> None, since |-> 0, as |-> None, same |-> TRUE]

\* Somebody is signed in on every tab.
Init ==
    \E u \in Users :
    /\ issued = <<u>> /\ old = {} /\ dead = {} /\ up = TRUE
    /\ jar = [access |-> 1, refresh |-> 1]
    /\ tabs = [t \in Tabs |-> [at |-> "page", user |-> u, since |-> 0, prop |-> 1]]
    /\ refs = [t \in Tabs |-> [s \in Slots |-> 1]]
    /\ calls = [t \in Tabs |-> [s \in Slots |-> Idle]]
    /\ trip = [t \in Tabs |-> None] /\ fetches = <<>> /\ promise = {}
    /\ epoch = 0 /\ raced = FALSE /\ clicks = 0 /\ outages = 0 /\ lost = 0

-----------------------------------------------------------------------------
(* The tokens and the services behind them.                                *)

\* verifyAccessJwt: by the clock and the signature alone.
Valid(n) == n # 0 /\ n \notin old

\* RefreshToken looks the user up; Logout and Login leave the tokens alone.
Good(n) == n # 0 /\ n \notin dead

NextPair == Len(issued) + 1
Issue(u) == /\ Len(issued) < MaxTokens
            /\ issued' = Append(issued, u)

\* Mutant of SilentRefresh: null on any failure.
SilentRefreshNull(n) == IF up /\ Good(n) THEN "new" ELSE "null"

\* Connection errors are thrown again, everything else is null.
SilentRefresh(n) == IF ~up THEN "thrown" ELSE IF Good(n) THEN "new" ELSE "null"

Expire ==
    /\ \E n \in DOMAIN issued :
         \/ n \notin old /\ old' = old \cup {n} /\ UNCHANGED dead
         \/ n \notin dead /\ dead' = dead \cup {n} /\ UNCHANGED old
    /\ UNCHANGED <<issued, up, jar, tabs, refs, calls, trip, fetches, promise, epoch, raced>>
    /\ UNCHANGED bounds

Outage ==
    /\ up /\ outages + lost < MaxFaults
    /\ up' = FALSE /\ outages' = outages + 1
    /\ UNCHANGED <<issued, old, dead, jar, tabs, refs, calls, trip, fetches, promise>>
    /\ UNCHANGED <<epoch, raced, clicks, lost>>

Recover ==
    /\ ~up /\ up' = TRUE
    /\ UNCHANGED <<issued, old, dead, jar, tabs, refs, calls, trip, fetches, promise>>
    /\ UNCHANGED <<epoch, raced>> /\ UNCHANGED bounds

-----------------------------------------------------------------------------
(* Cookies: "keep", "clear" or the pair an answer sets.                    *)

SetCookies(reply, since, sent) ==
    /\ jar' = CASE reply.cookies = "keep" -> jar
                [] reply.cookies = "clear" -> [access |-> 0, refresh |-> 0]
                [] OTHER -> [access |-> reply.pair, refresh |-> IF reply.cookies = "both"
                                                               THEN reply.pair ELSE jar.refresh]
    /\ raced' = (raced \/ (reply.cookies # "keep" /\ since # epoch) \/ (reply.cookies = "clear" /\ sent # jar))

Reply(cookies, pair, show) == [cookies |-> cookies, pair |-> pair, show |-> show]

-----------------------------------------------------------------------------
(* Navigations and the forms.                                              *)

Start(t, kind, user) ==
    /\ trip[t] = None /\ clicks < MaxClicks
    /\ trip' = [trip EXCEPT ![t] = [kind |-> kind, user |-> user, jar |-> jar, since |-> epoch, reply |-> None]]
    /\ clicks' = clicks + 1
    /\ UNCHANGED tokens
    /\ UNCHANGED <<jar, tabs, refs, calls, fetches, promise, epoch, raced, outages, lost>>

Navigate(t) == Start(t, "nav", None)
SubmitLogin(t) == tabs[t].at = "login" /\ \E u \in Users : Start(t, "login", u)
SubmitLogout(t) == tabs[t].at = "page" /\ Start(t, "logout", None)

\* What the proxy answers, and what requireSession makes of the cookies it lets through.
ProxyReply(j) ==
    IF Valid(j.access) THEN Reply("keep", j.access, IF up THEN "page" ELSE "error")
    ELSE IF j.refresh = 0 THEN Reply("clear", 0, "login")
    ELSE CASE SilentRefresh(j.refresh) = "thrown" -> Reply("keep", 0, "login")
           [] SilentRefresh(j.refresh) = "null" -> Reply("clear", 0, "login")
           [] SilentRefresh(j.refresh) = "new" -> Reply("both", NextPair, "page")

\* The credentials are right or not.
LoginReply == IF up THEN {Reply("both", NextPair, "page"), Reply("keep", 0, "login")} ELSE {Reply("keep", 0, "login")}

ReplyTo(x) ==
    CASE x.kind = "nav" -> {ProxyReply(x.jar)}
      [] x.kind = "login" -> LoginReply
      [] x.kind = "logout" -> {Reply("clear", 0, "login")}

Serve(t) ==
    /\ trip[t] # None
    /\ trip[t].reply = None
    /\ LET x == trip[t] IN \E r \in ReplyTo(x) :
       /\ trip' = [trip EXCEPT ![t].reply = r]
       /\ IF r.pair = NextPair
          THEN Issue(IF x.kind = "login" THEN x.user ELSE issued[x.jar.refresh])
          ELSE UNCHANGED issued
    /\ UNCHANGED <<old, dead, up, jar, tabs, refs, calls, fetches, promise, epoch, raced>>
    /\ UNCHANGED bounds

\* useEffect([token]): the refs follow the token the page was rendered with.
Show(t, x, r, now) ==
    CASE r.show = "page" ->
           /\ tabs' = [tabs EXCEPT ![t] = [at |-> "page", user |-> issued[r.pair], since |-> now,
                                           prop |-> r.pair]]
           /\ refs' = [refs EXCEPT ![t] = [s \in Slots |-> IF r.pair = tabs[t].prop /\ tabs[t].at = "page"
                                                           THEN refs[t][s] ELSE r.pair]]
      [] r.show = "login" ->
           /\ tabs' = IF x.kind = "login" THEN tabs
                      ELSE [tabs EXCEPT ![t].at = "login"]
           /\ UNCHANGED refs
      [] r.show = "error" -> tabs' = [tabs EXCEPT ![t].at = "error"] /\ UNCHANGED refs

Arrive(t) ==
    /\ trip[t] # None
    /\ trip[t].reply # None
    /\ LET x == trip[t]
           r == x.reply
           signs == r.cookies # "keep" /\ x.kind # "nav"
           now == IF signs THEN epoch + 1 ELSE x.since
       IN
       /\ IF signs THEN SetCookies(r, epoch, jar) ELSE SetCookies(r, x.since, x.jar)
       /\ epoch' = IF signs THEN epoch + 1 ELSE epoch
       /\ Show(t, x, r, now)
    /\ trip' = [trip EXCEPT ![t] = None]
    /\ UNCHANGED tokens
    /\ UNCHANGED <<calls, fetches, promise>> /\ UNCHANGED bounds

\* The answer is lost: the browser's error page, or a form that stays.
LoseTrip(t) ==
    /\ trip[t] # None /\ lost < MaxLost /\ outages + lost < MaxFaults /\ lost' = lost + 1
    /\ tabs' = IF trip[t].kind = "nav" THEN [tabs EXCEPT ![t].at = "error"] ELSE tabs
    /\ trip' = [trip EXCEPT ![t] = None]
    /\ UNCHANGED tokens
    /\ UNCHANGED <<jar, refs, calls, fetches, promise, epoch, raced, clicks, outages>>

-----------------------------------------------------------------------------
(* The calls.                                                              *)

InFlight == {"sent", "retry", "resent", "wait", "again"}

Put(t, s, c) == calls' = [calls EXCEPT ![t][s] = c]
To(t, s, stage) == Put(t, s, [calls[t][s] EXCEPT !.stage = stage])

Send(t, s) ==
    /\ tabs[t].at = "page" /\ calls[t][s].stage \notin InFlight
    /\ clicks < MaxClicks /\ clicks' = clicks + 1
    /\ Put(t, s, [Idle EXCEPT !.stage = "sent", !.token = refs[t][s],
                              !.user = tabs[t].user, !.since = tabs[t].since])
    /\ UNCHANGED tokens
    /\ UNCHANGED <<jar, tabs, refs, trip, fetches, promise, epoch, raced, outages, lost>>

calling == <<issued, old, dead, up, jar, tabs, refs, trip, epoch, raced, clicks, outages>>

\* The service: done, as the user of the token.
Execute(t, s) ==
    /\ calls[t][s].stage \in {"sent", "resent", "again"}
    /\ up /\ Valid(calls[t][s].token)
    /\ Put(t, s, [calls[t][s] EXCEPT !.stage = "done", !.as = issued[calls[t][s].token],
                                     !.same = (calls[t][s].since = epoch)])
    /\ UNCHANGED calling /\ UNCHANGED <<fetches, promise, lost>>

\* refreshAccessToken: the request under way, or a new one.
Await(t) ==
    /\ fetches' = IF t \in promise THEN fetches
                  ELSE Append(fetches, [tab |-> t, jar |-> jar, since |-> epoch, reply |-> None])
    /\ promise' = promise \cup {t}

\* 401: on the first attempt it waits for a refresh, after that it is final.
Deny(t, s) ==
    /\ calls[t][s].stage \in {"sent", "resent", "again"}
    /\ up /\ ~Valid(calls[t][s].token)
    /\ IF calls[t][s].stage = "sent"
       THEN To(t, s, "wait") /\ Await(t)
       ELSE To(t, s, "failed") /\ UNCHANGED <<fetches, promise>>
    /\ UNCHANGED calling /\ UNCHANGED lost

\* A transient error: retried once, with the same token.
Broken(c) == IF c.stage = "sent" THEN "retry" ELSE "failed"

Break(t, s) ==
    /\ calls[t][s].stage \in {"sent", "resent", "again"}
    /\ IF up THEN lost < MaxLost /\ outages + lost < MaxFaults /\ lost' = lost + 1 ELSE UNCHANGED lost
    /\ To(t, s, Broken(calls[t][s]))
    /\ UNCHANGED calling /\ UNCHANGED <<fetches, promise>>

\* The call is done and its answer lost: the retry does it again.
ExecuteUnheard(t, s) ==
    /\ calls[t][s].stage \in {"sent", "resent", "again"}
    /\ up /\ Valid(calls[t][s].token)
    /\ lost < MaxLost /\ outages + lost < MaxFaults /\ lost' = lost + 1
    /\ Put(t, s, [calls[t][s] EXCEPT !.stage = Broken(calls[t][s]), !.as = issued[calls[t][s].token],
                                     !.same = (calls[t][s].since = epoch)])
    /\ UNCHANGED calling /\ UNCHANGED <<fetches, promise>>

Resend(t, s) ==
    /\ calls[t][s].stage = "retry"
    /\ To(t, s, "resent")
    /\ UNCHANGED calling /\ UNCHANGED <<fetches, promise, lost>>

-----------------------------------------------------------------------------
(* POST /api/auth/refresh.                                                 *)

RefreshReply(j) ==
    IF j.refresh = 0 THEN Reply("clear", 0, "401")
    ELSE CASE SilentRefresh(j.refresh) = "thrown" -> Reply("keep", 0, "500")
           [] SilentRefresh(j.refresh) = "null" -> Reply("clear", 0, "401")
           [] SilentRefresh(j.refresh) = "new" -> Reply("both", NextPair, "200")

ServeRefresh(i) ==
    /\ fetches[i].reply = None
    /\ LET r == RefreshReply(fetches[i].jar) IN
       /\ fetches' = [fetches EXCEPT ![i].reply = r]
       /\ IF r.pair = NextPair THEN Issue(issued[fetches[i].jar.refresh]) ELSE UNCHANGED issued
    /\ UNCHANGED <<old, dead, up, jar, tabs, refs, calls, trip, promise, epoch, raced>>
    /\ UNCHANGED bounds

Waiting(t) == {s \in Slots : calls[t][s].stage = "wait"}

\* Mutant of Wake: one call goes on.
WakeOne(t, pair) ==
    LET s == CHOOSE w \in Slots : calls[t][w].stage = "wait" IN
    /\ calls' = [calls EXCEPT ![t][s].stage = "again", ![t][s].token = pair]
    /\ refs' = [refs EXCEPT ![t][s] = pair]

\* Every call that waits takes the new token and is sent again.
Wake(t, pair) ==
    /\ calls' = [calls EXCEPT ![t] = [s \in Slots |->
                    IF s \in Waiting(t) THEN [@[s] EXCEPT !.stage = "again", !.token = pair] ELSE @[s]]]
    /\ refs' = [refs EXCEPT ![t] = [s \in Slots |-> IF s \in Waiting(t) THEN pair ELSE @[s]]]

\* No token: window.location.assign("/login"), a new document.
GiveUp(t) ==
    /\ calls' = [calls EXCEPT ![t] = [s \in Slots |->
                    IF @[s].stage \in InFlight THEN [@[s] EXCEPT !.stage = "failed"] ELSE @[s]]]
    /\ tabs' = [tabs EXCEPT ![t].at = "login"]
    /\ trip' = [trip EXCEPT ![t] = None]
    /\ UNCHANGED refs

FetchArrives(i) ==
    /\ fetches[i].reply # None
    /\ LET x == fetches[i] t == x.tab IN
       /\ SetCookies(x.reply, x.since, x.jar)
       /\ IF x.reply.show = "200" THEN Wake(t, x.reply.pair) /\ UNCHANGED <<tabs, trip>> ELSE GiveUp(t)
       /\ promise' = promise \ {t}
    /\ fetches' = RemoveAt(fetches, i)
    /\ UNCHANGED tokens
    /\ UNCHANGED epoch /\ UNCHANGED bounds

\* Mutant of FetchLost: the promise stays.
FetchLostPending(i) ==
    /\ lost < MaxLost /\ outages + lost < MaxFaults /\ lost' = lost + 1
    /\ GiveUp(fetches[i].tab)
    /\ fetches' = RemoveAt(fetches, i)
    /\ UNCHANGED tokens
    /\ UNCHANGED <<jar, promise, epoch, raced, clicks, outages>>

\* .catch(() => null)
FetchLost(i) ==
    /\ lost < MaxLost /\ outages + lost < MaxFaults /\ lost' = lost + 1
    /\ GiveUp(fetches[i].tab)
    /\ promise' = promise \ {fetches[i].tab}
    /\ fetches' = RemoveAt(fetches, i)
    /\ UNCHANGED tokens
    /\ UNCHANGED <<jar, epoch, raced, clicks, outages>>

-----------------------------------------------------------------------------

CallStep(t, s) == Execute(t, s) \/ ExecuteUnheard(t, s) \/ Deny(t, s) \/ Break(t, s) \/ Resend(t, s)
FetchStep == \E i \in DOMAIN fetches : ServeRefresh(i) \/ FetchArrives(i) \/ FetchLost(i)

Next ==
    \/ Expire \/ Outage \/ Recover
    \/ \E t \in Tabs :
         \/ Navigate(t) \/ SubmitLogin(t) \/ SubmitLogout(t)
         \/ Serve(t) \/ Arrive(t) \/ LoseTrip(t)
         \/ \E s \in Slots : Send(t, s) \/ CallStep(t, s)
    \/ FetchStep

Spec == Init /\ [][Next]_vars

-----------------------------------------------------------------------------

\* Cookies and refs hold pairs that were issued, and a tab's promise stands
\* exactly for its request.
TypeOK ==
    /\ jar.access \in 0..Len(issued) /\ jar.refresh \in 0..Len(issued)
    /\ old \cup dead \subseteq DOMAIN issued
    /\ \A t \in Tabs : /\ tabs[t].at \in {"page", "login", "error"}
                       /\ \A s \in Slots : refs[t][s] \in DOMAIN issued
                       /\ t \in promise <=> \E i \in DOMAIN fetches : fetches[i].tab = t

\* The 401s of a page's calls share one refresh: a tab has never two on the way.
OneRefresh == \A i, j \in DOMAIN fetches : fetches[i].tab = fetches[j].tab => i = j

\* A call acts as the user its page was rendered for, whatever is refreshed by
\* whom in between; unless somebody has logged in or out since the page was
\* requested, or an answer older than that has set the cookies.
ActsAsShown ==
    \A t \in Tabs, s \in Slots :
        LET c == calls[t][s] IN c.as # None /\ c.same /\ ~raced => c.as = c.user

\* The cookies of somebody whose refresh token is still good go only with a login
\* or logout, an outage never takes them; unless the answer to a request made with
\* cookies that were replaced meanwhile clears the new ones.
KeptOnStep ==
    jar.refresh # 0 /\ jar'.refresh = 0 => ~Good(jar.refresh) \/ epoch' # epoch \/ raced'
KeepsSession == [][KeptOnStep]_vars

\* A call that waits for a refresh has one on the way, also when several wait for
\* the same: none is forgotten when it ends.
WaitersAreWoken ==
    \A t \in Tabs : Waiting(t) # {} => \E i \in DOMAIN fetches : fetches[i].tab = t

\* Calls share one refresh, are all woken by it and act for the user shown
\* (connect-webclient.ts, refresh.ts).
CallsHold == OneRefresh /\ WaitersAreWoken /\ ActsAsShown
================================================================================
