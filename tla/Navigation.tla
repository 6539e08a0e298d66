------------------------------- MODULE Navigation -------------------------------
(***************************************************************************)
(* The pages, and the edge proxy in front of them: tabs of one browser     *)
(* that share a cookie.  The proxy judges the cookie by its token alone,   *)
(* the pages ask auth(), which also knows what the database says; the two  *)
(* disagree whenever a session was ended elsewhere.  A tab may sign in and *)
(* log out; its log-out is a request to the route of ApiRoutes.            *)
(***************************************************************************)
EXTENDS ApiRoutes

CONSTANTS
    Tabs,           \* 1 .. n, opened in this order; each starts from one page
    MaxSessions,    \* bound: sign-ins, the first one included
    MaxLogouts      \* bound: requests to log out

ASSUME NavigationAssumption ==
    /\ Tabs \subseteq Nat
    /\ MaxSessions \in Nat \ {0} /\ MaxLogouts \in Nat

VARIABLES
    browsing,       \* whether the requests are those of the tabs
    cookie,         \* the session cookie: its session, and token.revoked
    tab

vars == <<apiVars, browsing, cookie, tab>>

Protected == {"/dashboard", "/dashboard/account"}
AuthPages == {"/login", "/register"}
Moved     == {"/", "/forgot-password"}
Pages     == Protected \cup AuthPages \cup Moved \cup {"/nowhere"}

NoCookie == [session |-> None, revoked |-> FALSE]

\* What a tab shows or is about to; asked is the page of the dashboard it wanted,
\* as long as nothing but its own requests touches the cookie.
Rest == [step |-> "rest", page |-> "/nowhere", locale |-> TRUE, callback |-> None,
         asked |-> None, logout |-> None, session |-> None]

Init ==
    /\ ApiInit
    /\ browsing \in {b \in BOOLEAN : b => route = Logout}
    /\ cookie \in {NoCookie, [session |-> 1, revoked |-> FALSE]}
    /\ browsing \/ cookie = NoCookie
    /\ tab = [t \in Tabs |-> [Rest EXCEPT !.step = "closed"]]

Go(t, page, locale, callback) ==
    tab' = [tab EXCEPT ![t].step = "edge", ![t].page = page, ![t].locale = locale, ![t].callback = callback]

Show(t) ==
    tab' = [tab EXCEPT ![t] =
        IF @.page = "/login" THEN [@ EXCEPT !.step = "rest"] ELSE [Rest EXCEPT !.page = tab[t].page]]

Upset == [t \in Tabs |-> [tab[t] EXCEPT !.asked = None]]

-----------------------------------------------------------------------------
(* The way to a page *)

\* By a link or by hand, with or without a locale and with any callbackUrl
Open(t) ==
    /\ tab[t].step = "closed"
    /\ \A u \in Tabs : u < t => tab[u].step # "closed"
    /\ \E page \in Pages, locale \in BOOLEAN, callback \in {None, "/nowhere"} :
          /\ callback # None => page = "/login"
          /\ tab' = [tab EXCEPT ![t] = [Rest EXCEPT !.step = "edge", !.page = page, !.locale = locale,
                         !.callback = callback,
                         !.asked = IF page \in Protected /\ ~cookie.revoked THEN page ELSE None]]
    /\ UNCHANGED <<apiVars, browsing, cookie>>

IsAuthenticated == cookie.session # None /\ ~cookie.revoked

ResolveAuthRedirect(page) ==
    CASE page \in Protected /\ ~IsAuthenticated -> "/login"
      [] page \in AuthPages /\ IsAuthenticated -> "/dashboard"
      [] OTHER -> None

\* Faulty: the proxy sends a token that passes here on to the dashboard.
NeverLeftToPage(page) == FALSE

\* A page for those who are signed out decides for itself when the token is good.
LeftToPage(page) == IsAuthenticated /\ page \in AuthPages

\* A redirect keeps the query of the request, its callbackUrl included.
Proxy(t) ==
    LET at == tab[t]
        to == ResolveAuthRedirect(at.page)
    IN /\ at.step = "edge"
       /\ CASE ~at.locale -> Go(t, IF at.page = "/" THEN "/login" ELSE at.page, TRUE, at.callback)
            [] at.locale /\ (LeftToPage(at.page) \/ to = None) -> tab' = [tab EXCEPT ![t].step = "page"]
            [] OTHER -> Go(t, to, TRUE, IF cookie = NoCookie /\ at.page \in Protected THEN at.page ELSE at.callback)
       /\ UNCHANGED <<apiVars, browsing, cookie>>

Auth == cookie.session \in live

\* Faulty: the way back is forgotten.
LoadDashboardPageDataForgetting(t) == IF Auth THEN Show(t) ELSE Go(t, "/login", TRUE, None)

LoadDashboardPageData(t) == IF Auth THEN Show(t) ELSE Go(t, "/login", TRUE, tab[t].page)

AuthPage(t) == IF Auth THEN Go(t, "/dashboard", TRUE, None) ELSE Show(t)

Page(t) ==
    /\ tab[t].step = "page"
    /\ CASE tab[t].page \in Protected -> LoadDashboardPageData(t)
         [] tab[t].page \in AuthPages -> AuthPage(t)
         [] tab[t].page \in Moved -> Go(t, "/login", TRUE, None)
         [] OTHER -> Show(t)
    /\ UNCHANGED <<apiVars, browsing, cookie>>

-----------------------------------------------------------------------------
(* Signing in and out *)

\* resolveSafeCallbackUrl: only pages of the dashboard
SafeCallback(callback) == IF callback \in Protected THEN callback ELSE "/dashboard"

\* The login form, once LoginChallenge has granted a token: a new session
SignIn(t) ==
    /\ tab[t].step = "rest" /\ tab[t].page = "/login" /\ started < MaxSessions
    /\ started' = started + 1
    /\ live' = live \cup {started'}
    /\ cookie' = [session |-> started', revoked |-> FALSE]
    /\ tab' = [Upset EXCEPT ![t] = [tab[t] EXCEPT !.step = "edge", !.callback = None,
                   !.page = SafeCallback(tab[t].callback)]]
    /\ UNCHANGED <<route, req, stored, spent, deaths, browsing>>

\* performLogout: the request goes out with the cookie the browser has then.
PerformLogout(t) ==
    /\ tab[t].step = "rest" /\ tab[t].page \in Protected
    /\ Cardinality({r \in Requests : req[r].phase # "unsent"}) < MaxLogouts
    /\ \E r \in Requests :
          /\ Receive(r, Logout, None, cookie.session)
          /\ tab' = [tab EXCEPT ![t].step = "leaving", ![t].logout = r, ![t].session = cookie.session]
    /\ UNCHANGED <<browsing, cookie>>

Stay(t) == tab' = [tab EXCEPT ![t] = [Rest EXCEPT !.page = tab[t].page]]

Answered(t) == req[tab[t].logout].phase \in {"done", "answered", "dead"}

\* Faulty: any answer will do.
LogoutAcceptedAlways(t) == Answered(t)

LogoutAccepted(t) == req[tab[t].logout].phase = "done"

\* The answer may also come too late, and the request goes on without the tab.
LogoutAnswered(t) ==
    /\ tab[t].step = "leaving"
    /\ \/ LogoutAccepted(t) /\ tab' = [tab EXCEPT ![t].step = "signOut"]
       \/ (Answered(t) => ~LogoutAccepted(t)) /\ Stay(t)
    /\ UNCHANGED <<apiVars, browsing, cookie>>

ToLogin == [Rest EXCEPT !.step = "edge", !.page = "/login"]

\* signOut drops whatever cookie the browser has by now.  It may fail; and when it
\* is turned away by the limit of its route, it goes to the login page all the same.
SignOut(t) ==
    /\ tab[t].step = "signOut"
    /\ \/ Stay(t) /\ UNCHANGED cookie
       \/ tab' = [tab EXCEPT ![t] = ToLogin] /\ UNCHANGED cookie
       \/ tab' = [Upset EXCEPT ![t] = ToLogin] /\ cookie' = NoCookie
    /\ UNCHANGED <<apiVars, browsing>>

\* From another device, by an erasure or by idleness
EndSession ==
    /\ \E s \in live : live' = live \ {s}
    /\ UNCHANGED <<route, started, req, stored, spent, deaths, browsing, cookie, tab>>

\* GET /api/auth/session writes what auth() found into the cookie.
RefreshSession ==
    /\ cookie # NoCookie /\ ~Auth /\ ~cookie.revoked
    /\ cookie' = [cookie EXCEPT !.revoked = TRUE]
    /\ tab' = Upset
    /\ UNCHANGED <<apiVars, browsing>>

Browse(t) ==
    \/ Open(t) \/ Proxy(t) \/ Page(t) \/ SignIn(t)
    \/ PerformLogout(t) \/ LogoutAnswered(t) \/ SignOut(t)

Next ==
    \/ /\ browsing
       /\ (\E t \in Tabs : Browse(t)) \/ RefreshSession
    \/ EndSession
    \/ /\ \E r \in Requests : Handle(r) \/ (~browsing /\ Send(r))
       /\ UNCHANGED <<browsing, cookie, tab>>

\* A request the browser has sent is answered, or runs into its time limit.
Fairness ==
    \A t \in Tabs : WF_vars(browsing /\ (Proxy(t) \/ Page(t) \/ LogoutAnswered(t) \/ SignOut(t)))

Spec == Init /\ [][Next]_vars /\ Fairness

-----------------------------------------------------------------------------
(* Properties *)

TypeOK ==
    /\ live \subseteq 1..started /\ started \in 1..MaxSessions
    /\ \A t \in Tabs :
          /\ tab[t].step \in {"closed", "rest", "edge", "page", "leaving", "signOut"}
          /\ tab[t].page \in Pages
          /\ tab[t].callback \in Protected \cup {None, "/nowhere"}
          /\ tab[t].asked \in Protected \cup {None}
          /\ tab[t].step = "leaving" => tab[t].logout \in Requests
    /\ cookie.session \in (1..started) \cup {None}

\* "prevents middleware-level redirect loops" (CHANGELOG.md:870): however the edge
\* and the pages disagree about the session, and whatever another tab does to the
\* cookie meanwhile, a tab ends at a page it may show (proxy, loadDashboardPageData
\* and the login and register pages).
NavigationEnds == \A t \in Tabs : (tab[t].step \notin {"closed", "rest"}) ~> (tab[t].step = "rest")

\* Who is sent from a page of the dashboard to the login form comes back to that
\* page by signing in, whether the proxy or the page turned them away, unless the
\* cookie was changed under way or said revoked when they asked.
WayBackKept ==
    \A t \in Tabs :
        (tab[t].step = "rest" /\ tab[t].page = "/login" /\ tab[t].asked # None)
            => SafeCallback(tab[t].callback) = tab[t].asked

\* "never destroy the local session unless server-side revocation succeeded first"
\* (modules/auth/client/logout.ts:23): a log-out drops the cookie of a session that
\* is still good only if another tab put it there after the request went out.
LogoutEndsBeforeDropping ==
    [][\A t \in Tabs :
          (tab[t].step = "signOut" /\ cookie.session \in live /\ cookie' = NoCookie)
              => cookie.session # tab[t].session]_vars
===============================================================================
